------------------------ MODULE PostgresOutbox_proofs ------------------------
(***************************************************************************)
(* Theorems about the PostgreSQL outbox, for any number of producers,      *)
(* dispatchers and mappers, any inputs and any number of failures.         *)
(***************************************************************************)
EXTENDS PostgresOutbox, FiniteSetTheorems, SequenceTheorems, TLAPS

(* Each client makes the calls of its role, producers write the deltas, and *)
(* an enqueue reads the row of an item it has.                              *)
RolesKept ==
  /\ \A c \in Producers : txs[c].op \in Enqueues \cup {"idle"}
  /\ \A c \in Dispatchers : txs[c].op \in {"dispatch", "idle"}
  /\ \A c \in Mappers : txs[c].op \in {"create", "idle"}
  /\ \A c \in Producers : txs[c].op \in Enqueues /\ txs[c].stage = "read" => txs[c].todo # <<>>
  /\ \A d \in Existing : rows[d].writer \in Producers \cup {DB}

OutboxTyped == OutboxTypeOK /\ RolesKept

(* Of the rows with one dedup key there is one, committed or not. *)
SlotsUnique ==
  \A d, e \in Existing :
    rows[d].slot = rows[e].slot /\ rows[d].slot # NoSlot => d = e

(* What an enqueue counts on is committed or written by itself. *)
Backed(c, slot) == \E d \in Committed \cup WrittenBy(c) : rows[d].slot = slot

EnqueueOK(c) ==
  Open(c) => /\ txs[c].sees \subseteq Committed
             /\ \A slot \in txs[c].slots : Backed(c, slot)
             /\ txs[c].stage = "read" =>
                  \E d \in txs[c].sees \cup WrittenBy(c) :
                    rows[d].slot = DedupKey(Head(txs[c].todo))

RecordsInv ==
  /\ OutboxTyped
  /\ SlotsUnique
  /\ AckedIsRecorded
  /\ \A c \in Producers : EnqueueOK(c)

(* What a dispatch has locked stays committed and pending, what it marks    *)
(* has a job or is being given one, and no two dispatches lock one delta.   *)
DispatchOK(c) ==
  Open(c) => /\ \A d \in txs[c].locks : d \in Committed /\ rows[d].state = "pending"
             /\ \A i \in DOMAIN txs[c].todo : txs[c].todo[i] \in txs[c].locks
             /\ txs[c].creates \subseteq txs[c].marks
             /\ txs[c].marks \subseteq txs[c].locks
             /\ \A d \in txs[c].marks : d \in txs[c].creates \/ jobs[d] = 1

MapOK(c) ==
  Open(c) => /\ txs[c].locks = {} /\ txs[c].marks = {}
             /\ \E d \in Committed : txs[c].todo = <<d>> /\ txs[c].creates = {d}

(* At most one transaction creates a job of a delta, which has none yet. *)
JobsSingle ==
  /\ \A d \in DeltaIDs : jobs[d] \in {0, 1}
  /\ \A c \in Clients : Open(c) => \A d \in txs[c].creates :
       jobs[d] = 0 /\ Creators(d) = {c}

LocksExclude ==
  \A b, c \in Dispatchers :
    Open(b) /\ Open(c) /\ b # c => txs[b].locks \cap txs[c].locks = {}

(* A delta that is not committed yet is pending. *)
FreshPending == \A d \in Existing \ Committed : rows[d].state = "pending"

MappingInv ==
  /\ OutboxTyped
  /\ FreshPending
  /\ \A c \in Dispatchers : DispatchOK(c)
  /\ \A c \in Mappers : MapOK(c)
  /\ JobsSingle
  /\ LocksExclude
-----------------------------------------------------------------------------
(* Who takes part. *)
LEMMA Roles ==
  /\ Producers \subseteq Clients /\ Dispatchers \subseteq Clients /\ Mappers \subseteq Clients
  /\ DB \notin Clients
  /\ \A c \in Producers : c \notin Dispatchers /\ c \notin Mappers
  /\ \A c \in Dispatchers : c \notin Mappers
  /\ \A c \in Clients : c \in Producers \/ c \in Dispatchers \/ c \in Mappers
  BY PostgresOutboxAssumption DEF Clients

(* A row that exists is a Row. *)
LEMMA RowShape ==
  ASSUME OutboxTypeOK, NEW d \in Existing
  PROVE  /\ d \in DeltaIDs
         /\ rows[d] \in Row
         /\ rows[d].state \in {"pending", "dispatched"}
         /\ rows[d].slot \in Slots \cup {NoSlot}
         /\ rows[d].sync \in Syncs /\ rows[d].at \in Ages
         /\ rows[d].writer \in Clients \cup {DB}
<1>1. d \in DeltaIDs /\ rows[d] # NoRow
  BY DEF Existing
<1>2. rows[d] \in Row
  BY <1>1 DEF OutboxTypeOK
<1> QED  BY <1>1, <1>2 DEF Row

(* No Row is the absent row. *)
LEMMA RowExists == ASSUME NEW r \in Row PROVE r # NoRow
<1>1. r.state # "absent"
  BY DEF Row
<1>2. NoRow.state = "absent"
  BY DEF NoRow
<1> QED  BY <1>1, <1>2

(* A call that is open has the form of the client's role. *)
LEMMA TxShape ==
  ASSUME OutboxTyped, NEW c \in Clients
  PROVE  /\ ~Open(c) => txs[c] = Idle
         /\ Open(c) /\ c \in Producers => txs[c] \in EnqueueTx
         /\ Open(c) /\ c \in Dispatchers => txs[c] \in MappingTx /\ txs[c].op = "dispatch"
         /\ Open(c) /\ c \in Mappers => txs[c] \in MappingTx /\ txs[c].op = "create"
<1>1. TxTypeOK(txs[c])
  BY DEF OutboxTyped, OutboxTypeOK
<1>2. \/ txs[c].op \in Enqueues /\ txs[c] \in EnqueueTx
      \/ txs[c].op \notin Enqueues /\ txs[c] \in MappingTx
      \/ txs[c] = Idle
  BY <1>1 DEF TxTypeOK
<1>3. Idle.op = "idle" /\ "idle" \notin Enqueues /\ "dispatch" \notin Enqueues
      /\ "create" \notin Enqueues
  BY DEF Idle, Enqueues
<1>4. ~Open(c) => txs[c] = Idle
  BY <1>2, <1>3 DEF Open, MappingTx
<1>5. /\ c \in Producers => txs[c].op \in Enqueues \cup {"idle"}
      /\ c \in Dispatchers => txs[c].op \in {"dispatch", "idle"}
      /\ c \in Mappers => txs[c].op \in {"create", "idle"}
  BY DEF OutboxTyped, RolesKept
<1>6. Open(c) => txs[c].op # "idle" /\ txs[c] # Idle
  BY <1>3 DEF Open
<1> QED  BY <1>2, <1>3, <1>4, <1>5, <1>6 DEF MappingTx

(* What the fields of an open call are. *)
LEMMA TxFields ==
  /\ \A t \in EnqueueTx : /\ t.op \in Enqueues /\ t.stage \in {"insert", "read"}
                          /\ t.todo \in Seq(Item) /\ t.sees \subseteq DeltaIDs
                          /\ t.locks = {} /\ t.creates = {} /\ t.marks = {}
                          /\ t.slots \subseteq Slots
  /\ \A t \in MappingTx : /\ t.op \in {"dispatch", "create"} /\ t.stage = "insert"
                          /\ t.todo \in Seq(DeltaIDs) /\ t.sees = {}
                          /\ t.locks \subseteq DeltaIDs /\ t.creates \subseteq DeltaIDs
                          /\ t.marks \subseteq DeltaIDs /\ t.slots = {}
<1>1. ASSUME NEW t \in EnqueueTx
      PROVE  /\ t.op \in Enqueues /\ t.stage \in {"insert", "read"}
             /\ t.todo \in Seq(Item) /\ t.sees \subseteq DeltaIDs
             /\ t.locks = {} /\ t.creates = {} /\ t.marks = {}
             /\ t.slots \subseteq Slots
  BY DEF EnqueueTx
<1>2. ASSUME NEW t \in MappingTx
      PROVE  /\ t.op \in {"dispatch", "create"} /\ t.stage = "insert"
             /\ t.todo \in Seq(DeltaIDs) /\ t.sees = {}
             /\ t.locks \subseteq DeltaIDs /\ t.creates \subseteq DeltaIDs
             /\ t.marks \subseteq DeltaIDs /\ t.slots = {}
  BY DEF MappingTx
<1> QED  BY <1>1, <1>2

(* What a commit does to the rows: the client's own become committed. *)
LEMMA CommitRows ==
  ASSUME OutboxTyped, NEW c \in Clients, Commit(c)
  PROVE  /\ rows' \in [DeltaIDs -> Row \cup {NoRow}]
         /\ Existing' = Existing
         /\ \A d \in Existing :
              /\ rows'[d].slot = rows[d].slot /\ rows'[d].sync = rows[d].sync
              /\ rows'[d].at = rows[d].at
              /\ rows'[d].state = IF d \in txs[c].marks THEN "dispatched" ELSE rows[d].state
              /\ rows'[d].writer = IF rows[d].writer = c THEN DB ELSE rows[d].writer
<1>1. ASSUME NEW d \in Existing
      PROVE  /\ rows'[d] \in Row
             /\ rows'[d].slot = rows[d].slot /\ rows'[d].sync = rows[d].sync
             /\ rows'[d].at = rows[d].at
             /\ rows'[d].state = IF d \in txs[c].marks THEN "dispatched" ELSE rows[d].state
             /\ rows'[d].writer = IF rows[d].writer = c THEN DB ELSE rows[d].writer
  <2> DEFINE s == IF d \in txs[c].marks THEN "dispatched" ELSE rows[d].state
             w == IF rows[d].writer = c THEN DB ELSE rows[d].writer
  <2>1. d \in DeltaIDs
    BY DEF Existing
  <2>2. rows[d] \in Row /\ s \in {"pending", "dispatched"} /\ w \in Clients \cup {DB}
    BY RowShape DEF OutboxTyped
  <2>3. rows'[d] = [rows[d] EXCEPT !.state = s, !.writer = w]
    BY <2>1 DEF Commit
  <2> HIDE DEF s, w
  <2> DEFINE r == rows[d]
  <2>a. /\ [r EXCEPT !.state = s, !.writer = w] \in Row
        /\ [r EXCEPT !.state = s, !.writer = w].slot = r.slot
        /\ [r EXCEPT !.state = s, !.writer = w].sync = r.sync
        /\ [r EXCEPT !.state = s, !.writer = w].at = r.at
        /\ [r EXCEPT !.state = s, !.writer = w].state = s
        /\ [r EXCEPT !.state = s, !.writer = w].writer = w
    <3> HIDE DEF r
    <3>1. r \in Row
      BY <2>2 DEF r
    <3> QED  BY <2>2, <3>1 DEF Row
  <2>4. /\ rows'[d] \in Row
        /\ rows'[d].slot = rows[d].slot /\ rows'[d].sync = rows[d].sync
        /\ rows'[d].at = rows[d].at /\ rows'[d].state = s /\ rows'[d].writer = w
    BY <2>3, <2>a
  <2> QED  BY <2>4 DEF s, w
<1>2. ASSUME NEW d \in DeltaIDs, d \notin Existing
      PROVE  rows'[d] = NoRow
  BY <1>2 DEF Commit
<1>3. rows' = [d \in DeltaIDs |-> rows'[d]]
  BY DEF Commit
<1>4. \A d \in DeltaIDs : rows'[d] \in Row \cup {NoRow}
  BY <1>1, <1>2
<1>5. rows' \in [DeltaIDs -> Row \cup {NoRow}]
  BY <1>3, <1>4
<1>6. \A d \in DeltaIDs : d \in Existing <=> rows'[d] # NoRow
  BY <1>1, <1>2, RowExists
<1>7. Existing' = Existing
  BY <1>6 DEF Existing
<1> QED  BY <1>1, <1>5, <1>7

(* What a rollback does to the rows: the client's own disappear. *)
LEMMA RollbackRows ==
  ASSUME OutboxTyped, NEW c \in Clients, Rollback(c)
  PROVE  /\ rows' \in [DeltaIDs -> Row \cup {NoRow}]
         /\ Existing' = Existing \ WrittenBy(c)
         /\ \A d \in Existing' : rows'[d] = rows[d]
<1>1. \A d \in DeltaIDs : rows'[d] = IF d \in WrittenBy(c) THEN NoRow ELSE rows[d]
  BY DEF Rollback
<1>2. rows' \in [DeltaIDs -> Row \cup {NoRow}]
  BY DEF Rollback, OutboxTyped, OutboxTypeOK
<1>3. Existing' = Existing \ WrittenBy(c)
  BY <1>1 DEF Existing, WrittenBy
<1>4. \A d \in Existing' : rows'[d] = rows[d]
  BY <1>1, <1>3 DEF Existing
<1> QED  BY <1>2, <1>3, <1>4

(* What MarkDispatched does to the rows. *)
LEMMA MarkRows ==
  ASSUME OutboxTyped, NEW d \in Committed, rows' = [rows EXCEPT ![d].state = "dispatched"]
  PROVE  /\ rows' \in [DeltaIDs -> Row \cup {NoRow}]
         /\ Existing' = Existing
         /\ \A e \in DeltaIDs \ {d} : rows'[e] = rows[e]
         /\ rows'[d].slot = rows[d].slot /\ rows'[d].sync = rows[d].sync
         /\ rows'[d].at = rows[d].at /\ rows'[d].writer = DB
         /\ rows'[d].state = "dispatched"
<1>1. d \in Existing /\ rows[d].writer = DB
  BY DEF Committed
<1>2. rows[d] \in Row /\ d \in DeltaIDs
  BY <1>1, RowShape DEF OutboxTyped
<1>3. rows \in [DeltaIDs -> Row \cup {NoRow}]
  BY DEF OutboxTyped, OutboxTypeOK
<1>4. rows' = [rows EXCEPT ![d] = [rows[d] EXCEPT !.state = "dispatched"]]
  OBVIOUS
<1>5. rows'[d] = [rows[d] EXCEPT !.state = "dispatched"]
  BY <1>2, <1>3, <1>4
<1>6. /\ rows'[d] \in Row
      /\ rows'[d].slot = rows[d].slot /\ rows'[d].sync = rows[d].sync
      /\ rows'[d].at = rows[d].at /\ rows'[d].writer = rows[d].writer
      /\ rows'[d].state = "dispatched"
  BY <1>2, <1>5 DEF Row
<1>7. \A e \in DeltaIDs \ {d} : rows'[e] = rows[e]
  BY <1>3, <1>4
<1>8. rows' \in [DeltaIDs -> Row \cup {NoRow}]
  <2>1. [rows[d] EXCEPT !.state = "dispatched"] \in Row \cup {NoRow}
    BY <1>5, <1>6
  <2> QED  BY <2>1, <1>3, <1>4
<1>9. Existing' = Existing
  <2>1. rows'[d] # NoRow
    BY <1>6, RowExists
  <2> QED  BY <2>1, <1>1, <1>7 DEF Existing
<1> QED  BY <1>1, <1>6, <1>7, <1>8, <1>9

(* What an insert does to the rows: one of the client's own appears. *)
LEMMA InsertRows ==
  ASSUME OutboxTyped, NEW c \in Clients, NEW item \in Item,
         NEW d \in DeltaIDs \ Existing, rows' = [rows EXCEPT ![d] = NewRow(item, c)]
  PROVE  /\ rows' \in [DeltaIDs -> Row \cup {NoRow}]
         /\ Existing' = Existing \cup {d}
         /\ \A e \in Existing : rows'[e] = rows[e]
         /\ rows'[d].slot = DedupKey(item) /\ rows'[d].writer = c
         /\ rows'[d].state = "pending"
<1>1. DedupKey(item) \in Slots \cup {NoSlot}
  BY DEF DedupKey, Item, Slots
<1>2. /\ NewRow(item, c) \in Row
      /\ NewRow(item, c).slot = DedupKey(item) /\ NewRow(item, c).writer = c
      /\ NewRow(item, c).state = "pending"
  BY <1>1 DEF NewRow, Row, Item
<1>3. rows \in [DeltaIDs -> Row \cup {NoRow}]
  BY DEF OutboxTyped, OutboxTypeOK
<1>4. rows'[d] = NewRow(item, c) /\ \A e \in DeltaIDs \ {d} : rows'[e] = rows[e]
  BY <1>3
<1>5. rows' \in [DeltaIDs -> Row \cup {NoRow}]
  BY <1>2, <1>3
<1>6. Existing' = Existing \cup {d}
  <2>1. rows'[d] # NoRow
    BY <1>2, <1>4, RowExists
  <2> QED  BY <2>1, <1>4 DEF Existing
<1>7. \A e \in Existing : rows'[e] = rows[e]
  BY <1>4 DEF Existing
<1> QED  BY <1>2, <1>4, <1>5, <1>6, <1>7
-----------------------------------------------------------------------------
(* Types and roles. *)

(* A call of c's kind. *)
Fits(c, t) ==
  /\ TxTypeOK(t)
  /\ c \in Producers => t.op \in Enqueues \cup {"idle"}
  /\ c \in Dispatchers => t.op \in {"dispatch", "idle"}
  /\ c \in Mappers => t.op \in {"create", "idle"}
  /\ c \in Producers /\ t.op \in Enqueues /\ t.stage = "read" => t.todo # <<>>

(* Idle fits every client. *)
LEMMA IdleFits == \A c \in Clients : Fits(c, Idle)
  BY DEF Fits, TxTypeOK, Idle, Enqueues

(* An open enqueue fits a producer, an open dispatch a dispatcher and an    *)
(* open creation a mapper.                                                  *)
LEMMA CallFits ==
  /\ \A c \in Producers, t \in EnqueueTx :
       (t.stage = "read" => t.todo # <<>>) => Fits(c, t)
  /\ \A c \in Dispatchers, t \in MappingTx : t.op = "dispatch" => Fits(c, t)
  /\ \A c \in Mappers, t \in MappingTx : t.op = "create" => Fits(c, t)
<1>1. ASSUME NEW c \in Producers, NEW t \in EnqueueTx, t.stage = "read" => t.todo # <<>>
      PROVE  Fits(c, t)
  <2>1. c \notin Dispatchers /\ c \notin Mappers
    BY Roles
  <2>2. t.op \in Enqueues
    BY TxFields
  <2> QED  BY <1>1, <2>1, <2>2 DEF Fits, TxTypeOK
<1>2. ASSUME NEW c \in Dispatchers, NEW t \in MappingTx, t.op = "dispatch" PROVE Fits(c, t)
  <2>1. c \notin Producers /\ c \notin Mappers
    BY Roles
  <2>2. t.op \notin Enqueues
    BY <1>2 DEF Enqueues
  <2> QED  BY <1>2, <2>1, <2>2 DEF Fits, TxTypeOK
<1>3. ASSUME NEW c \in Mappers, NEW t \in MappingTx, t.op = "create" PROVE Fits(c, t)
  <2>1. c \notin Producers /\ c \notin Dispatchers
    BY Roles
  <2>2. t.op \notin Enqueues
    BY <1>3 DEF Enqueues
  <2> QED  BY <1>3, <2>1, <2>2 DEF Fits, TxTypeOK
<1> QED  BY <1>1, <1>2, <1>3

(* A step that gives c a call of its kind keeps the types of the calls. *)
LEMMA OwnCall ==
  ASSUME OutboxTyped, NEW c \in Clients, NEW t, Fits(c, t),
         txs' = [txs EXCEPT ![c] = t]
  PROVE  /\ txs'[c] = t
         /\ \A b \in Clients \ {c} : txs'[b] = txs[b]
         /\ txs' = [b \in Clients |-> txs'[b]]
         /\ \A b \in Clients : Fits(b, txs'[b])
<1>1. txs = [b \in Clients |-> txs[b]]
  BY DEF OutboxTyped, OutboxTypeOK
<1>2. txs'[c] = t /\ \A b \in Clients \ {c} : txs'[b] = txs[b]
  BY <1>1
<1>3. txs' = [b \in Clients |-> txs'[b]]
  BY <1>1
<1>4. \A b \in Clients : Fits(b, txs[b])
  BY DEF OutboxTyped, OutboxTypeOK, RolesKept, Fits
<1> QED  BY <1>2, <1>3, <1>4

(* What is to be shown of a step for the types and the roles. *)
LEMMA TypedNext ==
  ASSUME OutboxTyped,
         txs' = [b \in Clients |-> txs'[b]], \A b \in Clients : Fits(b, txs'[b]),
         rows' \in [DeltaIDs -> Row \cup {NoRow}],
         \A d \in Existing' : rows'[d].writer \in Producers \cup {DB},
         jobs' \in [DeltaIDs -> Nat], acked' \subseteq Slots, aborts' \in 0..MaxAborts
  PROVE  OutboxTyped'
<1>1. OutboxTypeOK'
  BY DEF OutboxTypeOK, Fits
<1>2. RolesKept'
  BY Roles DEF RolesKept, Fits
<1> QED  BY <1>1, <1>2 DEF OutboxTyped

(* A step that only changes the call of one client keeps types and roles. *)
LEMMA OwnTyped ==
  ASSUME OutboxTyped, NEW c \in Clients, NEW t, Fits(c, t),
         txs' = [txs EXCEPT ![c] = t], UNCHANGED <<rows, jobs, acked>>,
         aborts' \in 0..MaxAborts
  PROVE  OutboxTyped'
<1>1. txs' = [b \in Clients |-> txs'[b]] /\ \A b \in Clients : Fits(b, txs'[b])
  BY OwnCall
<1>2. Existing' = Existing
  BY DEF Existing
<1>3. /\ rows' \in [DeltaIDs -> Row \cup {NoRow}]
      /\ \A d \in Existing' : rows'[d].writer \in Producers \cup {DB}
      /\ jobs' \in [DeltaIDs -> Nat] /\ acked' \subseteq Slots
  BY <1>2 DEF OutboxTyped, OutboxTypeOK, RolesKept
<1> QED  BY <1>1, <1>3, TypedNext

(* A commit keeps types and roles. *)
LEMMA CommitTyped ==
  ASSUME OutboxTyped, NEW c \in Clients, Open(c), Commit(c), UNCHANGED aborts
  PROVE  OutboxTyped'
<1>1. txs' = [txs EXCEPT ![c] = Idle]
  BY DEF Commit
<1>2. txs' = [b \in Clients |-> txs'[b]] /\ \A b \in Clients : Fits(b, txs'[b])
  BY <1>1, IdleFits, OwnCall
<1>3. rows' \in [DeltaIDs -> Row \cup {NoRow}]
  BY CommitRows
<1>4. \A d \in Existing' : rows'[d].writer \in Producers \cup {DB}
  BY CommitRows DEF OutboxTyped, RolesKept
<1>5. jobs' \in [DeltaIDs -> Nat]
  <2>1. jobs \in [DeltaIDs -> Nat]
    BY DEF OutboxTyped, OutboxTypeOK
  <2>2. jobs' = [d \in DeltaIDs |-> jobs[d] + IF d \in txs[c].creates THEN 1 ELSE 0]
    BY DEF Commit
  <2> QED  BY <2>1, <2>2
<1>6. acked' \subseteq Slots
  <2>1. txs[c] \in EnqueueTx \/ txs[c] \in MappingTx
    BY TxShape, Roles
  <2>2. txs[c].slots \subseteq Slots
    BY <2>1, TxFields
  <2> QED  BY <2>2 DEF Commit, OutboxTyped, OutboxTypeOK
<1>7. aborts' \in 0..MaxAborts
  BY DEF OutboxTyped, OutboxTypeOK
<1> QED  BY <1>2, <1>3, <1>4, <1>5, <1>6, <1>7, TypedNext

(* A rollback keeps types and roles. *)
LEMMA RollbackTyped ==
  ASSUME OutboxTyped, NEW c \in Clients, Rollback(c), aborts' \in 0..MaxAborts
  PROVE  OutboxTyped'
<1>1. txs' = [txs EXCEPT ![c] = Idle] /\ UNCHANGED <<jobs, acked>>
  BY DEF Rollback
<1>2. txs' = [b \in Clients |-> txs'[b]] /\ \A b \in Clients : Fits(b, txs'[b])
  BY <1>1, IdleFits, OwnCall
<1>3. rows' \in [DeltaIDs -> Row \cup {NoRow}]
  BY RollbackRows
<1>4. \A d \in Existing' : rows'[d].writer \in Producers \cup {DB}
  BY RollbackRows DEF OutboxTyped, RolesKept
<1>5. jobs' \in [DeltaIDs -> Nat] /\ acked' \subseteq Slots
  BY <1>1 DEF OutboxTyped, OutboxTypeOK
<1> QED  BY <1>2, <1>3, <1>4, <1>5, TypedNext

(* The aborted transaction was open, and the counter keeps its bound. *)
LEMMA AbortSteps ==
  ASSUME OutboxTyped, NEW c \in Clients, AbortVictim(c) \/ Abort(c)
  PROVE  Open(c) /\ Rollback(c) /\ aborts' \in 0..MaxAborts
<1>1. CASE AbortVictim(c)
  BY <1>1 DEF AbortVictim, WaitsFor, OutboxTyped, OutboxTypeOK
<1>2. CASE Abort(c)
  <2>1. aborts \in 0..MaxAborts /\ aborts < MaxAborts /\ aborts' = aborts + 1 /\ MaxAborts \in Nat
    BY <1>2, PostgresOutboxAssumption DEF Abort, OutboxTyped, OutboxTypeOK
  <2> QED  BY <1>2, <2>1 DEF Abort
<1> QED  BY <1>1, <1>2

(* The head and the tail of what is left to do. *)
LEMMA HeadTail ==
  ASSUME NEW S, NEW q \in Seq(S), q # <<>>
  PROVE  /\ Head(q) \in S /\ Tail(q) \in Seq(S)
         /\ Head(q) = q[1] /\ 1 \in DOMAIN q
         /\ \A i \in DOMAIN Tail(q) : i + 1 \in DOMAIN q /\ Tail(q)[i] = q[i + 1]
<1>1. Len(q) \in Nat \ {0} /\ DOMAIN q = 1..Len(q)
  OBVIOUS
<1>2. Head(q) = q[1] /\ 1 \in DOMAIN q /\ Head(q) \in S
  BY <1>1
<1>3. Tail(q) \in Seq(S) /\ Len(Tail(q)) = Len(q) - 1
      /\ \A i \in 1..Len(q) - 1 : Tail(q)[i] = q[i + 1]
  BY <1>1
<1>4. DOMAIN Tail(q) = 1..Len(q) - 1
  BY <1>3
<1>5. \A i \in DOMAIN Tail(q) : i + 1 \in DOMAIN q
  BY <1>1, <1>4
<1> QED  BY <1>2, <1>3, <1>4, <1>5

(* What a begun enqueue keeps. *)
EnqueueBegun(op, todo) ==
  [op |-> op, stage |-> "insert", todo |-> todo, sees |-> Committed,
   locks |-> {}, creates |-> {}, marks |-> {}, slots |-> {}]

(* A begun enqueue. *)
LEMMA BeginEnqueueStep ==
  ASSUME OutboxTyped, NEW c \in Producers, NEW call \in Inputs[c], BeginEnqueue(c, call)
  PROVE  /\ EnqueueBegun(call.op, call.items) \in EnqueueTx
         /\ txs' = [txs EXCEPT ![c] = EnqueueBegun(call.op, call.items)]
         /\ ~Open(c)
         /\ UNCHANGED <<rows, jobs, acked, aborts>>
<1>1. call.items \in Seq(Item) /\ call.op \in Enqueues
  BY PostgresOutboxAssumption DEF Enqueues
<1>2. Committed \subseteq DeltaIDs
  BY DEF Committed, Existing
<1>3. EnqueueBegun(call.op, call.items) \in EnqueueTx
  BY <1>1, <1>2 DEF EnqueueBegun, EnqueueTx
<1> QED  BY <1>3 DEF BeginEnqueue, Begin, EnqueueBegun

(* How an enqueue goes on, after an insert or a read. *)
LEMMA EnqueueGoesOn ==
  ASSUME OutboxTyped, NEW c \in Producers, Open(c), txs[c].todo # <<>>
  PROVE  /\ Head(txs[c].todo) \in Item
         /\ NextItem(c) \in EnqueueTx
         /\ NextItem(c).stage = "insert" /\ NextItem(c).sees = Committed
         /\ NextItem(c).slots = txs[c].slots \cup
              ({<<Head(txs[c].todo).window, Head(txs[c].todo).key>>} \cap Slots)
         /\ Reread(c) \in EnqueueTx
         /\ Reread(c).stage = "read" /\ Reread(c).sees = Committed
         /\ Reread(c).slots = txs[c].slots /\ Reread(c).todo = txs[c].todo
<1>1. txs[c] \in EnqueueTx
  BY TxShape, Roles
<1>2. txs[c].todo \in Seq(Item)
  BY <1>1, TxFields
<1>3. Head(txs[c].todo) \in Item /\ Tail(txs[c].todo) \in Seq(Item)
  BY <1>2, HeadTail
<1>4. Committed \subseteq DeltaIDs
  BY DEF Committed, Existing
<1>6. \A t \in EnqueueTx, se \in SUBSET DeltaIDs :
        LET u == [t EXCEPT !.stage = "read", !.sees = se]
        IN  /\ u \in EnqueueTx /\ u.stage = "read" /\ u.sees = se
            /\ u.slots = t.slots /\ u.todo = t.todo
  BY DEF EnqueueTx
<1>7. txs[c].slots \cup ({<<Head(txs[c].todo).window, Head(txs[c].todo).key>>} \cap Slots)
        \in SUBSET Slots
  BY <1>1, TxFields
<1>8. /\ NextItem(c) \in EnqueueTx
      /\ NextItem(c).stage = "insert" /\ NextItem(c).sees = Committed
      /\ NextItem(c).slots = txs[c].slots \cup
              ({<<Head(txs[c].todo).window, Head(txs[c].todo).key>>} \cap Slots)
  <2> DEFINE u == txs[c]
             td == Tail(u.todo)
             sl == u.slots \cup ({<<Head(u.todo).window, Head(u.todo).key>>} \cap Slots)
             v == [u EXCEPT !.stage = "insert", !.todo = td, !.sees = Committed, !.slots = sl]
  <2>1. u \in EnqueueTx /\ td \in Seq(Item) /\ sl \subseteq Slots
    BY <1>1, <1>3, <1>7
  <2>2. NextItem(c) = v
    BY DEF NextItem
  <2>3. v \in EnqueueTx /\ v.stage = "insert" /\ v.sees = Committed /\ v.slots = sl
    <3> HIDE DEF u, td, sl
    <3> QED  BY <2>1, <1>4 DEF EnqueueTx
  <2> HIDE DEF v
  <2> QED  BY <2>2, <2>3
<1>9. /\ Reread(c) \in EnqueueTx
      /\ Reread(c).stage = "read" /\ Reread(c).sees = Committed
      /\ Reread(c).slots = txs[c].slots /\ Reread(c).todo = txs[c].todo
  BY ZenonT(30), <1>1, <1>4, <1>6 DEF Reread
<1> QED  BY <1>3, <1>8, <1>9

(* What a begun dispatch keeps. *)
DispatchBegun(C, q) ==
  [op |-> "dispatch", stage |-> "insert", todo |-> q, sees |-> {}, locks |-> C,
   creates |-> {}, marks |-> {}, slots |-> {}]

(* A begun dispatch. *)
LEMMA BeginDispatchStep ==
  ASSUME OutboxTyped, NEW c \in Dispatchers, NEW s, NEW n, BeginDispatch(c, s, n)
  PROVE  /\ ~Open(c)
         /\ UNCHANGED <<rows, jobs, acked, aborts>>
         /\ \E C \in SUBSET Unlocked(s), q \in Seq(DeltaIDs) :
              /\ \A i \in DOMAIN q : q[i] \in C
              /\ \A d \in C, e \in Unlocked(s) \ C : Before(d, e)
              /\ DispatchBegun(C, q) \in MappingTx
              /\ txs' = [txs EXCEPT ![c] = DispatchBegun(C, q)]
<1>1. PICK C \in SUBSET Unlocked(s) : \E q \in Orders(C) :
        /\ \A d \in C, e \in Unlocked(s) \ C : Before(d, e)
        /\ txs' = [txs EXCEPT ![c] = DispatchBegun(C, q)]
  BY DEF BeginDispatch, DispatchBegun
<1>2. PICK q \in Orders(C) :
        /\ \A d \in C, e \in Unlocked(s) \ C : Before(d, e)
        /\ txs' = [txs EXCEPT ![c] = DispatchBegun(C, q)]
  BY <1>1
<1>3. C \subseteq DeltaIDs
  BY DEF Unlocked, PendingDeltas, Committed, Existing
<1>4. Cardinality(C) \in Nat
  <2>1. IsFiniteSet(1..MaxDeltas)
    BY FS_Interval, PostgresOutboxAssumption
  <2> QED  BY <1>3, <2>1, FS_Subset, FS_CardinalityType DEF DeltaIDs
<1>5. q \in [1..Cardinality(C) -> C]
  BY DEF Orders
<1>6. q \in Seq(DeltaIDs) /\ \A i \in DOMAIN q : q[i] \in C
  BY <1>3, <1>4, <1>5
<1>7. DispatchBegun(C, q) \in MappingTx
  BY <1>3, <1>6 DEF DispatchBegun, MappingTx
<1> QED  BY <1>2, <1>6, <1>7 DEF BeginDispatch

(* A dispatch stages its next delta. *)
LEMMA StageStep ==
  ASSUME OutboxTyped, NEW c \in Dispatchers, StageDelta(c)
  PROVE  \E d \in DeltaIDs, t \in MappingTx :
           /\ Open(c) /\ txs[c].todo # <<>>
           /\ d = Head(txs[c].todo) /\ Creators(d) \subseteq {c}
           /\ t.op = "dispatch" /\ t.locks = txs[c].locks
           /\ t.todo = Tail(txs[c].todo)
           /\ t.creates = IF jobs[d] = 0 THEN txs[c].creates \cup {d} ELSE txs[c].creates
           /\ t.marks = txs[c].marks \cup {d}
           /\ txs' = [txs EXCEPT ![c] = t]
           /\ UNCHANGED <<rows, jobs, acked, aborts>>
<1> DEFINE d == Head(txs[c].todo)
           t == [Staged(txs[c], d) EXCEPT !.todo = Tail(@)]
           cr == IF jobs[d] = 0 THEN txs[c].creates \cup {d} ELSE txs[c].creates
           mk == txs[c].marks \cup {d}
<1>1. Open(c) /\ txs[c].todo # <<>> /\ Creators(d) \subseteq {c}
      /\ txs' = [txs EXCEPT ![c] = t] /\ UNCHANGED <<rows, jobs, acked, aborts>>
  BY DEF StageDelta, Open
<1>2. txs[c] \in MappingTx /\ txs[c].op = "dispatch"
  BY <1>1, TxShape, Roles
<1>3. txs[c].todo \in Seq(DeltaIDs)
  BY <1>2, TxFields
<1>4. d \in DeltaIDs /\ Tail(txs[c].todo) \in Seq(DeltaIDs)
  BY <1>1, <1>3, HeadTail
<1>5. cr \in SUBSET DeltaIDs /\ mk \in SUBSET DeltaIDs
  BY <1>2, <1>4, TxFields
<1>6. /\ t \in MappingTx /\ t.op = "dispatch" /\ t.locks = txs[c].locks
      /\ t.todo = Tail(txs[c].todo) /\ t.creates = cr /\ t.marks = mk
  <2> DEFINE u == txs[c]
             td == Tail(u.todo)
             v == [u EXCEPT !.creates = cr, !.marks = mk, !.todo = td]
  <2>1. u \in MappingTx /\ u.op = "dispatch" /\ td \in Seq(DeltaIDs)
    BY <1>2, <1>4
  <2>2. t = v
    BY <1>2 DEF Staged, MappingTx
  <2>3. /\ v \in MappingTx /\ v.op = "dispatch" /\ v.locks = u.locks
        /\ v.todo = td /\ v.creates = cr /\ v.marks = mk
    <3> HIDE DEF u, td, cr, mk
    <3> QED  BY <2>1, <1>5 DEF MappingTx
  <2> HIDE DEF v, t
  <2> QED  BY <2>2, <2>3
<1> HIDE DEF t
<1> QED  BY <1>1, <1>4, <1>6

(* What a creation keeps. *)
CreateBegun(d) ==
  [op |-> "create", stage |-> "insert", todo |-> <<d>>, sees |-> {},
   locks |-> {}, creates |-> {d}, marks |-> {}, slots |-> {}]

(* A begun creation. *)
LEMMA InsertJobStep ==
  ASSUME OutboxTyped, NEW c \in Mappers, NEW d \in DeltaIDs, InsertJob(c, d)
  PROVE  /\ CreateBegun(d) \in MappingTx
         /\ txs' = [txs EXCEPT ![c] = CreateBegun(d)]
         /\ ~Open(c) /\ d \in Committed /\ Creators(d) = {} /\ jobs[d] = 0
         /\ UNCHANGED <<rows, jobs, acked, aborts>>
<1>1. <<d>> \in Seq(DeltaIDs)
  OBVIOUS
<1>2. CreateBegun(d) \in MappingTx
  BY <1>1 DEF CreateBegun, MappingTx
<1> QED  BY <1>2 DEF InsertJob, CreateBegun

(* The two outcomes of an insert. *)
LEMMA InsertStep ==
  ASSUME OutboxTyped, NEW c \in Producers, InsertDelta(c)
  PROVE  LET item == Head(txs[c].todo)
             slot == DedupKey(item)
         IN  /\ Open(c) /\ txs[c].stage = "insert" /\ txs[c].todo # <<>>
             /\ item \in Item /\ Rivals(slot, c) = {}
             /\ UNCHANGED <<jobs, acked, aborts>>
             /\ \/ /\ Twins(slot, c) # {}
                   /\ \/ txs[c].op # "batch" /\ txs' = [txs EXCEPT ![c] = Reread(c)]
                      \/ txs' = [txs EXCEPT ![c] = NextItem(c)]
                   /\ UNCHANGED rows
                \/ /\ Twins(slot, c) = {}
                   /\ txs' = [txs EXCEPT ![c] = NextItem(c)]
                   /\ \E d \in DeltaIDs \ Existing : rows' = [rows EXCEPT ![d] = NewRow(item, c)]
<1>1. Open(c) /\ txs[c].stage = "insert" /\ txs[c].todo # <<>>
  BY DEF InsertDelta, Open, Enqueues
<1>2. Head(txs[c].todo) \in Item
  BY <1>1, EnqueueGoesOn
<1> QED  BY <1>1, <1>2 DEF InsertDelta

(* What a step of the outbox is, by the roles. *)
LEMMA OutboxCases ==
  ASSUME OutboxTyped, [OutboxNext]_outboxVars
  PROVE  \/ UNCHANGED outboxVars
         \/ \E c \in Producers : \E call \in Inputs[c] : BeginEnqueue(c, call)
         \/ \E c \in Producers : InsertDelta(c)
         \/ \E c \in Producers : ReadTwin(c)
         \/ \E c \in Dispatchers, s \in Syncs, n \in PullLimits : BeginDispatch(c, s, n)
         \/ \E c \in Dispatchers : StageDelta(c)
         \/ \E c \in Mappers, d \in DeltaIDs : InsertJob(c, d)
         \/ \E c \in Mappers, d \in DeltaIDs : MarkDispatched(c, d)
         \/ \E c \in Clients : /\ Open(c) /\ Commit(c) /\ UNCHANGED aborts
                               /\ c \in Producers => txs[c].stage = "insert"
                               /\ c \notin Mappers => txs[c].todo = <<>>
         \/ \E c \in Clients : Open(c) /\ Rollback(c) /\ aborts' \in 0..MaxAborts
<1>1. \A c \in Producers \cup Dispatchers : Finish(c) =>
        \/ /\ Open(c) /\ Commit(c) /\ UNCHANGED aborts
           /\ txs[c].stage = "insert" /\ txs[c].todo = <<>>
        \/ Open(c) /\ Rollback(c) /\ aborts' \in 0..MaxAborts
  <2> SUFFICES ASSUME NEW c \in Producers \cup Dispatchers, Finish(c)
               PROVE  \/ /\ Open(c) /\ Commit(c) /\ UNCHANGED aborts
                         /\ txs[c].stage = "insert" /\ txs[c].todo = <<>>
                      \/ Open(c) /\ Rollback(c) /\ aborts' \in 0..MaxAborts
    OBVIOUS
  <2>1. Open(c)
    BY DEF Finish, Open, Enqueues
  <2>2. aborts' \in 0..MaxAborts
    BY DEF Finish, OutboxTyped, OutboxTypeOK
  <2> QED  BY <2>1, <2>2 DEF Finish
<1>2. \A c \in Mappers : CheckForeignKey(c) => Open(c) /\ Commit(c) /\ UNCHANGED aborts
  BY DEF CheckForeignKey, Open
<1>3. CASE UNCHANGED outboxVars
  BY <1>3
<1>4. CASE \E c \in Producers : (\E call \in Inputs[c] : BeginEnqueue(c, call)) \/ Enqueuing(c)
  <2> PICK c \in Producers : (\E call \in Inputs[c] : BeginEnqueue(c, call)) \/ Enqueuing(c)
    BY <1>4
  <2>1. c \in Clients
    BY Roles
  <2> QED  BY <1>1, <2>1 DEF Enqueuing
<1>5. CASE \E c \in Dispatchers : Dispatching(c)
  <2> PICK c \in Dispatchers : Dispatching(c)
    BY <1>5
  <2>1. c \in Clients /\ c \notin Producers
    BY Roles
  <2> QED  BY <1>1, <2>1 DEF Dispatching
<1>6. CASE \E c \in Mappers : Mapping(c) \/ CheckForeignKey(c)
  <2> PICK c \in Mappers : Mapping(c) \/ CheckForeignKey(c)
    BY <1>6
  <2>1. c \in Clients /\ c \notin Producers
    BY Roles
  <2> QED  BY <1>2, <2>1 DEF Mapping
<1>7. CASE \E c \in Clients : AbortVictim(c) \/ Abort(c)
  BY <1>7, AbortSteps
<1> QED  BY <1>3, <1>4, <1>5, <1>6, <1>7 DEF OutboxNext

(* Types and roles hold at first. *)
LEMMA TypedInit == OutboxInit => OutboxTyped
<1> SUFFICES ASSUME OutboxInit PROVE OutboxTyped
  OBVIOUS
<1>1. txs = [c \in Clients |-> Idle] /\ rows = [d \in DeltaIDs |-> NoRow]
  BY DEF OutboxInit
<1>2. \A c \in Clients : txs[c] = Idle /\ Fits(c, txs[c])
  BY <1>1, IdleFits
<1>3. Existing = {}
  BY <1>1 DEF Existing
<1>4. aborts \in 0..MaxAborts
  BY PostgresOutboxAssumption DEF OutboxInit
<1>5. OutboxTypeOK
  BY <1>1, <1>2, <1>4 DEF OutboxInit, OutboxTypeOK, Fits
<1>6. RolesKept
  BY <1>2, <1>3, Roles DEF RolesKept, Fits
<1> QED  BY <1>5, <1>6 DEF OutboxTyped

(* Every step keeps them. *)
LEMMA TypedStep == OutboxTyped /\ [OutboxNext]_outboxVars => OutboxTyped'
<1> SUFFICES ASSUME OutboxTyped, [OutboxNext]_outboxVars PROVE OutboxTyped'
  OBVIOUS
<1>0. aborts \in 0..MaxAborts
  BY DEF OutboxTyped, OutboxTypeOK
<1>1. CASE UNCHANGED outboxVars
  BY <1>1 DEF outboxVars, OutboxTyped, OutboxTypeOK, RolesKept, Existing
<1>2. CASE \E c \in Producers : \E call \in Inputs[c] : BeginEnqueue(c, call)
  <2> PICK c \in Producers : \E call \in Inputs[c] : BeginEnqueue(c, call)
    BY <1>2
  <2> PICK call \in Inputs[c] : BeginEnqueue(c, call)
    OBVIOUS
  <2> DEFINE t == EnqueueBegun(call.op, call.items)
  <2>1. txs' = [txs EXCEPT ![c] = t] /\ t \in EnqueueTx /\ UNCHANGED <<rows, jobs, acked, aborts>>
    BY BeginEnqueueStep
  <2>2. t.stage = "insert"
    BY DEF EnqueueBegun
  <2>3. Fits(c, t) /\ c \in Clients
    BY <2>1, <2>2, CallFits, Roles
  <2> HIDE DEF t
  <2> QED  BY <1>0, <2>1, <2>3, OwnTyped
<1>3. CASE \E c \in Producers : InsertDelta(c)
  <2> PICK c \in Producers : InsertDelta(c)
    BY <1>3
  <2> DEFINE item == Head(txs[c].todo)
  <2>1. /\ Open(c) /\ txs[c].todo # <<>> /\ item \in Item
        /\ UNCHANGED <<jobs, acked, aborts>>
        /\ \/ /\ \/ txs' = [txs EXCEPT ![c] = Reread(c)]
                 \/ txs' = [txs EXCEPT ![c] = NextItem(c)]
              /\ UNCHANGED rows
           \/ /\ txs' = [txs EXCEPT ![c] = NextItem(c)]
              /\ \E d \in DeltaIDs \ Existing : rows' = [rows EXCEPT ![d] = NewRow(item, c)]
    BY InsertStep
  <2>2. /\ NextItem(c) \in EnqueueTx /\ Reread(c) \in EnqueueTx
        /\ NextItem(c).stage = "insert" /\ Reread(c).todo # <<>>
    BY <2>1, EnqueueGoesOn
  <2>3. Fits(c, NextItem(c)) /\ Fits(c, Reread(c)) /\ c \in Clients
    BY <2>2, CallFits, Roles
  <2>4. CASE UNCHANGED rows
    BY <1>0, <2>1, <2>3, <2>4, OwnTyped
  <2>5. CASE /\ txs' = [txs EXCEPT ![c] = NextItem(c)]
             /\ \E d \in DeltaIDs \ Existing : rows' = [rows EXCEPT ![d] = NewRow(item, c)]
    <3> PICK d \in DeltaIDs \ Existing : rows' = [rows EXCEPT ![d] = NewRow(item, c)]
      BY <2>5
    <3>1. /\ rows' \in [DeltaIDs -> Row \cup {NoRow}]
          /\ Existing' = Existing \cup {d}
          /\ \A e \in Existing : rows'[e] = rows[e]
          /\ rows'[d].writer = c
      BY <2>1, <2>3, InsertRows
    <3>2. \A e \in Existing' : rows'[e].writer \in Producers \cup {DB}
      BY <3>1 DEF OutboxTyped, RolesKept
    <3>3. txs' = [b \in Clients |-> txs'[b]] /\ \A b \in Clients : Fits(b, txs'[b])
      BY <2>3, <2>5, OwnCall
    <3>4. jobs' \in [DeltaIDs -> Nat] /\ acked' \subseteq Slots /\ aborts' \in 0..MaxAborts
      BY <2>1 DEF OutboxTyped, OutboxTypeOK
    <3> QED  BY <3>1, <3>2, <3>3, <3>4, TypedNext
  <2> QED  BY <2>1, <2>4, <2>5
<1>4. CASE \E c \in Producers : ReadTwin(c)
  <2> PICK c \in Producers : ReadTwin(c)
    BY <1>4
  <2>1. Open(c) /\ txs' = [txs EXCEPT ![c] = NextItem(c)] /\ UNCHANGED <<rows, jobs, acked, aborts>>
    BY DEF ReadTwin
  <2>2. c \in Clients
    BY Roles
  <2>3. txs[c].todo # <<>>
    <3>1. txs[c].op \in Enqueues
      BY <2>1, <2>2, TxShape, TxFields
    <3> QED  BY <3>1 DEF ReadTwin, OutboxTyped, RolesKept
  <2>4. NextItem(c) \in EnqueueTx /\ NextItem(c).stage = "insert"
    BY <2>1, <2>3, EnqueueGoesOn
  <2>5. Fits(c, NextItem(c))
    BY <2>4, CallFits
  <2> QED  BY <1>0, <2>1, <2>2, <2>5, OwnTyped
<1>5. CASE \E c \in Dispatchers, s \in Syncs, n \in PullLimits : BeginDispatch(c, s, n)
  <2> PICK c \in Dispatchers, s \in Syncs, n \in PullLimits : BeginDispatch(c, s, n)
    BY <1>5
  <2>1. PICK C, q : /\ DispatchBegun(C, q) \in MappingTx
                    /\ txs' = [txs EXCEPT ![c] = DispatchBegun(C, q)]
                    /\ UNCHANGED <<rows, jobs, acked, aborts>>
    BY BeginDispatchStep
  <2>2. DispatchBegun(C, q).op = "dispatch" /\ c \in Clients
    BY Roles DEF DispatchBegun
  <2>3. Fits(c, DispatchBegun(C, q))
    BY <2>1, <2>2, CallFits
  <2> QED  BY <1>0, <2>1, <2>2, <2>3, OwnTyped
<1>6. CASE \E c \in Dispatchers : StageDelta(c)
  <2> PICK c \in Dispatchers : StageDelta(c)
    BY <1>6
  <2>1. PICK t \in MappingTx : t.op = "dispatch" /\ txs' = [txs EXCEPT ![c] = t]
                               /\ UNCHANGED <<rows, jobs, acked, aborts>>
    BY StageStep
  <2>2. Fits(c, t) /\ c \in Clients
    BY <2>1, CallFits, Roles
  <2> QED  BY <1>0, <2>1, <2>2, OwnTyped
<1>7. CASE \E c \in Mappers, d \in DeltaIDs : InsertJob(c, d)
  <2> PICK c \in Mappers, d \in DeltaIDs : InsertJob(c, d)
    BY <1>7
  <2>1. /\ CreateBegun(d) \in MappingTx
        /\ txs' = [txs EXCEPT ![c] = CreateBegun(d)]
        /\ UNCHANGED <<rows, jobs, acked, aborts>>
    BY InsertJobStep
  <2>2. CreateBegun(d).op = "create" /\ c \in Clients
    BY Roles DEF CreateBegun
  <2>3. Fits(c, CreateBegun(d))
    BY <2>1, <2>2, CallFits
  <2> QED  BY <1>0, <2>1, <2>2, <2>3, OwnTyped
<1>8. CASE \E c \in Mappers, d \in DeltaIDs : MarkDispatched(c, d)
  <2> PICK c \in Mappers, d \in DeltaIDs : MarkDispatched(c, d)
    BY <1>8
  <2>1. d \in Committed /\ rows' = [rows EXCEPT ![d].state = "dispatched"]
        /\ UNCHANGED <<jobs, txs, acked, aborts>>
    BY DEF MarkDispatched
  <2>2. /\ rows' \in [DeltaIDs -> Row \cup {NoRow}]
        /\ Existing' = Existing
        /\ \A e \in DeltaIDs \ {d} : rows'[e] = rows[e]
        /\ rows'[d].writer = DB
    BY <2>1, MarkRows
  <2>3. \A e \in Existing' : rows'[e].writer \in Producers \cup {DB}
    BY <2>2 DEF OutboxTyped, RolesKept, Existing
  <2>4. txs' = [b \in Clients |-> txs'[b]] /\ \A b \in Clients : Fits(b, txs'[b])
    BY <2>1 DEF OutboxTyped, OutboxTypeOK, RolesKept, Fits
  <2>5. jobs' \in [DeltaIDs -> Nat] /\ acked' \subseteq Slots /\ aborts' \in 0..MaxAborts
    BY <2>1 DEF OutboxTyped, OutboxTypeOK
  <2> QED  BY <2>2, <2>3, <2>4, <2>5, TypedNext
<1>9. CASE \E c \in Clients : Open(c) /\ Commit(c) /\ UNCHANGED aborts
  BY <1>9, CommitTyped
<1>10. CASE \E c \in Clients : Open(c) /\ Rollback(c) /\ aborts' \in 0..MaxAborts
  BY <1>10, RollbackTyped
<1> QED
  BY <1>1, <1>2, <1>3, <1>4, <1>5, <1>6, <1>7, <1>8, <1>9, <1>10, OutboxCases
-----------------------------------------------------------------------------
(* Records. *)

(* Committed rows stay, and those of a client's transaction until it ends. *)
StaysFor(b) ==
  /\ Committed \subseteq Committed' /\ WrittenBy(b) \subseteq WrittenBy(b)'
  /\ \A d \in Committed \cup WrittenBy(b) : rows'[d].slot = rows[d].slot

(* The rows of the others outlast the end of a transaction. *)
LEMMA EndsStay ==
  ASSUME OutboxTyped, NEW c \in Clients, Commit(c) \/ Rollback(c)
  PROVE  \A b \in Clients \ {c} : StaysFor(b)
<1> SUFFICES ASSUME NEW b \in Clients \ {c} PROVE StaysFor(b)
  OBVIOUS
<1>1. b # DB /\ c # DB
  BY Roles
<1>2. CASE Commit(c)
  BY <1>1, <1>2, CommitRows DEF StaysFor, Committed, WrittenBy
<1>3. CASE Rollback(c)
  BY <1>1, <1>3, RollbackRows DEF StaysFor, Committed, WrittenBy
<1> QED  BY <1>2, <1>3

(* An enqueue of a client that takes no step keeps what it counts on. *)
LEMMA EnqueueKept ==
  ASSUME NEW b, EnqueueOK(b), txs'[b] = txs[b], StaysFor(b)
  PROVE  EnqueueOK(b)'
<1> SUFFICES ASSUME Open(b)'
             PROVE  /\ txs[b].sees \subseteq Committed'
                    /\ \A slot \in txs[b].slots : Backed(b, slot)'
                    /\ txs[b].stage = "read" =>
                         \E d \in txs[b].sees \cup WrittenBy(b)' :
                           rows'[d].slot = DedupKey(Head(txs[b].todo))
  BY DEF EnqueueOK
<1>1. Open(b)
  BY DEF Open
<1>2. txs[b].sees \subseteq Committed
  BY <1>1 DEF EnqueueOK
<1>3. ASSUME NEW slot \in txs[b].slots PROVE Backed(b, slot)'
  <2>1. Backed(b, slot)
    BY <1>1 DEF EnqueueOK
  <2> QED  BY <2>1 DEF Backed, StaysFor
<1>4. ASSUME txs[b].stage = "read"
      PROVE  \E d \in txs[b].sees \cup WrittenBy(b)' :
               rows'[d].slot = DedupKey(Head(txs[b].todo))
  <2>1. PICK d \in txs[b].sees \cup WrittenBy(b) : rows[d].slot = DedupKey(Head(txs[b].todo))
    BY <1>1, <1>4 DEF EnqueueOK
  <2>2. rows'[d].slot = rows[d].slot /\ d \in txs[b].sees \cup WrittenBy(b)'
    BY <1>2 DEF StaysFor
  <2> QED  BY <2>1, <2>2
<1> QED  BY <1>2, <1>3, <1>4 DEF StaysFor

(* An idle client counts on nothing. *)
LEMMA IdleOK ==
  /\ \A b : txs[b] = Idle => EnqueueOK(b) /\ DispatchOK(b) /\ MapOK(b)
  /\ \A b : txs'[b] = Idle => ~Open(b)'
  BY DEF Idle, EnqueueOK, DispatchOK, MapOK, Open

(* No dedup key is a slot. *)
LEMMA NoSlotIsNone == NoSlot \notin Slots
<1> SUFFICES ASSUME NEW w \in Windows, NEW k \in Keys PROVE <<w, k>> # <<>>
  BY DEF NoSlot, Slots
<1>1. Len(<<w, k>>) = 2 /\ Len(<<>>) = 0
  OBVIOUS
<1> QED  BY <1>1

(* The slot an item claims is its dedup key. *)
LEMMA ItemSlot ==
  ASSUME NEW item \in Item, NEW slot \in {<<item.window, item.key>>} \cap Slots
  PROVE  slot = DedupKey(item)
<1>1. slot = <<item.window, item.key>> /\ <<item.window, item.key>> \in Slots
  OBVIOUS
<1>2. item.window \in Windows
  BY <1>1 DEF Slots
<1> QED  BY <1>1, <1>2, PostgresOutboxAssumption DEF DedupKey

(* An enqueue that goes on after its item found, or made, a row with the    *)
(* item's dedup key still counts on rows only.                              *)
LEMMA NextItemOK ==
  ASSUME OutboxTyped, OutboxTyped', NEW c \in Producers, Open(c), EnqueueOK(c),
         txs[c].todo # <<>>,
         txs' = [txs EXCEPT ![c] = NextItem(c)], StaysFor(c),
         NEW key, key = DedupKey(Head(txs[c].todo)), key # NoSlot => Backed(c, key)'
  PROVE  EnqueueOK(c)'
<1> DEFINE item == Head(txs[c].todo)
<1>1. txs = [b \in Clients |-> txs[b]] /\ c \in Clients
  BY Roles DEF OutboxTyped, OutboxTypeOK
<1>2. txs'[c] = NextItem(c)
  BY <1>1
<1>3. /\ item \in Item
      /\ NextItem(c).stage = "insert" /\ NextItem(c).sees = Committed
      /\ NextItem(c).slots = txs[c].slots \cup ({<<item.window, item.key>>} \cap Slots)
  BY EnqueueGoesOn
<1>4. ASSUME NEW slot \in NextItem(c).slots PROVE Backed(c, slot)'
  <2>1. CASE slot \in txs[c].slots
    <3>1. Backed(c, slot)
      BY <2>1 DEF EnqueueOK
    <3> QED  BY <3>1 DEF Backed, StaysFor
  <2>2. CASE slot \in {<<item.window, item.key>>} \cap Slots
    <3>1. slot = DedupKey(item)
      BY <1>3, <2>2, ItemSlot
    <3> QED  BY <2>2, <3>1, NoSlotIsNone
  <2> QED  BY <1>3, <2>1, <2>2
<1>5. txs'[c].stage # "read" /\ txs'[c].sees \subseteq Committed'
  BY <1>2, <1>3 DEF StaysFor
<1> QED  BY <1>2, <1>4, <1>5 DEF EnqueueOK

(* Rows that do not change stay. *)
LEMMA QuietStays ==
  ASSUME UNCHANGED rows
  PROVE  /\ \A b : StaysFor(b)
         /\ Existing' = Existing /\ Committed' = Committed
         /\ \A b : WrittenBy(b)' = WrittenBy(b)
  BY DEF StaysFor, Existing, Committed, WrittenBy

(* Slots stay unique when no row appears. *)
LEMMA SlotsKept ==
  ASSUME SlotsUnique, Existing' \subseteq Existing,
         \A d \in Existing' : rows'[d].slot = rows[d].slot
  PROVE  SlotsUnique'
  BY DEF SlotsUnique

(* What was acknowledged stays recorded. *)
LEMMA AckedKept ==
  ASSUME AckedIsRecorded, UNCHANGED acked, NEW b, StaysFor(b)
  PROVE  AckedIsRecorded'
  BY DEF AckedIsRecorded, StaysFor

(* The records hold at first and are kept. *)
LEMMA RecordsInit == OutboxInit => RecordsInv
<1> SUFFICES ASSUME OutboxInit PROVE RecordsInv
  OBVIOUS
<1>1. OutboxTyped
  BY TypedInit
<1>2. Existing = {}
  BY DEF OutboxInit, Existing
<1>3. SlotsUnique /\ AckedIsRecorded
  BY <1>2 DEF SlotsUnique, AckedIsRecorded, OutboxInit
<1>4. \A c \in Producers : txs[c] = Idle
  BY Roles DEF OutboxInit
<1> QED  BY <1>1, <1>3, <1>4, IdleOK DEF RecordsInv

(* A step of one client's call alone. *)
LEMMA RecordsOwn ==
  ASSUME RecordsInv, OutboxTyped', NEW c \in Clients, NEW t,
         txs' = [txs EXCEPT ![c] = t], UNCHANGED <<rows, acked>>,
         c \in Producers => EnqueueOK(c)'
  PROVE  RecordsInv'
<1>1. OutboxTyped
  BY DEF RecordsInv
<1>2. \A b \in Producers \ {c} : txs'[b] = txs[b]
  BY <1>1, Roles DEF OutboxTyped, OutboxTypeOK
<1>3. \A b \in Producers \ {c} : EnqueueOK(b)'
  BY <1>2, QuietStays, EnqueueKept DEF RecordsInv
<1>4. SlotsUnique'
  BY QuietStays, SlotsKept DEF RecordsInv
<1>5. AckedIsRecorded'
  BY QuietStays, AckedKept DEF RecordsInv
<1> QED  BY <1>3, <1>4, <1>5 DEF RecordsInv

(* An insert. *)
LEMMA RecordsInsert ==
  ASSUME RecordsInv, OutboxTyped', NEW c \in Producers, InsertDelta(c)
  PROVE  RecordsInv'
<1> DEFINE item == Head(txs[c].todo)
           key == DedupKey(item)
<1>1. OutboxTyped /\ EnqueueOK(c) /\ c \in Clients
  BY Roles DEF RecordsInv
<1>2. /\ Open(c) /\ txs[c].todo # <<>> /\ item \in Item /\ Rivals(key, c) = {}
      /\ UNCHANGED <<jobs, acked, aborts>>
      /\ \/ /\ Twins(key, c) # {}
            /\ \/ txs' = [txs EXCEPT ![c] = Reread(c)]
               \/ txs' = [txs EXCEPT ![c] = NextItem(c)]
            /\ UNCHANGED rows
         \/ /\ Twins(key, c) = {}
            /\ txs' = [txs EXCEPT ![c] = NextItem(c)]
            /\ \E d \in DeltaIDs \ Existing : rows' = [rows EXCEPT ![d] = NewRow(item, c)]
  BY <1>1, InsertStep
<1>3. CASE Twins(key, c) # {} /\ UNCHANGED rows
  <2>1. Backed(c, key)
    BY <1>3 DEF Twins, Backed
  <2>2. StaysFor(c) /\ Committed' = Committed /\ WrittenBy(c)' = WrittenBy(c)
    BY <1>3, QuietStays
  <2>3. CASE txs' = [txs EXCEPT ![c] = Reread(c)]
    <3>1. txs'[c] = Reread(c)
      BY <1>1, <2>3 DEF OutboxTyped, OutboxTypeOK
    <3>2. /\ Reread(c).stage = "read" /\ Reread(c).sees = Committed
          /\ Reread(c).slots = txs[c].slots /\ Reread(c).todo = txs[c].todo
      BY <1>1, <1>2, EnqueueGoesOn
    <3>3. ASSUME NEW slot \in txs'[c].slots PROVE Backed(c, slot)'
      <4>1. Backed(c, slot)
        BY <1>1, <1>2, <3>1, <3>2, <3>3 DEF EnqueueOK
      <4> QED  BY <4>1, <2>2 DEF Backed, StaysFor
    <3>4. \E d \in txs'[c].sees \cup WrittenBy(c)' :
            rows'[d].slot = DedupKey(Head(txs'[c].todo))
      BY <1>3, <2>1, <2>2, <3>1, <3>2 DEF Backed
    <3>5. txs'[c].sees \subseteq Committed'
      BY <2>2, <3>1, <3>2
    <3>6. EnqueueOK(c)'
      BY <3>3, <3>4, <3>5 DEF EnqueueOK
    <3> QED  BY <1>1, <1>2, <1>3, <2>3, <3>6, RecordsOwn
  <2>4. CASE txs' = [txs EXCEPT ![c] = NextItem(c)]
    <3>1. PICK k : k = key
      OBVIOUS
    <3>2. Backed(c, k)'
      BY <2>1, <2>2, <3>1 DEF Backed, StaysFor
    <3>3. EnqueueOK(c)'
      BY <1>1, <1>2, <2>2, <2>4, <3>1, <3>2, NextItemOK
    <3> QED  BY <1>1, <1>2, <1>3, <2>4, <3>3, RecordsOwn
  <2> QED  BY <1>2, <1>3, <2>3, <2>4
<1>4. CASE /\ Twins(key, c) = {}
           /\ txs' = [txs EXCEPT ![c] = NextItem(c)]
           /\ \E d \in DeltaIDs \ Existing : rows' = [rows EXCEPT ![d] = NewRow(item, c)]
  <2> PICK d \in DeltaIDs \ Existing : rows' = [rows EXCEPT ![d] = NewRow(item, c)]
    BY <1>4
  <2>1. /\ Existing' = Existing \cup {d}
        /\ \A e \in Existing : rows'[e] = rows[e]
        /\ rows'[d].slot = key /\ rows'[d].writer = c
    BY ZenonT(30), <1>1, <1>2, InsertRows
  <2>2. c # DB
    BY <1>1, Roles
  <2>3. \A b \in Clients : StaysFor(b)
    BY <2>1 DEF StaysFor, Committed, WrittenBy
  <2>4. d \in WrittenBy(c)'
    BY <2>1 DEF WrittenBy
  <2>5. PICK k : k = key
    OBVIOUS
  <2>6. Backed(c, k)'
    BY <2>1, <2>4, <2>5 DEF Backed
  <2>7. EnqueueOK(c)'
    BY <1>1, <1>2, <1>4, <2>3, <2>5, <2>6, NextItemOK
  <2>8. \A b \in Producers \ {c} : txs'[b] = txs[b]
    BY <1>1, <1>4, Roles DEF OutboxTyped, OutboxTypeOK
  <2>9. \A b \in Producers \ {c} : EnqueueOK(b)'
    BY <2>3, <2>8, EnqueueKept, Roles DEF RecordsInv
  <2>10. SlotsUnique'
    <3>1. ASSUME NEW e \in Existing, rows[e].slot = key, key # NoSlot PROVE FALSE
      <4>1. e \in Committed \/ e \in WrittenBy(c) \/ rows[e].writer \notin {c, DB}
        BY DEF Committed, WrittenBy
      <4>2. e \in Twins(key, c) \/ e \in Rivals(key, c)
        BY <3>1, <4>1 DEF Twins, Rivals
      <4> QED  BY <1>2, <1>4, <4>2
    <3>2. SlotsUnique
      BY DEF RecordsInv
    <3> QED  BY <2>1, <3>1, <3>2 DEF SlotsUnique
  <2>11. AckedIsRecorded'
    BY <1>1, <1>2, <2>3, AckedKept DEF RecordsInv
  <2> QED  BY <2>7, <2>9, <2>10, <2>11 DEF RecordsInv
<1> QED  BY <1>2, <1>3, <1>4

(* A commit acknowledges what the client counted on, which is committed now. *)
LEMMA RecordsCommit ==
  ASSUME RecordsInv, OutboxTyped', NEW c \in Clients, Open(c), Commit(c)
  PROVE  RecordsInv'
<1>1. OutboxTyped
  BY DEF RecordsInv
<1>2. /\ Existing' = Existing
      /\ \A d \in Existing : /\ rows'[d].slot = rows[d].slot
                             /\ rows'[d].writer = IF rows[d].writer = c THEN DB ELSE rows[d].writer
  BY <1>1, CommitRows
<1>3. SlotsUnique'
  BY <1>2, SlotsKept DEF RecordsInv
<1>4. Committed' = Committed \cup WrittenBy(c)
  BY <1>2, Roles DEF Committed, WrittenBy
<1>5. \A b \in Clients \ {c} : StaysFor(b)
  BY <1>1, EndsStay
<1>6. txs' = [txs EXCEPT ![c] = Idle]
  BY DEF Commit
<1>7. txs'[c] = Idle /\ \A b \in Producers \ {c} : txs'[b] = txs[b]
  BY <1>1, <1>6, Roles DEF OutboxTyped, OutboxTypeOK
<1>8. \A b \in Producers : EnqueueOK(b)'
  <2>1. ASSUME NEW b \in Producers, b # c PROVE EnqueueOK(b)'
    BY <1>5, <1>7, <2>1, EnqueueKept, Roles DEF RecordsInv
  <2>2. EnqueueOK(c)'
    BY <1>7, IdleOK DEF EnqueueOK
  <2> QED  BY <2>1, <2>2
<1>9. \A slot \in txs[c].slots : Backed(c, slot)
  <2>1. CASE c \in Producers
    BY <2>1 DEF RecordsInv, EnqueueOK
  <2>2. CASE c \notin Producers
    <3>1. txs[c].slots = {}
      BY <1>1, <2>2, TxShape, TxFields, Roles
    <3> QED  BY <3>1
  <2> QED  BY <2>1, <2>2
<1>10. AckedIsRecorded'
  <2>1. acked' = acked \cup txs[c].slots
    BY DEF Commit
  <2>2. \A d \in Committed' : d \in Existing
    BY <1>2 DEF Committed
  <2>3. \A slot \in acked : \E d \in Committed : rows[d].slot = slot
    BY DEF RecordsInv, AckedIsRecorded
  <2>4. \A slot \in acked' : \E d \in Committed' : rows[d].slot = slot
    BY <1>4, <1>9, <2>1, <2>3 DEF Backed
  <2> QED  BY <1>2, <2>2, <2>4 DEF AckedIsRecorded
<1> QED  BY <1>3, <1>8, <1>10 DEF RecordsInv

(* A rollback takes back rows nobody counts on. *)
LEMMA RecordsRollback ==
  ASSUME RecordsInv, OutboxTyped', NEW c \in Clients, Rollback(c)
  PROVE  RecordsInv'
<1>1. OutboxTyped
  BY DEF RecordsInv
<1>2. Existing' \subseteq Existing /\ \A d \in Existing' : rows'[d] = rows[d]
  BY <1>1, RollbackRows
<1>3. SlotsUnique'
  BY <1>2, SlotsKept DEF RecordsInv
<1>4. \A b \in Clients \ {c} : StaysFor(b)
  BY <1>1, EndsStay
<1>5. txs' = [txs EXCEPT ![c] = Idle] /\ UNCHANGED acked
  BY DEF Rollback
<1>6. txs'[c] = Idle /\ \A b \in Producers \ {c} : txs'[b] = txs[b]
  BY <1>1, <1>5, Roles DEF OutboxTyped, OutboxTypeOK
<1>7. \A b \in Producers : EnqueueOK(b)'
  <2>1. ASSUME NEW b \in Producers, b # c PROVE EnqueueOK(b)'
    BY <1>4, <1>6, <2>1, EnqueueKept, Roles DEF RecordsInv
  <2>2. EnqueueOK(c)'
    BY <1>6, IdleOK DEF EnqueueOK
  <2> QED  BY <2>1, <2>2
<1>8. AckedIsRecorded'
  <2>1. Committed \subseteq Committed' /\ \A d \in Committed : rows'[d].slot = rows[d].slot
    BY <1>1, RollbackRows, Roles DEF Committed, WrittenBy
  <2> QED  BY <1>5, <2>1 DEF AckedIsRecorded, RecordsInv
<1> QED  BY <1>3, <1>7, <1>8 DEF RecordsInv

(* Every step keeps the records. *)
LEMMA RecordsStep == RecordsInv /\ [OutboxNext]_outboxVars => RecordsInv'
<1> SUFFICES ASSUME RecordsInv, [OutboxNext]_outboxVars PROVE RecordsInv'
  OBVIOUS
<1>0. OutboxTyped /\ OutboxTyped'
  BY TypedStep DEF RecordsInv
<1>1. CASE UNCHANGED outboxVars
  <2>1. UNCHANGED <<rows, acked, txs>>
    BY <1>1 DEF outboxVars
  <2>2. \A b \in Producers : EnqueueOK(b)'
    BY <2>1, QuietStays, EnqueueKept DEF RecordsInv
  <2>3. SlotsUnique' /\ AckedIsRecorded'
    BY <2>1, QuietStays, SlotsKept, AckedKept DEF RecordsInv
  <2> QED  BY <1>0, <2>2, <2>3 DEF RecordsInv
<1>2. CASE \E c \in Producers : \E call \in Inputs[c] : BeginEnqueue(c, call)
  <2> PICK c \in Producers : \E call \in Inputs[c] : BeginEnqueue(c, call)
    BY <1>2
  <2> PICK call \in Inputs[c] : BeginEnqueue(c, call)
    OBVIOUS
  <2> DEFINE t == EnqueueBegun(call.op, call.items)
  <2>1. txs' = [txs EXCEPT ![c] = t] /\ UNCHANGED <<rows, acked>> /\ c \in Clients
    BY <1>0, BeginEnqueueStep, Roles
  <2>2. t.sees = Committed /\ t.slots = {} /\ t.stage # "read"
    BY DEF EnqueueBegun
  <2> HIDE DEF t
  <2>3. txs'[c] = t
    BY <1>0, <2>1 DEF OutboxTyped, OutboxTypeOK
  <2>4. EnqueueOK(c)'
    BY <2>1, <2>2, <2>3, QuietStays DEF EnqueueOK
  <2> QED  BY <1>0, <2>1, <2>4, RecordsOwn
<1>3. CASE \E c \in Producers : InsertDelta(c)
  BY <1>0, <1>3, RecordsInsert
<1>4. CASE \E c \in Producers : ReadTwin(c)
  <2> PICK c \in Producers : ReadTwin(c)
    BY <1>4
  <2> DEFINE key == DedupKey(Head(txs[c].todo))
  <2>1. /\ Open(c) /\ txs[c].stage = "read"
        /\ \E d \in txs[c].sees \cup WrittenBy(c) : rows[d].slot = key
        /\ txs' = [txs EXCEPT ![c] = NextItem(c)] /\ UNCHANGED <<rows, acked>>
    BY DEF ReadTwin
  <2>2. c \in Clients /\ EnqueueOK(c)
    BY Roles DEF RecordsInv
  <2>3. txs[c].todo # <<>>
    <3>1. txs[c].op \in Enqueues
      BY <1>0, <2>1, <2>2, TxShape, TxFields
    <3> QED  BY <1>0, <2>1, <3>1 DEF OutboxTyped, RolesKept
  <2>4. Backed(c, key)
    BY <2>1, <2>2 DEF EnqueueOK, Backed
  <2>5. PICK k : k = key
    OBVIOUS
  <2>6. StaysFor(c)
    BY <2>1, QuietStays
  <2>7. Backed(c, k)'
    BY <2>4, <2>5, <2>6 DEF Backed, StaysFor
  <2>8. EnqueueOK(c)'
    BY <1>0, <2>1, <2>2, <2>3, <2>5, <2>6, <2>7, NextItemOK
  <2> QED  BY <1>0, <2>1, <2>2, <2>8, RecordsOwn
<1>5. CASE \E c \in Dispatchers, s \in Syncs, n \in PullLimits : BeginDispatch(c, s, n)
  <2> PICK c \in Dispatchers, s \in Syncs, n \in PullLimits : BeginDispatch(c, s, n)
    BY <1>5
  <2>1. PICK C, q : txs' = [txs EXCEPT ![c] = DispatchBegun(C, q)]
                    /\ UNCHANGED <<rows, acked>>
    BY <1>0, BeginDispatchStep
  <2>2. c \in Clients /\ c \notin Producers
    BY Roles
  <2> QED  BY <1>0, <2>1, <2>2, RecordsOwn
<1>6. CASE \E c \in Dispatchers : StageDelta(c)
  <2> PICK c \in Dispatchers : StageDelta(c)
    BY <1>6
  <2>1. PICK t : txs' = [txs EXCEPT ![c] = t] /\ UNCHANGED <<rows, acked>>
    BY <1>0, StageStep
  <2>2. c \in Clients /\ c \notin Producers
    BY Roles
  <2> QED  BY <1>0, <2>1, <2>2, RecordsOwn
<1>7. CASE \E c \in Mappers, d \in DeltaIDs : InsertJob(c, d)
  <2> PICK c \in Mappers, d \in DeltaIDs : InsertJob(c, d)
    BY <1>7
  <2>1. txs' = [txs EXCEPT ![c] = CreateBegun(d)] /\ UNCHANGED <<rows, acked>>
    BY <1>0, InsertJobStep
  <2>2. c \in Clients /\ c \notin Producers
    BY Roles
  <2> QED  BY <1>0, <2>1, <2>2, RecordsOwn
<1>8. CASE \E c \in Mappers, d \in DeltaIDs : MarkDispatched(c, d)
  <2> PICK c \in Mappers, d \in DeltaIDs : MarkDispatched(c, d)
    BY <1>8
  <2>1. d \in Committed /\ rows' = [rows EXCEPT ![d].state = "dispatched"]
        /\ UNCHANGED <<jobs, txs, acked, aborts>>
    BY DEF MarkDispatched
  <2>2. /\ Existing' = Existing
        /\ \A e \in DeltaIDs \ {d} : rows'[e] = rows[e]
        /\ rows'[d].slot = rows[d].slot
        /\ rows'[d].writer = DB /\ rows[d].writer = DB
    BY <1>0, <2>1, MarkRows DEF Committed
  <2>3. \A e \in Existing : rows'[e].slot = rows[e].slot /\ rows'[e].writer = rows[e].writer
    BY <2>2 DEF Existing
  <2>4. \A b : StaysFor(b)
    BY <2>2, <2>3 DEF StaysFor, Committed, WrittenBy
  <2>5. \A b \in Producers : EnqueueOK(b)'
    BY <2>1, <2>4, EnqueueKept DEF RecordsInv
  <2>6. SlotsUnique' /\ AckedIsRecorded'
    BY <2>1, <2>2, <2>3, <2>4, SlotsKept, AckedKept DEF RecordsInv
  <2> QED  BY <1>0, <2>5, <2>6 DEF RecordsInv
<1>9. CASE \E c \in Clients : Open(c) /\ Commit(c) /\ UNCHANGED aborts
  BY <1>0, <1>9, RecordsCommit
<1>10. CASE \E c \in Clients : Open(c) /\ Rollback(c) /\ aborts' \in 0..MaxAborts
  BY <1>0, <1>10, RecordsRollback
<1> QED
  BY <1>0, <1>1, <1>2, <1>3, <1>4, <1>5, <1>6, <1>7, <1>8, <1>9, <1>10, OutboxCases

(* What the invariant says of acknowledged and of rereading enqueues. *)
LEMMA RecordsFollow == RecordsInv => RecordsConsistent
<1> SUFFICES ASSUME RecordsInv PROVE RecordsConsistent
  OBVIOUS
<1>1. RereadFindsWinner
  BY DEF RecordsInv, RereadFindsWinner, EnqueueOK
<1> QED  BY <1>1 DEF RecordsInv, RecordsConsistent, OutboxTyped

(* An enqueue that was reported done is durable whatever other transactions *)
(* roll back, and an enqueue that lost its insert always finds the winner's *)
(* row when it reads it in a second statement.                              *)
THEOREM AcksAreDurable == OutboxSpec => []RecordsConsistent
<1>1. OutboxSpec => []RecordsInv
  BY RecordsInit, RecordsStep, PTL DEF OutboxSpec
<1> QED  BY <1>1, RecordsFollow, PTL
-----------------------------------------------------------------------------
(* Dispatching and mapping. *)

(* A dispatch that takes no step keeps what it counts on. *)
LEMMA DispatchKept ==
  ASSUME NEW b, DispatchOK(b), txs'[b] = txs[b],
         Open(b) => \A d \in txs[b].locks : d \in Committed' /\ rows'[d].state = "pending",
         Open(b) => \A d \in txs[b].marks \ txs[b].creates : jobs'[d] = jobs[d]
  PROVE  DispatchOK(b)'
<1> SUFFICES ASSUME Open(b)' PROVE DispatchOK(b)'
  BY DEF DispatchOK
<1>1. Open(b)
  BY DEF Open
<1>2. /\ \A i \in DOMAIN txs[b].todo : txs[b].todo[i] \in txs[b].locks
      /\ txs[b].creates \subseteq txs[b].marks
      /\ txs[b].marks \subseteq txs[b].locks
      /\ \A d \in txs[b].marks : d \in txs[b].creates \/ jobs[d] = 1
  BY <1>1 DEF DispatchOK
<1>3. \A d \in txs[b].marks : d \in txs[b].creates \/ jobs'[d] = 1
  BY <1>1, <1>2
<1> QED  BY <1>1, <1>2, <1>3 DEF DispatchOK

(* So does a creation. *)
LEMMA MapKept ==
  ASSUME NEW b, MapOK(b), txs'[b] = txs[b], Committed \subseteq Committed'
  PROVE  MapOK(b)'
<1> SUFFICES ASSUME Open(b)' PROVE MapOK(b)'
  BY DEF MapOK
<1>1. Open(b)
  BY DEF Open
<1> QED  BY <1>1 DEF MapOK

(* Nothing holds at first. *)
LEMMA MappingInit == OutboxInit => MappingInv
<1> SUFFICES ASSUME OutboxInit PROVE MappingInv
  OBVIOUS
<1>1. OutboxTyped
  BY TypedInit
<1>2. Existing = {}
  BY DEF OutboxInit, Existing
<1>3. \A c \in Clients : txs[c] = Idle /\ ~Open(c)
  BY DEF OutboxInit, Open, Idle
<1>4. FreshPending
  BY <1>2 DEF FreshPending
<1>5. JobsSingle
  BY <1>3 DEF JobsSingle, OutboxInit
<1>6. LocksExclude
  BY <1>3, Roles DEF LocksExclude
<1> QED  BY <1>1, <1>3, <1>4, <1>5, <1>6, IdleOK, Roles DEF MappingInv

(* A step of one client's call that locks and creates what is free. *)
LEMMA MappingOwn ==
  ASSUME MappingInv, OutboxTyped', NEW c \in Clients, NEW t,
         txs' = [txs EXCEPT ![c] = t], UNCHANGED <<rows, jobs>>,
         c \in Dispatchers => DispatchOK(c)',
         c \in Mappers => MapOK(c)',
         c \in Dispatchers => \A b \in Dispatchers \ {c} : Open(b) => t.locks \cap txs[b].locks = {},
         \A d \in t.creates : d \in DeltaIDs /\ jobs[d] = 0 /\ Creators(d) \subseteq {c}
  PROVE  MappingInv'
<1>1. OutboxTyped
  BY DEF MappingInv
<1>2. txs'[c] = t /\ \A b \in Clients \ {c} : txs'[b] = txs[b]
  BY <1>1 DEF OutboxTyped, OutboxTypeOK
<1>3. Existing' = Existing /\ Committed' = Committed
  BY QuietStays
<1>4. FreshPending'
  BY <1>3 DEF MappingInv, FreshPending, Existing
<1>5. \A b \in Dispatchers : DispatchOK(b)'
  <2>1. ASSUME NEW b \in Dispatchers, b # c PROVE DispatchOK(b)'
    <3>1. txs'[b] = txs[b] /\ DispatchOK(b)
      BY <1>2, <2>1, Roles DEF MappingInv
    <3>2. Open(b) => \A d \in txs[b].locks : d \in Committed' /\ rows'[d].state = "pending"
      BY <1>3, <3>1 DEF DispatchOK
    <3> QED  BY <3>1, <3>2, DispatchKept
  <2> QED  BY <2>1
<1>6. \A b \in Mappers : MapOK(b)'
  <2>1. ASSUME NEW b \in Mappers, b # c PROVE MapOK(b)'
    BY <1>2, <1>3, <2>1, MapKept, Roles DEF MappingInv
  <2> QED  BY <2>1
<1>7. JobsSingle'
  <2>1. \A d \in DeltaIDs : jobs'[d] \in {0, 1}
    BY DEF MappingInv, JobsSingle
  <2>2. ASSUME NEW b \in Clients, Open(b)', NEW d \in txs'[b].creates
        PROVE  jobs'[d] = 0 /\ Creators(d)' = {b}
    <3>1. CASE b = c
      <4>1. d \in t.creates
        BY <1>2, <2>2, <3>1
      <4>2. jobs[d] = 0 /\ Creators(d) \subseteq {c}
        BY <4>1
      <4>3. \A e \in Clients \ {c} : ~(Open(e)' /\ d \in txs'[e].creates)
        BY <1>2, <4>2 DEF Creators, Open
      <4>4. \A e \in Clients : Open(e)' /\ d \in txs'[e].creates <=> e = c
        BY <2>2, <3>1, <4>3
      <4> QED  BY <3>1, <4>2, <4>4 DEF Creators
    <3>2. CASE b # c
      <4>1. Open(b) /\ d \in txs[b].creates
        BY <1>2, <2>2, <3>2 DEF Open
      <4>2. jobs[d] = 0 /\ Creators(d) = {b}
        BY <4>1 DEF MappingInv, JobsSingle
      <4>3. d \notin t.creates
        BY <3>2, <4>2
      <4>4. \A e \in Clients \ {c} : Open(e)' /\ d \in txs'[e].creates <=> e = b
        BY <1>2, <4>2 DEF Creators, Open
      <4>5. \A e \in Clients : Open(e)' /\ d \in txs'[e].creates <=> e = b
        BY <1>2, <3>2, <4>3, <4>4
      <4> QED  BY <4>2, <4>5 DEF Creators
    <3> QED  BY <3>1, <3>2
  <2> QED  BY <2>1, <2>2 DEF JobsSingle
<1>8. LocksExclude'
  <2> SUFFICES ASSUME NEW a \in Dispatchers, NEW b \in Dispatchers,
                      Open(a)', Open(b)', a # b
               PROVE  txs'[a].locks \cap txs'[b].locks = {}
    BY DEF LocksExclude
  <2>1. a \in Clients /\ b \in Clients
    BY Roles
  <2>2. CASE a = c
    BY <1>2, <2>1, <2>2 DEF Open
  <2>3. CASE b = c
    BY <1>2, <2>1, <2>3 DEF Open
  <2>4. CASE a # c /\ b # c
    BY <1>2, <2>1, <2>4 DEF Open, MappingInv, LocksExclude
  <2> QED  BY <2>2, <2>3, <2>4
<1> QED  BY <1>4, <1>5, <1>6, <1>7, <1>8 DEF MappingInv

(* The calls of the others at the end of a transaction. *)
LEMMA OthersGoOn ==
  ASSUME MappingInv, NEW c \in Clients, txs' = [txs EXCEPT ![c] = Idle]
  PROVE  /\ ~Open(c)'
         /\ \A b \in Clients \ {c} : txs'[b] = txs[b]
         /\ \A d : Creators(d)' = Creators(d) \ {c}
         /\ LocksExclude'
<1>1. txs'[c] = Idle /\ \A b \in Clients \ {c} : txs'[b] = txs[b]
  BY DEF MappingInv, OutboxTyped, OutboxTypeOK
<1>2. ~Open(c)'
  BY <1>1, IdleOK
<1>3. \A d : Creators(d)' = Creators(d) \ {c}
  BY <1>1, <1>2 DEF Creators, Open
<1>4. LocksExclude'
  BY <1>1, <1>2, Roles DEF MappingInv, LocksExclude, Open
<1> QED  BY <1>1, <1>2, <1>3, <1>4

(* What the client of an open call has locked, marks and creates. *)
LEMMA OwnMarks ==
  ASSUME MappingInv, NEW c \in Clients, Open(c)
  PROVE  /\ txs[c].marks \subseteq txs[c].locks
         /\ \A d \in txs[c].locks : d \in Committed /\ rows[d].state = "pending"
         /\ \A b \in Dispatchers \ {c} : Open(b) => txs[c].locks \cap txs[b].locks = {}
         /\ \A d \in txs[c].creates : jobs[d] = 0 /\ Creators(d) = {c}
         /\ txs[c].creates \subseteq DeltaIDs
<1>1. OutboxTyped
  BY DEF MappingInv
<1>2. \A d \in txs[c].creates : jobs[d] = 0 /\ Creators(d) = {c}
  BY DEF MappingInv, JobsSingle
<1>3. txs[c] \in EnqueueTx \/ txs[c] \in MappingTx
  BY <1>1, TxShape, Roles
<1>4. txs[c].creates \subseteq DeltaIDs
  BY <1>3, TxFields
<1>5. CASE c \in Producers
  BY <1>1, <1>2, <1>4, <1>5, TxShape, TxFields
<1>6. CASE c \in Mappers
  BY <1>2, <1>4, <1>6 DEF MappingInv, MapOK
<1>7. CASE c \in Dispatchers
  <2>1. /\ txs[c].marks \subseteq txs[c].locks
        /\ \A d \in txs[c].locks : d \in Committed /\ rows[d].state = "pending"
    BY <1>7 DEF MappingInv, DispatchOK
  <2>2. \A b \in Dispatchers \ {c} : Open(b) => txs[c].locks \cap txs[b].locks = {}
    BY <1>7 DEF MappingInv, LocksExclude
  <2> QED  BY <1>2, <1>4, <2>1, <2>2
<1> QED  BY <1>5, <1>6, <1>7, Roles

(* A commit. *)
LEMMA MappingCommit ==
  ASSUME MappingInv, OutboxTyped', NEW c \in Clients, Open(c), Commit(c)
  PROVE  MappingInv'
<1>1. OutboxTyped
  BY DEF MappingInv
<1>2. /\ Existing' = Existing
      /\ \A d \in Existing :
           /\ rows'[d].state = IF d \in txs[c].marks THEN "dispatched" ELSE rows[d].state
           /\ rows'[d].writer = IF rows[d].writer = c THEN DB ELSE rows[d].writer
  BY <1>1, CommitRows
<1>3. Committed \subseteq Committed'
  BY <1>2 DEF Committed
<1>4. txs' = [txs EXCEPT ![c] = Idle]
  BY DEF Commit
<1>5. /\ ~Open(c)'
      /\ \A b \in Clients \ {c} : txs'[b] = txs[b]
      /\ \A d : Creators(d)' = Creators(d) \ {c}
      /\ LocksExclude'
  BY <1>4, OthersGoOn
<1>6. /\ txs[c].marks \subseteq txs[c].locks
      /\ \A d \in txs[c].locks : d \in Committed /\ rows[d].state = "pending"
      /\ \A b \in Dispatchers \ {c} : Open(b) => txs[c].locks \cap txs[b].locks = {}
      /\ \A d \in txs[c].creates : jobs[d] = 0 /\ Creators(d) = {c}
  BY OwnMarks
<1>7. \A d \in DeltaIDs : jobs'[d] = IF d \in txs[c].creates THEN 1 ELSE jobs[d]
  <2>1. \A d \in DeltaIDs : jobs'[d] = jobs[d] + IF d \in txs[c].creates THEN 1 ELSE 0
    BY DEF Commit
  <2>2. \A d \in DeltaIDs : jobs[d] \in Nat
    BY <1>1 DEF OutboxTyped, OutboxTypeOK
  <2> QED  BY <1>6, <2>1, <2>2
<1>8. FreshPending'
  <2> SUFFICES ASSUME NEW d \in Existing', d \notin Committed' PROVE rows'[d].state = "pending"
    BY DEF FreshPending
  <2>1. d \in Existing /\ d \notin Committed
    BY <1>2, <1>3
  <2>2. d \notin txs[c].marks
    BY <1>6, <2>1
  <2> QED  BY <1>2, <2>1, <2>2 DEF MappingInv, FreshPending
<1>9. ASSUME NEW b \in Dispatchers PROVE DispatchOK(b)'
  <2>1. CASE b = c
    BY <1>5, <2>1 DEF DispatchOK
  <2>2. CASE b # c
    <3>1. txs'[b] = txs[b] /\ DispatchOK(b) /\ b \in Clients
      BY <1>5, <2>2, Roles DEF MappingInv
    <3>2. ASSUME Open(b), NEW d \in txs[b].locks
          PROVE  d \in Committed' /\ rows'[d].state = "pending"
      <4>1. d \in Committed /\ rows[d].state = "pending"
        BY <3>1, <3>2 DEF DispatchOK
      <4>2. d \notin txs[c].marks
        BY <1>6, <2>2, <3>2
      <4>3. d \in Existing
        BY <4>1 DEF Committed
      <4> QED  BY <1>2, <1>3, <4>1, <4>2, <4>3
    <3>3. ASSUME Open(b), NEW d \in txs[b].marks \ txs[b].creates
          PROVE  jobs'[d] = jobs[d]
      <4>1. jobs[d] = 1 /\ d \in Committed
        BY <3>1, <3>3 DEF DispatchOK
      <4>2. d \notin txs[c].creates
        BY <1>6, <4>1
      <4>3. d \in DeltaIDs
        BY <4>1 DEF Committed, Existing
      <4> QED  BY <1>7, <4>2, <4>3
    <3> QED  BY <3>1, <3>2, <3>3, DispatchKept
  <2> QED  BY <2>1, <2>2
<1>10. ASSUME NEW b \in Mappers PROVE MapOK(b)'
  <2>1. CASE b = c
    BY <1>5, <2>1 DEF MapOK
  <2>2. CASE b # c
    BY <1>3, <1>5, <2>2, MapKept, Roles DEF MappingInv
  <2> QED  BY <2>1, <2>2
<1>11. JobsSingle'
  <2>1. \A d \in DeltaIDs : jobs'[d] \in {0, 1}
    BY <1>7 DEF MappingInv, JobsSingle
  <2>2. ASSUME NEW b \in Clients, Open(b)', NEW d \in txs'[b].creates
        PROVE  jobs'[d] = 0 /\ Creators(d)' = {b}
    <3>1. b # c /\ txs'[b] = txs[b]
      BY <1>5, <2>2
    <3>2. Open(b) /\ d \in txs[b].creates
      BY <2>2, <3>1 DEF Open
    <3>3. jobs[d] = 0 /\ Creators(d) = {b} /\ d \in DeltaIDs
      BY <3>2, OwnMarks
    <3>4. d \notin txs[c].creates
      BY <1>6, <3>1, <3>3
    <3> QED  BY <1>5, <1>7, <3>1, <3>3, <3>4
  <2> QED  BY <2>1, <2>2 DEF JobsSingle
<1> QED  BY <1>5, <1>8, <1>9, <1>10, <1>11 DEF MappingInv

(* A rollback. *)
LEMMA MappingRollback ==
  ASSUME MappingInv, OutboxTyped', NEW c \in Clients, Rollback(c)
  PROVE  MappingInv'
<1>1. OutboxTyped
  BY DEF MappingInv
<1>2. /\ Existing' = Existing \ WrittenBy(c)
      /\ \A d \in Existing' : rows'[d] = rows[d]
  BY <1>1, RollbackRows
<1>3. Committed' = Committed
  BY <1>2, Roles DEF Committed, WrittenBy
<1>4. txs' = [txs EXCEPT ![c] = Idle] /\ UNCHANGED jobs
  BY DEF Rollback
<1>5. /\ ~Open(c)'
      /\ \A b \in Clients \ {c} : txs'[b] = txs[b]
      /\ \A d : Creators(d)' = Creators(d) \ {c}
      /\ LocksExclude'
  BY <1>4, OthersGoOn
<1>6. FreshPending'
  BY <1>2, <1>3 DEF MappingInv, FreshPending
<1>7. ASSUME NEW b \in Dispatchers PROVE DispatchOK(b)'
  <2>1. CASE b = c
    BY <1>5, <2>1 DEF DispatchOK
  <2>2. CASE b # c
    <3>1. txs'[b] = txs[b] /\ DispatchOK(b)
      BY <1>5, <2>2, Roles DEF MappingInv
    <3>2. ASSUME Open(b), NEW d \in txs[b].locks
          PROVE  d \in Committed' /\ rows'[d].state = "pending"
      <4>1. d \in Committed' /\ rows[d].state = "pending"
        BY <1>3, <3>1, <3>2 DEF DispatchOK
      <4> QED  BY <1>2, <4>1 DEF Committed
    <3> QED  BY <1>4, <3>1, <3>2, DispatchKept
  <2> QED  BY <2>1, <2>2
<1>8. ASSUME NEW b \in Mappers PROVE MapOK(b)'
  <2>1. CASE b = c
    BY <1>5, <2>1 DEF MapOK
  <2>2. CASE b # c
    BY <1>3, <1>5, <2>2, MapKept, Roles DEF MappingInv
  <2> QED  BY <2>1, <2>2
<1>9. JobsSingle'
  <2>2. ASSUME NEW b \in Clients, Open(b)', NEW d \in txs'[b].creates
        PROVE  jobs'[d] = 0 /\ Creators(d)' = {b}
    <3>1. b # c /\ txs'[b] = txs[b]
      BY <1>5, <2>2
    <3>2. Open(b) /\ d \in txs[b].creates
      BY <2>2, <3>1 DEF Open
    <3>3. jobs[d] = 0 /\ Creators(d) = {b}
      BY <3>2, OwnMarks
    <3> QED  BY <1>4, <1>5, <3>1, <3>3
  <2> QED  BY <1>4, <2>2 DEF JobsSingle, MappingInv
<1> QED  BY <1>5, <1>6, <1>7, <1>8, <1>9 DEF MappingInv

(* An enqueue locks, creates and marks nothing. *)
LEMMA MappingEnqueue ==
  ASSUME MappingInv, OutboxTyped', NEW c \in Producers, NEW t \in EnqueueTx,
         txs' = [txs EXCEPT ![c] = t], UNCHANGED <<rows, jobs>>
  PROVE  MappingInv'
<1>1. c \in Clients /\ c \notin Dispatchers /\ c \notin Mappers
  BY Roles
<1>2. t.creates = {}
  BY TxFields
<1> QED  BY <1>1, <1>2, MappingOwn

(* An insert adds a pending row. *)
LEMMA MappingInsert ==
  ASSUME MappingInv, OutboxTyped', NEW c \in Producers, InsertDelta(c)
  PROVE  MappingInv'
<1> DEFINE item == Head(txs[c].todo)
<1>1. OutboxTyped /\ c \in Clients
  BY Roles DEF MappingInv
<1>2. /\ Open(c) /\ txs[c].todo # <<>> /\ item \in Item
      /\ UNCHANGED <<jobs, acked, aborts>>
      /\ \/ /\ \/ txs' = [txs EXCEPT ![c] = Reread(c)]
               \/ txs' = [txs EXCEPT ![c] = NextItem(c)]
            /\ UNCHANGED rows
         \/ /\ txs' = [txs EXCEPT ![c] = NextItem(c)]
            /\ \E d \in DeltaIDs \ Existing : rows' = [rows EXCEPT ![d] = NewRow(item, c)]
  BY <1>1, InsertStep
<1>3. NextItem(c) \in EnqueueTx /\ Reread(c) \in EnqueueTx
  BY <1>1, <1>2, EnqueueGoesOn
<1>4. CASE UNCHANGED rows
  BY <1>2, <1>3, <1>4, MappingEnqueue
<1>5. CASE /\ txs' = [txs EXCEPT ![c] = NextItem(c)]
           /\ \E d \in DeltaIDs \ Existing : rows' = [rows EXCEPT ![d] = NewRow(item, c)]
  <2> PICK d \in DeltaIDs \ Existing : rows' = [rows EXCEPT ![d] = NewRow(item, c)]
    BY <1>5
  <2>1. /\ Existing' = Existing \cup {d}
        /\ \A e \in Existing : rows'[e] = rows[e]
        /\ rows'[d].writer = c /\ rows'[d].state = "pending"
    BY <1>1, <1>2, InsertRows
  <2>2. Committed' = Committed
    BY <1>1, <2>1, Roles DEF Committed
  <2>3. FreshPending'
    BY <2>1, <2>2 DEF FreshPending, MappingInv
  <2>4. txs'[c] \in EnqueueTx /\ \A b \in Clients \ {c} : txs'[b] = txs[b]
    BY <1>1, <1>3, <1>5 DEF OutboxTyped, OutboxTypeOK
  <2>5. c \notin Dispatchers /\ c \notin Mappers /\ c \in Clients
    BY Roles
  <2>6. txs[c].creates = {} /\ txs'[c].creates = {}
    BY <1>1, <1>2, <2>4, TxShape, TxFields, Roles
  <2>7. \A e : Creators(e)' = Creators(e)
    BY <2>4, <2>6 DEF Creators, Open
  <2>8. ASSUME NEW b \in Dispatchers PROVE DispatchOK(b)'
    <3>1. txs'[b] = txs[b] /\ DispatchOK(b)
      BY <2>4, <2>5, Roles DEF MappingInv
    <3>2. Open(b) => \A e \in txs[b].locks : e \in Committed' /\ rows'[e].state = "pending"
      BY <2>1, <2>2, <3>1 DEF DispatchOK, Committed
    <3> QED  BY <1>2, <3>1, <3>2, DispatchKept
  <2>9. ASSUME NEW b \in Mappers PROVE MapOK(b)'
    BY <2>2, <2>4, <2>5, MapKept, Roles DEF MappingInv
  <2>10. JobsSingle'
    <3>1. ASSUME NEW b \in Clients, Open(b)', NEW e \in txs'[b].creates
          PROVE  jobs'[e] = 0 /\ Creators(e)' = {b}
      <4>1. txs'[b] = txs[b]
        BY <2>4, <2>6, <3>1
      <4> QED  BY <1>2, <2>7, <3>1, <4>1 DEF Open, MappingInv, JobsSingle
    <3> QED  BY <1>2, <3>1 DEF JobsSingle, MappingInv
  <2>11. LocksExclude'
    BY <2>4, <2>5, Roles DEF LocksExclude, MappingInv, Open
  <2> QED  BY <2>3, <2>8, <2>9, <2>10, <2>11 DEF MappingInv
<1> QED  BY <1>2, <1>4, <1>5

(* A dispatch locks what no other has locked. *)
LEMMA MappingBegin ==
  ASSUME MappingInv, OutboxTyped', NEW c \in Dispatchers, NEW s, NEW n, BeginDispatch(c, s, n)
  PROVE  MappingInv'
<1>1. OutboxTyped /\ c \in Clients /\ c \notin Mappers
  BY Roles DEF MappingInv
<1>2. PICK C \in SUBSET Unlocked(s), q \in Seq(DeltaIDs) :
        /\ \A i \in DOMAIN q : q[i] \in C
        /\ txs' = [txs EXCEPT ![c] = DispatchBegun(C, q)]
  BY <1>1, BeginDispatchStep
<1>3. UNCHANGED <<rows, jobs>>
  BY DEF BeginDispatch
<1> DEFINE t == DispatchBegun(C, q)
<1>4. t.locks = C /\ t.todo = q /\ t.creates = {} /\ t.marks = {}
  BY DEF DispatchBegun
<1> HIDE DEF t
<1>5. txs'[c] = t
  BY <1>1, <1>2 DEF OutboxTyped, OutboxTypeOK, t
<1>6. \A d \in C : d \in Committed /\ rows[d].state = "pending" /\ ~InUse(d)
  BY DEF Unlocked, PendingDeltas
<1>7. DispatchOK(c)'
  BY <1>2, <1>3, <1>4, <1>5, <1>6, QuietStays DEF DispatchOK
<1>8. \A b \in Dispatchers \ {c} : Open(b) => t.locks \cap txs[b].locks = {}
  BY <1>4, <1>6, Roles DEF InUse
<1>9. txs' = [txs EXCEPT ![c] = t]
  BY <1>2 DEF t
<1> QED  BY <1>1, <1>3, <1>4, <1>7, <1>8, <1>9, MappingOwn

(* A dispatch creates a job only where there is none. *)
LEMMA MappingStage ==
  ASSUME MappingInv, OutboxTyped', NEW c \in Dispatchers, StageDelta(c)
  PROVE  MappingInv'
<1>1. OutboxTyped /\ c \in Clients /\ c \notin Mappers
  BY Roles DEF MappingInv
<1>2. PICK d \in DeltaIDs, t \in MappingTx :
           /\ Open(c) /\ txs[c].todo # <<>>
           /\ d = Head(txs[c].todo) /\ Creators(d) \subseteq {c}
           /\ t.locks = txs[c].locks /\ t.todo = Tail(txs[c].todo)
           /\ t.creates = IF jobs[d] = 0 THEN txs[c].creates \cup {d} ELSE txs[c].creates
           /\ t.marks = txs[c].marks \cup {d}
           /\ txs' = [txs EXCEPT ![c] = t]
           /\ UNCHANGED <<rows, jobs>>
  BY <1>1, StageStep
<1>3. txs'[c] = t
  BY <1>1, <1>2 DEF OutboxTyped, OutboxTypeOK
<1>4. /\ \A e \in txs[c].locks : e \in Committed /\ rows[e].state = "pending"
      /\ \A i \in DOMAIN txs[c].todo : txs[c].todo[i] \in txs[c].locks
      /\ txs[c].creates \subseteq txs[c].marks
      /\ txs[c].marks \subseteq txs[c].locks
      /\ \A e \in txs[c].marks : e \in txs[c].creates \/ jobs[e] = 1
  BY <1>2 DEF MappingInv, DispatchOK
<1>5. txs[c].todo \in Seq(DeltaIDs)
  BY <1>1, <1>2, TxShape, TxFields
<1>6. d \in txs[c].locks /\ \A i \in DOMAIN t.todo : t.todo[i] \in txs[c].locks
  BY <1>2, <1>4, <1>5, HeadTail
<1>7. jobs[d] = 0 \/ jobs[d] = 1
  BY DEF MappingInv, JobsSingle
<1>8. DispatchOK(c)'
  <2>1. /\ t.creates \subseteq t.marks /\ t.marks \subseteq t.locks
        /\ \A e \in t.marks : e \in t.creates \/ jobs[e] = 1
    BY <1>2, <1>4, <1>6, <1>7
  <2>2. \A e \in t.locks : e \in Committed' /\ rows'[e].state = "pending"
    BY <1>2, <1>4, QuietStays
  <2>3. \A i \in DOMAIN t.todo : t.todo[i] \in t.locks
    BY <1>2, <1>6
  <2> QED  BY <1>2, <1>3, <2>1, <2>2, <2>3 DEF DispatchOK
<1>9. \A b \in Dispatchers \ {c} : Open(b) => t.locks \cap txs[b].locks = {}
  BY <1>1, <1>2, OwnMarks
<1>10. \A e \in t.creates : e \in DeltaIDs /\ jobs[e] = 0 /\ Creators(e) \subseteq {c}
  <2> SUFFICES ASSUME NEW e \in t.creates
               PROVE  e \in DeltaIDs /\ jobs[e] = 0 /\ Creators(e) \subseteq {c}
    OBVIOUS
  <2>1. CASE e \in txs[c].creates
    BY <1>1, <1>2, <2>1, OwnMarks
  <2>2. CASE e \notin txs[c].creates
    <3>1. e = d /\ jobs[d] = 0
      BY <1>2, <2>2
    <3> QED  BY <1>2, <3>1
  <2> QED  BY <2>1, <2>2
<1> QED  BY <1>1, <1>2, <1>8, <1>9, <1>10, MappingOwn

(* A creation inserts a job only where there is none. *)
LEMMA MappingCreate ==
  ASSUME MappingInv, OutboxTyped', NEW c \in Mappers, NEW d \in DeltaIDs, InsertJob(c, d)
  PROVE  MappingInv'
<1> DEFINE t == CreateBegun(d)
<1>1. OutboxTyped /\ c \in Clients /\ c \notin Dispatchers
  BY Roles DEF MappingInv
<1>2. /\ txs' = [txs EXCEPT ![c] = t]
      /\ d \in Committed /\ Creators(d) = {} /\ jobs[d] = 0
      /\ UNCHANGED <<rows, jobs>>
  BY <1>1, InsertJobStep
<1>3. t.todo = <<d>> /\ t.locks = {} /\ t.marks = {} /\ t.creates = {d}
  BY DEF CreateBegun
<1> HIDE DEF t
<1>4. txs'[c] = t
  BY <1>1, <1>2 DEF OutboxTyped, OutboxTypeOK
<1>5. MapOK(c)'
  BY <1>2, <1>3, <1>4, QuietStays DEF MapOK
<1>6. \A e \in t.creates : e \in DeltaIDs /\ jobs[e] = 0 /\ Creators(e) \subseteq {c}
  BY <1>2, <1>3
<1> QED  BY <1>1, <1>2, <1>5, <1>6, MappingOwn

(* Every step keeps the invariant. *)
LEMMA MappingStep == MappingInv /\ [OutboxNext]_outboxVars => MappingInv'
<1> SUFFICES ASSUME MappingInv, [OutboxNext]_outboxVars PROVE MappingInv'
  OBVIOUS
<1>0. OutboxTyped /\ OutboxTyped'
  BY TypedStep DEF MappingInv
<1>1. CASE UNCHANGED outboxVars
  <2>1. UNCHANGED <<rows, jobs, txs>>
    BY <1>1 DEF outboxVars
  <2>2. /\ Existing' = Existing /\ Committed' = Committed
        /\ \A d : Creators(d)' = Creators(d)
        /\ \A b : Open(b)' <=> Open(b)
    BY <2>1 DEF Existing, Committed, Creators, Open
  <2>3. FreshPending' /\ JobsSingle' /\ LocksExclude'
    BY <2>1, <2>2 DEF MappingInv, FreshPending, JobsSingle, LocksExclude
  <2>4. (\A b \in Dispatchers : DispatchOK(b)') /\ (\A b \in Mappers : MapOK(b)')
    BY <2>1, <2>2 DEF MappingInv, DispatchOK, MapOK
  <2> QED  BY <1>0, <2>3, <2>4 DEF MappingInv
<1>2. CASE \E c \in Producers : \E call \in Inputs[c] : BeginEnqueue(c, call)
  <2> PICK c \in Producers : \E call \in Inputs[c] : BeginEnqueue(c, call)
    BY <1>2
  <2> PICK call \in Inputs[c] : BeginEnqueue(c, call)
    OBVIOUS
  <2>1. /\ EnqueueBegun(call.op, call.items) \in EnqueueTx
        /\ txs' = [txs EXCEPT ![c] = EnqueueBegun(call.op, call.items)]
        /\ UNCHANGED <<rows, jobs>>
    BY <1>0, BeginEnqueueStep
  <2> QED  BY <1>0, <2>1, MappingEnqueue
<1>3. CASE \E c \in Producers : InsertDelta(c)
  BY <1>0, <1>3, MappingInsert
<1>4. CASE \E c \in Producers : ReadTwin(c)
  <2> PICK c \in Producers : ReadTwin(c)
    BY <1>4
  <2>1. /\ Open(c) /\ txs[c].stage = "read"
        /\ txs' = [txs EXCEPT ![c] = NextItem(c)] /\ UNCHANGED <<rows, jobs>>
    BY DEF ReadTwin
  <2>2. txs[c].todo # <<>>
    <3>1. txs[c].op \in Enqueues
      BY <1>0, <2>1, TxShape, TxFields, Roles
    <3> QED  BY <1>0, <2>1, <3>1 DEF OutboxTyped, RolesKept
  <2>3. NextItem(c) \in EnqueueTx
    BY <1>0, <2>1, <2>2, EnqueueGoesOn
  <2> QED  BY <1>0, <2>1, <2>3, MappingEnqueue
<1>5. CASE \E c \in Dispatchers, s \in Syncs, n \in PullLimits : BeginDispatch(c, s, n)
  BY <1>0, <1>5, MappingBegin
<1>6. CASE \E c \in Dispatchers : StageDelta(c)
  BY <1>0, <1>6, MappingStage
<1>7. CASE \E c \in Mappers, d \in DeltaIDs : InsertJob(c, d)
  BY <1>0, <1>7, MappingCreate
<1>8. CASE \E c \in Mappers, d \in DeltaIDs : MarkDispatched(c, d)
  <2> PICK c \in Mappers, d \in DeltaIDs : MarkDispatched(c, d)
    BY <1>8
  <2>1. d \in Committed /\ ~InUse(d) /\ rows' = [rows EXCEPT ![d].state = "dispatched"]
        /\ UNCHANGED <<jobs, txs, acked, aborts>>
    BY DEF MarkDispatched
  <2>2. /\ Existing' = Existing
        /\ \A e \in DeltaIDs \ {d} : rows'[e] = rows[e]
        /\ rows'[d].writer = DB /\ rows[d].writer = DB
    BY <1>0, <2>1, MarkRows DEF Committed
  <2>3. Committed' = Committed
    BY <2>2 DEF Committed, Existing
  <2>4. FreshPending'
    <3>1. d \in Committed'
      BY <2>1, <2>3
    <3>2. \A e \in Existing \ {d} : rows'[e].state = rows[e].state
      BY <2>2 DEF Existing
    <3> QED  BY <2>2, <2>3, <3>1, <3>2 DEF MappingInv, FreshPending
  <2>5. ASSUME NEW b \in Dispatchers PROVE DispatchOK(b)'
    <3>1. DispatchOK(b) /\ b \in Clients
      BY Roles DEF MappingInv
    <3>2. ASSUME Open(b), NEW e \in txs[b].locks
          PROVE  e \in Committed' /\ rows'[e].state = "pending"
      <4>1. e \in Committed /\ rows[e].state = "pending"
        BY <3>1, <3>2 DEF DispatchOK
      <4>2. e # d
        BY <2>1, <3>1, <3>2 DEF InUse
      <4>3. e \in DeltaIDs
        BY <4>1 DEF Committed, Existing
      <4> QED  BY <2>2, <2>3, <4>1, <4>2, <4>3
    <3> QED  BY <2>1, <3>1, <3>2, DispatchKept
  <2>6. \A b \in Mappers : MapOK(b)'
    BY <2>1, <2>3, MapKept DEF MappingInv
  <2>7. JobsSingle' /\ LocksExclude'
    <3>1. (\A e : Creators(e)' = Creators(e)) /\ (\A b : Open(b)' <=> Open(b))
      BY <2>1 DEF Creators, Open
    <3> QED  BY <2>1, <3>1 DEF MappingInv, JobsSingle, LocksExclude
  <2> QED  BY <1>0, <2>4, <2>5, <2>6, <2>7 DEF MappingInv
<1>9. CASE \E c \in Clients : Open(c) /\ Commit(c) /\ UNCHANGED aborts
  BY <1>0, <1>9, MappingCommit
<1>10. CASE \E c \in Clients : Open(c) /\ Rollback(c) /\ aborts' \in 0..MaxAborts
  BY <1>0, <1>10, MappingRollback
<1> QED
  BY <1>0, <1>1, <1>2, <1>3, <1>4, <1>5, <1>6, <1>7, <1>8, <1>9, <1>10, OutboxCases

(* The invariant holds in every reachable state. *)
THEOREM MappingInvariant == OutboxSpec => []MappingInv
  BY MappingInit, MappingStep, PTL DEF OutboxSpec

(* Who waits for whom, by the roles. *)
LEMMA WaitsFollow == MappingInv => WaitsAreConfined
<1> SUFFICES ASSUME MappingInv PROVE WaitsAreConfined
  OBVIOUS
<1>1. OutboxTyped
  BY DEF MappingInv
<1>2. ASSUME NEW c \in Dispatchers, NEW e \in WaitsFor(c) PROVE e \in Mappers
  <2> DEFINE d == Head(txs[c].todo)
  <2>1. c \in Clients
    BY Roles
  <2>2. Open(c) /\ txs[c].todo # <<>>
    BY <1>2 DEF WaitsFor
  <2>3. txs[c] \in MappingTx /\ txs[c].op = "dispatch"
    BY <1>1, <2>1, <2>2, TxShape
  <2>4. e \in Creators(d) \ {c}
    BY <1>2, <2>3 DEF WaitsFor
  <2>5. d \in txs[c].locks
    <3>1. txs[c].todo \in Seq(DeltaIDs)
      BY <2>3, TxFields
    <3> QED  BY <2>2, <3>1, HeadTail DEF MappingInv, DispatchOK
  <2>6. e \in Clients /\ Open(e) /\ d \in txs[e].creates /\ e # c
    BY <2>4 DEF Creators
  <2>7. e \notin Dispatchers
    <3>1. e \in Dispatchers => d \in txs[e].locks
      BY <2>6 DEF MappingInv, DispatchOK
    <3> QED  BY <2>2, <2>5, <2>6, <3>1 DEF MappingInv, LocksExclude
  <2>8. e \notin Producers
    BY <1>1, <2>6, TxShape, TxFields
  <2> QED  BY <2>6, <2>7, <2>8, Roles
<1>3. ASSUME NEW c \in Producers, NEW e \in WaitsFor(c) PROVE e \in Producers
  <2>1. c \in Clients /\ Open(c)
    BY <1>3, Roles DEF WaitsFor
  <2>2. txs[c].op \notin {"dispatch", "create"}
    BY <1>1, <2>1, TxShape, TxFields DEF Enqueues
  <2>3. PICK d \in Rivals(DedupKey(Head(txs[c].todo)), c) : e = rows[d].writer
    BY <1>3, <2>2 DEF WaitsFor
  <2>4. d \in Existing /\ rows[d].writer # DB
    BY <2>3 DEF Rivals
  <2> QED  BY <1>1, <2>3, <2>4 DEF OutboxTyped, RolesKept
<1>4. ASSUME NEW c \in Mappers, NEW e \in WaitsFor(c) PROVE e \in Dispatchers
  <2>1. c \in Clients /\ Open(c)
    BY <1>4, Roles DEF WaitsFor
  <2>2. txs[c].op = "create"
    BY <1>1, <2>1, TxShape
  <2>3. e \in Clients /\ Open(e) /\ txs[e].locks # {}
    BY <1>4, <2>2 DEF WaitsFor
  <2>4. e \notin Producers
    BY <1>1, <2>3, TxShape, TxFields
  <2>5. e \notin Mappers
    BY <2>3 DEF MappingInv, MapOK
  <2> QED  BY <2>3, <2>4, <2>5, Roles
<1> QED  BY <1>2, <1>3, <1>4 DEF WaitsAreConfined

(* Dispatchers wait for direct creations only, and never for each other or  *)
(* for an enqueue: a deadlock of DispatchPending needs a caller of Create.  *)
THEOREM DispatchersDoNotWait == OutboxSpec => []WaitsAreConfined
  BY MappingInvariant, WaitsFollow, PTL

(* A dispatch takes the oldest deltas of its sync that are not locked.      *)
THEOREM OldestFirst == OutboxSpec => PullsInOrder
<1>1. OutboxTyped /\ [OutboxNext]_outboxVars =>
        [\A c \in Dispatchers : txs[c] = Idle /\ txs'[c] # Idle =>
           \A d \in txs'[c].locks, e \in Committed :
             /\ rows[e].state = "pending" /\ rows[e].sync = rows[d].sync
             /\ rows[e].at < rows[d].at
             => \E b \in Clients : Open(b)' /\ e \in txs'[b].locks]_outboxVars
  <2> SUFFICES ASSUME OutboxTyped, [OutboxNext]_outboxVars, NEW c \in Dispatchers,
                      txs[c] = Idle, txs'[c] # Idle, NEW d \in txs'[c].locks,
                      NEW e \in Committed, rows[e].state = "pending",
                      rows[e].sync = rows[d].sync, rows[e].at < rows[d].at
               PROVE  \E b \in Clients : Open(b)' /\ e \in txs'[b].locks
    OBVIOUS
  <2>0. txs = [b \in Clients |-> txs[b]] /\ c \in Clients /\ c \notin Producers /\ c \notin Mappers
    BY Roles DEF OutboxTyped, OutboxTypeOK
  <2>1. ~Open(c)
    BY DEF Open, Idle
  <2>2. \A b \in Clients : \A t : txs' = [txs EXCEPT ![b] = t] => b = c
    BY <2>0
  <2>3. PICK s \in Syncs, n \in PullLimits : BeginDispatch(c, s, n)
    <3>1. CASE UNCHANGED outboxVars
      BY <3>1 DEF outboxVars
    <3>2. CASE \E b \in Producers : \E call \in Inputs[b] : BeginEnqueue(b, call)
      BY <2>0, <2>2, <3>2, BeginEnqueueStep, Roles
    <3>3. CASE \E b \in Producers : InsertDelta(b)
      BY <2>0, <2>2, <3>3, InsertStep, Roles
    <3>4. CASE \E b \in Producers : ReadTwin(b)
      BY <2>0, <2>2, <3>4, Roles DEF ReadTwin
    <3>5. CASE \E b \in Dispatchers, s \in Syncs, n \in PullLimits : BeginDispatch(b, s, n)
      <4> PICK b \in Dispatchers, s \in Syncs, n \in PullLimits : BeginDispatch(b, s, n)
        BY <3>5
      <4>1. b = c
        BY <2>2, BeginDispatchStep, Roles
      <4> QED  BY <4>1
    <3>6. CASE \E b \in Dispatchers : StageDelta(b)
      <4> PICK b \in Dispatchers : StageDelta(b)
        BY <3>6
      <4>0. PICK t : Open(b) /\ txs' = [txs EXCEPT ![b] = t]
        BY StageStep
      <4>1. Open(b) /\ b = c
        BY <2>2, <4>0, Roles
      <4> QED  BY <2>1, <4>1
    <3>7. CASE \E b \in Mappers, dd \in DeltaIDs : InsertJob(b, dd)
      BY <2>0, <2>2, <3>7, InsertJobStep, Roles
    <3>8. CASE \E b \in Mappers, dd \in DeltaIDs : MarkDispatched(b, dd)
      BY <3>8 DEF MarkDispatched
    <3>9. CASE \E b \in Clients : Commit(b) \/ Rollback(b)
      <4> PICK b \in Clients : txs' = [txs EXCEPT ![b] = Idle]
        BY <3>9 DEF Commit, Rollback
      <4>1. b = c
        BY <2>2
      <4>2. txs'[c] = Idle
        BY <2>0, <4>1
      <4> QED  BY <4>2
    <3> QED
      BY <3>1, <3>2, <3>3, <3>4, <3>5, <3>6, <3>7, <3>8, <3>9, OutboxCases
  <2>4. PICK C \in SUBSET Unlocked(s), q \in Seq(DeltaIDs) :
          /\ \A i \in C, j \in Unlocked(s) \ C : Before(i, j)
          /\ txs' = [txs EXCEPT ![c] = DispatchBegun(C, q)]
    BY <2>3, BeginDispatchStep
  <2>5. txs'[c] = DispatchBegun(C, q) /\ \A b \in Clients \ {c} : txs'[b] = txs[b]
    BY <2>0, <2>4
  <2>6. txs'[c].locks = C /\ txs'[c].op = "dispatch"
    BY <2>5 DEF DispatchBegun
  <2>7. d \in Existing /\ rows[d].sync = s /\ e \in PendingDeltas(s)
    BY <2>6 DEF Unlocked, PendingDeltas, Committed
  <2>8. CASE InUse(e)
    <3>1. PICK b \in Clients : Open(b) /\ e \in txs[b].locks
      BY <2>8 DEF InUse
    <3> QED  BY <2>1, <2>5, <3>1 DEF Open
  <2>9. CASE ~InUse(e)
    <3>1. e \in Unlocked(s)
      BY <2>7, <2>9 DEF Unlocked
    <3>2. rows[d].at \in Nat /\ rows[e].at \in Nat
      BY <2>7, RowShape, PostgresOutboxAssumption
      DEF OutboxTyped, PendingDeltas, Committed
    <3>3. ~Before(d, e)
      BY <3>2 DEF Before
    <3>4. e \in txs'[c].locks
      BY <2>4, <2>6, <3>1, <3>3
    <3> QED  BY <2>0, <2>6, <3>4 DEF Open
  <2> QED  BY <2>8, <2>9
<1>2. OutboxSpec => []OutboxTyped
  BY TypedInit, TypedStep, PTL DEF OutboxSpec
<1> QED  BY <1>1, <1>2, PTL DEF OutboxSpec, PullsInOrder
-----------------------------------------------------------------------------
(* The transactions implement Outbox.                                       *)

(* What a reader of the database sees of each delta. *)
BarsShow ==
  /\ statusBar = [d \in DeltaIDs |-> statusBar[d]]
  /\ slotBar = [d \in DeltaIDs |-> slotBar[d]]
  /\ \A d \in DeltaIDs :
       /\ statusBar[d] = IF d \in Committed THEN rows[d].state ELSE "absent"
       /\ slotBar[d] = IF d \in Committed THEN rows[d].slot ELSE NoSlot
       /\ slotBar[d] \in Slots \cup {NoSlot}
  /\ Delivery!Recorded = Committed

(* That follows from the types. *)
LEMMA Bars == OutboxTyped => BarsShow
<1> SUFFICES ASSUME OutboxTyped PROVE BarsShow
  OBVIOUS
<1>1. \A d \in DeltaIDs :
        /\ statusBar[d] = IF d \in Committed THEN rows[d].state ELSE "absent"
        /\ slotBar[d] = IF d \in Committed THEN rows[d].slot ELSE NoSlot
  BY DEF statusBar, slotBar
<1>2. \A d \in Committed : /\ d \in DeltaIDs /\ rows[d].state # "absent"
                           /\ rows[d].slot \in Slots \cup {NoSlot}
  BY RowShape DEF OutboxTyped, Committed
<1>3. statusBar = [d \in DeltaIDs |-> statusBar[d]] /\ slotBar = [d \in DeltaIDs |-> slotBar[d]]
  BY DEF statusBar, slotBar
<1>4. Delivery!Recorded = Committed
  BY <1>1, <1>2 DEF Delivery!Recorded
<1> QED  BY <1>1, <1>2, <1>3, <1>4 DEF BarsShow

(* A step that changes no committed row and no job shows nothing. *)
LEMMA ShowsNothing ==
  ASSUME Committed' = Committed, UNCHANGED jobs,
         \A d \in Committed : rows'[d].state = rows[d].state /\ rows'[d].slot = rows[d].slot
  PROVE  UNCHANGED Delivery!deliveryVars
<1>1. statusBar' = statusBar
  BY DEF statusBar
<1>2. slotBar' = slotBar
  BY DEF slotBar
<1> QED  BY <1>1, <1>2 DEF Delivery!deliveryVars

(* A commit shows the records of an enqueue, the dispatch of deltas with a  *)
(* job each, a job for a delta, or nothing.                                 *)
LEMMA CommitShows ==
  ASSUME RecordsInv, MappingInv, OutboxTyped', SlotsUnique', NEW c \in Clients, Open(c), Commit(c)
  PROVE  [Delivery!DeliveryNext]_(Delivery!deliveryVars)
<1> DEFINE t == txs[c]
           W == WrittenBy(c)
<1>1. OutboxTyped /\ c # DB
  BY Roles DEF MappingInv
<1>2. /\ Existing' = Existing
      /\ \A d \in Existing :
           /\ rows'[d].slot = rows[d].slot
           /\ rows'[d].state = IF d \in t.marks THEN "dispatched" ELSE rows[d].state
           /\ rows'[d].writer = IF rows[d].writer = c THEN DB ELSE rows[d].writer
  BY <1>1, CommitRows
<1>3. Committed' = Committed \cup W /\ W \cap Committed = {} /\ W \subseteq DeltaIDs
  BY <1>1, <1>2 DEF Committed, WrittenBy, Existing
<1>4. \A d \in DeltaIDs : jobs'[d] = jobs[d] + IF d \in t.creates THEN 1 ELSE 0
  BY DEF Commit
<1>5. jobs = [d \in DeltaIDs |-> jobs[d]] /\ jobs' = [d \in DeltaIDs |-> jobs'[d]]
      /\ \A d \in DeltaIDs : jobs[d] \in Nat
  BY <1>1 DEF Commit, OutboxTyped, OutboxTypeOK
<1>6. /\ statusBar' = [d \in DeltaIDs |-> statusBar'[d]]
      /\ slotBar' = [d \in DeltaIDs |-> slotBar'[d]]
      /\ \A d \in DeltaIDs :
           /\ statusBar'[d] = IF d \in Committed' THEN rows'[d].state ELSE "absent"
           /\ slotBar'[d] = IF d \in Committed' THEN rows'[d].slot ELSE NoSlot
           /\ slotBar'[d] \in Slots \cup {NoSlot}
  <2>1. BarsShow'
    BY Bars, PTL
  <2> QED  BY <2>1 DEF BarsShow
<1>7. /\ \A d \in DeltaIDs :
           /\ statusBar[d] = IF d \in Committed THEN rows[d].state ELSE "absent"
           /\ slotBar[d] = IF d \in Committed THEN rows[d].slot ELSE NoSlot
      /\ Delivery!Recorded = Committed
  BY <1>1, Bars DEF BarsShow
<1>8. CASE c \in Producers
  <2>1. t.creates = {} /\ t.marks = {}
    BY <1>1, <1>8, TxShape, TxFields
  <2>2. UNCHANGED jobs
    <3>1. \A d \in DeltaIDs : jobs'[d] = jobs[d]
      BY <1>4, <1>5, <2>1
    <3> QED  BY <1>5, <3>1
  <2>3. CASE W = {}
    <3>1. Committed' = Committed
      BY <1>3, <2>3
    <3>2. \A d \in Committed : rows'[d].state = rows[d].state /\ rows'[d].slot = rows[d].slot
      BY <1>2, <2>1 DEF Committed
    <3> QED  BY <2>2, <3>1, <3>2, ShowsNothing
  <2>4. CASE W # {}
    <3>1. W \cap Delivery!Recorded = {}
      BY <1>3, <1>7
    <3>2. \A d \in DeltaIDs : statusBar'[d] = IF d \in W THEN "pending" ELSE statusBar[d]
      <4> SUFFICES ASSUME NEW d \in DeltaIDs
                   PROVE  statusBar'[d] = IF d \in W THEN "pending" ELSE statusBar[d]
        OBVIOUS
      <4>1. CASE d \in W
        <5>1. d \in Existing \ Committed
          BY <1>3, <4>1 DEF WrittenBy
        <5>2. rows[d].state = "pending"
          BY <5>1 DEF MappingInv, FreshPending
        <5> QED  BY <1>2, <1>3, <1>6, <2>1, <4>1, <5>1, <5>2
      <4>2. CASE d \notin W
        BY <1>2, <1>3, <1>6, <1>7, <2>1, <4>2 DEF Committed
      <4> QED  BY <4>1, <4>2
    <3>3. statusBar' = [d \in DeltaIDs |-> IF d \in W THEN "pending" ELSE statusBar[d]]
      BY <1>6, <3>2
    <3>4. slotBar' \in [DeltaIDs -> Slots \cup {NoSlot}]
      BY <1>6
    <3>5. \A d \in DeltaIDs \ W : slotBar'[d] = slotBar[d]
      BY <1>2, <1>3, <1>6, <1>7 DEF Committed
    <3>6. \A d \in W : slotBar'[d] # NoSlot =>
            \A e \in (Delivery!Recorded \cup W) \ {d} : slotBar'[e] # slotBar'[d]
      <4> SUFFICES ASSUME NEW d \in W, slotBar'[d] # NoSlot, NEW e \in Committed \cup W,
                          slotBar'[e] = slotBar'[d]
                   PROVE  e = d
        BY <1>7
      <4>1. d \in Committed' /\ e \in Committed' /\ d \in DeltaIDs /\ e \in DeltaIDs
        BY <1>3 DEF Committed, Existing
      <4>2. rows'[e].slot = rows'[d].slot /\ rows'[d].slot # NoSlot
        BY <1>6, <4>1
      <4>3. d \in Existing' /\ e \in Existing'
        BY <4>1 DEF Committed
      <4> QED  BY <4>2, <4>3 DEF SlotsUnique
    <3>7. Delivery!Record(W)
      BY <2>2, <2>4, <3>1, <3>3, <3>4, <3>5, <3>6 DEF Delivery!Record
    <3> QED  BY <1>3, <3>7 DEF Delivery!DeliveryNext
  <2> QED  BY <2>3, <2>4
<1>9. ASSUME c \notin Producers
      PROVE  W = {} /\ Committed' = Committed /\ UNCHANGED slotBar
  <2>1. W = {}
    BY <1>1, <1>9 DEF OutboxTyped, RolesKept, WrittenBy
  <2>2. Committed' = Committed
    BY <1>3, <2>1
  <2>3. \A d \in DeltaIDs : slotBar'[d] = slotBar[d]
    BY <1>2, <1>6, <1>7, <2>2 DEF Committed
  <2> QED  BY <1>1, <1>6, <2>1, <2>2, <2>3, Bars DEF BarsShow
<1>10. CASE c \in Dispatchers
  <2>1. /\ \A d \in t.locks : d \in Committed /\ rows[d].state = "pending"
        /\ t.creates \subseteq t.marks /\ t.marks \subseteq t.locks
        /\ \A d \in t.marks : d \in t.creates \/ jobs[d] = 1
    BY <1>10 DEF MappingInv, DispatchOK
  <2>2. Committed' = Committed /\ UNCHANGED slotBar
    BY <1>9, <1>10, Roles
  <2>3. CASE t.marks = {}
    <3>1. \A d \in DeltaIDs : jobs'[d] = jobs[d]
      BY <1>4, <1>5, <2>1, <2>3
    <3>2. \A d \in Committed : rows'[d].state = rows[d].state /\ rows'[d].slot = rows[d].slot
      BY <1>2, <2>3 DEF Committed
    <3>3. UNCHANGED jobs
      BY <1>5, <3>1
    <3> QED  BY <2>2, <3>2, <3>3, ShowsNothing
  <2>4. CASE t.marks # {}
    <3>1. \A d \in t.marks : d \in DeltaIDs /\ statusBar[d] = "pending"
      BY <1>7, <2>1 DEF Committed, Existing
    <3>2. \A d \in DeltaIDs : statusBar'[d] = IF d \in t.marks THEN "dispatched" ELSE statusBar[d]
      BY <1>2, <1>6, <1>7, <2>1, <2>2 DEF Committed
    <3>3. statusBar' = [d \in DeltaIDs |-> IF d \in t.marks THEN "dispatched" ELSE statusBar[d]]
      BY <1>6, <3>2
    <3>4. \A d \in DeltaIDs : jobs'[d] = IF d \in t.marks THEN 1 ELSE jobs[d]
      <4> SUFFICES ASSUME NEW d \in DeltaIDs
                   PROVE  jobs'[d] = IF d \in t.marks THEN 1 ELSE jobs[d]
        OBVIOUS
      <4>1. CASE d \in t.creates
        BY <1>4, <2>1, <4>1, OwnMarks
      <4>2. CASE d \notin t.creates
        BY <1>4, <1>5, <2>1, <4>2
      <4> QED  BY <4>1, <4>2
    <3>5. jobs' = [d \in DeltaIDs |-> IF d \in t.marks THEN 1 ELSE jobs[d]]
      BY <1>5, <3>4
    <3>6. Delivery!Dispatch(t.marks)
      BY <2>2, <2>4, <3>1, <3>3, <3>5 DEF Delivery!Dispatch
    <3>7. t.marks \subseteq DeltaIDs
      BY <3>1
    <3> QED  BY <3>6, <3>7 DEF Delivery!DeliveryNext
  <2> QED  BY <2>3, <2>4
<1>11. CASE c \in Mappers
  <2>1. PICK d \in Committed : t.creates = {d}
    BY <1>11 DEF MappingInv, MapOK
  <2>2. t.marks = {}
    BY <1>11 DEF MappingInv, MapOK
  <2>3. Committed' = Committed /\ UNCHANGED slotBar
    BY <1>9, <1>11, Roles
  <2>4. \A e \in DeltaIDs : statusBar'[e] = statusBar[e]
    BY <1>2, <1>6, <1>7, <2>2, <2>3 DEF Committed
  <2>5. UNCHANGED statusBar
    BY <1>1, <1>6, <2>4, Bars DEF BarsShow
  <2>6. d \in DeltaIDs /\ jobs[d] = 0
    BY <2>1, OwnMarks
  <2>7. \A e \in DeltaIDs : jobs'[e] = IF e = d THEN 1 ELSE jobs[e]
    BY <1>4, <1>5, <2>1, <2>6
  <2>8. jobs' = [jobs EXCEPT ![d] = 1]
    BY <1>5, <2>6, <2>7
  <2>9. Delivery!Map(d)
    BY <1>7, <2>1, <2>3, <2>5, <2>6, <2>8 DEF Delivery!Map
  <2> QED  BY <2>6, <2>9 DEF Delivery!DeliveryNext
<1> QED  BY <1>8, <1>10, <1>11, Roles

(* Every step of the transactions is a step of Outbox, or shows nothing. *)
LEMMA DeliveryStep ==
  RecordsInv /\ MappingInv /\ RecordsInv' /\ [OutboxNext]_outboxVars
    => [Delivery!DeliveryNext]_(Delivery!deliveryVars)
<1> SUFFICES ASSUME RecordsInv, MappingInv, RecordsInv', [OutboxNext]_outboxVars
             PROVE  [Delivery!DeliveryNext]_(Delivery!deliveryVars)
  OBVIOUS
<1>0. OutboxTyped /\ OutboxTyped' /\ SlotsUnique'
  BY DEF RecordsInv
<1>1. ASSUME UNCHANGED <<rows, jobs>> PROVE UNCHANGED Delivery!deliveryVars
  BY <1>1, QuietStays, ShowsNothing
<1>2. CASE UNCHANGED outboxVars
  BY <1>1, <1>2 DEF outboxVars
<1>3. CASE \E c \in Producers : \E call \in Inputs[c] : BeginEnqueue(c, call)
  BY <1>0, <1>1, <1>3, BeginEnqueueStep
<1>4. CASE \E c \in Producers : InsertDelta(c)
  <2> PICK c \in Producers : InsertDelta(c)
    BY <1>4
  <2> DEFINE item == Head(txs[c].todo)
  <2>1. /\ item \in Item /\ UNCHANGED jobs
        /\ \/ UNCHANGED rows
           \/ \E d \in DeltaIDs \ Existing : rows' = [rows EXCEPT ![d] = NewRow(item, c)]
    BY <1>0, InsertStep
  <2>2. CASE UNCHANGED rows
    BY <1>1, <2>1, <2>2
  <2>3. CASE \E d \in DeltaIDs \ Existing : rows' = [rows EXCEPT ![d] = NewRow(item, c)]
    <3> PICK d \in DeltaIDs \ Existing : rows' = [rows EXCEPT ![d] = NewRow(item, c)]
      BY <2>3
    <3>1. /\ Existing' = Existing \cup {d}
          /\ \A e \in Existing : rows'[e] = rows[e]
          /\ rows'[d].writer = c
      BY <1>0, <2>1, InsertRows, Roles
    <3>2. Committed' = Committed
      BY <3>1, Roles DEF Committed
    <3>3. \A e \in Committed : rows'[e].state = rows[e].state /\ rows'[e].slot = rows[e].slot
      BY <3>1 DEF Committed
    <3> QED  BY <2>1, <3>2, <3>3, ShowsNothing
  <2> QED  BY <2>1, <2>2, <2>3
<1>5. CASE \E c \in Producers : ReadTwin(c)
  BY <1>1, <1>5 DEF ReadTwin
<1>6. CASE \E c \in Dispatchers, s \in Syncs, n \in PullLimits : BeginDispatch(c, s, n)
  BY <1>1, <1>6 DEF BeginDispatch
<1>7. CASE \E c \in Dispatchers : StageDelta(c)
  BY <1>1, <1>7 DEF StageDelta
<1>8. CASE \E c \in Mappers, d \in DeltaIDs : InsertJob(c, d)
  BY <1>1, <1>8 DEF InsertJob
<1>9. CASE \E c \in Mappers, d \in DeltaIDs : MarkDispatched(c, d)
  <2> PICK c \in Mappers, d \in DeltaIDs : MarkDispatched(c, d)
    BY <1>9
  <2>1. d \in Committed /\ rows' = [rows EXCEPT ![d].state = "dispatched"] /\ UNCHANGED jobs
    BY DEF MarkDispatched
  <2>2. /\ Existing' = Existing
        /\ \A e \in DeltaIDs \ {d} : rows'[e] = rows[e]
        /\ rows'[d].slot = rows[d].slot /\ rows'[d].state = "dispatched"
        /\ rows'[d].writer = DB /\ rows[d].writer = DB /\ d \in DeltaIDs
    BY <1>0, <2>1, MarkRows DEF Committed, Existing
  <2>3. Committed' = Committed
    BY <2>2 DEF Committed, Existing
  <2>4. BarsShow /\ BarsShow'
    BY <1>0, Bars, PTL
  <2>5. CASE rows[d].state = "dispatched"
    <3>1. \A e \in Committed : rows'[e].state = rows[e].state /\ rows'[e].slot = rows[e].slot
      BY <2>2, <2>5 DEF Committed, Existing
    <3> QED  BY <2>1, <2>3, <3>1, ShowsNothing
  <2>6. CASE rows[d].state # "dispatched"
    <3>1. rows[d].state = "pending"
      BY <1>0, <2>1, <2>6, RowShape DEF OutboxTyped, Committed
    <3>2. statusBar[d] = "pending"
      BY <2>1, <2>2, <2>4, <3>1 DEF BarsShow
    <3>3. \A e \in DeltaIDs : slotBar'[e] = slotBar[e]
      BY <2>2, <2>3, <2>4 DEF BarsShow
    <3>4. \A e \in DeltaIDs : statusBar'[e] = IF e = d THEN "dispatched" ELSE statusBar[e]
      BY <2>1, <2>2, <2>3, <2>4 DEF BarsShow
    <3>5. UNCHANGED slotBar
      BY <2>4, <3>3 DEF BarsShow
    <3>6. statusBar' = [statusBar EXCEPT ![d] = "dispatched"]
      BY <2>2, <2>4, <3>4 DEF BarsShow
    <3>7. Delivery!Mark(d)
      BY <2>1, <3>2, <3>5, <3>6 DEF Delivery!Mark
    <3> QED  BY <2>2, <3>7 DEF Delivery!DeliveryNext
  <2> QED  BY <2>5, <2>6
<1>10. CASE \E c \in Clients : Open(c) /\ Commit(c)
  BY <1>0, <1>10, CommitShows
<1>11. CASE \E c \in Clients : Rollback(c)
  <2> PICK c \in Clients : Rollback(c)
    BY <1>11
  <2>1. /\ Existing' = Existing \ WrittenBy(c)
        /\ \A d \in Existing' : rows'[d] = rows[d]
    BY <1>0, RollbackRows
  <2>2. Committed' = Committed
    BY <2>1, Roles DEF Committed, WrittenBy
  <2>3. \A d \in Committed : rows'[d].state = rows[d].state /\ rows'[d].slot = rows[d].slot
    BY <2>1, <2>2 DEF Committed
  <2> QED  BY <2>2, <2>3, ShowsNothing DEF Rollback
<1> QED
  BY <1>0, <1>2, <1>3, <1>4, <1>5, <1>6, <1>7, <1>8, <1>9, <1>10, <1>11, OutboxCases

(* The empty database is the empty outbox. *)
LEMMA DeliveryInitially == OutboxInit => Delivery!DeliveryInit
<1> SUFFICES ASSUME OutboxInit PROVE Delivery!DeliveryInit
  OBVIOUS
<1>1. Committed = {}
  BY DEF OutboxInit, Committed, Existing
<1> QED  BY <1>1 DEF OutboxInit, Delivery!DeliveryInit, statusBar, slotBar

(* Whatever transactions interleave, wait, fail and are aborted, the tables *)
(* behave as the abstract outbox: of the deltas of one dedup key at most    *)
(* one is ever recorded, and a delta leaves the queue by a dispatch only at *)
(* a commit that leaves it with exactly one job.                            *)
THEOREM TransactionsImplementOutbox == OutboxSpec => ImplementsOutbox
<1>1. OutboxSpec => []RecordsInv
  BY RecordsInit, RecordsStep, PTL DEF OutboxSpec
<1> QED
  BY <1>1, MappingInvariant, DeliveryInitially, DeliveryStep, PTL
     DEF OutboxSpec, ImplementsOutbox, Delivery!DeliverySpec
=============================================================================
