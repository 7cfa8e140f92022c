------------------------ MODULE SqliteOutbox_proofs ------------------------
(***************************************************************************)
(* Theorems about the SQLite outbox, for any number of producers,          *)
(* dispatchers and mappers, any inputs and any number of failures.         *)
(***************************************************************************)
EXTENDS SqliteOutbox, WellFoundedInduction, TLAPS

(* The calls: an enqueue, alone, in an application's transaction or a batch,*)
(* and a dispatch.                                                          *)
EnqueueTx == [op : {"enqueue", "app", "batch"}, todo : Seq(Item), slots : SUBSET Slots,
              back : 0..MaxDeltas, current : {TRUE}]
DispatchTx == [op : {"dispatch"}, todo : Seq(DeltaIDs), slots : {{}}, back : {0},
               current : BOOLEAN]
Tx == {Idle} \cup EnqueueTx \cup DispatchTx

(* Types.  An enqueue reads nothing that can get old, and the client that   *)
(* has written has a call.                                                  *)
OutboxTyped ==
  /\ base \in Database /\ draft \in Database
  /\ writer \in Clients \cup {NoClient}
  /\ writer = NoClient => draft = base
  /\ txs \in [Clients -> Tx]
  /\ writer \in Clients => Open(writer)
  /\ acked \subseteq Slots
  /\ aborts \in 0..MaxAborts

(* Of the rows with one dedup key there is one. *)
SlotsUnique(db) ==
  \A d, e \in Existing(db) :
    db.rows[d].slot = db.rows[e].slot /\ db.rows[d].slot # NoSlot => d = e

(* There is a row with the dedup key. *)
Holds(db, slot) == \E d \in Existing(db) : db.rows[d].slot = slot

(* Rows stay, with their dedup keys. *)
Grows(db, later) ==
  \A d \in Existing(db) : d \in Existing(later) /\ later.rows[d].slot = db.rows[d].slot

(* What a call will acknowledge or read back is among what it reads. *)
Backed(db, t) ==
  /\ \A slot \in t.slots : Holds(db, slot)
  /\ t.back # 0 => t.back \in Existing(db)

RecordsInv ==
  /\ OutboxTyped
  /\ SlotsUnique(base) /\ SlotsUnique(draft)
  /\ Grows(base, draft)
  /\ AckedIsRecorded
  /\ \A c \in Clients : Open(c) => Backed(Reads(c), txs[c])

(* A draft of an enqueue has new pending rows and nothing else. *)
OnlyRecords(db, later) ==
  /\ later.jobs = db.jobs
  /\ \A d \in Existing(db) : later.rows[d] = db.rows[d]
  /\ \A d \in Existing(later) \ Existing(db) : later.rows[d].state = "pending"

(* A draft of a dispatch has dispatched some pending deltas, with a job.    *)
IsDispatched(db, later, d) ==
  /\ d \in Existing(db) /\ db.rows[d].state = "pending"
  /\ later.rows[d] = [db.rows[d] EXCEPT !.state = "dispatched"]
  /\ later.jobs[d] = 1

OnlyDispatches(db, later) ==
  \A d \in DeltaIDs :
    \/ later.rows[d] = db.rows[d] /\ later.jobs[d] = db.jobs[d]
    \/ IsDispatched(db, later, d)

(* While its reads are current, a dispatch finds its deltas pending. *)
DispatchOK(c) ==
  txs[c].op = "dispatch" /\ txs[c].current =>
    \A i \in DOMAIN txs[c].todo :
      txs[c].todo[i] \in Existing(base) /\ base.rows[txs[c].todo[i]].state = "pending"

(* What the one open transaction that has written has changed, and that no  *)
(* other could change what it read.                                         *)
DraftOK ==
  writer \in Clients =>
    IF txs[writer].op = "dispatch"
    THEN txs[writer].current /\ OnlyDispatches(base, draft)
    ELSE OnlyRecords(base, draft)

OutboxInv ==
  /\ RecordsInv
  /\ \A c \in Clients : DispatchOK(c)
  /\ DraftOK
-----------------------------------------------------------------------------
(* Names and sequences.                                                     *)

(* Who takes part. *)
LEMMA Roles ==
  /\ Producers \subseteq Clients /\ Dispatchers \subseteq Clients /\ Mappers \subseteq Clients
  /\ NoClient \notin Clients
  BY SqliteOutboxAssumption DEF Clients

(* The empty dedup key is no dedup key. *)
LEMMA NoSlotIsNone == NoSlot \notin Slots
<1> SUFFICES ASSUME NEW w \in Windows, NEW k \in Keys PROVE <<w, k>> # <<>>
  BY DEF NoSlot, Slots
<1>1. Len(<<w, k>>) = 2 /\ Len(<<>>) = 0
  OBVIOUS
<1> QED  BY <1>1

(* A set of numbers with an element has a least one. *)
LEMMA Least ==
  ASSUME NEW S \in SUBSET Nat, S # {}
  PROVE  \E d \in S : \A e \in S : d <= e
<1> DEFINE R == OpToRel(<, Nat)
<1>1. IsWellFoundedOn(R, Nat)
  BY NatLessThanWellFounded
<1>2. ASSUME NEW d \in Nat, NEW e \in Nat, e < d PROVE <<e, d>> \in R
  <2>1. <<e, d>> \in Nat \X Nat /\ <<e, d>>[1] < <<e, d>>[2]
    BY <1>2
  <2> QED  BY <2>1 DEF OpToRel
<1> HIDE DEF R
<1>3. PICK d \in S : \A e \in S : ~ (<<e, d>> \in R)
  BY <1>1, WFMin
<1>4. ASSUME NEW e \in S PROVE d <= e
  <2>1. d \in Nat /\ e \in Nat
    OBVIOUS
  <2>2. ~ (e < d)
    BY <2>1, <1>2, <1>3
  <2> QED  BY <2>1, <2>2
<1> QED  BY <1>4

(* The first element of a sequence and the others. *)
LEMMA HeadTail ==
  ASSUME NEW S, NEW q \in Seq(S), q # <<>>
  PROVE  /\ Head(q) \in S /\ Tail(q) \in Seq(S)
         /\ Head(q) = q[1] /\ 1 \in DOMAIN q
         /\ \A i \in DOMAIN Tail(q) : i + 1 \in DOMAIN q /\ Tail(q)[i] = q[i + 1]
<1>1. Len(q) \in Nat \ {0} /\ DOMAIN q = 1..Len(q)
  OBVIOUS
<1>2. Head(q) = q[1] /\ 1 \in DOMAIN q /\ Head(q) \in S
  BY <1>1
<1>3. Tail(q) \in Seq(S) /\ Len(Tail(q)) = Len(q) - 1
      /\ \A i \in 1..Len(q) - 1 : Tail(q)[i] = q[i + 1]
  BY <1>1
<1>4. DOMAIN Tail(q) = 1..Len(q) - 1
  BY <1>3
<1>5. \A i \in DOMAIN Tail(q) : i + 1 \in DOMAIN q
  BY <1>1, <1>4
<1> QED  BY <1>2, <1>3, <1>4, <1>5
-----------------------------------------------------------------------------
(* Databases.                                                               *)

(* No Row is the absent row. *)
LEMMA RowExists == ASSUME NEW r \in Row PROVE r # NoRow
<1>1. r.state # "absent"
  BY DEF Row
<1>2. NoRow.state = "absent"
  BY DEF NoRow
<1> QED  BY <1>1, <1>2

(* A row that exists is a Row. *)
LEMMA RowShape ==
  ASSUME NEW db \in Database, NEW d \in Existing(db)
  PROVE  /\ d \in DeltaIDs
         /\ db.rows[d] \in Row
         /\ db.rows[d].state \in {"pending", "dispatched"}
         /\ db.rows[d].slot \in Slots \cup {NoSlot}
<1>1. d \in DeltaIDs /\ db.rows[d] # NoRow
  BY DEF Existing
<1>2. db.rows[d] \in Row
  BY <1>1 DEF Database
<1> QED  BY <1>1, <1>2 DEF Row

(* The lowest free ID is free. *)
LEMMA FreshestIsFree ==
  ASSUME NEW db, Existing(db) # DeltaIDs
  PROVE  Freshest(db) \in DeltaIDs \ Existing(db)
<1> DEFINE S == DeltaIDs \ Existing(db)
<1>1. S \in SUBSET Nat /\ S # {}
  BY DEF DeltaIDs, Existing
<1>2. \E d \in S : \A e \in S : d <= e
  BY <1>1, Least
<1> QED  BY <1>2 DEF Freshest

(* A new pending row for the item. *)
Inserted(db, new, item) == [db EXCEPT !.rows[new] = NewRow(item)]

(* An insert adds one pending row and changes nothing else. *)
LEMMA RowInserted ==
  ASSUME NEW db \in Database, NEW item \in Item, NEW new \in DeltaIDs \ Existing(db),
         NEW later, later = Inserted(db, new, item)
  PROVE  /\ later \in Database
         /\ Existing(later) = Existing(db) \cup {new}
         /\ \A d \in Existing(db) : later.rows[d] = db.rows[d]
         /\ later.rows[new].slot = DedupKey(item)
         /\ later.rows[new].state = "pending"
         /\ later.jobs = db.jobs
<1>1. DedupKey(item) \in Slots \cup {NoSlot}
  BY DEF DedupKey, Item, Slots
<1>2. /\ NewRow(item) \in Row
      /\ NewRow(item).slot = DedupKey(item) /\ NewRow(item).state = "pending"
  BY <1>1 DEF NewRow, Row, Item
<1>3. db.rows \in [DeltaIDs -> Row \cup {NoRow}] /\ db.jobs \in [DeltaIDs -> 0..1]
  BY DEF Database
<1>4. later.rows = [db.rows EXCEPT ![new] = NewRow(item)] /\ later.jobs = db.jobs
  BY DEF Database, Inserted
<1>5. later = [rows |-> [db.rows EXCEPT ![new] = NewRow(item)], jobs |-> db.jobs]
  BY DEF Database, Inserted
<1>6. later.rows[new] = NewRow(item) /\ \A d \in DeltaIDs \ {new} : later.rows[d] = db.rows[d]
  BY <1>3, <1>4
<1>7. later \in Database
  <2>1. [db.rows EXCEPT ![new] = NewRow(item)] \in [DeltaIDs -> Row \cup {NoRow}]
    BY <1>2, <1>3
  <2> QED  BY <1>3, <1>5, <2>1 DEF Database
<1>8. NewRow(item) # NoRow
  BY <1>2, RowExists
<1>9. Existing(later) = Existing(db) \cup {new}
  BY <1>6, <1>8 DEF Existing
<1>10. \A d \in Existing(db) : later.rows[d] = db.rows[d]
  BY <1>6 DEF Existing
<1> QED  BY <1>2, <1>4, <1>6, <1>7, <1>9, <1>10

(* A row marked dispatched stays a row, with all its other fields. *)
LEMMA RowMarked ==
  ASSUME NEW r \in Row
  PROVE  /\ [r EXCEPT !.state = "dispatched"] \in Row
         /\ [r EXCEPT !.state = "dispatched"].slot = r.slot
         /\ [r EXCEPT !.state = "dispatched"].state = "dispatched"
  BY DEF Row

(* Delta d with the row r and n jobs. *)
Changed(db, d, r, n) ==
  [rows |-> [db.rows EXCEPT ![d] = r], jobs |-> [db.jobs EXCEPT ![d] = n]]

(* A delta that is marked, or is given its job, keeps its row. *)
LEMMA DeltaChanged ==
  ASSUME NEW db \in Database, NEW d \in Existing(db), NEW r \in Row, NEW n \in 0..1,
         NEW later, later = Changed(db, d, r, n)
  PROVE  /\ later \in Database
         /\ Existing(later) = Existing(db)
         /\ \A e \in DeltaIDs \ {d} : later.rows[e] = db.rows[e] /\ later.jobs[e] = db.jobs[e]
         /\ later.rows[d] = r /\ later.jobs[d] = n
<1>1. d \in DeltaIDs
  BY DEF Existing
<1>2. db.rows \in [DeltaIDs -> Row \cup {NoRow}] /\ db.jobs \in [DeltaIDs -> 0..1]
  BY DEF Database
<1>3. /\ later = [rows |-> later.rows, jobs |-> later.jobs]
      /\ later.rows = [db.rows EXCEPT ![d] = r] /\ later.jobs = [db.jobs EXCEPT ![d] = n]
  BY DEF Changed
<1>4. /\ \A e \in DeltaIDs \ {d} : later.rows[e] = db.rows[e] /\ later.jobs[e] = db.jobs[e]
      /\ later.rows[d] = r /\ later.jobs[d] = n
  BY <1>1, <1>2, <1>3
<1>5. later \in Database
  <2>1. /\ [db.rows EXCEPT ![d] = r] \in [DeltaIDs -> Row \cup {NoRow}]
        /\ [db.jobs EXCEPT ![d] = n] \in [DeltaIDs -> 0..1]
    BY <1>2
  <2> QED  BY <1>3, <2>1 DEF Database
<1>6. Existing(later) = Existing(db)
  BY <1>1, <1>4, RowExists DEF Existing
<1> QED  BY <1>4, <1>5, <1>6

(* A dispatched delta is marked and has its job. *)
LEMMA DeltaDispatched ==
  ASSUME NEW db \in Database, NEW d \in Existing(db), NEW later, later = Dispatched(db, d)
  PROVE  /\ later \in Database
         /\ Existing(later) = Existing(db)
         /\ \A e \in DeltaIDs \ {d} : later.rows[e] = db.rows[e] /\ later.jobs[e] = db.jobs[e]
         /\ later.rows[d] = [db.rows[d] EXCEPT !.state = "dispatched"]
         /\ later.rows[d].slot = db.rows[d].slot
         /\ later.jobs[d] = 1
<1> DEFINE r == [db.rows[d] EXCEPT !.state = "dispatched"]
<1>1. r \in Row /\ r.slot = db.rows[d].slot /\ 1 \in 0..1
  BY RowShape, RowMarked
<1>2. later = Changed(db, d, r, 1)
  BY DEF Dispatched, Database, Changed
<1> HIDE DEF r
<1>3. /\ later \in Database
      /\ Existing(later) = Existing(db)
      /\ \A e \in DeltaIDs \ {d} : later.rows[e] = db.rows[e] /\ later.jobs[e] = db.jobs[e]
      /\ later.rows[d] = r /\ later.jobs[d] = 1
  BY <1>1, <1>2, DeltaChanged
<1> QED  BY <1>1, <1>3 DEF r

(* Create and MarkDispatched change the one delta they are about. *)
LEMMA DeltaMapped ==
  ASSUME base \in Database, NEW c, NEW d, Create(c, d) \/ MarkDispatched(c, d)
  PROVE  /\ d \in Existing(base)
         /\ base' \in Database
         /\ Existing(base') = Existing(base)
         /\ \A e \in DeltaIDs \ {d} : base'.rows[e] = base.rows[e] /\ base'.jobs[e] = base.jobs[e]
         /\ base'.rows[d].slot = base.rows[d].slot
         /\ \/ base'.rows[d] = base.rows[d] /\ base.jobs[d] = 0 /\ base'.jobs[d] = 1
            \/ /\ base'.rows[d] = [base.rows[d] EXCEPT !.state = "dispatched"]
               /\ base'.rows[d].state = "dispatched"
               /\ base'.jobs[d] = base.jobs[d]
<1>1. d \in Existing(base)
  BY DEF Create, MarkDispatched
<1>2. d \in DeltaIDs /\ base.rows[d] \in Row
  BY <1>1, RowShape
<1>3. base.rows \in [DeltaIDs -> Row \cup {NoRow}] /\ base.jobs \in [DeltaIDs -> 0..1]
  BY DEF Database
<1>4. CASE Create(c, d)
  <2>1. base.jobs[d] = 0 /\ base' = [base EXCEPT !.jobs[d] = 1]
    BY <1>4 DEF Create
  <2>2. base.rows = [base.rows EXCEPT ![d] = base.rows[d]]
    BY <1>2, <1>3
  <2>3. base' = [rows |-> base.rows, jobs |-> [base.jobs EXCEPT ![d] = 1]]
    BY <2>1 DEF Database
  <2>4. base' = Changed(base, d, base.rows[d], 1) /\ 1 \in 0..1
    BY <2>2, <2>3 DEF Changed
  <2>5. /\ base' \in Database
        /\ Existing(base') = Existing(base)
        /\ \A e \in DeltaIDs \ {d} : base'.rows[e] = base.rows[e] /\ base'.jobs[e] = base.jobs[e]
        /\ base'.rows[d] = base.rows[d] /\ base'.jobs[d] = 1
    BY <1>1, <1>2, <2>4, DeltaChanged
  <2> QED  BY <1>1, <2>1, <2>5
<1>5. CASE MarkDispatched(c, d)
  <2> DEFINE r == [base.rows[d] EXCEPT !.state = "dispatched"]
  <2>1. r \in Row /\ r.slot = base.rows[d].slot /\ r.state = "dispatched"
    BY <1>2, RowMarked
  <2> DEFINE n == base.jobs[d]
  <2>2. base.jobs = [base.jobs EXCEPT ![d] = n] /\ n \in 0..1
    BY <1>2, <1>3
  <2>3. base' = [rows |-> [base.rows EXCEPT ![d] = r], jobs |-> base.jobs]
    BY <1>5 DEF MarkDispatched, Database
  <2> HIDE DEF r, n
  <2>4. base' = Changed(base, d, r, n)
    BY <2>2, <2>3 DEF Changed
  <2>5. /\ base' \in Database
        /\ Existing(base') = Existing(base)
        /\ \A e \in DeltaIDs \ {d} : base'.rows[e] = base.rows[e] /\ base'.jobs[e] = base.jobs[e]
        /\ base'.rows[d] = r /\ base'.jobs[d] = n
    BY <1>1, <2>1, <2>2, <2>4, DeltaChanged
  <2> QED  BY <1>1, <2>1, <2>5 DEF r, n
<1> QED  BY <1>4, <1>5

(* Rows that stay keep what is counted on. *)
LEMMA GrowsKeeps ==
  ASSUME NEW db, NEW later, Grows(db, later)
  PROVE  /\ \A slot : Holds(db, slot) => Holds(later, slot)
         /\ \A t : Backed(db, t) => Backed(later, t)
  BY DEF Grows, Holds, Backed

(* Rows that stay, and stay again, stay. *)
LEMMA GrowsOn ==
  ASSUME NEW a, NEW b, NEW c, Grows(a, b), Grows(b, c)
  PROVE  Grows(a, c)
  BY DEF Grows
-----------------------------------------------------------------------------
(* Calls.                                                                   *)

(* What the fields of an open call are. *)
LEMMA TxFields ==
  /\ \A t \in EnqueueTx : /\ t.op \in {"enqueue", "app", "batch"} /\ t.todo \in Seq(Item)
                          /\ t.slots \subseteq Slots /\ t.back \in 0..MaxDeltas
                          /\ t.current = TRUE
  /\ \A t \in DispatchTx : /\ t.op = "dispatch" /\ t.todo \in Seq(DeltaIDs)
                           /\ t.slots = {} /\ t.back = 0 /\ t.current \in BOOLEAN
<1>1. ASSUME NEW t \in EnqueueTx
      PROVE  /\ t.op \in {"enqueue", "app", "batch"} /\ t.todo \in Seq(Item)
             /\ t.slots \subseteq Slots /\ t.back \in 0..MaxDeltas
             /\ t.current = TRUE
  BY DEF EnqueueTx
<1>2. ASSUME NEW t \in DispatchTx
      PROVE  /\ t.op = "dispatch" /\ t.todo \in Seq(DeltaIDs)
             /\ t.slots = {} /\ t.back = 0 /\ t.current \in BOOLEAN
  BY DEF DispatchTx
<1> QED  BY <1>1, <1>2

(* A client has no call, an enqueue or a dispatch. *)
LEMMA CallShape ==
  ASSUME OutboxTyped, NEW c \in Clients
  PROVE  \/ ~Open(c) /\ txs[c] = Idle
         \/ Open(c) /\ txs[c].op # "dispatch" /\ txs[c] \in EnqueueTx
         \/ Open(c) /\ txs[c].op = "dispatch" /\ txs[c] \in DispatchTx
<1>1. txs[c] \in Tx
  BY DEF OutboxTyped
<1>2. Idle.op = "idle"
  BY DEF Idle
<1> QED  BY <1>1, <1>2, TxFields DEF Tx, Open

(* A client that can write goes on from the draft. *)
LEMMA ReadsDraft ==
  ASSUME OutboxTyped, NEW c, CanWrite(c)
  PROVE  Reads(c) = draft
  BY DEF OutboxTyped, CanWrite, Reads

(* The call of b after it has become t: as before, but its reads may have   *)
(* become old.                                                              *)
GoesOn(b, t) ==
  /\ t \in Tx /\ t.op = txs[b].op
  /\ Open(b) => t.todo = txs[b].todo /\ t.slots = txs[b].slots /\ t.back = txs[b].back
  /\ t.op = "dispatch" => (t.current => txs[b].current)

(* A call that is left alone goes on. *)
LEMMA LeftAlone ==
  ASSUME OutboxTyped, NEW b \in Clients
  PROVE  GoesOn(b, txs[b])
  BY DEF GoesOn, OutboxTyped

(* Other calls go on when their reads have become old. *)
LEMMA Stale ==
  ASSUME OutboxTyped, NEW c
  PROVE  /\ StaleBut(c) \in [Clients -> Tx]
         /\ \A b \in Clients :
              /\ GoesOn(b, StaleBut(c)[b])
              /\ b # c /\ txs[b].op = "dispatch" => StaleBut(c)[b].current = FALSE
              /\ b = c => StaleBut(c)[b] = txs[b]
<1>1. ASSUME NEW b \in Clients
      PROVE  /\ GoesOn(b, StaleBut(c)[b])
             /\ b # c /\ txs[b].op = "dispatch" => StaleBut(c)[b].current = FALSE
             /\ b = c => StaleBut(c)[b] = txs[b]
  <2>1. CASE b # c /\ txs[b].op = "dispatch"
    <3> DEFINE t == txs[b]
    <3>1. t \in DispatchTx
      BY <2>1, CallShape DEF Open
    <3>2. StaleBut(c)[b] = [t EXCEPT !.current = FALSE]
      BY <2>1 DEF StaleBut
    <3>3. /\ [t EXCEPT !.current = FALSE] \in DispatchTx
          /\ [t EXCEPT !.current = FALSE].op = t.op
          /\ [t EXCEPT !.current = FALSE].todo = t.todo
          /\ [t EXCEPT !.current = FALSE].slots = t.slots
          /\ [t EXCEPT !.current = FALSE].back = t.back
          /\ [t EXCEPT !.current = FALSE].current = FALSE
      <4> HIDE DEF t
      <4> QED  BY <3>1 DEF DispatchTx
    <3> QED  BY <2>1, <3>2, <3>3 DEF GoesOn, Tx
  <2>2. CASE ~(b # c /\ txs[b].op = "dispatch")
    <3>1. StaleBut(c)[b] = txs[b]
      BY <2>2 DEF StaleBut
    <3> QED  BY <2>2, <3>1, LeftAlone
  <2> QED  BY <2>1, <2>2
<1>2. StaleBut(c) = [b \in Clients |-> StaleBut(c)[b]]
  BY DEF StaleBut
<1>3. \A b \in Clients : StaleBut(c)[b] \in Tx
  BY <1>1 DEF GoesOn
<1>4. StaleBut(c) \in [Clients -> Tx]
  BY <1>2, <1>3
<1> QED  BY <1>1, <1>4

(* A step that changes the call of c only. *)
LEMMA OwnCall ==
  ASSUME OutboxTyped, NEW c \in Clients, NEW t \in Tx, txs' = [txs EXCEPT ![c] = t]
  PROVE  /\ txs' \in [Clients -> Tx] /\ txs'[c] = t
         /\ \A b \in Clients \ {c} : txs'[b] = txs[b]
  BY DEF OutboxTyped

(* A commit ends c's call, the others go on. *)
LEMMA CommitCalls ==
  ASSUME OutboxTyped, NEW c \in Clients, Commit(c)
  PROVE  /\ txs' \in [Clients -> Tx] /\ txs'[c] = Idle
         /\ \A b \in Clients \ {c} :
              /\ GoesOn(b, txs'[b])
              /\ txs[b].op = "dispatch" /\ base' # base => txs'[b].current = FALSE
<1> DEFINE s == IF Reads(c) # base THEN StaleBut(c) ELSE txs
<1>1. txs' = [s EXCEPT ![c] = Idle] /\ base' = Reads(c)
  BY DEF Commit
<1>2. s \in [Clients -> Tx]
  BY Stale DEF OutboxTyped
<1>3. \A b \in Clients \ {c} :
        /\ GoesOn(b, s[b])
        /\ txs[b].op = "dispatch" /\ Reads(c) # base => s[b].current = FALSE
  BY Stale, LeftAlone
<1> HIDE DEF s
<1>4. Idle \in Tx
  BY DEF Tx
<1>5. txs' \in [Clients -> Tx] /\ txs'[c] = Idle /\ \A b \in Clients \ {c} : txs'[b] = s[b]
  BY <1>1, <1>2, <1>4
<1> QED  BY <1>1, <1>3, <1>5
-----------------------------------------------------------------------------
(* Steps.                                                                   *)

(* The steps of OutboxNext, by what they do. *)
LEMMA OutboxCases ==
  ASSUME OutboxTyped, [OutboxNext]_outboxVars
  PROVE  \/ UNCHANGED outboxVars
         \/ \E c \in Producers : \E call \in Inputs[c] : BeginEnqueue(c, call)
         \/ \E c \in Clients : InsertDelta(c)
         \/ \E c \in Clients : CommitInsert(c)
         \/ \E c \in Clients : ReadBack(c)
         \/ \E c \in Clients, s \in Syncs, n \in PullLimits : Pull(c, s, n)
         \/ \E c \in Clients : StageDelta(c)
         \/ \E c \in Clients : Open(c) /\ Commit(c) /\ UNCHANGED aborts
         \/ \E c \in Clients : Open(c) /\ Rollback(c) /\ aborts' \in 0..MaxAborts
         \/ \E c \in Clients : Mapping(c)
<1>1. ASSUME NEW c, Abort(c) PROVE Open(c) /\ Rollback(c) /\ aborts' \in 0..MaxAborts
  <2>1. aborts \in 0..MaxAborts /\ aborts < MaxAborts /\ aborts' = aborts + 1
    BY <1>1 DEF Abort, OutboxTyped
  <2>2. aborts' \in 0..MaxAborts
    BY <2>1, SqliteOutboxAssumption
  <2> QED  BY <1>1, <2>2 DEF Abort
<1>2. \A c : Busy(c) => Open(c) /\ Rollback(c) /\ aborts' \in 0..MaxAborts
  BY DEF Busy, OutboxTyped
<1>3. \A c : Finish(c) => Open(c) /\ Commit(c) /\ UNCHANGED aborts
  BY DEF Finish
<1>4. CASE UNCHANGED outboxVars
  BY <1>4
<1>5. CASE \E c \in Producers :
             \/ \E call \in Inputs[c] : BeginEnqueue(c, call)
             \/ InsertDelta(c) \/ CommitInsert(c) \/ ReadBack(c) \/ Finish(c)
  BY <1>3, <1>5, Roles
<1>6. CASE \E c \in Dispatchers :
             \/ \E s \in Syncs, n \in PullLimits : Pull(c, s, n)
             \/ StageDelta(c) \/ Finish(c) \/ Busy(c)
  BY <1>2, <1>3, <1>6, Roles
<1>7. CASE \E c \in Mappers : Mapping(c)
  BY <1>7, Roles
<1>8. CASE \E c \in Clients : Abort(c)
  BY <1>1, <1>8
<1> QED  BY <1>4, <1>5, <1>6, <1>7, <1>8 DEF OutboxNext

(* An enqueue begins with nothing to acknowledge. *)
LEMMA BeginEnqueueStep ==
  ASSUME NEW c \in Producers, NEW call \in Inputs[c], BeginEnqueue(c, call)
  PROVE  /\ ~Open(c)
         /\ Call(call.op, call.items) \in EnqueueTx
         /\ Call(call.op, call.items).slots = {} /\ Call(call.op, call.items).back = 0
         /\ txs' = [txs EXCEPT ![c] = Call(call.op, call.items)]
         /\ UNCHANGED <<base, draft, writer, acked, aborts>>
<1>1. call.op \in {"enqueue", "app", "batch"} /\ call.items \in Seq(Item)
  BY SqliteOutboxAssumption
<1>2. 0 \in 0..MaxDeltas
  BY SqliteOutboxAssumption
<1>3. Call(call.op, call.items) \in EnqueueTx
  BY <1>1, <1>2 DEF Call, EnqueueTx
<1> QED  BY <1>3 DEF BeginEnqueue, Call

(* The slot an item claims is its dedup key. *)
LEMMA ItemSlot ==
  ASSUME NEW item \in Item, NEW slot \in {<<item.window, item.key>>} \cap Slots
  PROVE  slot = DedupKey(item)
<1>1. slot = <<item.window, item.key>> /\ <<item.window, item.key>> \in Slots
  OBVIOUS
<1>2. item.window \in Windows
  BY <1>1 DEF Slots
<1> QED  BY <1>1, <1>2, SqliteOutboxAssumption DEF DedupKey

(* What an insert does: a row is made only when there is none with the      *)
(* dedup key, and what the call counts on from then on is in the draft.     *)
InsertedBy(c, db, t) ==
  /\ Open(c) /\ txs[c] \in EnqueueTx
  /\ Writes(c, db, t)
  /\ db \in Database
  /\ t \in EnqueueTx /\ t.op = txs[c].op
  /\ OnlyRecords(draft, db) /\ Grows(draft, db)
  /\ SlotsUnique(draft) => SlotsUnique(db)
  /\ Backed(draft, txs[c]) => Backed(db, t)

(* That follows from the statement. *)
LEMMA InsertStep ==
  ASSUME OutboxTyped, NEW c \in Clients, InsertDelta(c)
  PROVE  \E db, t : InsertedBy(c, db, t)
<1> DEFINE t    == txs[c]
           item == Head(t.todo)
           slot == DedupKey(item)
           new  == Freshest(draft)
           db   == IF Twins(draft, slot) = {} THEN [draft EXCEPT !.rows[new] = NewRow(item)]
                                              ELSE draft
           next == [t EXCEPT !.todo = Tail(@),
                             !.slots = @ \cup ({<<item.window, item.key>>} \cap Slots)]
           u    == IF t.op = "batch" THEN next
                     ELSE [next EXCEPT !.back = ReadBackID(draft, slot, new)]
<1>1. /\ t.op \in {"enqueue", "app", "batch"} /\ t.todo # <<>> /\ t.back = 0
  BY DEF InsertDelta
<1>2. CanWrite(c)
  BY DEF InsertDelta, Writes
<1>3. Reads(c) = draft
  BY <1>2, ReadsDraft
<1>4. Writes(c, db, u) /\ (Twins(draft, slot) # {} \/ Existing(draft) # DeltaIDs)
  BY <1>3 DEF InsertDelta
<1>5. Open(c) /\ t \in EnqueueTx
  BY <1>1, CallShape DEF Open
<1>6. item \in Item /\ Tail(t.todo) \in Seq(Item)
  <2>1. t.todo \in Seq(Item)
    BY <1>5, TxFields
  <2> QED  BY <1>1, <2>1, HeadTail
<1>7. draft \in Database
  BY DEF OutboxTyped
<1>8. slot \in Slots \cup {NoSlot}
  BY <1>6 DEF DedupKey, Item, Slots
<1>9. ReadBackID(draft, slot, new) \in Existing(db) /\ ReadBackID(draft, slot, new) \in 0..MaxDeltas
  <2>1. CASE Twins(draft, slot) = {}
    <3>1. new \in DeltaIDs \ Existing(draft)
      BY <1>4, <2>1, FreshestIsFree
    <3>2. db = Inserted(draft, new, item)
      BY <2>1 DEF Inserted
    <3>3. new \in Existing(db)
      BY <1>6, <1>7, <3>1, <3>2, RowInserted
    <3>4. new \in 0..MaxDeltas
      BY <3>1, SqliteOutboxAssumption DEF DeltaIDs
    <3> QED  BY <2>1, <3>3, <3>4 DEF ReadBackID
  <2>2. CASE Twins(draft, slot) # {}
    <3>1. ReadBackID(draft, slot, new) \in Twins(draft, slot)
      BY <2>2 DEF ReadBackID
    <3>2. ReadBackID(draft, slot, new) \in Existing(draft) /\ db = draft
      BY <2>2, <3>1 DEF Twins
    <3>3. ReadBackID(draft, slot, new) \in 0..MaxDeltas
      BY <3>2, SqliteOutboxAssumption DEF Existing, DeltaIDs
    <3> QED  BY <3>2, <3>3
  <2> QED  BY <2>1, <2>2
<1>10. /\ u \in EnqueueTx /\ u.op = t.op
       /\ u.slots = t.slots \cup ({<<item.window, item.key>>} \cap Slots)
       /\ u.back \in {0, ReadBackID(draft, slot, new)}
  <2> DEFINE b == ReadBackID(draft, slot, new)
             n == {<<item.window, item.key>>} \cap Slots
             q == Tail(t.todo)
  <2>1. b \in 0..MaxDeltas /\ n \subseteq Slots /\ q \in Seq(Item)
    BY <1>6, <1>9
  <2>2. next = [t EXCEPT !.todo = q, !.slots = @ \cup n]
    OBVIOUS
  <2>3. u = IF t.op = "batch" THEN next ELSE [next EXCEPT !.back = b]
    OBVIOUS
  <2> HIDE DEF b, n, q, u, next
  <2> DEFINE r == t
  <2>4. r \in EnqueueTx /\ r.back = 0 /\ next = [r EXCEPT !.todo = q, !.slots = r.slots \cup n]
    BY <1>1, <1>5, <2>2
  <2>5. u = IF r.op = "batch" THEN next ELSE [next EXCEPT !.back = b]
    BY <2>3
  <2>6. u \in EnqueueTx /\ u.op = r.op /\ u.slots = r.slots \cup n /\ u.back \in {0, b}
    <3> HIDE DEF r, t
    <3>1. /\ next \in EnqueueTx /\ next.op = r.op /\ next.slots = r.slots \cup n
          /\ next.back = 0
      BY <2>1, <2>4 DEF EnqueueTx
    <3> QED  BY <2>1, <2>5, <3>1 DEF EnqueueTx
  <2> QED  BY <2>6 DEF b, n
<1> HIDE DEF u
<1>11. /\ db \in Database /\ OnlyRecords(draft, db) /\ Grows(draft, db)
       /\ SlotsUnique(draft) => SlotsUnique(db)
       /\ \A s \in {<<item.window, item.key>>} \cap Slots : Holds(db, s)
  <2>1. CASE Twins(draft, slot) = {}
    <3>1. new \in DeltaIDs \ Existing(draft)
      BY <1>4, <2>1, FreshestIsFree
    <3>2. db = Inserted(draft, new, item)
      BY <2>1 DEF Inserted
    <3> HIDE DEF db, new, item
    <3>3. /\ db \in Database
          /\ Existing(db) = Existing(draft) \cup {new}
          /\ \A d \in Existing(draft) : db.rows[d] = draft.rows[d]
          /\ db.rows[new].slot = slot
          /\ db.rows[new].state = "pending"
          /\ db.jobs = draft.jobs
      BY <1>6, <1>7, <3>1, <3>2, RowInserted
    <3>4. \A d \in Existing(draft) : slot # NoSlot => draft.rows[d].slot # slot
      BY <2>1 DEF Twins
    <3> HIDE DEF slot
    <3>5. SlotsUnique(draft) => SlotsUnique(db)
      BY <3>3, <3>4 DEF SlotsUnique
    <3>6. OnlyRecords(draft, db) /\ Grows(draft, db)
      BY <3>3 DEF OnlyRecords, Grows
    <3>7. \A s \in {<<item.window, item.key>>} \cap Slots : s = slot
      BY <1>6, ItemSlot DEF slot
    <3>8. Holds(db, slot)
      BY <3>3 DEF Holds
    <3> QED  BY <3>3, <3>5, <3>6, <3>7, <3>8
  <2>2. CASE Twins(draft, slot) # {}
    <3>1. db = draft
      BY <2>2
    <3> HIDE DEF db
    <3>2. Holds(draft, slot)
      BY <2>2 DEF Twins, Holds
    <3>3. \A s \in {<<item.window, item.key>>} \cap Slots : s = slot
      BY <1>6, ItemSlot
    <3>4. OnlyRecords(draft, draft) /\ Grows(draft, draft)
      BY DEF OnlyRecords, Grows
    <3> QED  BY <1>7, <3>1, <3>2, <3>3, <3>4
  <2> QED  BY <2>1, <2>2
<1> HIDE DEF db
<1>12. Backed(draft, t) => Backed(db, u)
  BY <1>9, <1>10, <1>11, GrowsKeeps DEF Backed
<1>13. InsertedBy(c, db, u)
  BY <1>4, <1>5, <1>10, <1>11, <1>12 DEF InsertedBy
<1> QED  BY <1>13

(* Reading a row back leaves the rest of the call as it is. *)
LEMMA ReadBackStep ==
  ASSUME OutboxTyped, NEW c \in Clients, ReadBack(c)
  PROVE  \E t \in EnqueueTx :
           /\ Open(c) /\ t.op = txs[c].op /\ t.slots = txs[c].slots /\ t.back = 0
           /\ txs' = [txs EXCEPT ![c] = t]
           /\ UNCHANGED <<base, draft, writer, acked, aborts>>
<1> DEFINE r == txs[c]
           t == [r EXCEPT !.back = 0]
<1>1. Open(c) /\ r.back # 0
  BY DEF ReadBack
<1>2. r \in EnqueueTx
  BY <1>1, CallShape, TxFields
<1>3. txs' = [txs EXCEPT ![c] = t] /\ UNCHANGED <<base, draft, writer, acked, aborts>>
  BY DEF ReadBack
<1>4. t \in EnqueueTx /\ t.op = r.op /\ t.slots = r.slots /\ t.back = 0
  <2> HIDE DEF r
  <2>1. 0 \in 0..MaxDeltas
    BY SqliteOutboxAssumption
  <2> QED  BY <1>2, <2>1 DEF EnqueueTx
<1> QED  BY <1>1, <1>3, <1>4

(* A dispatch begins with deltas that are committed and pending. *)
LEMMA PullStep ==
  ASSUME NEW c, NEW s, NEW n \in PullLimits, Pull(c, s, n)
  PROVE  \E q \in Seq(DeltaIDs) :
           /\ ~Open(c)
           /\ \A i \in DOMAIN q : q[i] \in Existing(base) /\ base.rows[q[i]].state = "pending"
           /\ Call("dispatch", q) \in DispatchTx
           /\ txs' = [txs EXCEPT ![c] = Call("dispatch", q)]
           /\ UNCHANGED <<base, draft, writer, acked, aborts>>
<1>0. PICK k \in 1..n :
        \E q \in [1..k -> PendingDeltas(s)] : txs' = [txs EXCEPT ![c] = Call("dispatch", q)]
  BY DEF Pull
<1>1. PICK q \in [1..k -> PendingDeltas(s)] : txs' = [txs EXCEPT ![c] = Call("dispatch", q)]
  BY <1>0
<1>2. \A i \in DOMAIN q : q[i] \in Existing(base) /\ base.rows[q[i]].state = "pending"
  BY DEF PendingDeltas
<1>3. k \in Nat /\ PendingDeltas(s) \subseteq DeltaIDs
  BY SqliteOutboxAssumption DEF PendingDeltas, Existing
<1>4. q \in Seq(DeltaIDs)
  BY <1>3
<1>5. Call("dispatch", q) \in DispatchTx
  BY <1>4 DEF Call, DispatchTx
<1> QED  BY <1>1, <1>2, <1>4, <1>5 DEF Pull

(* A dispatch stages the first of its deltas. *)
LEMMA StageStep ==
  ASSUME OutboxTyped, NEW c \in Clients, StageDelta(c)
  PROVE  \E t \in DispatchTx :
           /\ Open(c) /\ txs[c].op = "dispatch" /\ txs[c] \in DispatchTx /\ txs[c].todo # <<>>
           /\ t.todo = Tail(txs[c].todo) /\ t.current = txs[c].current
           /\ Writes(c, Dispatched(draft, Head(txs[c].todo)), t)
<1> DEFINE r == txs[c]
           t == [r EXCEPT !.todo = Tail(@)]
<1>1. r.op = "dispatch" /\ r.todo # <<>> /\ Writes(c, Dispatched(Reads(c), Head(r.todo)), t)
  BY DEF StageDelta
<1>2. Open(c) /\ r \in DispatchTx
  BY <1>1, CallShape DEF Open
<1>3. Reads(c) = draft
  BY <1>1, ReadsDraft DEF Writes
<1>4. Tail(r.todo) \in Seq(DeltaIDs)
  <2>1. r.todo \in Seq(DeltaIDs)
    BY <1>2, TxFields
  <2> QED  BY <1>1, <2>1, HeadTail
<1>5. t \in DispatchTx /\ t.todo = Tail(r.todo) /\ t.current = r.current
  <2> HIDE DEF r
  <2> QED  BY <1>2, <1>4 DEF DispatchTx
<1> QED  BY <1>1, <1>2, <1>3, <1>5

(* The commit of an insert ends nothing; other calls go on. *)
LEMMA CommitInsertStep ==
  ASSUME OutboxTyped, NEW c \in Clients, CommitInsert(c)
  PROVE  /\ writer = c /\ txs[c].op # "dispatch"
         /\ base' = draft /\ writer' = NoClient /\ UNCHANGED <<draft, acked, aborts>>
         /\ txs' \in [Clients -> Tx]
         /\ \A b \in Clients :
              /\ GoesOn(b, txs'[b])
              /\ txs[b].op = "dispatch" /\ base' # base => txs'[b].current = FALSE
<1>1. writer = c /\ txs[c].op # "dispatch"
      /\ base' = draft /\ writer' = NoClient /\ UNCHANGED <<draft, acked, aborts>>
      /\ txs' = IF draft # base THEN StaleBut(c) ELSE txs
  BY DEF CommitInsert
<1>2. txs' \in [Clients -> Tx]
  BY <1>1, Stale DEF OutboxTyped
<1>3. \A b \in Clients :
        /\ GoesOn(b, txs'[b])
        /\ txs[b].op = "dispatch" /\ base' # base => txs'[b].current = FALSE
  BY <1>1, Stale, LeftAlone
<1> QED  BY <1>1, <1>2, <1>3

(* A statement of a mapper makes what the dispatches have read old. *)
LEMMA MappingStep ==
  ASSUME OutboxTyped, NEW c \in Clients, Mapping(c)
  PROVE  \E d \in DeltaIDs :
           /\ writer = NoClient /\ writer' = NoClient
           /\ Create(c, d) \/ MarkDispatched(c, d)
           /\ draft' = base' /\ UNCHANGED <<acked, aborts>>
           /\ txs' \in [Clients -> Tx]
           /\ \A b \in Clients :
                /\ GoesOn(b, txs'[b])
                /\ txs[b].op = "dispatch" => txs'[b].current = FALSE
<1>1. PICK d \in DeltaIDs : Create(c, d) \/ MarkDispatched(c, d)
  BY DEF Mapping
<1>2. writer = NoClient /\ writer' = NoClient /\ draft' = base' /\ UNCHANGED <<acked, aborts>>
      /\ txs' = StaleBut(c) /\ txs[c].op = "idle"
  BY <1>1 DEF Mapping, Create, MarkDispatched, Open
<1>3. txs' \in [Clients -> Tx]
  BY <1>2, Stale
<1>4. \A b \in Clients :
        /\ GoesOn(b, txs'[b])
        /\ txs[b].op = "dispatch" => txs'[b].current = FALSE
  BY <1>2, Stale
<1> QED  BY <1>1, <1>2, <1>3, <1>4
-----------------------------------------------------------------------------
(* The invariant.                                                           *)

(* An empty database is in order. *)
LEMMA InvInit == OutboxInit => OutboxInv
<1> SUFFICES ASSUME OutboxInit PROVE OutboxInv
  OBVIOUS
<1>1. base \in Database /\ draft = base
  BY DEF OutboxInit, Database
<1>2. Existing(base) = {}
  BY DEF OutboxInit, Existing
<1>3. writer = NoClient /\ writer \notin Clients
  BY Roles DEF OutboxInit
<1>4. txs \in [Clients -> Tx] /\ \A c \in Clients : txs[c].op = "idle"
  BY DEF OutboxInit, Tx, Idle
<1>5. acked = {} /\ aborts \in 0..MaxAborts
  BY SqliteOutboxAssumption DEF OutboxInit
<1>6. OutboxTyped
  BY <1>1, <1>3, <1>4, <1>5 DEF OutboxTyped
<1>7. SlotsUnique(base) /\ Grows(base, base) /\ AckedIsRecorded
  BY <1>2, <1>5 DEF SlotsUnique, Grows, AckedIsRecorded
<1>8. \A c \in Clients : ~Open(c) /\ DispatchOK(c)
  BY <1>4 DEF Open, DispatchOK
<1>9. RecordsInv
  BY <1>1, <1>6, <1>7, <1>8 DEF RecordsInv
<1> QED  BY <1>3, <1>8, <1>9 DEF OutboxInv, DraftOK

(* A call that goes on is still backed when the rows it reads stay. *)
LEMMA BackedOn ==
  ASSUME OutboxTyped, NEW b \in Clients, Open(b) => Backed(Reads(b), txs[b]),
         GoesOn(b, txs'[b]), Grows(Reads(b), Reads(b)')
  PROVE  Open(b)' => Backed(Reads(b)', txs'[b])
<1> SUFFICES ASSUME Open(b)' PROVE Backed(Reads(b)', txs'[b])
  OBVIOUS
<1>1. Open(b)
  BY DEF Open, GoesOn
<1>2. Backed(Reads(b)', txs[b])
  BY <1>1, GrowsKeeps
<1> QED  BY <1>1, <1>2 DEF Backed, GoesOn

(* A dispatch that goes on finds its deltas pending, unless its reads have  *)
(* become old.                                                              *)
LEMMA DispatchOn ==
  ASSUME OutboxTyped, NEW b \in Clients, DispatchOK(b), GoesOn(b, txs'[b]),
         txs[b].op = "dispatch" /\ base' # base => txs'[b].current = FALSE
  PROVE  DispatchOK(b)'
<1> SUFFICES ASSUME txs'[b].op = "dispatch", txs'[b].current
             PROVE  \A i \in DOMAIN txs'[b].todo :
                      /\ txs'[b].todo[i] \in Existing(base)'
                      /\ base'.rows[txs'[b].todo[i]].state = "pending"
  BY DEF DispatchOK
<1>1. txs[b].op = "dispatch" /\ txs[b].current /\ Open(b) /\ txs'[b].todo = txs[b].todo
  BY DEF GoesOn, Open
<1>2. base' = base
  BY <1>1
<1>3. Existing(base)' = Existing(base)
  BY <1>2 DEF Existing
<1> QED  BY <1>1, <1>2, <1>3 DEF DispatchOK

(* What was acknowledged stays recorded. *)
LEMMA AckedKept ==
  ASSUME AckedIsRecorded, Grows(base, base'),
         \A slot \in acked' \ acked : Holds(base', slot)
  PROVE  AckedIsRecorded'
<1>1. \A slot \in acked : Holds(base, slot)
  BY DEF AckedIsRecorded, Holds
<1>2. \A slot \in acked' : Holds(base', slot)
  BY <1>1, GrowsKeeps
<1> QED  BY <1>2 DEF AckedIsRecorded, Holds, Existing

(* A step that only changes c's call keeps the invariant. *)
LEMMA OwnKeeps ==
  ASSUME OutboxInv, NEW c \in Clients, NEW t \in Tx, txs' = [txs EXCEPT ![c] = t],
         UNCHANGED <<base, draft, writer, acked, aborts>>,
         Backed(Reads(c), t),
         writer = c => t.op = txs[c].op /\ t.op # "dispatch",
         t.op = "dispatch" => \A i \in DOMAIN t.todo :
           t.todo[i] \in Existing(base) /\ base.rows[t.todo[i]].state = "pending"
  PROVE  OutboxInv'
<1>0. OutboxTyped /\ RecordsInv
  BY DEF OutboxInv, RecordsInv
<1>1. /\ txs' \in [Clients -> Tx] /\ txs'[c] = t
      /\ \A b \in Clients \ {c} : txs'[b] = txs[b]
  BY <1>0, OwnCall
<1>2. writer \in Clients => txs'[writer].op = txs[writer].op
  BY <1>1
<1>3. OutboxTyped'
  BY <1>0, <1>1, <1>2 DEF OutboxTyped, Open
<1>4. /\ Existing(base)' = Existing(base) /\ Existing(draft)' = Existing(draft)
      /\ \A b : Reads(b)' = Reads(b)
  BY DEF Existing, Reads
<1>5. SlotsUnique(base)' /\ SlotsUnique(draft)' /\ Grows(base, draft)'
  BY <1>0 DEF RecordsInv
<1>6. AckedIsRecorded'
  BY <1>0, <1>4 DEF RecordsInv, AckedIsRecorded
<1>7. \A b \in Clients : Open(b)' => Backed(Reads(b), txs'[b])
  BY <1>0, <1>1 DEF RecordsInv, Open
<1>8. RecordsInv'
  BY <1>3, <1>4, <1>5, <1>6, <1>7 DEF RecordsInv, Backed
<1>9. \A b \in Clients : DispatchOK(b)'
  BY <1>1, <1>4 DEF OutboxInv, DispatchOK
<1>10. DraftOK'
  <2> SUFFICES ASSUME writer \in Clients
               PROVE  IF txs'[writer].op = "dispatch"
                      THEN txs'[writer].current /\ OnlyDispatches(base, draft)
                      ELSE OnlyRecords(base, draft)
    BY DEF DraftOK
  <2>1. CASE writer = c
    BY <1>1, <2>1 DEF OutboxInv, DraftOK
  <2>2. CASE writer # c
    BY <1>1, <2>2 DEF OutboxInv, DraftOK
  <2> QED  BY <2>1, <2>2
<1> QED  BY <1>8, <1>9, <1>10 DEF OutboxInv

(* A statement that writes keeps the invariant when what it adds to the     *)
(* draft is what a call of its kind may add.                                *)
LEMMA WriteKeeps ==
  ASSUME OutboxInv, NEW c \in Clients, NEW db \in Database, NEW t \in Tx, Writes(c, db, t),
         Open(c), t.op = txs[c].op, Grows(draft, db), SlotsUnique(db), Backed(db, t),
         IF t.op = "dispatch" THEN t.current /\ OnlyDispatches(base, db)
                              ELSE OnlyRecords(base, db),
         t.op = "dispatch" => \A i \in DOMAIN t.todo :
           t.todo[i] \in Existing(base) /\ base.rows[t.todo[i]].state = "pending"
  PROVE  OutboxInv'
<1>0. OutboxTyped /\ RecordsInv
  BY DEF OutboxInv, RecordsInv
<1>1. /\ CanWrite(c) /\ writer' = c /\ draft' = db /\ txs' = [txs EXCEPT ![c] = t]
      /\ UNCHANGED <<base, acked, aborts>>
  BY DEF Writes
<1>2. /\ txs' \in [Clients -> Tx] /\ txs'[c] = t
      /\ \A b \in Clients \ {c} : txs'[b] = txs[b]
  BY <1>0, <1>1, OwnCall
<1>3. OutboxTyped'
  BY <1>0, <1>1, <1>2, Roles DEF OutboxTyped, Open
<1>4. Grows(base, db)
  BY <1>0, GrowsOn DEF RecordsInv
<1>5. Reads(c)' = db /\ \A b \in Clients \ {c} : Reads(b) = base /\ Reads(b)' = base
  BY <1>1, Roles DEF Reads, CanWrite
<1>6. \A b \in Clients : Open(b)' => Backed(Reads(b)', txs'[b])
  <2>1. ASSUME NEW b \in Clients \ {c}, Open(b)' PROVE Backed(base, txs[b])
    <3>1. Open(b)
      BY <1>2, <2>1 DEF Open
    <3>2. Backed(Reads(b), txs[b])
      BY <1>0, <3>1 DEF RecordsInv
    <3> QED  BY <1>5, <3>2
  <2> QED  BY <1>2, <1>5, <2>1
<1>7. SlotsUnique(base)' /\ SlotsUnique(draft)' /\ Grows(base, draft)'
  BY <1>0, <1>1, <1>4 DEF RecordsInv
<1>8. AckedIsRecorded'
  BY <1>0, <1>1 DEF RecordsInv, AckedIsRecorded, Existing
<1>9. RecordsInv'
  BY <1>3, <1>6, <1>7, <1>8 DEF RecordsInv
<1>10. \A b \in Clients : DispatchOK(b)'
  BY <1>1, <1>2 DEF OutboxInv, DispatchOK, Existing
<1>11. DraftOK'
  BY <1>1, <1>2 DEF DraftOK
<1> QED  BY <1>9, <1>10, <1>11 DEF OutboxInv

(* An insert keeps it. *)
LEMMA InsertKeeps ==
  ASSUME OutboxInv, NEW c \in Clients, InsertDelta(c)
  PROVE  OutboxInv'
<1>0. OutboxTyped /\ RecordsInv
  BY DEF OutboxInv, RecordsInv
<1>1. PICK db, t : InsertedBy(c, db, t)
  BY <1>0, InsertStep
<1>2. Reads(c) = draft
  BY <1>0, <1>1, ReadsDraft DEF InsertedBy, Writes
<1>3. /\ Open(c) /\ Writes(c, db, t) /\ db \in Database /\ t \in Tx /\ t.op = txs[c].op
      /\ t.op # "dispatch" /\ txs[c].op # "dispatch"
      /\ OnlyRecords(draft, db) /\ Grows(draft, db)
  BY <1>1, TxFields DEF InsertedBy, Tx
<1>4. SlotsUnique(db) /\ Backed(db, t)
  BY <1>0, <1>1, <1>2 DEF InsertedBy, RecordsInv
<1>5. OnlyRecords(base, db)
  <2>1. CASE writer = c
    <3>1. OnlyRecords(base, draft)
      BY <1>3, <2>1 DEF OutboxInv, DraftOK
    <3>2. Grows(base, draft)
      BY <1>0 DEF RecordsInv
    <3> QED  BY <1>3, <3>1, <3>2 DEF OnlyRecords, Grows
  <2>2. CASE writer = NoClient
    BY <1>0, <1>3, <2>2 DEF OutboxTyped
  <2> QED  BY <1>3, <2>1, <2>2 DEF Writes, CanWrite
<1> QED  BY <1>3, <1>4, <1>5, WriteKeeps

(* A dispatched delta was pending before the transaction.                   *)
LEMMA StageKeeps ==
  ASSUME OutboxInv, NEW c \in Clients, StageDelta(c)
  PROVE  OutboxInv'
<1>0. OutboxTyped /\ RecordsInv
  BY DEF OutboxInv, RecordsInv
<1> DEFINE d  == Head(txs[c].todo)
           db == Dispatched(draft, d)
<1>1. PICK t \in DispatchTx :
        /\ Open(c) /\ txs[c].op = "dispatch" /\ txs[c] \in DispatchTx /\ txs[c].todo # <<>>
        /\ t.todo = Tail(txs[c].todo) /\ t.current = txs[c].current
        /\ Writes(c, db, t)
  BY <1>0, StageStep
<1>2. txs[c].current = TRUE /\ writer \in {NoClient, c}
  BY <1>1, TxFields DEF Writes, CanWrite
<1>3. /\ d = txs[c].todo[1] /\ 1 \in DOMAIN txs[c].todo
      /\ \A i \in DOMAIN t.todo : i + 1 \in DOMAIN txs[c].todo /\ t.todo[i] = txs[c].todo[i + 1]
  <2>1. txs[c].todo \in Seq(DeltaIDs)
    BY <1>1, TxFields
  <2> QED  BY <1>1, <2>1, HeadTail
<1>4. \A i \in DOMAIN txs[c].todo :
        txs[c].todo[i] \in Existing(base) /\ base.rows[txs[c].todo[i]].state = "pending"
  BY <1>1, <1>2 DEF OutboxInv, DispatchOK
<1>5. d \in Existing(base) /\ base.rows[d].state = "pending"
  BY <1>3, <1>4
<1>6. \A i \in DOMAIN t.todo :
        t.todo[i] \in Existing(base) /\ base.rows[t.todo[i]].state = "pending"
  BY <1>3, <1>4
<1>7. d \in Existing(draft) /\ draft \in Database /\ base \in Database
  BY <1>0, <1>5 DEF RecordsInv, Grows, OutboxTyped
<1> HIDE DEF d, db
<1>8. /\ db \in Database
      /\ Existing(db) = Existing(draft)
      /\ \A e \in DeltaIDs \ {d} : db.rows[e] = draft.rows[e] /\ db.jobs[e] = draft.jobs[e]
      /\ db.rows[d] = [draft.rows[d] EXCEPT !.state = "dispatched"]
      /\ db.rows[d].slot = draft.rows[d].slot
      /\ db.jobs[d] = 1
  BY <1>7, DeltaDispatched DEF db
<1>9. \A e \in Existing(draft) : e \in DeltaIDs /\ db.rows[e].slot = draft.rows[e].slot
  BY <1>8 DEF Existing
<1>10. Grows(draft, db) /\ SlotsUnique(db)
  <2>1. SlotsUnique(draft)
    BY <1>0 DEF RecordsInv
  <2> QED  BY <1>8, <1>9, <2>1 DEF Grows, SlotsUnique
<1>11. OnlyDispatches(base, draft)
  <2>1. CASE writer = c
    BY <1>1, <2>1 DEF OutboxInv, DraftOK
  <2>2. CASE writer = NoClient
    BY <1>0, <2>2 DEF OutboxTyped, OnlyDispatches
  <2> QED  BY <1>2, <2>1, <2>2
<1>12. db.rows[d] = [base.rows[d] EXCEPT !.state = "dispatched"]
  <2> DEFINE r == base.rows[d]
  <2>1. r \in Row /\ d \in DeltaIDs
    BY <1>5, <1>7, RowShape
  <2>2. [r EXCEPT !.state = "dispatched"] =
          [[r EXCEPT !.state = "dispatched"] EXCEPT !.state = "dispatched"]
    <3> HIDE DEF r
    <3> QED  BY <2>1 DEF Row
  <2>3. draft.rows[d] = r \/ draft.rows[d] = [r EXCEPT !.state = "dispatched"]
    BY <1>11, <2>1 DEF OnlyDispatches, IsDispatched
  <2> QED  BY <1>8, <2>2, <2>3
<1>13. OnlyDispatches(base, db)
  <2>1. IsDispatched(base, db, d)
    BY <1>5, <1>8, <1>12 DEF IsDispatched
  <2>2. \A e \in DeltaIDs \ {d} :
          \/ db.rows[e] = base.rows[e] /\ db.jobs[e] = base.jobs[e]
          \/ IsDispatched(base, db, e)
    BY <1>8, <1>11 DEF OnlyDispatches, IsDispatched
  <2> QED  BY <2>1, <2>2 DEF OnlyDispatches
<1>14. t \in Tx /\ t.op = "dispatch" /\ t.current /\ Backed(db, t)
  BY <1>1, <1>2, TxFields DEF Tx, Backed
<1> QED  BY <1>1, <1>6, <1>8, <1>10, <1>13, <1>14, WriteKeeps

(* A commit keeps it: what the call acknowledges is among what it commits. *)
LEMMA CommitKeeps ==
  ASSUME OutboxInv, NEW c \in Clients, Open(c), Commit(c), UNCHANGED aborts
  PROVE  OutboxInv'
<1>0. OutboxTyped /\ RecordsInv
  BY DEF OutboxInv, RecordsInv
<1>1. /\ base' = Reads(c) /\ acked' = acked \cup txs[c].slots
      /\ IF writer = c THEN writer' = NoClient /\ draft' = base'
                       ELSE UNCHANGED <<writer, draft>>
  BY DEF Commit
<1>2. /\ txs' \in [Clients -> Tx] /\ txs'[c] = Idle
      /\ \A b \in Clients \ {c} :
           /\ GoesOn(b, txs'[b])
           /\ txs[b].op = "dispatch" /\ base' # base => txs'[b].current = FALSE
  BY <1>0, CommitCalls
<1>3. Idle.op = "idle" /\ ~Open(c)'
  BY <1>2 DEF Idle, Open
<1>4. txs[c].slots \subseteq Slots /\ \A slot \in txs[c].slots : Holds(base', slot)
  <2>1. Backed(Reads(c), txs[c])
    BY <1>0 DEF RecordsInv
  <2>2. txs[c].slots \subseteq Slots
    BY <1>0, CallShape, TxFields
  <2> QED  BY <1>1, <2>1, <2>2 DEF Backed
<1>5. \/ writer = c /\ writer' = NoClient /\ base' = draft /\ draft' = draft
      \/ writer # c /\ writer' = writer /\ base' = base /\ draft' = draft
  BY <1>1 DEF Reads
<1>6. OutboxTyped'
  <2>1. base' \in Database /\ draft' \in Database
    BY <1>0, <1>5 DEF OutboxTyped
  <2>2. writer' \in Clients \cup {NoClient} /\ (writer' = NoClient => draft' = base')
    BY <1>0, <1>5 DEF OutboxTyped
  <2>3. writer' \in Clients => Open(writer)'
    <3> SUFFICES ASSUME writer' \in Clients PROVE Open(writer)'
      OBVIOUS
    <3>1. writer' = writer /\ writer # c /\ Open(writer)
      BY <1>0, <1>5, Roles DEF OutboxTyped
    <3>2. GoesOn(writer, txs'[writer])
      BY <1>2, <3>1
    <3> QED  BY <3>1, <3>2 DEF GoesOn, Open
  <2>4. acked' \subseteq Slots /\ aborts' \in 0..MaxAborts
    BY <1>0, <1>1, <1>4 DEF OutboxTyped
  <2> QED  BY <1>2, <2>1, <2>2, <2>3, <2>4 DEF OutboxTyped
<1>7. /\ Grows(base, base') /\ Grows(base', draft')
      /\ SlotsUnique(base') /\ SlotsUnique(draft')
  BY <1>0, <1>5 DEF RecordsInv, Grows
<1>8. AckedIsRecorded'
  BY <1>0, <1>1, <1>4, <1>7, AckedKept DEF RecordsInv
<1>9. \A b \in Clients \ {c} : Grows(Reads(b), Reads(b)')
  BY <1>5, <1>7, Roles DEF Reads, Grows
<1>10. \A b \in Clients : Open(b)' => Backed(Reads(b)', txs'[b])
  <2>1. ASSUME NEW b \in Clients \ {c} PROVE Open(b)' => Backed(Reads(b)', txs'[b])
    BY <1>0, <1>2, <1>9, BackedOn DEF RecordsInv
  <2> QED  BY <1>3, <2>1
<1>11. RecordsInv'
  BY <1>6, <1>7, <1>8, <1>10 DEF RecordsInv
<1>12. \A b \in Clients : DispatchOK(b)'
  <2>1. ASSUME NEW b \in Clients \ {c} PROVE DispatchOK(b)'
    BY <1>0, <1>2, DispatchOn DEF OutboxInv
  <2>2. DispatchOK(c)'
    BY <1>2, <1>3 DEF DispatchOK
  <2> QED  BY <2>1, <2>2
<1>13. DraftOK'
  <2> SUFFICES ASSUME writer' \in Clients
               PROVE  IF txs'[writer'].op = "dispatch"
                      THEN txs'[writer'].current /\ OnlyDispatches(base', draft')
                      ELSE OnlyRecords(base', draft')
    BY DEF DraftOK
  <2>1. writer' = writer /\ writer # c /\ base' = base /\ draft' = draft
    BY <1>5, Roles
  <2>2. txs'[writer] = txs[writer]
    <3>1. txs' = [txs EXCEPT ![c] = Idle]
      BY <1>1, <2>1 DEF Commit
    <3> QED  BY <1>0, <2>1, <3>1 DEF OutboxTyped
  <2> QED  BY <2>1, <2>2 DEF OutboxInv, DraftOK
<1> QED  BY <1>11, <1>12, <1>13 DEF OutboxInv

(* The commit of an insert keeps it: the row it is to read back is among    *)
(* what it commits.                                                         *)
LEMMA CommitInsertKeeps ==
  ASSUME OutboxInv, NEW c \in Clients, CommitInsert(c)
  PROVE  OutboxInv'
<1>0. OutboxTyped /\ RecordsInv
  BY DEF OutboxInv, RecordsInv
<1>1. /\ writer = c /\ base' = draft /\ writer' = NoClient /\ UNCHANGED <<draft, acked, aborts>>
      /\ txs' \in [Clients -> Tx]
      /\ \A b \in Clients :
           /\ GoesOn(b, txs'[b])
           /\ txs[b].op = "dispatch" /\ base' # base => txs'[b].current = FALSE
  BY <1>0, CommitInsertStep
<1>2. OutboxTyped'
  BY <1>0, <1>1, Roles DEF OutboxTyped
<1>3. /\ Grows(base, base') /\ Grows(base', draft')
      /\ SlotsUnique(base') /\ SlotsUnique(draft')
  BY <1>0, <1>1 DEF RecordsInv, Grows
<1>4. AckedIsRecorded'
  BY <1>0, <1>1, <1>3, AckedKept DEF RecordsInv
<1>5. \A b \in Clients : Grows(Reads(b), Reads(b)')
  BY <1>1, <1>3, Roles DEF Reads, Grows
<1>6. ASSUME NEW b \in Clients PROVE Open(b)' => Backed(Reads(b)', txs'[b])
  BY <1>0, <1>1, <1>5, BackedOn DEF RecordsInv
<1>7. RecordsInv'
  BY <1>2, <1>3, <1>4, <1>6 DEF RecordsInv
<1>8. ASSUME NEW b \in Clients PROVE DispatchOK(b)'
  BY <1>0, <1>1, DispatchOn DEF OutboxInv
<1>9. DraftOK'
  BY <1>1, Roles DEF DraftOK
<1> QED  BY <1>7, <1>8, <1>9 DEF OutboxInv

(* A rollback keeps it. *)
LEMMA RollbackKeeps ==
  ASSUME OutboxInv, NEW c \in Clients, Rollback(c), aborts' \in 0..MaxAborts
  PROVE  OutboxInv'
<1>0. OutboxTyped /\ RecordsInv
  BY DEF OutboxInv, RecordsInv
<1>1. /\ txs' = [txs EXCEPT ![c] = Idle] /\ UNCHANGED <<base, acked>>
      /\ \/ writer = c /\ writer' = NoClient /\ draft' = base
         \/ writer # c /\ writer' = writer /\ draft' = draft
  BY DEF Rollback
<1>2. /\ txs' \in [Clients -> Tx] /\ txs'[c] = Idle
      /\ \A b \in Clients \ {c} : txs'[b] = txs[b]
  BY <1>0, <1>1, OwnCall DEF Tx
<1>3. Idle.op = "idle" /\ ~Open(c)'
  BY <1>2 DEF Idle, Open
<1>4. OutboxTyped'
  BY <1>0, <1>1, <1>2, Roles DEF OutboxTyped, Open
<1>5. /\ Grows(base', draft') /\ SlotsUnique(base') /\ SlotsUnique(draft')
  BY <1>0, <1>1 DEF RecordsInv, Grows
<1>6. AckedIsRecorded'
  BY <1>0, <1>1 DEF RecordsInv, AckedIsRecorded, Existing
<1>7. \A b \in Clients \ {c} : Reads(b)' = Reads(b)
  BY <1>1, Roles DEF Reads
<1>8. ASSUME NEW b \in Clients, Open(b)' PROVE Backed(Reads(b)', txs'[b])
  <2>1. b # c /\ Open(b) /\ txs'[b] = txs[b]
    BY <1>2, <1>3, <1>8 DEF Open
  <2>2. Backed(Reads(b), txs[b])
    BY <1>0, <2>1 DEF RecordsInv
  <2> QED  BY <1>7, <2>1, <2>2
<1>9. RecordsInv'
  BY <1>4, <1>5, <1>6, <1>8 DEF RecordsInv
<1>10. \A b \in Clients : DispatchOK(b)'
  BY <1>1, <1>2, <1>3 DEF OutboxInv, DispatchOK, Existing
<1>11. DraftOK'
  BY <1>1, <1>2, Roles DEF OutboxInv, DraftOK
<1> QED  BY <1>9, <1>10, <1>11 DEF OutboxInv

(* A statement of a mapper keeps it. *)
LEMMA MappingKeeps ==
  ASSUME OutboxInv, NEW c \in Clients, Mapping(c)
  PROVE  OutboxInv'
<1>0. OutboxTyped /\ RecordsInv
  BY DEF OutboxInv, RecordsInv
<1>1. PICK d \in DeltaIDs :
        /\ writer = NoClient /\ writer' = NoClient
        /\ Create(c, d) \/ MarkDispatched(c, d)
        /\ draft' = base' /\ UNCHANGED <<acked, aborts>>
        /\ txs' \in [Clients -> Tx]
        /\ \A b \in Clients :
             /\ GoesOn(b, txs'[b])
             /\ txs[b].op = "dispatch" => txs'[b].current = FALSE
  BY <1>0, MappingStep
<1>2. /\ d \in Existing(base)
      /\ base' \in Database
      /\ Existing(base') = Existing(base)
      /\ \A e \in DeltaIDs \ {d} : base'.rows[e] = base.rows[e] /\ base'.jobs[e] = base.jobs[e]
      /\ base'.rows[d].slot = base.rows[d].slot
  BY <1>0, <1>1, DeltaMapped DEF OutboxTyped
<1>3. OutboxTyped'
  BY <1>0, <1>1, <1>2, Roles DEF OutboxTyped
<1>4. \A e \in Existing(base) : e \in DeltaIDs /\ base'.rows[e].slot = base.rows[e].slot
  BY <1>2 DEF Existing
<1>5. /\ Grows(base, base') /\ Grows(base', draft')
      /\ SlotsUnique(base') /\ SlotsUnique(draft')
  <2>1. SlotsUnique(base)
    BY <1>0 DEF RecordsInv
  <2>2. Grows(base, base') /\ SlotsUnique(base')
    BY <1>2, <1>4, <2>1 DEF Grows, SlotsUnique
  <2> QED  BY <1>1, <2>2 DEF Grows
<1>6. AckedIsRecorded'
  BY <1>0, <1>1, <1>5, AckedKept DEF RecordsInv
<1>7. \A b \in Clients : Grows(Reads(b), Reads(b)')
  BY <1>1, <1>5, Roles DEF Reads
<1>8. ASSUME NEW b \in Clients PROVE Open(b)' => Backed(Reads(b)', txs'[b])
  BY <1>0, <1>1, <1>7, BackedOn DEF RecordsInv
<1>9. RecordsInv'
  BY <1>3, <1>5, <1>6, <1>8 DEF RecordsInv
<1>10. ASSUME NEW b \in Clients PROVE DispatchOK(b)'
  BY <1>0, <1>1, DispatchOn DEF OutboxInv
<1>11. DraftOK'
  BY <1>1, Roles DEF DraftOK
<1> QED  BY <1>9, <1>10, <1>11 DEF OutboxInv

(* Every step keeps it. *)
LEMMA InvStep == OutboxInv /\ [OutboxNext]_outboxVars => OutboxInv'
<1> SUFFICES ASSUME OutboxInv, [OutboxNext]_outboxVars PROVE OutboxInv'
  OBVIOUS
<1>0. OutboxTyped
  BY DEF OutboxInv, RecordsInv
<1>1. CASE UNCHANGED outboxVars
  BY <1>1 DEF outboxVars, OutboxInv, RecordsInv, OutboxTyped, Open, Reads, AckedIsRecorded,
              Existing, DispatchOK, DraftOK
<1>2. CASE \E c \in Producers : \E call \in Inputs[c] : BeginEnqueue(c, call)
  <2> PICK c \in Producers : \E call \in Inputs[c] : BeginEnqueue(c, call)
    BY <1>2
  <2> PICK call \in Inputs[c] : BeginEnqueue(c, call)
    OBVIOUS
  <2> DEFINE t == Call(call.op, call.items)
  <2>1. /\ ~Open(c) /\ t \in EnqueueTx /\ t.slots = {} /\ t.back = 0
        /\ txs' = [txs EXCEPT ![c] = t]
        /\ UNCHANGED <<base, draft, writer, acked, aborts>>
    BY BeginEnqueueStep
  <2> HIDE DEF t
  <2>2. c \in Clients /\ writer # c
    BY <1>0, <2>1, Roles DEF OutboxTyped
  <2>3. t \in Tx /\ t.op # "dispatch" /\ Backed(Reads(c), t)
    BY <2>1, TxFields DEF Tx, Backed
  <2> QED  BY <2>1, <2>2, <2>3, OwnKeeps
<1>3. CASE \E c \in Clients : InsertDelta(c)
  BY <1>3, InsertKeeps
<1>4. CASE \E c \in Clients : CommitInsert(c)
  BY <1>4, CommitInsertKeeps
<1>5. CASE \E c \in Clients : ReadBack(c)
  <2> PICK c \in Clients : ReadBack(c)
    BY <1>5
  <2>1. PICK t \in EnqueueTx :
          /\ Open(c) /\ t.op = txs[c].op /\ t.slots = txs[c].slots /\ t.back = 0
          /\ txs' = [txs EXCEPT ![c] = t]
          /\ UNCHANGED <<base, draft, writer, acked, aborts>>
    BY <1>0, ReadBackStep
  <2>2. Backed(Reads(c), txs[c])
    BY <2>1 DEF OutboxInv, RecordsInv
  <2>3. t \in Tx /\ t.op # "dispatch" /\ Backed(Reads(c), t)
    BY <2>1, <2>2, TxFields DEF Tx, Backed
  <2> QED  BY <2>1, <2>3, OwnKeeps
<1>6. CASE \E c \in Clients, s \in Syncs, n \in PullLimits : Pull(c, s, n)
  <2> PICK c \in Clients, s \in Syncs, n \in PullLimits : Pull(c, s, n)
    BY <1>6
  <2>1. PICK q \in Seq(DeltaIDs) :
          /\ ~Open(c)
          /\ \A i \in DOMAIN q : q[i] \in Existing(base) /\ base.rows[q[i]].state = "pending"
          /\ Call("dispatch", q) \in DispatchTx
          /\ txs' = [txs EXCEPT ![c] = Call("dispatch", q)]
          /\ UNCHANGED <<base, draft, writer, acked, aborts>>
    BY PullStep
  <2> DEFINE t == Call("dispatch", q)
  <2>2. t.todo = q
    BY DEF Call
  <2> HIDE DEF t
  <2>3. t \in DispatchTx /\ txs' = [txs EXCEPT ![c] = t]
    BY <2>1 DEF t
  <2>4. writer # c
    BY <1>0, <2>1 DEF OutboxTyped
  <2>5. t \in Tx /\ Backed(Reads(c), t)
    BY <2>3, TxFields DEF Tx, Backed
  <2> QED  BY <2>1, <2>2, <2>3, <2>4, <2>5, OwnKeeps
<1>7. CASE \E c \in Clients : StageDelta(c)
  BY <1>7, StageKeeps
<1>8. CASE \E c \in Clients : Open(c) /\ Commit(c) /\ UNCHANGED aborts
  BY <1>8, CommitKeeps
<1>9. CASE \E c \in Clients : Open(c) /\ Rollback(c) /\ aborts' \in 0..MaxAborts
  BY <1>9, RollbackKeeps
<1>10. CASE \E c \in Clients : Mapping(c)
  BY <1>10, MappingKeeps
<1> QED
  BY <1>0, <1>1, <1>2, <1>3, <1>4, <1>5, <1>6, <1>7, <1>8, <1>9, <1>10, OutboxCases

(* The invariant implies what the run checks. *)
LEMMA RecordsFollow == OutboxInv => RecordsConsistent
<1> SUFFICES ASSUME OutboxInv PROVE RecordsConsistent
  OBVIOUS
<1>0. OutboxTyped /\ RecordsInv
  BY DEF OutboxInv, RecordsInv
<1>1. ASSUME NEW c \in Clients
      PROVE  \/ txs[c] = Idle /\ writer # c
             \/ /\ txs[c].op \in {"enqueue", "app", "batch", "dispatch"}
                /\ txs[c].slots \subseteq Slots
                /\ txs[c].back \in 0..MaxDeltas
                /\ txs[c].current \in BOOLEAN
  <2>1. CASE ~Open(c) /\ txs[c] = Idle
    BY <1>0, <2>1 DEF OutboxTyped
  <2>2. CASE txs[c] \in EnqueueTx
    BY <2>2, TxFields
  <2>3. CASE txs[c] \in DispatchTx
    BY <2>3, TxFields, SqliteOutboxAssumption
  <2> QED  BY <1>0, <2>1, <2>2, <2>3, CallShape
<1>2. OutboxTypeOK
  BY <1>0, <1>1 DEF OutboxTyped, OutboxTypeOK
<1>3. ReadBackFindsRow
  BY <1>0, Roles DEF RecordsInv, Backed, ReadBackFindsRow
<1> QED  BY <1>0, <1>2, <1>3 DEF RecordsInv, RecordsConsistent

(* Every acknowledged enqueue is durable and every read-back finds its row, *)
(* whatever transactions interleave, collide and are rolled back.           *)
THEOREM AcksAreDurable == OutboxSpec => []RecordsConsistent
  BY InvInit, InvStep, RecordsFollow, PTL DEF OutboxSpec

(* DispatchPending writes only while what it read is current, so a delta it *)
(* dispatches is pending to the commit; an enqueue's draft only adds rows.  *)
THEOREM OutboxInvariant == OutboxSpec => []OutboxInv
  BY InvInit, InvStep, PTL DEF OutboxSpec
-----------------------------------------------------------------------------
(* The transactions implement Outbox.                                       *)

(* What Outbox sees of a database. *)
BarsShow ==
  /\ \A d \in DeltaIDs :
       /\ statusBar[d] = base.rows[d].state
       /\ slotBar[d] = IF d \in Existing(base) THEN base.rows[d].slot ELSE NoSlot
       /\ slotBar[d] \in Slots \cup {NoSlot}
       /\ d \in Existing(base) => statusBar[d] \in {"pending", "dispatched"}
       /\ d \notin Existing(base) => statusBar[d] = "absent"
  /\ statusBar = [d \in DeltaIDs |-> statusBar[d]]
  /\ slotBar = [d \in DeltaIDs |-> slotBar[d]]
  /\ base.jobs = [d \in DeltaIDs |-> base.jobs[d]]
  /\ Delivery!Recorded = Existing(base)

(* That follows from the types. *)
LEMMA Bars == OutboxTyped => BarsShow
<1> SUFFICES ASSUME OutboxTyped PROVE BarsShow
  OBVIOUS
<1>0. base \in Database /\ Existing(base) \subseteq DeltaIDs
  BY DEF OutboxTyped, Existing
<1>1. \A d \in DeltaIDs :
        /\ statusBar[d] = base.rows[d].state
        /\ slotBar[d] = IF d \in Existing(base) THEN base.rows[d].slot ELSE NoSlot
  BY DEF statusBar, slotBar
<1>2. \A d \in Existing(base) : /\ base.rows[d].state \in {"pending", "dispatched"}
                                /\ base.rows[d].slot \in Slots \cup {NoSlot}
  BY <1>0, RowShape
<1>3. \A d \in DeltaIDs \ Existing(base) : base.rows[d].state = "absent"
  BY DEF Existing, NoRow
<1>4. \A d \in DeltaIDs :
       /\ slotBar[d] \in Slots \cup {NoSlot}
       /\ d \in Existing(base) => statusBar[d] \in {"pending", "dispatched"}
       /\ d \notin Existing(base) => statusBar[d] = "absent"
  BY <1>1, <1>2, <1>3
<1>5. statusBar = [d \in DeltaIDs |-> statusBar[d]] /\ slotBar = [d \in DeltaIDs |-> slotBar[d]]
  BY DEF statusBar, slotBar
<1>6. base.jobs = [d \in DeltaIDs |-> base.jobs[d]]
  BY <1>0 DEF Database
<1>7. Delivery!Recorded = Existing(base)
  BY <1>0, <1>4 DEF Delivery!Recorded
<1> QED  BY <1>1, <1>4, <1>5, <1>6, <1>7 DEF BarsShow

(* A step that leaves the committed database alone shows nothing. *)
LEMMA ShowsNothing ==
  ASSUME UNCHANGED base
  PROVE  UNCHANGED Delivery!deliveryVars
<1>1. Existing(base)' = Existing(base)
  BY DEF Existing
<1>2. statusBar' = statusBar /\ slotBar' = slotBar
  BY <1>1 DEF statusBar, slotBar
<1> QED  BY <1>2 DEF Delivery!deliveryVars

(* A commit of new rows records them. *)
LEMMA ShowsRecord ==
  ASSUME BarsShow, BarsShow', OnlyRecords(base, base'), Grows(base, base'), SlotsUnique(base')
  PROVE  [Delivery!DeliveryNext]_Delivery!deliveryVars
<1> DEFINE D == Existing(base') \ Existing(base)
<1>1. /\ Existing(base)' = Existing(base') /\ Existing(base') \subseteq DeltaIDs
      /\ Existing(base) \subseteq Existing(base')
  BY DEF Existing, Grows
<1>2. base'.jobs = base.jobs
  BY DEF OnlyRecords
<1>3. \A d \in DeltaIDs : statusBar'[d] = IF d \in D THEN "pending" ELSE statusBar[d]
  <2>1. ASSUME NEW d \in D PROVE statusBar'[d] = "pending"
    BY <1>1 DEF BarsShow, OnlyRecords
  <2>2. ASSUME NEW d \in Existing(base) PROVE statusBar'[d] = statusBar[d]
    BY <1>1 DEF BarsShow, OnlyRecords
  <2>3. ASSUME NEW d \in DeltaIDs, d \notin Existing(base') PROVE statusBar'[d] = statusBar[d]
    BY <1>1, <2>3 DEF BarsShow
  <2> QED  BY <2>1, <2>2, <2>3
<1>4. \A d \in DeltaIDs \ D : slotBar'[d] = slotBar[d]
  <2>1. ASSUME NEW d \in Existing(base) PROVE slotBar'[d] = slotBar[d]
    BY <1>1 DEF BarsShow, Grows
  <2>2. ASSUME NEW d \in DeltaIDs, d \notin Existing(base') PROVE slotBar'[d] = slotBar[d]
    BY <1>1, <2>2 DEF BarsShow
  <2> QED  BY <2>1, <2>2
<1>5. CASE D = {}
  <2>1. statusBar' = statusBar /\ slotBar' = slotBar
    BY <1>3, <1>4, <1>5 DEF BarsShow
  <2> QED  BY <1>2, <2>1 DEF Delivery!deliveryVars
<1>6. CASE D # {}
  <2>1. statusBar' = [d \in DeltaIDs |-> IF d \in D THEN "pending" ELSE statusBar[d]]
    BY <1>3 DEF BarsShow
  <2>2. slotBar' \in [DeltaIDs -> Slots \cup {NoSlot}]
    BY DEF BarsShow
  <2>3. ASSUME NEW d \in D, slotBar'[d] # NoSlot, NEW e \in (Delivery!Recorded \cup D) \ {d}
        PROVE  slotBar'[e] # slotBar'[d]
    <3>1. e \in Existing(base') /\ d \in Existing(base')
      BY <1>1 DEF BarsShow
    <3>2. slotBar'[e] = base'.rows[e].slot /\ slotBar'[d] = base'.rows[d].slot
      BY <1>1, <3>1 DEF BarsShow
    <3> QED  BY <2>3, <3>1, <3>2 DEF SlotsUnique
  <2>4. D \cap Delivery!Recorded = {} /\ D \in SUBSET DeltaIDs
    BY <1>1 DEF BarsShow
  <2>5. Delivery!Record(D)
    BY <1>2, <1>4, <1>6, <2>1, <2>2, <2>3, <2>4 DEF Delivery!Record
  <2> QED  BY <2>4, <2>5 DEF Delivery!DeliveryNext
<1> QED  BY <1>5, <1>6

(* A commit of dispatches dispatches their deltas, each with a job. *)
LEMMA ShowsDispatch ==
  ASSUME OutboxTyped, BarsShow, BarsShow', OnlyDispatches(base, base'), Grows(base, base')
  PROVE  [Delivery!DeliveryNext]_Delivery!deliveryVars
<1> DEFINE D == {d \in DeltaIDs : IsDispatched(base, base', d)}
<1>0. Existing(base)' = Existing(base')
  BY DEF Existing
<1>1. ASSUME NEW d \in D
      PROVE  /\ statusBar[d] = "pending" /\ statusBar'[d] = "dispatched"
             /\ base'.jobs[d] = 1 /\ slotBar'[d] = slotBar[d]
  <2>1. d \in Existing(base) /\ base.rows[d].state = "pending" /\ base'.jobs[d] = 1
        /\ base'.rows[d] = [base.rows[d] EXCEPT !.state = "dispatched"]
    BY DEF IsDispatched
  <2>2. base.rows[d] \in Row
    BY <2>1, RowShape DEF OutboxTyped
  <2>3. base'.rows[d].state = "dispatched" /\ base'.rows[d].slot = base.rows[d].slot
    BY <2>1, <2>2, RowMarked
  <2>4. d \in Existing(base')
    BY <2>1 DEF Grows
  <2> QED  BY <1>0, <2>1, <2>3, <2>4 DEF BarsShow
<1>2. ASSUME NEW d \in DeltaIDs \ D
      PROVE  /\ statusBar'[d] = statusBar[d] /\ base'.jobs[d] = base.jobs[d]
             /\ slotBar'[d] = slotBar[d]
  <2>1. base'.rows[d] = base.rows[d] /\ base'.jobs[d] = base.jobs[d]
    BY DEF OnlyDispatches
  <2>2. d \in Existing(base') <=> d \in Existing(base)
    BY <2>1 DEF Existing
  <2> QED  BY <1>0, <2>1, <2>2 DEF BarsShow
<1> HIDE DEF D
<1>3. D \in SUBSET DeltaIDs /\ slotBar' = slotBar
  BY <1>1, <1>2 DEF BarsShow, D
<1>4. CASE D = {}
  <2>1. statusBar' = statusBar /\ base'.jobs = base.jobs
    BY <1>2, <1>4 DEF BarsShow
  <2> QED  BY <1>3, <2>1 DEF Delivery!deliveryVars
<1>5. CASE D # {}
  <2>1. statusBar' = [d \in DeltaIDs |-> IF d \in D THEN "dispatched" ELSE statusBar[d]]
    BY ZenonT(30), <1>1, <1>2 DEF BarsShow
  <2>2. base'.jobs = [d \in DeltaIDs |-> IF d \in D THEN 1 ELSE base.jobs[d]]
    <3>1. \A d \in DeltaIDs : base'.jobs[d] = IF d \in D THEN 1 ELSE base.jobs[d]
      BY <1>1, <1>2
    <3>2. base'.jobs = [d \in DeltaIDs |-> base'.jobs[d]]
      BY DEF BarsShow
    <3> QED  BY <3>1, <3>2
  <2>3. Delivery!Dispatch(D)
    BY <1>1, <1>3, <1>5, <2>1, <2>2 DEF Delivery!Dispatch
  <2> QED  BY <1>3, <2>3 DEF Delivery!DeliveryNext
<1> QED  BY <1>4, <1>5

(* A mapper's statement maps a delta, marks one, or shows nothing. *)
LEMMA ShowsMapping ==
  ASSUME OutboxTyped, BarsShow, BarsShow', NEW c, NEW d, Create(c, d) \/ MarkDispatched(c, d)
  PROVE  [Delivery!DeliveryNext]_Delivery!deliveryVars
<1>1. /\ d \in Existing(base)
      /\ Existing(base') = Existing(base)
      /\ \A e \in DeltaIDs \ {d} : base'.rows[e] = base.rows[e] /\ base'.jobs[e] = base.jobs[e]
      /\ base'.rows[d].slot = base.rows[d].slot
      /\ \/ base'.rows[d] = base.rows[d] /\ base.jobs[d] = 0 /\ base'.jobs[d] = 1
         \/ /\ base'.rows[d] = [base.rows[d] EXCEPT !.state = "dispatched"]
            /\ base'.rows[d].state = "dispatched"
            /\ base'.jobs[d] = base.jobs[d]
  BY DeltaMapped DEF OutboxTyped
<1>2. d \in DeltaIDs /\ Existing(base)' = Existing(base)
  BY <1>1 DEF Existing
<1>3. \A e \in DeltaIDs : slotBar'[e] = slotBar[e]
  BY <1>1, <1>2 DEF BarsShow
<1>4. slotBar' = slotBar
  BY <1>3 DEF BarsShow
<1>5. \A e \in DeltaIDs \ {d} : statusBar'[e] = statusBar[e]
  BY <1>1, <1>2 DEF BarsShow
<1>6. CASE base'.rows[d] = base.rows[d] /\ base.jobs[d] = 0 /\ base'.jobs[d] = 1
  <2>1. statusBar'[d] = statusBar[d]
    BY <1>2, <1>6 DEF BarsShow
  <2>2. statusBar' = statusBar
    BY <1>2, <1>5, <2>1 DEF BarsShow
  <2>3. base'.jobs = [base.jobs EXCEPT ![d] = 1]
    BY <1>1, <1>2, <1>6 DEF BarsShow
  <2>4. Delivery!Map(d)
    BY <1>1, <1>4, <1>6, <2>2, <2>3 DEF BarsShow, Delivery!Map
  <2> QED  BY <1>2, <2>4 DEF Delivery!DeliveryNext
<1>7. CASE base'.rows[d].state = "dispatched" /\ base'.jobs[d] = base.jobs[d]
  <2>1. base'.jobs = base.jobs
    BY <1>1, <1>2, <1>7 DEF BarsShow
  <2>2. statusBar'[d] = "dispatched"
    BY <1>2, <1>7 DEF BarsShow
  <2>3. CASE statusBar[d] = "dispatched"
    <3>1. statusBar' = statusBar
      BY <1>2, <1>5, <2>2, <2>3 DEF BarsShow
    <3> QED  BY <1>4, <2>1, <3>1 DEF Delivery!deliveryVars
  <2>4. CASE statusBar[d] = "pending"
    <3>1. statusBar' = [statusBar EXCEPT ![d] = "dispatched"]
      BY <1>2, <1>5, <2>2 DEF BarsShow
    <3>2. Delivery!Mark(d)
      BY <1>4, <2>1, <2>4, <3>1 DEF Delivery!Mark
    <3> QED  BY <1>2, <3>2 DEF Delivery!DeliveryNext
  <2> QED  BY <1>1, <1>2, <2>3, <2>4 DEF BarsShow
<1> QED  BY <1>1, <1>6, <1>7

(* Every step is a step of Outbox or shows nothing. *)
LEMMA DeliveryStep ==
  OutboxInv /\ OutboxInv' /\ [OutboxNext]_outboxVars =>
    [Delivery!DeliveryNext]_Delivery!deliveryVars
<1> SUFFICES ASSUME OutboxInv, OutboxInv', [OutboxNext]_outboxVars
             PROVE  [Delivery!DeliveryNext]_Delivery!deliveryVars
  OBVIOUS
<1>0. OutboxTyped /\ RecordsInv /\ BarsShow
  BY Bars DEF OutboxInv, RecordsInv
<1>1. BarsShow'
  <2>1. OutboxTyped'
    BY DEF OutboxInv, RecordsInv
  <2> QED  BY <2>1, Bars, PTL
<1>2. Grows(base, draft) /\ SlotsUnique(draft)
  BY <1>0 DEF RecordsInv
<1>3. CASE base' = base
  BY <1>3, ShowsNothing
<1>4. CASE \E c \in Clients : writer = c /\ base' = draft
  <2>1. CASE OnlyDispatches(base, base')
    BY <1>0, <1>1, <1>2, <1>4, <2>1, ShowsDispatch
  <2>2. CASE OnlyRecords(base, base')
    BY <1>0, <1>1, <1>2, <1>4, <2>2, ShowsRecord
  <2> QED  BY <1>4, <2>1, <2>2 DEF OutboxInv, DraftOK
<1>5. CASE \E c \in Clients : Mapping(c)
  <2>1. PICK c \in Clients, d \in DeltaIDs : Create(c, d) \/ MarkDispatched(c, d)
    BY <1>5 DEF Mapping
  <2> QED  BY <1>0, <1>1, <2>1, ShowsMapping
<1>6. ASSUME NEW c \in Clients, Commit(c) PROVE base' = base \/ (writer = c /\ base' = draft)
  <2>1. base' = Reads(c)
    BY <1>6 DEF Commit
  <2> QED  BY <2>1 DEF Reads
<1>7. \A c \in Clients : CommitInsert(c) => writer = c /\ base' = draft
  BY DEF CommitInsert
<1>8. \A c \in Clients : InsertDelta(c) \/ StageDelta(c) => base' = base
  BY DEF InsertDelta, StageDelta, Writes
<1>9. \A c \in Clients : ReadBack(c) \/ Rollback(c) => base' = base
  BY DEF ReadBack, Rollback
<1>10. \A c : (\A call : BeginEnqueue(c, call) => base' = base)
              /\ (\A s, n : Pull(c, s, n) => base' = base)
  BY DEF BeginEnqueue, Pull
<1>11. UNCHANGED outboxVars => base' = base
  BY DEF outboxVars
<1> QED
  BY <1>0, <1>3, <1>4, <1>5, <1>6, <1>7, <1>8, <1>9, <1>10, <1>11, OutboxCases

(* The empty database is the empty outbox. *)
LEMMA DeliveryInitially == OutboxInit => Delivery!DeliveryInit
<1> SUFFICES ASSUME OutboxInit PROVE Delivery!DeliveryInit
  OBVIOUS
<1>1. Existing(base) = {} /\ \A d \in DeltaIDs : base.rows[d].state = "absent"
  BY DEF OutboxInit, Existing, NoRow
<1>2. base.jobs = [d \in DeltaIDs |-> 0]
  BY DEF OutboxInit
<1> QED  BY <1>1, <1>2 DEF Delivery!DeliveryInit, statusBar, slotBar

(* Whatever transactions interleave, collide and are rolled back, the       *)
(* committed tables behave as the abstract outbox: of the deltas of one     *)
(* dedup key at most one is ever committed, and a dispatch takes a delta    *)
(* out of the queue only at a commit that leaves it with exactly one job.   *)
THEOREM TransactionsImplementOutbox == OutboxSpec => ImplementsOutbox
<1>1. OutboxInv /\ OutboxInv' /\ [OutboxNext]_outboxVars =>
        [Delivery!DeliveryNext]_Delivery!deliveryVars
  BY DeliveryStep
<1> QED
  BY <1>1, OutboxInvariant, DeliveryInitially, PTL
     DEF OutboxSpec, ImplementsOutbox, Delivery!DeliverySpec
=============================================================================
