---------------------------- MODULE MemoryOutbox ----------------------------
(***************************************************************************)
(* The in-memory outbox: the delta store of internal/store.go composed     *)
(* with the job store of the same file by internal/dispatcher.go.          *)
(*                                                                         *)
(* A delta says that the projection of a key may be stale.  Dispatch turns *)
(* pending deltas into outbox jobs, under the mutexes of both stores, so   *)
(* every method is again one action.  A delta is enqueued pending; inside  *)
(* a dedup window only the first delta of a key is kept.                   *)
(*                                                                         *)
(* A key stands for a projection type and key together: both enter the     *)
(* dedup key as one hash.                                                  *)
(***************************************************************************)
EXTENDS JobStore

CONSTANTS
  Keys,         \* projection identities
  Windows,      \* non-empty dedup windows
  NoWindow,     \* the empty dedup window
  Ages,         \* how long before now callers say a change occurred
  PullLimits,   \* the positive limits of DispatchPending
  MaxBatch      \* bound on the length of an EnqueueBatch

ASSUME MemoryOutboxAssumption ==
  /\ NoWindow \notin Windows
  /\ Ages \subseteq Nat
  /\ PullLimits \subseteq Nat \ {0}
  /\ MaxBatch \in Nat

VARIABLES
  nextDelta,   \* number of the delta enqueued last
  deltas,      \* deltas[n]: the delta with ID "delta-n"
  dedup,       \* dedup[<<w, k>>]: the delta of key k in window w, 0 if none
  marked       \* history: the deltas a caller passed to MarkDispatched

deltaVars  == <<nextDelta, deltas, dedup, marked>>
outboxVars == <<storeVars, deltaVars>>

Delta == [sync : Syncs, key : Keys, window : Windows \cup {NoWindow},
          state : {"pending", "dispatched"}, occurredAt : Nat, createdAt : Nat]

(* Type invariant of the delta store, beside that of the job store. *)
OutboxTypeOK ==
  /\ TypeOK
  /\ nextDelta \in 0..MaxDeltas
  /\ deltas \in [1..nextDelta -> Delta]
  /\ dedup \in [Windows \X Keys -> 0..nextDelta]
  /\ marked \subseteq 1..nextDelta

OutboxInit ==
  /\ Init
  /\ nextDelta = 0
  /\ deltas = [d \in 1..0 |-> d]
  /\ dedup = [wk \in Windows \X Keys |-> 0]
  /\ marked = {}
-----------------------------------------------------------------------------
NewDelta(s, k, w, at) ==
  [sync |-> s, key |-> k, window |-> w, state |-> "pending",
   occurredAt |-> at, createdAt |-> now]

(* An Enqueue with a dedup key that is known returns the delta it found. *)
Duplicate(w, k) == w # NoWindow /\ dedup[<<w, k>>] # 0

Enqueue(s, k, w, age) ==
  /\ nextDelta < MaxDeltas
  /\ ~Duplicate(w, k)
  /\ nextDelta' = nextDelta + 1
  /\ deltas' = [d \in 1..nextDelta' |->
                  IF d = nextDelta' THEN NewDelta(s, k, w, now - age) ELSE deltas[d]]
  /\ dedup' = IF w = NoWindow THEN dedup ELSE [dedup EXCEPT ![<<w, k>>] = nextDelta']
  /\ UNCHANGED <<marked, storeVars>>

(* The positions of a batch that are inserted: keys new to the window, and  *)
(* of equal keys in the batch the first.  An item is a sync and a key.      *)
Fresh(items, w) ==
  {i \in DOMAIN items : /\ ~Duplicate(w, items[i][2])
                        /\ \A h \in 1..(i - 1) : items[h][2] # items[i][2]}

(* q lists the elements of S in the order lt. *)
Lists(q, S, lt(_, _)) ==
  /\ \A x \in S : \E i \in DOMAIN q : q[i] = x
  /\ \A i, j \in DOMAIN q : i < j => lt(q[i], q[j])

(* All deltas of a batch carry the batch's one window. *)
EnqueueBatch(items, w, age) ==
  LET fresh == Fresh(items, w)
      n     == Cardinality(fresh)
      key(q, i) == items[q[i]][2]
  IN  \E q \in [1..n -> fresh] :
        /\ Lists(q, fresh, <)
        /\ nextDelta + n <= MaxDeltas
        /\ nextDelta' = nextDelta + n
        /\ deltas' = [d \in 1..nextDelta' |->
             IF d <= nextDelta THEN deltas[d]
             ELSE NewDelta(items[q[d - nextDelta]][1], key(q, d - nextDelta), w,
                           now - age)]
        /\ dedup' = [vk \in Windows \X Keys |->
             IF vk[1] = w /\ \E i \in 1..n : key(q, i) = vk[2]
               THEN nextDelta + (CHOOSE i \in 1..n : key(q, i) = vk[2])
               ELSE dedup[vk]]
        /\ UNCHANGED <<marked, storeVars>>

MarkDispatched(d) ==
  /\ deltas[d].state = "pending"
  /\ deltas' = [deltas EXCEPT ![d].state = "dispatched"]
  /\ marked' = marked \cup {d}
  /\ UNCHANGED <<nextDelta, dedup, storeVars>>
-----------------------------------------------------------------------------
(* The pending order: occurred_at, then created_at, then ID. *)
PendingBefore_ByArrival(c, d) == IDBefore(c, d)
PendingBefore(c, d) ==
  LET a == deltas[c]
      b == deltas[d]
  IN  \/ a.occurredAt < b.occurredAt
      \/ /\ a.occurredAt = b.occurredAt
         /\ \/ a.createdAt < b.createdAt
            \/ a.createdAt = b.createdAt /\ IDBefore(c, d)

PendingDeltas(s) ==
  {d \in 1..nextDelta : deltas[d].state = "pending" /\ deltas[d].sync = s}

(* The first n pending deltas of a sync, or all of them when fewer. *)
FirstPending(C, s, n) ==
  /\ C \subseteq PendingDeltas(s)
  /\ C # {}
  /\ \/ Cardinality(C) = n
     \/ Cardinality(C) < n /\ C = PendingDeltas(s)
  /\ \A c \in C, d \in PendingDeltas(s) \ C : PendingBefore(c, d)

(* Deltas that already have a job are only marked dispatched. *)
ToStage_All(C) == C
ToStage(C) == {d \in C : jobByDelta[d] = 0}

Dispatched_SkipsMapped(C) == ToStage(C)
Dispatched_Everything(C) == 1..nextDelta
Dispatched(C) == C

DispatchPending(s, n) ==
  \E C \in SUBSET PendingDeltas(s) :
    LET staged == ToStage(C)
        k      == Cardinality(staged)
    IN  /\ FirstPending(C, s, n)
        /\ \E q \in [1..k -> staged] :
             /\ Lists(q, staged, PendingBefore)
             /\ nextID + k <= MaxJobs
             /\ nextID' = nextID + k
             /\ jobs' = [j \in 1..nextID' |-> IF j <= nextID THEN jobs[j]
                           ELSE NewJob(s, "outbox", q[j - nextID], 0, now)]
             /\ jobByDelta' = [d \in DeltaIDs |-> IF d \in staged
                           THEN nextID + (CHOOSE i \in 1..k : q[i] = d)
                           ELSE jobByDelta[d]]
             /\ deltas' = [d \in 1..nextDelta |-> IF d \in Dispatched(C)
                           THEN [deltas[d] EXCEPT !.state = "dispatched"]
                           ELSE deltas[d]]
             /\ UNCHANGED <<now, nextDelta, dedup, marked>>
-----------------------------------------------------------------------------
(* A caller of Create maps a delta it was given to a job of the same sync. *)
(* Create itself checks neither that the delta exists nor its sync: that   *)
(* callers keep to this is assumed of them.                                *)
CreateFor(d, m, b) ==
  /\ Create(deltas[d].sync, "outbox", d, m, b)
  /\ UNCHANGED deltaVars

Batches == UNION {[1..n -> Syncs \X Keys] : n \in 1..MaxBatch}

Producer ==
  \E age \in Ages :
    /\ age <= now
    /\ \/ \E s \in Syncs, k \in Keys, w \in Windows \cup {NoWindow} :
            Enqueue(s, k, w, age)
       \/ \E items \in Batches, w \in Windows : EnqueueBatch(items, w, age)

OutboxNext ==
  \/ Producer
  \/ \E d \in 1..nextDelta : MarkDispatched(d)
  \/ \E s \in Syncs, n \in PullLimits : DispatchPending(s, n)
  \/ \E d \in 1..nextDelta, m \in MaxAttemptsInputs, b \in Delays : CreateFor(d, m, b)
  \/ Call /\ UNCHANGED deltaVars
  \/ Tick /\ UNCHANGED deltaVars

OutboxSpec == OutboxInit /\ [][OutboxNext]_outboxVars

(* Every worker cycle of every sync starts with a dispatch. *)
OutboxFairness == \A s \in Syncs : WF_outboxVars(\E n \in PullLimits : DispatchPending(s, n))

FairOutboxSpec == OutboxSpec /\ OutboxFairness
-----------------------------------------------------------------------------
(* A dispatched delta has an outbox job of its own sync, unless a caller    *)
(* marked it dispatched by hand: dispatch never loses a change, also not    *)
(* one that a direct caller of Create had mapped before.                    *)
NoDeltaLost ==
  \A d \in 1..nextDelta :
    deltas[d].state = "dispatched" /\ d \notin marked =>
      /\ jobByDelta[d] # 0
      /\ jobs[jobByDelta[d]].sync = deltas[d].sync

(* The dedup map and the deltas agree: in a window a key has at most one    *)
(* delta, however Enqueue and EnqueueBatch calls with repeats interleave    *)
(* with dispatch.                                                           *)
OneDeltaPerWindow ==
  /\ \A d \in 1..nextDelta : deltas[d].window # NoWindow =>
        dedup[<<deltas[d].window, deltas[d].key>>] = d
  /\ \A w \in Windows, k \in Keys : dedup[<<w, k>>] # 0 =>
        /\ deltas[dedup[<<w, k>>]].window = w
        /\ deltas[dedup[<<w, k>>]].key = k

(* The deltas, the dedup map, the jobs and the delta map say the same of    *)
(* every change: none is lost, none is there twice.                         *)
RowsConsistent ==
  OutboxTypeOK /\ NoDeltaLost /\ OneDeltaPerWindow /\ OneOutboxJobPerDelta

(* Dispatch follows the queue: a step that dispatches a delta dispatches    *)
(* every pending delta of its sync that occurred earlier.                   *)
DispatchesInOrder ==
  [][\A s \in Syncs : \A c, d \in PendingDeltas(s) :
        /\ deltas[c].occurredAt < deltas[d].occurredAt
        /\ deltas'[d].state = "dispatched"
        /\ d \notin marked'
        => deltas'[c].state = "dispatched"]_outboxVars

(* A pending delta is dispatched sooner or later: neither later deltas nor  *)
(* deltas that already have a job can block the head of the queue.          *)
PendingIsDispatched ==
  \A d \in DeltaIDs :
    d <= nextDelta ~> (d <= nextDelta /\ deltas[d].state = "dispatched")
-----------------------------------------------------------------------------
deltaStatusBar == [d \in DeltaIDs |-> IF d <= nextDelta THEN deltas[d].state ELSE "absent"]
deltaSlotBar   == [d \in DeltaIDs |-> IF d <= nextDelta /\ deltas[d].window # NoWindow
                THEN <<deltas[d].window, deltas[d].key>> ELSE <<>>]
deltaJobsBar   == [d \in DeltaIDs |-> Cardinality(
                {j \in 1..nextID : jobs[j].origin = "outbox" /\ jobs[j].delta = d})]

Delivery == INSTANCE Outbox WITH Deltas <- DeltaIDs, Slots <- Windows \X Keys,
                                 NoSlot <- <<>>, status <- deltaStatusBar,
                                 slot <- deltaSlotBar, jobs <- deltaJobsBar

(* The in-memory stores implement Outbox: a delta leaves the queue with     *)
(* exactly one job, and a dedup slot admits one delta.                      *)
ImplementsOutbox == Delivery!DeliverySpec
=============================================================================
