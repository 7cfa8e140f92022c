------------------------- MODULE SqliteJobs_proofs -------------------------
(***************************************************************************)
(* Theorems about the SQLite job store, for every number of processes,     *)
(* rows and claims, and batches of any size.                               *)
(***************************************************************************)
EXTENDS SqliteJobs, SequenceTheorems, TLAPS

(* The calls under way.                                                     *)
ClaimOps == {"clock", "select", "claim"}

Updating == [op : {"update"}, reading : Nat]
Undoing  == [op : {"undo"}, reading : Nat, batch : Seq(Nat)]
Claiming == [op : ClaimOps, sync : Syncs, limit : BatchLimits, lockFor : LockFors,
             start : Nat, reading : Nat, candidate : Nat, current : BOOLEAN,
             batch : Seq(Nat)]

Call == {Idle} \cup Updating \cup Undoing \cup Claiming

(* A call's readings lie in the past, its batch exists and has room for     *)
(* what it still claims.                                                    *)
CallTyped(c) ==
  LET call == calls[c]
  IN  /\ call.op \in {"update", "undo"} \cup ClaimOps => call.reading <= now
      /\ call.op \in {"undo"} \cup ClaimOps => Range(call.batch) \subseteq 1..nextID
      /\ call.op \in ClaimOps =>
           /\ call.start <= call.reading
           /\ Len(call.batch) <= call.limit
           /\ call.op # "clock" => Len(call.batch) < call.limit
           /\ call.candidate \in 0..nextID
           /\ call.op = "claim" => call.candidate # 0

DropsTyped == dropped \in [Clients -> SUBSET ((1..nextID) \X (Nat \cup {NoTime}))]

StoreInv ==
  /\ now \in 0..MaxTime /\ nextID \in 0..MaxJobs /\ faults \in 0..MaxFaults
  /\ jobs \in [1..nextID -> Row]
  /\ calls \in [Clients -> Call] /\ \A c \in Clients : CallTyped(c)
  /\ held \in [Clients -> SUBSET (1..nextID)]
  /\ DropsTyped
  /\ LeaseWellFormed
-----------------------------------------------------------------------------
(* What a step of client c can do to row j, judged at the time it carries.  *)
At(c) == IF calls[c].op = "undo" THEN now ELSE calls[c].reading

Kept(j) == jobs'[j] = jobs[j]

Queued(j) == jobs[j].state \in {"pending", "retrying"}

Granted(j, c) ==
  /\ calls[c].op = "claim"
  /\ Queued(j) \/ Expired(j, At(c))
  /\ jobs'[j].state = "processing" /\ jobs'[j].lockedBy = c
  /\ jobs'[j].lockedUntil \in Nat /\ jobs'[j].lockedUntil = At(c) + calls[c].lockFor
  /\ jobs'[j].attempts = jobs[j].attempts

Renewed(j, c) ==
  /\ calls[c].op = "update"
  /\ Owned(j, c, At(c))
  /\ jobs'[j].state = "processing" /\ jobs'[j].lockedBy = c
  /\ jobs'[j].lockedUntil \in Nat /\ jobs'[j].lockedUntil > At(c)
  /\ jobs'[j].attempts = jobs[j].attempts

Orphaned(j, c) ==
  /\ calls[c].op = "update"
  /\ Expired(j, At(c))
  /\ jobs'[j].state = "processing"
  /\ jobs'[j].lockedBy = NoWorker /\ jobs'[j].lockedUntil = NoTime
  /\ jobs'[j].attempts = jobs[j].attempts

Ended(j, c, failures) ==
  /\ calls[c].op \in {"update", "undo"}
  /\ \/ /\ Owned(j, c, At(c))
        /\ \/ jobs'[j].state = "synced" /\ failures = 0
           \/ jobs'[j].state = "dead" /\ failures = 1
           \/ jobs'[j].state = "retrying"
     \/ Expired(j, At(c)) /\ jobs'[j].state = "retrying" /\ failures = 0
  /\ jobs'[j].lockedBy = NoWorker /\ jobs'[j].lockedUntil = NoTime
  /\ jobs'[j].attempts = jobs[j].attempts + failures

Changed(j, c) ==
  \/ Granted(j, c) \/ Renewed(j, c) \/ Orphaned(j, c)
  \/ \E failures \in {0, 1} : Ended(j, c, failures)

(* A step of client c leaves the rows alone, appends a row, or changes one. *)
RowAppended ==
  /\ nextID' = nextID + 1 /\ nextID' \in 1..MaxJobs
  /\ jobs' \in [1..nextID' -> Row]
  /\ \A j \in 1..nextID : Kept(j)
  /\ jobs'[nextID'].state = "pending" /\ jobs'[nextID'].attempts = 0
  /\ jobs'[nextID'].lockedBy = NoWorker /\ jobs'[nextID'].lockedUntil = NoTime

RowChanged(c) ==
  /\ nextID' = nextID /\ jobs' \in [1..nextID -> Row]
  /\ calls'[c] # calls[c]
  /\ \E k \in 1..nextID : Changed(k, c) /\ \A j \in (1..nextID) \ {k} : Kept(j)

RowsMove(c) == UNCHANGED <<nextID, jobs>> \/ RowAppended \/ RowChanged(c)

(* It moves its own call; a claim of another client at most turns old.      *)
CallKept(d) ==
  \/ calls'[d] = calls[d]
  \/ calls[d].op = "claim" /\ calls'[d] = [calls[d] EXCEPT !.current = FALSE]

(* A job that could not be given back is remembered.                        *)
DropsMove == DropsTyped' /\ \A d \in Clients : dropped[d] \subseteq dropped'[d]

CallMoves(c) ==
  /\ now' = now /\ faults' \in 0..MaxFaults /\ DropsMove
  /\ calls' \in [Clients -> Call]
  /\ \A d \in Clients \ {c} : CallKept(d) /\ held'[d] = held[d]
  /\ CallTyped(c)'
  /\ held' \in [Clients -> SUBSET (1..nextID')]

(* The leases client c knows of, returned to it or in the batch it claims   *)
(* or gives back: a step loses none that still counts, unless its give-back *)
(* fails.                                                                   *)
Known(c) ==
  held[c] \cup IF calls[c].op \in {"undo"} \cup ClaimOps THEN Range(calls[c].batch) ELSE {}

Dropped(j, c) == <<j, jobs[j].lockedUntil>> \in dropped[c]

KnownMoves(c) ==
  /\ \A j \in Known(c) \cap (1..nextID) :
       \/ j \in Known(c)' \/ ~Owned(j, c, now)'
       \/ Kept(j) /\ Dropped(j, c)'
  /\ \A j \in 1..nextID :
       ~Kept(j) /\ (Granted(j, c) \/ Renewed(j, c)) => j \in Known(c)'

(* The batch of a claim begins empty, and grows by what is granted.         *)
BatchMoves(c) ==
  calls'[c].op \in ClaimOps =>
    \/ calls'[c].batch = <<>>
    \/ /\ calls[c].op \in ClaimOps
       /\ calls'[c].start = calls[c].start /\ calls'[c].lockFor = calls[c].lockFor
       /\ \/ UNCHANGED <<nextID, jobs>> /\ calls'[c].batch = calls[c].batch
          \/ \E k \in 1..nextID : Granted(k, c) /\ calls'[c].batch = Append(calls[c].batch, k)

ClientStep(c) == CallMoves(c) /\ RowsMove(c) /\ KnownMoves(c) /\ BatchMoves(c)
-----------------------------------------------------------------------------
(* A batch contains what its range contains; appending adds one member, and *)
(* the head and the tail are all of it.                                     *)
LEMMA BatchRange ==
  ASSUME NEW s \in Seq(Nat)
  PROVE  /\ \A x : Contains(s, x) <=> x \in Range(s)
         /\ \A x \in Nat : Range(Append(s, x)) = Range(s) \cup {x}
         /\ s # <<>> => /\ Head(s) \in Range(s) /\ Tail(s) \in Seq(Nat)
                        /\ Range(s) = {Head(s)} \cup Range(Tail(s))
                        /\ Tail(s) # s
         /\ Range(<<>>) = {}
<1>1. \A x : Contains(s, x) <=> x \in Range(s)
  BY DEF Contains, Range
<1>2. ASSUME NEW x \in Nat PROVE Range(Append(s, x)) = Range(s) \cup {x}
  <2> DEFINE t == Append(s, x)
  <2>1. /\ t \in Seq(Nat) /\ Len(s) \in Nat /\ Len(t) = Len(s) + 1
        /\ DOMAIN s = 1..Len(s) /\ DOMAIN t = 1..Len(t)
        /\ \A i \in 1..Len(s) : t[i] = s[i]
        /\ t[Len(s) + 1] = x
    BY AppendProperties
  <2> HIDE DEF t
  <2>2. \A i \in 1..Len(t) : i \in 1..Len(s) \/ i = Len(s) + 1
    BY <2>1
  <2>3. Range(t) \subseteq Range(s) \cup {x}
    BY <2>1, <2>2 DEF Range
  <2>4. Range(s) \cup {x} \subseteq Range(t)
    BY <2>1 DEF Range
  <2> QED  BY <2>3, <2>4 DEF t
<1>3. ASSUME s # <<>>
      PROVE  /\ Head(s) \in Range(s) /\ Tail(s) \in Seq(Nat)
             /\ Range(s) = {Head(s)} \cup Range(Tail(s))
             /\ Tail(s) # s
  <2> DEFINE t == Tail(s)
  <2>1. /\ t \in Seq(Nat) /\ Len(s) \in Nat /\ Len(s) # 0 /\ Len(t) = Len(s) - 1
        /\ DOMAIN s = 1..Len(s) /\ DOMAIN t = 1..Len(t)
        /\ \A i \in 1..Len(t) : t[i] = s[i + 1]
        /\ Head(s) = s[1]
    BY <1>3, HeadTailProperties
  <2> HIDE DEF t
  <2>2. \A i \in 1..Len(s) : i = 1 \/ (i - 1 \in 1..Len(t) /\ t[i - 1] = s[i])
    BY <2>1
  <2>3. ASSUME NEW x \in Range(s) PROVE x = Head(s) \/ x \in Range(t)
    <3>1. PICK i \in 1..Len(s) : x = s[i]
      BY <2>1 DEF Range
    <3>2. CASE i = 1
      BY <2>1, <3>1, <3>2
    <3>3. CASE i - 1 \in 1..Len(t) /\ t[i - 1] = s[i]
      BY <2>1, <3>1, <3>3 DEF Range
    <3> QED  BY <2>2, <3>2, <3>3
  <2>4. Head(s) \in Range(s)
    BY <2>1 DEF Range
  <2>5. Range(t) \subseteq Range(s)
    <3>1. \A i \in 1..Len(t) : i + 1 \in 1..Len(s)
      BY <2>1
    <3> QED  BY ZenonT(30), <2>1, <3>1 DEF Range
  <2>6. t # s
    BY <2>1
  <2> QED  BY <2>1, <2>3, <2>4, <2>5, <2>6 DEF t
<1>4. Range(<<>>) = {}
  BY DEF Range
<1>5. QED
  BY <1>1, <1>2, <1>3, <1>4

(* The kinds of calls differ by their names.                                *)
LEMMA CallShapes ==
  ASSUME NEW call \in Call
  PROVE  /\ call.op \in {"idle", "update", "undo"} \cup ClaimOps
         /\ call.op = "idle" => call = Idle
         /\ call = Idle => call.op = "idle"
         /\ call.op = "update" => call \in Updating
         /\ call.op = "undo" => call \in Undoing
         /\ call.op \in ClaimOps => call \in Claiming
BY DEF Call, Idle, Updating, Undoing, Claiming, ClaimOps

(* Only a give-back that fails touches what is remembered.                  *)
LEMMA DropsKept ==
  ASSUME StoreInv, dropped' = dropped, nextID' \in {nextID, nextID + 1}
  PROVE  DropsMove
<1>1. nextID \in Nat
  BY SqliteJobsAssumption DEF StoreInv
<1>2. 1..nextID \subseteq 1..nextID'
  BY <1>1
<1>3. DropsTyped
  BY DEF StoreInv
<1>4. QED
  BY <1>2, <1>3 DEF DropsTyped, DropsMove

(* A statement that changes no row moves its own call only.                 *)
LEMMA CallReplaced ==
  ASSUME StoreInv, NEW c \in Clients, NEW call \in Call,
         calls' = [calls EXCEPT ![c] = call]
  PROVE  /\ calls' \in [Clients -> Call] /\ calls'[c] = call
         /\ \A d \in Clients \ {c} : CallKept(d)
BY DEF StoreInv, CallKept

(* So does a commit, but for the claims that turn old.                      *)
LEMMA CommitMoves ==
  ASSUME StoreInv, NEW c \in Clients, NEW call \in Call, Committed(c, call)
  PROVE  /\ calls' \in [Clients -> Call] /\ calls'[c] = call
         /\ \A d \in Clients \ {c} : CallKept(d)
<1>1. calls \in [Clients -> Call]
  BY DEF StoreInv
<1>2. \A d \in Clients : Stale[d] \in Call
  <2> SUFFICES ASSUME NEW d \in Clients, calls[d].op = "claim"
               PROVE  [calls[d] EXCEPT !.current = FALSE] \in Call
    BY <1>1 DEF Stale
  <2>1. calls[d] \in Claiming
    BY <1>1, CallShapes DEF ClaimOps
  <2>2. [calls[d] EXCEPT !.current = FALSE] \in Claiming
    BY <2>1 DEF Claiming
  <2> QED  BY <2>2 DEF Call
<1>3. DOMAIN Stale = Clients
  BY DEF Stale
<1>4. calls' = [Stale EXCEPT ![c] = call]
  BY DEF Committed
<1>5. calls' \in [Clients -> Call] /\ calls'[c] = call
  <2>1. Stale \in [Clients -> Call]
    BY <1>2 DEF Stale
  <2> HIDE DEF Stale
  <2> QED  BY <1>4, <2>1
<1>6. ASSUME NEW d \in Clients \ {c} PROVE CallKept(d)
  <2>1. calls'[d] = Stale[d]
    BY <1>3, <1>4
  <2> QED  BY <2>1 DEF Stale, CallKept
<1>7. QED
  BY <1>5, <1>6

(* What the invariant says of the call of one client.                       *)
LEMMA CallFacts ==
  ASSUME StoreInv, NEW c \in Clients
  PROVE  /\ now \in Nat /\ now <= MaxTime /\ nextID \in Nat /\ nextID <= MaxJobs
         /\ MaxJobs \in Nat /\ faults \in 0..MaxFaults
         /\ calls[c] \in Call /\ CallTyped(c) /\ held[c] \subseteq 1..nextID
         /\ calls[c].op \in {"update", "undo", "claim"} => At(c) \in Nat /\ At(c) <= now
         /\ \A j \in 1..nextID : jobs[j] \in Row
         /\ \A d \in LockFors : d \in Nat /\ d # 0
         /\ \A b \in Delays : b \in Nat
<1>1. /\ now \in Nat /\ now <= MaxTime /\ nextID \in Nat /\ nextID <= MaxJobs
      /\ MaxJobs \in Nat
  BY SqliteJobsAssumption DEF StoreInv
<1>2. /\ calls[c] \in Call /\ CallTyped(c) /\ held[c] \subseteq 1..nextID
      /\ \A j \in 1..nextID : jobs[j] \in Row
  BY DEF StoreInv
<1>3. calls[c].op \in {"update", "undo", "claim"} => At(c) \in Nat /\ At(c) <= now
  <2>1. CASE calls[c].op = "undo"
    BY <1>1, <2>1 DEF At
  <2>2. CASE calls[c].op = "update"
    <3>1. calls[c].reading \in Nat
      BY <1>2, <2>2, CallShapes DEF Updating
    <3> QED  BY <1>2, <2>2, <3>1 DEF At, CallTyped
  <2>3. CASE calls[c].op = "claim"
    <3>1. calls[c].reading \in Nat
      BY <1>2, <2>3, CallShapes DEF Claiming, ClaimOps
    <3> QED  BY <1>2, <2>3, <3>1 DEF At, CallTyped, ClaimOps
  <2> QED  BY <2>1, <2>2, <2>3
<1>4. QED
  BY <1>1, <1>2, <1>3, SqliteJobsAssumption DEF StoreInv

(* A call ends, or begins.                                                  *)
LEMMA IdleCall ==
  ASSUME StoreInv, NEW c \in Clients, NEW call \in {Idle} \cup Updating,
         calls'[c] = call, call \in Updating => call.reading = now, now' = now,
         nextID' \in {nextID, nextID + 1}
  PROVE  CallTyped(c)' /\ calls'[c].op \notin {"undo"} \cup ClaimOps /\ BatchMoves(c)
<1>1. now \in Nat
  BY CallFacts
<1>2. call.op \in {"idle", "update"} /\ (call.op = "update" => call.reading = now)
  BY DEF Idle, Updating
<1>3. QED
  BY <1>1, <1>2 DEF CallTyped, ClaimOps, BatchMoves

(* Calls of one statement begin with a reading and end without a change.    *)
LEMMA ReadClockStep ==
  ASSUME StoreInv, NEW c \in Clients, ReadClock(c) \/ Ends(c)
  PROVE  ClientStep(c)
<1>1. PICK call \in {Idle} \cup Updating :
        calls' = [calls EXCEPT ![c] = call] /\ (call \in Updating => call.reading = now)
  <2>1. CASE ReadClock(c)
    <3> DEFINE call == [op |-> "update", reading |-> now]
    <3>1. call \in Updating /\ call.reading = now
      BY CallFacts DEF Updating
    <3> QED  BY <2>1, <3>1 DEF ReadClock
  <2>2. CASE Ends(c)
    <3>1. Idle \notin Updating
      BY DEF Idle, Updating
    <3> QED  BY <2>2, <3>1 DEF Ends
  <2> QED  BY <2>1, <2>2
<1>2. call \in Call
  BY DEF Call
<1>3. UNCHANGED <<now, nextID, jobs, held, faults, dropped>> /\ calls[c].op \in {"idle", "update"}
  BY DEF ReadClock, Ends, Idle
<1>4. /\ calls' \in [Clients -> Call] /\ calls'[c] = call
      /\ \A d \in Clients \ {c} : CallKept(d)
  BY <1>1, <1>2, CallReplaced
<1>5. CallTyped(c)' /\ calls'[c].op \notin {"undo"} \cup ClaimOps /\ BatchMoves(c)
  BY <1>1, <1>3, <1>4, IdleCall
<1>6. CallMoves(c)
  BY <1>3, <1>4, <1>5, DropsKept DEF CallMoves, StoreInv
<1>7. KnownMoves(c)
  BY <1>3 DEF KnownMoves, Known, Kept, ClaimOps
<1>8. QED
  BY <1>3, <1>5, <1>6, <1>7 DEF ClientStep, RowsMove

(* An update replaces one row and ends its call.                            *)
LEMMA UpdateStep ==
  ASSUME StoreInv, NEW c \in Clients, NEW k \in 1..nextID, NEW row \in Row,
         calls[c].op = "update", UpdateRow(c, k, row),
         jobs'[k] = row => Changed(k, c),
         \/ held' = held /\ (row.state = "processing" => row.lockedBy = NoWorker)
         \/ held' = held /\ k \in held[c]
         \/ held' = [held EXCEPT ![c] = @ \ {k}] /\ row.state # "processing"
  PROVE  ClientStep(c)
<1>1. jobs' = [jobs EXCEPT ![k] = row] /\ jobs \in [1..nextID -> Row]
  BY DEF UpdateRow, StoreInv
<1>2. /\ jobs'[k] = row /\ \A j \in (1..nextID) \ {k} : Kept(j)
      /\ jobs' \in [1..nextID -> Row]
  BY <1>1 DEF Kept
<1>3. UNCHANGED <<now, nextID, faults, dropped>> /\ Committed(c, Idle)
  BY DEF UpdateRow
<1>4. /\ calls' \in [Clients -> Call] /\ calls'[c] = Idle
      /\ \A d \in Clients \ {c} : CallKept(d)
  BY <1>3, CommitMoves DEF Call
<1>5. RowsMove(c)
  <2>1. calls'[c] # calls[c]
    BY <1>4 DEF Idle
  <2> QED  BY <1>2, <1>3, <2>1 DEF RowsMove, RowChanged
<1>6. CallTyped(c)' /\ calls'[c].op \notin {"undo"} \cup ClaimOps /\ BatchMoves(c)
  <2>1. Idle \notin Updating
    BY DEF Idle, Updating
  <2> QED  BY <1>3, <1>4, <2>1, IdleCall
<1>7. /\ held' \in [Clients -> SUBSET (1..nextID)]
      /\ \A d \in Clients \ {c} : held'[d] = held[d]
      /\ held'[c] = held[c] \/ (held'[c] = held[c] \ {k} /\ row.state # "processing")
  BY DEF StoreInv
<1>8. CallMoves(c)
  BY <1>3, <1>4, <1>6, <1>7, DropsKept DEF CallMoves, StoreInv
<1>9. KnownMoves(c)
  <2>1. Known(c) = held[c] /\ Known(c)' = held'[c]
    BY <1>6 DEF Known, ClaimOps
  <2>2. row.state # "processing" => ~Owned(k, c, now)'
    BY <1>2 DEF Owned, Active
  <2>3. ASSUME NEW j \in 1..nextID, ~Kept(j), Granted(j, c) \/ Renewed(j, c)
        PROVE  j \in held'[c]
    <3>1. j = k
      BY <1>2, <2>3
    <3>2. row.state = "processing" /\ row.lockedBy = c
      BY <1>2, <2>3, <3>1 DEF Granted, Renewed
    <3> QED  BY <3>1, <3>2, SqliteJobsAssumption
  <2> QED  BY <1>7, <2>1, <2>2, <2>3 DEF KnownMoves
<1>10. QED
  BY <1>5, <1>6, <1>8, <1>9 DEF ClientStep

(* Each of the store's updates does.                                        *)
LEMMA StatementStep ==
  ASSUME StoreInv, NEW c \in Clients, NEW k \in 1..nextID,
         \/ MarkSynced(c, k) \/ MarkDead(c, k) \/ ForceReleaseExpiredLease(c, k)
         \/ \E d \in LockFors : RenewLease(c, k, d)
         \/ \E b \in Delays : \/ MarkRetrying(c, k, b) \/ RequeueClaimed(c, k, b)
                              \/ RequeueExpiredLease(c, k, b)
  PROVE  ClientStep(c)
<1>1. /\ jobs[k] \in Row /\ jobs[k].attempts + 0 = jobs[k].attempts
      /\ jobs[k].attempts < MaxCount => jobs[k].attempts + 1 \in 0..MaxCount
  <2>1. jobs[k] \in Row /\ MaxCount \in Nat
    BY SqliteJobsAssumption DEF StoreInv
  <2> QED  BY <2>1 DEF Row
<1>2. calls[c].op = "update"
  BY DEF MarkSynced, MarkDead, ForceReleaseExpiredLease, RenewLease, MarkRetrying,
         RequeueClaimed, RequeueExpiredLease, Settles, OwnerUpdates, OperatorUpdates
<1>3. At(c) = calls[c].reading /\ At(c) \in Nat
  BY <1>2, CallFacts DEF At
<1>4. ASSUME MarkSynced(c, k) PROVE ClientStep(c)
  <2> DEFINE row == Unlocked([jobs[k] EXCEPT !.state = "synced"])
  <2>1. /\ row \in Row /\ row.state = "synced" /\ row.lockedBy = NoWorker
        /\ row.lockedUntil = NoTime /\ row.attempts = jobs[k].attempts + 0
    BY <1>1 DEF Unlocked, Row, States
  <2>2. UpdateRow(c, k, row) /\ Owned(k, c, At(c)) /\ held' = [held EXCEPT ![c] = @ \ {k}]
    BY <1>3, <1>4 DEF MarkSynced, Settles, OwnerUpdates
  <2> HIDE DEF row
  <2>3. jobs'[k] = row => Changed(k, c)
    BY <1>2, <2>1, <2>2 DEF Changed, Ended
  <2> QED  BY <1>2, <2>1, <2>2, <2>3, UpdateStep
<1>5. ASSUME MarkDead(c, k) PROVE ClientStep(c)
  <2> DEFINE row == Unlocked([jobs[k] EXCEPT !.state = "dead",
                                             !.attempts = jobs[k].attempts + 1])
  <2>1. /\ row \in Row /\ row.state = "dead" /\ row.lockedBy = NoWorker
        /\ row.lockedUntil = NoTime /\ row.attempts = jobs[k].attempts + 1
    BY <1>1, <1>5 DEF Unlocked, Row, States, MarkDead
  <2>2. UpdateRow(c, k, row) /\ Owned(k, c, At(c)) /\ held' = [held EXCEPT ![c] = @ \ {k}]
    BY <1>3, <1>5 DEF MarkDead, Settles, OwnerUpdates
  <2> HIDE DEF row
  <2>3. jobs'[k] = row => Changed(k, c)
    BY <1>2, <2>1, <2>2 DEF Changed, Ended
  <2> QED  BY <1>2, <2>1, <2>2, <2>3, UpdateStep
<1>6. ASSUME ForceReleaseExpiredLease(c, k) PROVE ClientStep(c)
  <2> DEFINE row == Unlocked(jobs[k])
  <2>1. /\ row \in Row /\ row.state = jobs[k].state /\ row.lockedBy = NoWorker
        /\ row.lockedUntil = NoTime /\ row.attempts = jobs[k].attempts
    BY <1>1 DEF Unlocked, Row
  <2>2. UpdateRow(c, k, row) /\ Expired(k, At(c)) /\ held' = held
    BY <1>3, <1>6 DEF ForceReleaseExpiredLease, OperatorUpdates
  <2> HIDE DEF row
  <2>3. jobs'[k] = row => Changed(k, c)
    BY <1>2, <2>1, <2>2 DEF Changed, Orphaned, Expired
  <2> QED  BY <1>2, <2>1, <2>2, <2>3, UpdateStep
<1>7. ASSUME NEW d \in LockFors, RenewLease(c, k, d) PROVE ClientStep(c)
  <2> DEFINE row == [jobs[k] EXCEPT !.lockedUntil = At(c) + d]
  <2>1. At(c) + d \in Nat /\ At(c) + d > At(c)
    BY <1>3, CallFacts
  <2>2. /\ row \in Row /\ row.state = jobs[k].state /\ row.lockedBy = jobs[k].lockedBy
        /\ row.lockedUntil = At(c) + d /\ row.attempts = jobs[k].attempts
    BY <1>1, <2>1 DEF Row
  <2>3. UpdateRow(c, k, row) /\ Owned(k, c, At(c)) /\ k \in held[c] /\ held' = held
    BY <1>3, <1>7 DEF RenewLease, OwnerUpdates
  <2> HIDE DEF row
  <2>4. jobs'[k] = row => Changed(k, c)
    BY <1>2, <2>1, <2>2, <2>3 DEF Changed, Renewed, Owned, Active
  <2> QED  BY <1>2, <2>2, <2>3, <2>4, UpdateStep
<1>8. ASSUME NEW b \in Delays, MarkRetrying(c, k, b) PROVE ClientStep(c)
  <2> DEFINE row == Unlocked([jobs[k] EXCEPT !.state = "retrying",
                                             !.attempts = jobs[k].attempts + 1,
                                             !.availableAt = At(c) + b])
  <2>1. At(c) + b \in Nat
    BY <1>3, CallFacts
  <2>2. /\ row \in Row /\ row.state = "retrying" /\ row.lockedBy = NoWorker
        /\ row.lockedUntil = NoTime /\ row.attempts = jobs[k].attempts + 1
    BY <1>1, <1>8, <2>1 DEF Unlocked, Row, States, MarkRetrying
  <2>3. UpdateRow(c, k, row) /\ Owned(k, c, At(c)) /\ held' = [held EXCEPT ![c] = @ \ {k}]
    BY <1>3, <1>8 DEF MarkRetrying, Settles, OwnerUpdates
  <2> HIDE DEF row
  <2>4. jobs'[k] = row => Changed(k, c)
    BY <1>2, <2>2, <2>3 DEF Changed, Ended
  <2> QED  BY <1>2, <2>2, <2>3, <2>4, UpdateStep
<1>9. ASSUME NEW b \in Delays, RequeueClaimed(c, k, b) \/ RequeueExpiredLease(c, k, b)
      PROVE  ClientStep(c)
  <2> DEFINE row == RequeuedRow(k, At(c) + b)
  <2>1. At(c) + b \in Nat
    BY <1>3, CallFacts
  <2>2. /\ row \in Row /\ row.state = "retrying" /\ row.lockedBy = NoWorker
        /\ row.lockedUntil = NoTime /\ row.attempts = jobs[k].attempts + 0
    BY <1>1, <2>1 DEF RequeuedRow, Unlocked, Row, States
  <2>3. /\ UpdateRow(c, k, row)
        /\ Owned(k, c, At(c)) \/ Expired(k, At(c))
        /\ held' = held \/ held' = [held EXCEPT ![c] = @ \ {k}]
    BY <1>3, <1>9 DEF RequeueClaimed, RequeueExpiredLease, OwnerUpdates, OperatorUpdates
  <2> HIDE DEF row
  <2>4. jobs'[k] = row => Changed(k, c)
    BY <1>2, <2>2, <2>3 DEF Changed, Ended
  <2> QED  BY <1>2, <2>2, <2>3, <2>4, UpdateStep
<1>10. QED
  BY <1>4, <1>5, <1>6, <1>7, <1>8, <1>9

(* Create appends a pending row without a lease.                            *)
LEMMA CreateAppends ==
  ASSUME StoreInv, NEW c \in Clients, NEW s \in Syncs, NEW b \in Delays, Create(c, s, b)
  PROVE  RowAppended /\ ClientStep(c)
<1>1. /\ calls[c].op = "update" /\ UNCHANGED <<now, held, faults, dropped>>
      /\ nextID < MaxJobs /\ nextID' = nextID + 1 /\ Committed(c, Idle)
  BY DEF Create
<1>2. /\ nextID' \in 1..MaxJobs /\ nextID \in Nat /\ nextID' # 0
      /\ \A j \in 1..nextID : j \in 1..nextID' /\ j <= nextID /\ j # nextID'
      /\ \A j \in 1..nextID' : j \in 1..nextID \/ (j = nextID' /\ ~(j <= nextID))
      /\ nextID' \in 1..nextID' /\ ~(nextID' <= nextID)
  BY <1>1, CallFacts
<1>3. At(c) = calls[c].reading /\ At(c) \in Nat /\ At(c) + b \in Nat
  BY <1>1, CallFacts DEF At
<1>4. NewRow(s, At(c), b) \in Row
  BY <1>3, SqliteJobsAssumption DEF NewRow, Row, States, NoTime
<1>5. jobs' = [j \in 1..nextID' |->
                 IF j <= nextID THEN jobs[j] ELSE NewRow(s, At(c), b)]
  BY <1>3 DEF Create
<1>6. \A j \in 1..nextID : jobs[j] \in Row
  BY CallFacts
<1>7. jobs' \in [1..nextID' -> Row] /\ \A j \in 1..nextID : Kept(j)
  BY <1>2, <1>4, <1>5, <1>6 DEF Kept
<1>8. jobs'[nextID'] = NewRow(s, At(c), b)
  BY <1>2, <1>5
<1>9. RowAppended
  BY <1>1, <1>2, <1>7, <1>8 DEF RowAppended, NewRow
<1>10. /\ calls' \in [Clients -> Call] /\ calls'[c] = Idle
       /\ \A d \in Clients \ {c} : CallKept(d)
  BY <1>1, CommitMoves DEF Call
<1>11. CallTyped(c)' /\ calls'[c].op \notin {"undo"} \cup ClaimOps /\ BatchMoves(c)
  <2>1. Idle \notin Updating
    BY DEF Idle, Updating
  <2> QED  BY <1>1, <1>10, <2>1, IdleCall
<1>12. held' \in [Clients -> SUBSET (1..nextID')]
  BY <1>1, <1>2 DEF StoreInv
<1>13. CallMoves(c)
  BY <1>1, <1>10, <1>11, <1>12, DropsKept DEF CallMoves, StoreInv
<1>14. KnownMoves(c)
  BY <1>1, <1>7, <1>11 DEF KnownMoves, Known, ClaimOps
<1>15. QED
  BY <1>9, <1>11, <1>13, <1>14 DEF ClientStep, RowsMove
-----------------------------------------------------------------------------
(* A step of a claim that changes no row.                                   *)
LEMMA QuietClaim ==
  ASSUME StoreInv, NEW c \in Clients, NEW call \in Call,
         UNCHANGED <<now, nextID, jobs, dropped>>, faults' \in 0..MaxFaults,
         calls' = [calls EXCEPT ![c] = call], CallTyped(c)', BatchMoves(c),
         \/ held' = held /\ Known(c) \subseteq Known(c)'
         \/ held' = [held EXCEPT ![c] = Known(c)] /\ Known(c) \subseteq 1..nextID
  PROVE  ClientStep(c)
<1>1. /\ calls' \in [Clients -> Call] /\ calls'[c] = call
      /\ \A d \in Clients \ {c} : CallKept(d)
  BY CallReplaced
<1>2. /\ held' \in [Clients -> SUBSET (1..nextID')]
      /\ \A d \in Clients \ {c} : held'[d] = held[d]
      /\ Known(c) \subseteq Known(c)'
  <2>1. held \in [Clients -> SUBSET (1..nextID)]
    BY DEF StoreInv
  <2> QED  BY <2>1 DEF Known
<1>3. CallMoves(c)
  BY <1>1, <1>2, DropsKept DEF CallMoves
<1>4. KnownMoves(c)
  BY <1>2 DEF KnownMoves, Kept
<1>5. QED
  BY <1>3, <1>4 DEF ClientStep, RowsMove

(* What is known of a claim under way.                                      *)
LEMMA ClaimFacts ==
  ASSUME StoreInv, NEW c \in Clients, calls[c].op \in ClaimOps
  PROVE  /\ calls[c] \in Claiming
         /\ calls[c].batch \in Seq(Nat) /\ Range(calls[c].batch) \subseteq 1..nextID
         /\ calls[c].start \in Nat /\ calls[c].reading \in Nat
         /\ calls[c].start <= calls[c].reading /\ calls[c].reading <= now
         /\ calls[c].start <= now
         /\ calls[c].limit \in Nat /\ Len(calls[c].batch) \in Nat
         /\ Len(calls[c].batch) <= calls[c].limit
         /\ calls[c].op # "clock" => Len(calls[c].batch) < calls[c].limit
         /\ calls[c].lockFor \in LockFors /\ calls[c].lockFor \in Nat /\ calls[c].lockFor # 0
         /\ calls[c].candidate \in 0..nextID
         /\ calls[c].op = "claim" => calls[c].candidate \in 1..nextID
         /\ Known(c) = held[c] \cup Range(calls[c].batch) /\ Known(c) \subseteq 1..nextID
<1>1. calls[c] \in Claiming /\ CallTyped(c) /\ now \in Nat /\ nextID \in Nat
  BY CallFacts, CallShapes
<1>2. /\ calls[c].batch \in Seq(Nat) /\ Len(calls[c].batch) \in Nat
      /\ calls[c].start \in Nat /\ calls[c].reading \in Nat
      /\ calls[c].limit \in Nat /\ calls[c].lockFor \in LockFors
  <2>1. /\ calls[c].batch \in Seq(Nat) /\ calls[c].limit \in BatchLimits
        /\ calls[c].start \in Nat /\ calls[c].reading \in Nat
        /\ calls[c].lockFor \in LockFors
    BY <1>1 DEF Claiming
  <2>2. calls[c].limit \in Nat
    BY <2>1, SqliteJobsAssumption
  <2>3. Len(calls[c].batch) \in Nat
    BY <2>1
  <2> QED  BY <2>1, <2>2, <2>3
<1>3. Range(calls[c].batch) \subseteq 1..nextID
  BY <1>1 DEF CallTyped
<1>4. Known(c) = held[c] \cup Range(calls[c].batch) /\ Known(c) \subseteq 1..nextID
  BY <1>3, CallFacts DEF Known
<1>5. /\ calls[c].candidate \in 0..nextID
      /\ calls[c].op = "claim" => calls[c].candidate \in 1..nextID
  BY <1>1 DEF CallTyped
<1>6. QED
  BY SMTT(30), <1>1, <1>2, <1>3, <1>4, <1>5, CallFacts DEF CallTyped

(* A claim begins with an empty batch.                                      *)
LEMMA BeginClaimsStep ==
  ASSUME StoreInv, NEW c \in Clients, NEW s \in Syncs, NEW n \in BatchLimits,
         NEW d \in LockFors, BeginClaims(c, s, n, d)
  PROVE  ClientStep(c)
<1> DEFINE call == [op |-> "clock", sync |-> s, limit |-> n, lockFor |-> d, start |-> now,
                    reading |-> now, candidate |-> 0, current |-> TRUE, batch |-> <<>>]
<1>1. /\ calls[c] = Idle /\ calls' = [calls EXCEPT ![c] = call]
      /\ UNCHANGED <<now, nextID, jobs, held, faults, dropped>>
  BY DEF BeginClaims
<1>2. /\ now \in Nat /\ nextID \in Nat /\ n \in Nat /\ n # 0 /\ <<>> \in Seq(Nat)
      /\ Len(<<>>) = 0 /\ Range(<<>>) = {}
  <2>1. <<>> \in Seq(Nat) /\ Len(<<>>) = 0
    OBVIOUS
  <2>2. Range(<<>>) = {}
    BY <2>1, BatchRange
  <2> QED  BY <2>1, <2>2, CallFacts, SqliteJobsAssumption
<1>3. /\ call.op = "clock" /\ call.batch = <<>> /\ call.reading = now /\ call.start = now
      /\ call.limit = n /\ call.candidate = 0
  OBVIOUS
<1>4. call \in Call
  BY <1>2 DEF Call, Claiming, ClaimOps
<1> HIDE DEF call
<1>5. calls'[c] = call
  BY <1>1, <1>4, CallReplaced
<1>6. CallTyped(c)' /\ BatchMoves(c)
  BY <1>1, <1>2, <1>3, <1>5 DEF CallTyped, BatchMoves, ClaimOps
<1>7. Known(c) = held[c] /\ held[c] \subseteq Known(c)'
  BY <1>1 DEF Known, Idle, ClaimOps
<1>8. faults' \in 0..MaxFaults
  BY <1>1, CallFacts
<1>9. QED
  BY <1>1, <1>4, <1>6, <1>7, <1>8, QuietClaim

(* It goes on with its batch.                                               *)
LEMMA ContinueStep ==
  ASSUME StoreInv, NEW c \in Clients,
         ClaimReadsClock(c) \/ (SelectCandidate(c) /\ held' = held /\ calls'[c] # Idle)
  PROVE  ClientStep(c)
<1>1. /\ UNCHANGED <<now, nextID, jobs, held, faults, dropped>>
      /\ calls[c].op \in {"clock", "select"}
      /\ Len(calls[c].batch) < calls[c].limit
  BY ClaimFacts DEF ClaimReadsClock, SelectCandidate, ClaimOps
<1>2. calls[c].op \in ClaimOps
  BY <1>1 DEF ClaimOps
<1>3. calls[c] \in Claiming /\ calls \in [Clients -> Call] /\ now \in Nat /\ nextID \in Nat
  BY <1>2, ClaimFacts, CallFacts DEF StoreInv
<1>4. PICK call \in Claiming :
        /\ calls' = [calls EXCEPT ![c] = call] /\ call.op \in {"select", "claim"}
        /\ call.batch = calls[c].batch /\ call.start = calls[c].start
        /\ call.lockFor = calls[c].lockFor /\ call.limit = calls[c].limit
        /\ call.reading \in {calls[c].reading, now}
        /\ call.candidate \in 0..nextID /\ (call.op = "claim" => call.candidate # 0)
  <2>1. CASE ClaimReadsClock(c)
    <3> DEFINE call == [calls[c] EXCEPT !.op = "select", !.reading = now]
    <3>1. calls' = [calls EXCEPT ![c] = call]
      BY <1>3, <2>1 DEF ClaimReadsClock
    <3>2. /\ call \in Claiming /\ call.op = "select" /\ call.batch = calls[c].batch
          /\ call.start = calls[c].start /\ call.lockFor = calls[c].lockFor
          /\ call.limit = calls[c].limit /\ call.reading = now
          /\ call.candidate = calls[c].candidate
      BY <1>3 DEF Claiming, ClaimOps
    <3> HIDE DEF call
    <3> QED  BY <1>2, <3>1, <3>2, ClaimFacts
  <2>2. CASE SelectCandidate(c) /\ calls'[c] # Idle
    <3>1. PICK j \in 1..nextID :
            calls' = [calls EXCEPT ![c] =
              [calls[c] EXCEPT !.op = "claim", !.candidate = j, !.current = TRUE]]
      BY <1>3, <2>2 DEF SelectCandidate
    <3> DEFINE call == [calls[c] EXCEPT !.op = "claim", !.candidate = j, !.current = TRUE]
    <3>2. j \in 0..nextID /\ j # 0 /\ j \in Nat
      BY <1>3
    <3>3. /\ call \in Claiming /\ call.op = "claim" /\ call.batch = calls[c].batch
          /\ call.start = calls[c].start /\ call.lockFor = calls[c].lockFor
          /\ call.limit = calls[c].limit /\ call.reading = calls[c].reading
          /\ call.candidate = j
      BY <1>3, <3>2 DEF Claiming, ClaimOps
    <3>4. calls' = [calls EXCEPT ![c] = call]
      BY <3>1
    <3> HIDE DEF call
    <3> QED  BY <3>2, <3>3, <3>4
  <2> QED  BY <2>1, <2>2
<1>5. call \in Call
  BY <1>4 DEF Call
<1>6. calls'[c] = call
  BY <1>4, <1>5, CallReplaced
<1>7. CallTyped(c)'
  <2>1. /\ Range(call.batch) \subseteq 1..nextID' /\ Len(call.batch) < call.limit
        /\ Len(call.batch) <= call.limit
        /\ call.start <= call.reading /\ call.reading <= now'
    BY <1>1, <1>2, <1>3, <1>4, ClaimFacts
  <2> QED  BY <1>1, <1>4, <1>6, <2>1 DEF CallTyped, ClaimOps
<1>8. BatchMoves(c)
  BY <1>1, <1>2, <1>4, <1>6 DEF BatchMoves
<1>9. Known(c) \subseteq Known(c)'
  BY <1>1, <1>2, <1>4, <1>6 DEF Known, ClaimOps
<1>10. faults' \in 0..MaxFaults
  BY <1>1, CallFacts
<1>11. QED
  BY <1>1, <1>4, <1>5, <1>7, <1>8, <1>9, <1>10, QuietClaim

(* What a claim returns to its caller is what it knew of.                   *)
LEMMA ReturnStep ==
  ASSUME StoreInv, NEW c \in Clients, calls[c].op \in ClaimOps,
         calls' = [calls EXCEPT ![c] = Idle], Returned(c, calls[c]),
         UNCHANGED <<now, nextID, jobs, faults, dropped>>
  PROVE  ClientStep(c)
<1>1. Idle \in Call /\ Idle \notin Updating
  BY DEF Call, Idle, Updating
<1>2. calls'[c] = Idle
  BY <1>1, CallReplaced
<1>3. CallTyped(c)' /\ BatchMoves(c)
  BY <1>1, <1>2, IdleCall
<1>4. held' = [held EXCEPT ![c] = Known(c)] /\ Known(c) \subseteq 1..nextID
  BY ClaimFacts DEF Returned, StoreInv
<1>5. faults' \in 0..MaxFaults
  BY CallFacts
<1>6. QED
  BY <1>1, <1>3, <1>4, <1>5, QuietClaim

(* When its statement fails it turns to giving its batch back.              *)
LEMMA FailStep ==
  ASSUME StoreInv, NEW c \in Clients, ClaimFails(c)
  PROVE  ClientStep(c)
<1> DEFINE call == [op |-> "undo", reading |-> now, batch |-> calls[c].batch]
<1>1. /\ calls[c].op \in ClaimOps /\ calls' = [calls EXCEPT ![c] = call]
      /\ UNCHANGED <<now, nextID, jobs, held, dropped>>
  BY DEF ClaimFails, ClaimOps
<1>2. faults' \in 0..MaxFaults
  <2>1. faults \in 0..MaxFaults /\ MaxFaults \in Nat
    BY SqliteJobsAssumption DEF StoreInv
  <2>2. faults' = faults \/ (faults < MaxFaults /\ faults' = faults + 1)
    BY DEF ClaimFails
  <2> QED  BY <2>1, <2>2
<1>3. call.op = "undo" /\ call.reading = now /\ call.batch = calls[c].batch
  OBVIOUS
<1>4. call \in Call
  BY <1>1, ClaimFacts, CallFacts DEF Call, Undoing
<1> HIDE DEF call
<1>5. calls'[c] = call
  BY <1>1, <1>4, CallReplaced
<1>6. CallTyped(c)' /\ BatchMoves(c)
  BY <1>1, <1>3, <1>5, ClaimFacts, CallFacts DEF CallTyped, BatchMoves, ClaimOps
<1>7. Known(c) \subseteq Known(c)'
  BY <1>1, <1>3, <1>5 DEF Known
<1>8. QED
  BY <1>1, <1>2, <1>4, <1>6, <1>7, QuietClaim

(* A claim that commits grants its candidate and appends it to the batch.   *)
LEMMA ClaimCandidateStep ==
  ASSUME StoreInv, NEW c \in Clients, ClaimCandidate(c)
  PROVE  ClientStep(c)
<1> DEFINE k    == calls[c].candidate
           call == [calls[c] EXCEPT !.op = "clock", !.reading = calls[c].start,
                                    !.candidate = 0, !.batch = Append(calls[c].batch, k)]
<1>1. /\ calls[c].op = "claim" /\ calls[c].op \in ClaimOps
      /\ Claimable(k, calls[c].sync, calls[c].reading)
      /\ jobs' = [jobs EXCEPT ![k].state = "processing", ![k].lockedBy = c,
                              ![k].lockedUntil = calls[c].reading + calls[c].lockFor]
      /\ Committed(c, call)
      /\ UNCHANGED <<now, nextID, held, faults, dropped>>
  BY DEF ClaimCandidate, ClaimOps
<1>2. /\ k \in 1..nextID /\ k \in Nat /\ nextID \in Nat /\ calls[c] \in Claiming
      /\ calls[c].batch \in Seq(Nat)
      /\ At(c) = calls[c].reading /\ At(c) \in Nat /\ At(c) + calls[c].lockFor \in Nat
  <2>1. nextID \in Nat /\ k \in 1..nextID /\ calls[c] \in Claiming /\ calls[c].batch \in Seq(Nat)
    BY <1>1, ClaimFacts, CallFacts
  <2>2. At(c) = calls[c].reading /\ calls[c].reading \in Nat /\ calls[c].lockFor \in Nat
    BY <1>1, ClaimFacts DEF At
  <2> QED  BY <2>1, <2>2
<1>3. /\ jobs'[k] = [jobs[k] EXCEPT !.state = "processing", !.lockedBy = c,
                                    !.lockedUntil = At(c) + calls[c].lockFor]
      /\ \A j \in (1..nextID) \ {k} : Kept(j)
      /\ DOMAIN jobs' = 1..nextID /\ jobs' = [j \in 1..nextID |-> jobs'[j]]
  <2>1. jobs \in [1..nextID -> Row]
    BY DEF StoreInv
  <2> QED  BY <1>1, <1>2, <2>1 DEF Kept
<1>4. jobs[k] \in Row
  BY <1>2, CallFacts
<1>5. /\ jobs'[k] \in Row /\ jobs'[k].state = "processing" /\ jobs'[k].lockedBy = c
      /\ jobs'[k].lockedUntil = At(c) + calls[c].lockFor
      /\ jobs'[k].attempts = jobs[k].attempts
  BY <1>2, <1>3, <1>4 DEF Row, States
<1>6. Queued(k) \/ Expired(k, At(c))
  BY <1>1, <1>2 DEF Claimable, Queued
<1>7. Granted(k, c)
  BY <1>1, <1>2, <1>5, <1>6 DEF Granted
<1>8. jobs' \in [1..nextID -> Row]
  <2>1. \A j \in 1..nextID : jobs'[j] \in Row
    BY <1>3, <1>5, CallFacts DEF Kept
  <2> QED  BY <1>3, <2>1
<1> HIDE DEF k
<1>9. Append(calls[c].batch, k) \in Seq(Nat)
  BY <1>2
<1>10. /\ call \in Claiming /\ call.op = "clock" /\ call.reading = calls[c].start
       /\ call.start = calls[c].start /\ call.lockFor = calls[c].lockFor
       /\ call.limit = calls[c].limit /\ call.candidate = 0
       /\ call.batch = Append(calls[c].batch, k)
  BY <1>2, <1>9 DEF Claiming, ClaimOps
<1> HIDE DEF call
<1>11. call \in Call
  BY <1>10 DEF Call
<1>12. /\ calls' \in [Clients -> Call] /\ calls'[c] = call
       /\ \A d \in Clients \ {c} : CallKept(d)
  BY <1>1, <1>11, CommitMoves
<1>13. RowsMove(c)
  <2>1. calls'[c] # calls[c]
    BY <1>1, <1>10, <1>12
  <2> QED  BY <1>1, <1>2, <1>3, <1>7, <1>8, <2>1 DEF RowsMove, RowChanged, Changed, k
<1>14. /\ Range(call.batch) = Range(calls[c].batch) \cup {k}
       /\ Len(call.batch) = Len(calls[c].batch) + 1
  BY <1>2, <1>10, BatchRange, AppendProperties
<1>15. CallTyped(c)'
  <2>1. Len(call.batch) <= call.limit
    BY <1>1, <1>10, <1>14, ClaimFacts
  <2>2. Range(call.batch) \subseteq 1..nextID' /\ call.start <= now'
    BY <1>1, <1>2, <1>10, <1>14, ClaimFacts
  <2>3. call.start <= call.reading /\ 0 \in 0..nextID'
    BY <1>1, <1>2, <1>10, ClaimFacts
  <2> QED  BY <1>10, <1>12, <2>1, <2>2, <2>3 DEF CallTyped
<1>16. BatchMoves(c)
  BY <1>1, <1>2, <1>7, <1>10, <1>12 DEF BatchMoves
<1>17. Known(c) \cup {k} = Known(c)'
  BY <1>1, <1>10, <1>12, <1>14 DEF Known, ClaimOps
<1>18. KnownMoves(c)
  BY <1>3, <1>17 DEF KnownMoves
<1>19. CallMoves(c)
  BY <1>1, <1>12, <1>15, DropsKept DEF CallMoves, StoreInv
<1>20. QED
  BY <1>13, <1>16, <1>18, <1>19 DEF ClientStep

(* The batch of a failed claim is given back job by job: a job that is not  *)
(* returned to the queue is one whose lease has ended, or one that is       *)
(* remembered with the deadline it keeps.                                   *)
LEMMA RequeueStep ==
  ASSUME StoreInv, NEW c \in Clients, RequeueClaimedBatch(c)
  PROVE  ClientStep(c)
<1>1. calls[c].op = "undo" /\ UNCHANGED <<now, nextID, held>>
  BY DEF RequeueClaimedBatch
<1>2. /\ calls[c] \in Undoing /\ now \in Nat /\ nextID \in Nat /\ CallTyped(c)
  BY <1>1, CallFacts, CallShapes
<1>3. /\ calls[c].batch \in Seq(Nat) /\ Range(calls[c].batch) \subseteq 1..nextID
      /\ calls[c].reading \in Nat /\ calls[c].reading <= now /\ At(c) = now
      /\ Known(c) = held[c] \cup Range(calls[c].batch)
  BY <1>1, <1>2 DEF Undoing, CallTyped, At, Known
<1>4. CASE calls[c].batch = <<>>
  <2>1. calls' = [calls EXCEPT ![c] = Idle] /\ UNCHANGED <<jobs, faults, dropped>>
    BY <1>4 DEF RequeueClaimedBatch
  <2>2. Idle \in Call /\ Idle \notin Updating
    BY DEF Call, Idle, Updating
  <2>3. calls'[c] = Idle
    BY <2>1, <2>2, CallReplaced
  <2>4. CallTyped(c)' /\ BatchMoves(c)
    BY <1>1, <2>2, <2>3, IdleCall
  <2>5. Range(calls[c].batch) = {}
    BY <1>3, <1>4, BatchRange
  <2>6. Known(c) \subseteq Known(c)'
    BY <1>1, <1>3, <2>5 DEF Known
  <2>7. faults' \in 0..MaxFaults
    BY <2>1, CallFacts
  <2> QED  BY <1>1, <2>1, <2>2, <2>4, <2>6, <2>7, QuietClaim
<1>5. CASE calls[c].batch # <<>>
  <2>0. /\ Head(calls[c].batch) \in 1..nextID /\ Tail(calls[c].batch) \in Seq(Nat)
        /\ Range(calls[c].batch) = {Head(calls[c].batch)} \cup Range(Tail(calls[c].batch))
        /\ Tail(calls[c].batch) # calls[c].batch
    BY <1>3, <1>5, BatchRange
  <2> PICK k \in 1..nextID, t \in Seq(Nat) :
        k = Head(calls[c].batch) /\ t = Tail(calls[c].batch)
    BY <2>0
  <2> DEFINE call == [calls[c] EXCEPT !.batch = t]
  <2>1. \/ GiveBack(c, k) /\ Committed(c, call) /\ UNCHANGED <<faults, dropped>>
        \/ GiveBackFails(c, k) /\ calls' = [calls EXCEPT ![c] = call]
    BY <1>5 DEF RequeueClaimedBatch
  <2>2. /\ t \in Seq(Nat) /\ Range(calls[c].batch) = {k} \cup Range(t) /\ k \in 1..nextID
        /\ t # calls[c].batch
    BY <2>0
  <2>3. /\ call \in Undoing /\ call.op = "undo" /\ call.reading = calls[c].reading
        /\ call.batch = t
    BY <1>2, <2>2 DEF Undoing
  <2> HIDE DEF call
  <2>4. /\ calls' \in [Clients -> Call] /\ calls'[c] = call
        /\ \A d \in Clients \ {c} : CallKept(d)
    <3>1. call \in Call
      BY <2>3 DEF Call
    <3> QED  BY <2>1, <3>1, CommitMoves, CallReplaced
  <2>5. CallTyped(c)' /\ BatchMoves(c)
    <3>1. Range(t) \subseteq 1..nextID'
      BY <1>1, <1>3, <2>2
    <3> QED
      BY <1>1, <1>3, <2>3, <2>4, <3>1 DEF CallTyped, BatchMoves, ClaimOps
  <2>6. ASSUME DropsMove, faults' \in 0..MaxFaults PROVE CallMoves(c)
    BY <1>1, <2>4, <2>5, <2>6 DEF CallMoves, StoreInv
  <2>7. Known(c)' = held[c] \cup Range(t)
    BY <1>1, <2>3, <2>4 DEF Known
  <2>8. ASSUME GiveBack(c, k), UNCHANGED <<faults, dropped>>, Owned(k, c, now)
        PROVE  ClientStep(c)
    <3> DEFINE row == RequeuedRow(k, calls[c].reading)
    <3>1. jobs[k] \in Row /\ jobs[k].attempts + 0 = jobs[k].attempts
      <4>1. jobs[k] \in Row
        BY <2>2, CallFacts
      <4> QED  BY <4>1 DEF Row
    <3>2. /\ row \in Row /\ row.state = "retrying" /\ row.lockedBy = NoWorker
          /\ row.lockedUntil = NoTime /\ row.attempts = jobs[k].attempts + 0
      BY <1>3, <3>1 DEF RequeuedRow, Unlocked, Row, States
    <3>3. jobs' = [jobs EXCEPT ![k] = row] /\ jobs \in [1..nextID -> Row]
      BY <2>8 DEF GiveBack, StoreInv
    <3> HIDE DEF row
    <3>4. /\ jobs'[k] = row /\ \A j \in (1..nextID) \ {k} : Kept(j)
          /\ jobs' \in [1..nextID -> Row]
      BY <2>2, <3>2, <3>3 DEF Kept
    <3>5. Ended(k, c, 0) /\ calls'[c] # calls[c]
      BY <1>1, <1>3, <2>2, <2>3, <2>4, <2>8, <3>2, <3>4 DEF Ended
    <3>6. RowsMove(c)
      BY <1>1, <2>2, <3>4, <3>5 DEF RowsMove, RowChanged, Changed
    <3>7. ~Owned(k, c, now)' /\ ~Granted(k, c) /\ ~Renewed(k, c)
      BY <3>2, <3>4 DEF Owned, Active, Granted, Renewed
    <3>8. KnownMoves(c)
      BY <1>3, <2>2, <2>7, <3>4, <3>7 DEF KnownMoves
    <3>9. CallMoves(c)
      BY <1>1, <2>6, <2>8, DropsKept, CallFacts
    <3> QED  BY <2>5, <3>6, <3>8, <3>9 DEF ClientStep
  <2>9. ASSUME GiveBack(c, k), UNCHANGED <<faults, dropped>>, ~Owned(k, c, now)
        PROVE  ClientStep(c)
    <3>1. jobs' = jobs
      BY <2>9 DEF GiveBack
    <3>2. ~Owned(k, c, now)' /\ RowsMove(c)
      BY <1>1, <2>9, <3>1 DEF Owned, Active, RowsMove
    <3>3. KnownMoves(c)
      BY <1>3, <2>2, <2>7, <3>1, <3>2 DEF KnownMoves, Kept
    <3>4. CallMoves(c)
      BY <1>1, <2>6, <2>9, DropsKept, CallFacts
    <3> QED  BY <2>5, <3>2, <3>3, <3>4 DEF ClientStep
  <2>10. ASSUME GiveBackFails(c, k) PROVE ClientStep(c)
    <3>1. /\ jobs' = jobs /\ faults < MaxFaults /\ faults' = faults + 1
          /\ dropped' = [dropped EXCEPT ![c] = @ \cup {<<k, jobs[k].lockedUntil>>}]
      BY <2>10 DEF GiveBackFails
    <3>2. jobs[k].lockedUntil \in Nat \cup {NoTime} /\ DropsTyped
      BY CallFacts DEF Row, StoreInv
    <3>3. DropsMove /\ Dropped(k, c)'
      BY SMTT(30), <1>1, <3>1, <3>2 DEF DropsMove, DropsTyped, Dropped
    <3>4. faults' \in 0..MaxFaults
      BY <3>1, SqliteJobsAssumption DEF StoreInv
    <3>5. KnownMoves(c)
      BY <1>3, <2>2, <2>7, <3>1, <3>3 DEF KnownMoves, Kept
    <3>6. RowsMove(c)
      BY <1>1, <3>1 DEF RowsMove
    <3> QED  BY <2>5, <2>6, <3>3, <3>4, <3>5, <3>6 DEF ClientStep
  <2> QED  BY <2>1, <2>8, <2>9, <2>10
<1>6. QED
  BY <1>4, <1>5

(* Every step passes time or is a step of one client.                       *)
LEMMA NextCases ==
  ASSUME StoreInv, JobsNext
  PROVE  Tick \/ \E c \in Clients : ClientStep(c)
<1> SUFFICES ASSUME NEW c \in Clients, ReadClock(c) \/ Statement(c) \/ Ends(c) \/ Claims(c)
             PROVE  ClientStep(c)
  BY DEF JobsNext
<1>1. CASE ReadClock(c) \/ Ends(c)
  BY <1>1, ReadClockStep
<1>2. CASE Statement(c)
  BY <1>2, CreateAppends, StatementStep DEF Statement
<1>3. CASE \E s \in Syncs, n \in BatchLimits, d \in LockFors : BeginClaims(c, s, n, d)
  BY <1>3, BeginClaimsStep
<1>4. CASE ClaimReadsClock(c) \/ SelectCandidate(c) \/ EndClaims(c)
  <2>1. CASE calls' = [calls EXCEPT ![c] = Idle] /\ Returned(c, calls[c])
    BY <1>4, <2>1, ReturnStep DEF ClaimReadsClock, SelectCandidate, EndClaims, ClaimOps
  <2>2. CASE SelectCandidate(c) /\ ~(calls' = [calls EXCEPT ![c] = Idle] /\ Returned(c, calls[c]))
    <3>1. PICK j \in 1..nextID :
            /\ calls' = [calls EXCEPT ![c] =
                 [calls[c] EXCEPT !.op = "claim", !.candidate = j, !.current = TRUE]]
            /\ held' = held /\ calls[c].op = "select"
      BY <2>2 DEF SelectCandidate
    <3>2. calls[c] \in Claiming /\ calls \in [Clients -> Call]
      BY <3>1, ClaimFacts DEF ClaimOps, StoreInv
    <3>3. calls'[c].op = "claim"
      BY <3>1, <3>2 DEF Claiming
    <3>4. calls'[c] # Idle
      BY <3>3 DEF Idle
    <3> QED  BY <2>2, <3>1, <3>4, ContinueStep
  <2> QED  BY <1>4, <2>1, <2>2, ContinueStep DEF EndClaims
<1>5. CASE ClaimCandidate(c)
  BY <1>5, ClaimCandidateStep
<1>6. CASE ClaimFails(c)
  BY <1>6, FailStep
<1>7. CASE RequeueClaimedBatch(c)
  BY <1>7, RequeueStep
<1>8. QED
  BY <1>1, <1>2, <1>3, <1>4, <1>5, <1>6, <1>7 DEF Claims
-----------------------------------------------------------------------------
(* StoreInv is inductive.                                                   *)
LEMMA StoreInit == JobsInit => StoreInv
<1> SUFFICES ASSUME JobsInit PROVE StoreInv
  OBVIOUS
<1>1. 1..0 = {}
  OBVIOUS
<1>2. jobs \in [1..nextID -> Row] /\ LeaseWellFormed
  BY <1>1 DEF JobsInit, LeaseWellFormed
<1>3. calls \in [Clients -> Call] /\ \A c \in Clients : CallTyped(c)
  BY DEF JobsInit, Call, Idle, CallTyped, ClaimOps
<1>4. QED
  BY <1>2, <1>3, SqliteJobsAssumption DEF JobsInit, StoreInv, DropsTyped

(* The call of a client that does not move stays typed.                     *)
LEMMA CallStaysTyped ==
  ASSUME StoreInv, NEW d \in Clients, CallKept(d), now' \in Nat, now' >= now,
         nextID' \in {nextID, nextID + 1}
  PROVE  CallTyped(d)'
<1>1. now \in Nat /\ nextID \in Nat /\ calls[d] \in Call /\ CallTyped(d)
  BY CallFacts
<1>2. 1..nextID \subseteq 1..nextID' /\ 0..nextID \subseteq 0..nextID'
  BY <1>1
<1>3. /\ calls'[d].op = calls[d].op
      /\ calls[d].op \in ClaimOps => /\ calls'[d].start = calls[d].start
                                     /\ calls'[d].limit = calls[d].limit
                                     /\ calls'[d].candidate = calls[d].candidate
      /\ calls'[d].reading = calls[d].reading \/ calls[d].op = "idle"
      /\ calls'[d].batch = calls[d].batch \/ calls[d].op \in {"idle", "update"}
  <2>1. CASE calls'[d] = calls[d]
    BY <2>1
  <2>2. CASE calls[d].op = "claim" /\ calls'[d] = [calls[d] EXCEPT !.current = FALSE]
    <3>1. calls[d] \in Claiming
      BY <1>1, <2>2, CallShapes DEF ClaimOps
    <3> QED  BY <2>2, <3>1 DEF Claiming
  <2> QED  BY <2>1, <2>2 DEF CallKept
<1>4. calls[d].op \in {"update", "undo"} \cup ClaimOps => calls[d].reading \in Nat
  BY <1>1, CallShapes DEF Updating, Undoing, Claiming
<1>5. calls'[d].op \in {"update", "undo"} \cup ClaimOps => calls'[d].reading <= now'
  BY <1>1, <1>3, <1>4 DEF CallTyped, ClaimOps
<1>6. calls'[d].op \in {"undo"} \cup ClaimOps => Range(calls'[d].batch) \subseteq 1..nextID'
  BY <1>1, <1>2, <1>3 DEF CallTyped, ClaimOps
<1>7. QED
  BY <1>1, <1>2, <1>3, <1>5, <1>6 DEF CallTyped, ClaimOps

(* No step breaks the types or the leases.                                  *)
LEMMA StoreStep == StoreInv /\ [JobsNext]_jobsVars => StoreInv'
<1> SUFFICES ASSUME StoreInv, [JobsNext]_jobsVars PROVE StoreInv'
  OBVIOUS
<1>0. now \in Nat /\ nextID \in Nat /\ MaxJobs \in Nat /\ MaxTime \in Nat
  BY SqliteJobsAssumption DEF StoreInv
<1>1. CASE Tick
  <2>1. now' \in 0..MaxTime /\ now' >= now /\ now' \in Nat
    BY <1>0, <1>1 DEF Tick
  <2>2. \A d \in Clients : CallTyped(d)'
    BY <1>1, <2>1, CallStaysTyped DEF Tick, CallKept
  <2> QED  BY <1>1, <2>1, <2>2 DEF Tick, StoreInv, LeaseWellFormed, DropsTyped
<1>2. ASSUME NEW c \in Clients, ClientStep(c) PROVE StoreInv'
  <2>1. CallMoves(c) /\ RowsMove(c)
    BY <1>2 DEF ClientStep
  <2>2. /\ nextID' \in {nextID, nextID + 1} /\ nextID' \in 0..MaxJobs
        /\ jobs' \in [1..nextID' -> Row]
    BY <1>0, <2>1 DEF RowsMove, RowAppended, RowChanged, StoreInv
  <2>3. now' = now /\ now' \in Nat /\ now' >= now
    BY <1>0, <2>1 DEF CallMoves
  <2>4. \A d \in Clients : CallTyped(d)'
    BY <2>1, <2>2, <2>3, CallStaysTyped DEF CallMoves
  <2>5. LeaseWellFormed'
    <3> SUFFICES ASSUME NEW j \in 1..nextID'
                 PROVE  /\ jobs'[j].lockedBy # NoWorker <=> jobs'[j].lockedUntil # NoTime
                        /\ jobs'[j].lockedBy # NoWorker => jobs'[j].state = "processing"
      BY DEF LeaseWellFormed
    <3>1. \A i \in 1..nextID :
            /\ jobs[i].lockedBy # NoWorker <=> jobs[i].lockedUntil # NoTime
            /\ jobs[i].lockedBy # NoWorker => jobs[i].state = "processing"
      BY DEF StoreInv, LeaseWellFormed
    <3>2. CASE UNCHANGED <<nextID, jobs>>
      BY <3>1, <3>2
    <3>3. CASE RowAppended
      <4>1. j = nextID' \/ j \in 1..nextID
        BY <1>0, <3>3 DEF RowAppended
      <4> QED  BY <3>1, <3>3, <4>1 DEF RowAppended, Kept
    <3>4. CASE RowChanged(c)
      <4>1. j \in 1..nextID /\ (Kept(j) \/ Changed(j, c))
        BY <3>4 DEF RowChanged
      <4>2. c # NoWorker /\ \A t \in Nat : t # NoTime
        BY SqliteJobsAssumption DEF NoTime
      <4> QED
        BY <3>1, <4>1, <4>2 DEF Kept, Changed, Granted, Renewed, Orphaned, Ended
    <3> QED  BY <2>1, <3>2, <3>3, <3>4 DEF RowsMove
  <2> QED  BY <2>1, <2>2, <2>3, <2>4, <2>5 DEF CallMoves, DropsMove, StoreInv
<1>3. CASE UNCHANGED jobsVars
  BY <1>3 DEF jobsVars, StoreInv, LeaseWellFormed, CallTyped, DropsTyped
<1>4. QED
  BY <1>1, <1>2, <1>3, NextCases

(* StoreInv holds in every reachable state.                                 *)
LEMMA StoreInvariant == JobsSpec => []StoreInv
BY StoreInit, StoreStep, PTL DEF JobsSpec

(* It says what the type invariant says.                                    *)
LEMMA StoreIsTyped == StoreInv => JobsTypeOK
<1> SUFFICES ASSUME StoreInv PROVE JobsTypeOK
  OBVIOUS
<1>1. ASSUME NEW c \in Clients
      PROVE  LET call == calls[c]
             IN  \/ call = Idle
                 \/ call.op = "update" /\ call.reading \in 0..now
                 \/ /\ call.op = "undo" /\ call.reading \in 0..now
                    /\ Range(call.batch) \subseteq 1..nextID
                 \/ /\ call.op \in {"clock", "select", "claim"}
                    /\ call.sync \in Syncs /\ call.lockFor \in LockFors
                    /\ call.start \in 0..now /\ call.reading \in call.start..now
                    /\ call.candidate \in 0..nextID
                    /\ call.current \in BOOLEAN
                    /\ Range(call.batch) \subseteq 1..nextID
                    /\ Len(call.batch) <= call.limit
  <2>1. now \in Nat /\ CallTyped(c) /\ calls[c] \in Call
    BY CallFacts
  <2>2. CASE calls[c].op \in ClaimOps
    <3>1. calls[c].sync \in Syncs /\ calls[c].current \in BOOLEAN
      BY <2>2, ClaimFacts DEF Claiming
    <3>2. calls[c].start \in 0..now /\ calls[c].reading \in calls[c].start..now
      BY <2>1, <2>2, ClaimFacts
    <3> QED  BY <2>2, <3>1, <3>2, ClaimFacts DEF ClaimOps
  <2>3. CASE calls[c].op \in {"update", "undo"}
    <3>1. calls[c].reading \in Nat
      BY <2>1, <2>3, CallShapes DEF Updating, Undoing
    <3> QED  BY <2>1, <2>3, <3>1 DEF CallTyped
  <2>4. CASE calls[c].op = "idle"
    BY <2>1, <2>4, CallShapes
  <2> QED  BY <2>1, <2>2, <2>3, <2>4, CallShapes
<1>2. QED
  BY <1>1 DEF StoreInv, JobsTypeOK, DropsTyped

(* A processing row is active or expired at any reading, never both.        *)
LEMMA ListsCover == StoreInv => LeaseListsCover
<1> SUFFICES ASSUME StoreInv, NEW t \in 0..MaxTime
             PROVE  /\ ListActiveLeases(t) \cup ListExpiredProcessingLeases(t)
                         = {j \in 1..nextID : jobs[j].state = "processing"}
                    /\ ListActiveLeases(t) \cap ListExpiredProcessingLeases(t) = {}
                    /\ ListNearExpiryLeases(t, 1)
                         = ListActiveLeases(t) \ ListActiveLeases(t + 1)
  BY DEF LeaseListsCover
<1>1. t \in Nat
  BY SqliteJobsAssumption
<1>2. ASSUME NEW j \in 1..nextID PROVE jobs[j].lockedUntil \in Int
  <2>1. jobs[j] \in Row
    BY DEF StoreInv
  <2>2. QED
    BY <2>1 DEF Row, NoTime
<1>3. QED
  BY <1>1, <1>2
  DEF ListActiveLeases, ListExpiredProcessingLeases, ListNearExpiryLeases, Active, Expired

(* In every reachable store the rows and the calls under way are            *)
(* well-formed, and workers, claims and operators agree on which rows are   *)
(* leased.                                                                  *)
THEOREM LeasesAreConsistent == JobsSpec => []LeasesConsistent
<1>1. StoreInv => LeasesConsistent
  BY StoreIsTyped, ListsCover DEF StoreInv, LeasesConsistent
<1>2. QED
  BY <1>1, StoreInvariant, PTL
-----------------------------------------------------------------------------
(* Whoever owns a live lease knows of it, or failed to give it back.        *)
OwnersKnow ==
  \A c \in Clients, j \in 1..nextID :
    Owned(j, c, now) => j \in Known(c) \/ Dropped(j, c)

(* A client that does not move knows what it knew.                          *)
LEMMA OthersKnow ==
  ASSUME StoreInv, NEW d \in Clients, CallKept(d), held'[d] = held[d]
  PROVE  Known(d)' = Known(d)
<1>1. CASE calls'[d] = calls[d]
  BY <1>1 DEF Known
<1>2. CASE calls[d].op = "claim" /\ calls'[d] = [calls[d] EXCEPT !.current = FALSE]
  <2>1. calls[d] \in Claiming
    BY <1>2, CallFacts, CallShapes DEF ClaimOps
  <2>2. calls'[d].op = "claim" /\ calls'[d].batch = calls[d].batch
    BY <1>2, <2>1 DEF Claiming
  <2> QED  BY <1>2, <2>2 DEF Known, ClaimOps
<1>3. QED
  BY <1>1, <1>2 DEF CallKept

(* No step loses track of a live lease.                                     *)
LEMMA OwnersKnowStep ==
  StoreInv /\ OwnersKnow /\ [JobsNext]_jobsVars => OwnersKnow'
<1> SUFFICES ASSUME StoreInv, OwnersKnow, [JobsNext]_jobsVars,
                    NEW d \in Clients, NEW j \in 1..nextID', Owned(j, d, now)'
             PROVE  j \in Known(d)' \/ Dropped(j, d)'
  BY DEF OwnersKnow
<1>0. now \in Nat /\ nextID \in Nat
  BY CallFacts
<1>1. CASE Tick
  <2>1. j \in 1..nextID /\ jobs[j].lockedUntil \in Int
    BY <1>1, CallFacts DEF Tick, Row, NoTime
  <2>2. Owned(j, d, now)
    BY <1>0, <1>1, <2>1 DEF Tick, Owned, Active
  <2> QED  BY <1>1, <2>1, <2>2 DEF OwnersKnow, Tick, Known, Dropped
<1>2. ASSUME NEW c \in Clients, ClientStep(c) PROVE j \in Known(d)' \/ Dropped(j, d)'
  <2>1. CallMoves(c) /\ RowsMove(c) /\ KnownMoves(c)
    BY <1>2 DEF ClientStep
  <2>2. now' = now /\ (d # c => Known(d)' = Known(d))
    BY <2>1, OthersKnow DEF CallMoves
  <2>3. jobs'[j].state = "processing" /\ jobs'[j].lockedBy = d
    BY DEF Owned, Active
  <2>4. CASE j \in 1..nextID /\ Kept(j)
    <3>1. Owned(j, d, now)
      BY <2>2, <2>4 DEF Kept, Owned, Active
    <3>2. CASE j \in Known(d)
      BY <2>1, <2>2, <2>4, <3>2 DEF KnownMoves
    <3>3. CASE Dropped(j, d)
      BY <2>1, <2>4, <3>3 DEF CallMoves, DropsMove, Dropped, Kept
    <3> QED  BY <2>4, <3>1, <3>2, <3>3 DEF OwnersKnow
  <2>5. CASE j \in 1..nextID /\ ~Kept(j)
    <3>1. Changed(j, c)
      BY <2>1, <2>5 DEF RowsMove, RowAppended, RowChanged, Kept
    <3>2. (Granted(j, c) \/ Renewed(j, c)) /\ d = c
      BY <2>3, <3>1, SqliteJobsAssumption DEF Changed, Orphaned, Ended, Granted, Renewed
    <3> QED  BY <2>1, <2>5, <3>2 DEF KnownMoves
  <2>6. CASE j \notin 1..nextID
    <3>1. RowAppended /\ j = nextID'
      BY <1>0, <2>1, <2>6 DEF RowsMove, RowAppended, RowChanged
    <3> QED  BY <2>3, <3>1 DEF RowAppended
  <2> QED  BY <2>4, <2>5, <2>6
<1>3. CASE UNCHANGED jobsVars
  BY <1>3 DEF jobsVars, OwnersKnow, Owned, Active, Known, Dropped
<1>4. QED
  BY <1>1, <1>2, <1>3, NextCases

(* In every reachable store a lease that still counts is one its holder was *)
(* given, is about to be given, or is giving back, or one whose give-back   *)
(* failed and whose deadline is still what it was then.                     *)
THEOREM LeasesAreKnown == JobsSpec => []NoUnknownLease
<1>1. JobsInit => OwnersKnow
  BY DEF JobsInit, OwnersKnow
<1>2. StoreInv /\ OwnersKnow => NoUnknownLease
  <2> SUFFICES ASSUME StoreInv, OwnersKnow, NEW c \in Clients, NEW j \in 1..nextID,
                      Owned(j, c, now), j \notin held[c], ~Dropped(j, c)
               PROVE  /\ calls[c].op \in {"clock", "select", "claim", "undo"}
                      /\ Contains(calls[c].batch, j)
    BY DEF NoUnknownLease, Dropped
  <2>1. j \in Known(c) /\ calls[c] \in Call
    BY CallFacts DEF OwnersKnow
  <2>2. calls[c].op \in {"undo"} \cup ClaimOps /\ j \in Range(calls[c].batch)
    BY <2>1 DEF Known
  <2>3. calls[c].batch \in Seq(Nat)
    BY <2>1, <2>2, CallShapes DEF Undoing, Claiming
  <2> QED  BY <2>2, <2>3, BatchRange DEF ClaimOps
<1>3. QED
  BY <1>1, <1>2, OwnersKnowStep, StoreInvariant, PTL DEF JobsSpec
-----------------------------------------------------------------------------
(* Until its own duration is over a claim has every job of its batch.       *)
Over(c) == now >= calls[c].start + calls[c].lockFor

Has(c, j) ==
  /\ jobs[j].state = "processing" /\ jobs[j].lockedBy = c
  /\ jobs[j].lockedUntil >= calls[c].start + calls[c].lockFor

BatchHeld ==
  \A c \in Clients : calls[c].op \in ClaimOps =>
    \/ Over(c)
    \/ /\ \A j \in Range(calls[c].batch) : Has(c, j)
       /\ \A h, i \in DOMAIN calls[c].batch :
            calls[c].batch[h] = calls[c].batch[i] => h = i

(* A job of the batch is not granted again, and its row stays as it is,     *)
(* unless the time is over.                                                 *)
LEMMA RowStaysHeld ==
  ASSUME StoreInv, NEW c \in Clients, ClientStep(c), NEW d \in Clients,
         calls[d].op \in ClaimOps, ~Over(d), NEW j \in 1..nextID, Has(d, j)
  PROVE  Kept(j) /\ ~Granted(j, c)
<1>1. RowsMove(c)
  BY DEF ClientStep
<1>2. /\ now \in Nat /\ calls[d].start \in Nat /\ calls[d].lockFor \in Nat
      /\ jobs[j].lockedUntil \in Int
  BY ClaimFacts, CallFacts DEF Row, NoTime
<1>3. calls[c].op \in {"update", "undo", "claim"} => At(c) \in Nat /\ At(c) <= now
  BY CallFacts
<1>4. ASSUME Expired(j, At(c)), calls[c].op \in {"update", "undo", "claim"} PROVE FALSE
  BY <1>2, <1>3, <1>4 DEF Expired, Has, Over
<1>5. ~Granted(j, c) /\ ~Orphaned(j, c)
  BY <1>4 DEF Granted, Orphaned, Queued, Has
<1>6. ASSUME Changed(j, c) PROVE FALSE
  <2>1. PICK t : Owned(j, c, t) /\ calls[c].op \in {"update", "undo"}
    BY <1>4, <1>5, <1>6 DEF Changed, Renewed, Ended
  <2>2. d = c
    BY <2>1 DEF Owned, Has
  <2> QED  BY <2>1, <2>2 DEF ClaimOps
<1>7. QED
  BY <1>1, <1>5, <1>6 DEF RowsMove, RowAppended, RowChanged, Kept

(* A row that is kept is had as before.                                     *)
LEMMA HasKept ==
  ASSUME NEW d \in Clients, NEW j, Kept(j), Has(d, j),
         calls'[d].start = calls[d].start, calls'[d].lockFor = calls[d].lockFor
  PROVE  Has(d, j)'
BY DEF Kept, Has

(* A claim keeps having its batch, whose jobs differ.                       *)
LEMMA BatchStep ==
  StoreInv /\ BatchHeld /\ [JobsNext]_jobsVars => BatchHeld'
<1> DEFINE Apart(s) == \A h, i \in DOMAIN s : s[h] = s[i] => h = i
<1> SUFFICES ASSUME StoreInv, BatchHeld, [JobsNext]_jobsVars,
                    NEW d \in Clients, calls'[d].op \in ClaimOps
             PROVE  \/ Over(d)'
                    \/ /\ \A j \in Range(calls'[d].batch) : Has(d, j)'
                       /\ Apart(calls'[d].batch)
  BY DEF BatchHeld
<1>0. now \in Nat /\ nextID \in Nat
  BY CallFacts
<1>a. ASSUME calls[d].op \in ClaimOps, ~Over(d)
      PROVE  /\ \A j \in Range(calls[d].batch) : j \in 1..nextID /\ Has(d, j)
             /\ Apart(calls[d].batch)
  BY <1>a, ClaimFacts DEF BatchHeld
<1>b. ASSUME calls[d].op \in ClaimOps, Over(d), now' >= now, now' \in Nat,
             calls'[d].start = calls[d].start, calls'[d].lockFor = calls[d].lockFor
      PROVE  Over(d)'
  <2>1. calls[d].start \in Nat /\ calls[d].lockFor \in Nat
    BY <1>b, ClaimFacts
  <2> QED  BY <1>0, <1>b, <2>1 DEF Over
<1>c. ASSUME calls[d].op \in ClaimOps, now' >= now, now' \in Nat,
             calls'[d].start = calls[d].start, calls'[d].lockFor = calls[d].lockFor,
             calls'[d].batch = calls[d].batch,
             ~Over(d) => \A j \in Range(calls[d].batch) : Kept(j)
      PROVE  \/ Over(d)'
             \/ /\ \A j \in Range(calls'[d].batch) : Has(d, j)'
                /\ Apart(calls'[d].batch)
  <2>1. CASE Over(d)
    BY <1>b, <1>c, <2>1
  <2>2. CASE ~Over(d)
    <3>1. \A j \in Range(calls[d].batch) : Has(d, j)'
      BY <1>a, <1>c, <2>2, HasKept
    <3>2. Apart(calls[d].batch)
      BY <1>a, <1>c, <2>2
    <3> QED  BY <1>c, <3>1, <3>2
  <2> QED  BY <2>1, <2>2
<1>1. CASE Tick
  <2>1. now' >= now /\ now' \in Nat /\ calls' = calls /\ jobs' = jobs
    BY <1>0, <1>1 DEF Tick
  <2> QED  BY <1>c, <2>1 DEF Kept
<1>2. ASSUME NEW c \in Clients, ClientStep(c), d # c
      PROVE  \/ Over(d)'
             \/ /\ \A j \in Range(calls'[d].batch) : Has(d, j)'
                /\ Apart(calls'[d].batch)
  <2>1. CallKept(d) /\ now' = now
    BY <1>2 DEF ClientStep, CallMoves
  <2>2. /\ calls[d].op \in ClaimOps /\ calls'[d].start = calls[d].start
        /\ calls'[d].lockFor = calls[d].lockFor /\ calls'[d].batch = calls[d].batch
    <3>1. CASE calls'[d] = calls[d]
      BY <3>1
    <3>2. CASE calls[d].op = "claim" /\ calls'[d] = [calls[d] EXCEPT !.current = FALSE]
      <4>1. calls[d] \in Claiming
        BY <3>2, CallFacts, CallShapes DEF ClaimOps
      <4> QED  BY <3>2, <4>1 DEF Claiming, ClaimOps
    <3> QED  BY <2>1, <3>1, <3>2 DEF CallKept
  <2>3. ~Over(d) => \A j \in Range(calls[d].batch) : Kept(j)
    BY <1>2, <1>a, <2>2, RowStaysHeld
  <2> QED  BY <1>0, <1>c, <2>1, <2>2, <2>3
<1>3. ASSUME ClientStep(d)
      PROVE  \/ Over(d)'
             \/ /\ \A j \in Range(calls'[d].batch) : Has(d, j)'
                /\ Apart(calls'[d].batch)
  <2>1. BatchMoves(d) /\ now' = now
    BY <1>3 DEF ClientStep, CallMoves
  <2>2. CASE calls'[d].batch = <<>>
    <3>1. Range(<<>>) = {} /\ DOMAIN <<>> = {}
      BY DEF Range
    <3> QED  BY <2>2, <3>1
  <2> SUFFICES ASSUME calls'[d].batch # <<>>
               PROVE  \/ Over(d)'
                      \/ /\ \A j \in Range(calls'[d].batch) : Has(d, j)'
                         /\ Apart(calls'[d].batch)
    BY <2>2
  <2>3. /\ calls[d].op \in ClaimOps
        /\ calls'[d].start = calls[d].start /\ calls'[d].lockFor = calls[d].lockFor
    BY <2>1 DEF BatchMoves
  <2>4. CASE UNCHANGED <<nextID, jobs>> /\ calls'[d].batch = calls[d].batch
    BY <1>0, <1>c, <2>1, <2>3, <2>4 DEF Kept
  <2>5. ASSUME ~Over(d), NEW k \in 1..nextID, Granted(k, d),
               calls'[d].batch = Append(calls[d].batch, k)
        PROVE  /\ \A j \in Range(calls'[d].batch) : Has(d, j)'
               /\ Apart(calls'[d].batch)
    <3> DEFINE s == calls[d].batch
               t == calls'[d].batch
    <3>1. s \in Seq(Nat) /\ k \in Nat /\ Range(t) = Range(s) \cup {k}
      BY <1>0, <2>3, <2>5, ClaimFacts, BatchRange
    <3>2. \A j \in Range(s) : /\ j \in 1..nextID /\ Has(d, j)
                              /\ Kept(j) /\ ~Granted(j, d)
      BY <1>3, <1>a, <2>3, <2>5, RowStaysHeld
    <3>3. \A j \in Range(s) : Has(d, j)'
      BY <2>3, <3>2, HasKept
    <3>4. Has(d, k)'
      <4>1. /\ calls[d].op = "claim" /\ jobs'[k].state = "processing"
            /\ jobs'[k].lockedBy = d
            /\ jobs'[k].lockedUntil = calls[d].reading + calls[d].lockFor
        BY <2>5 DEF Granted, At
      <4>2. /\ calls[d].reading \in Nat /\ calls[d].start \in Nat
            /\ calls[d].lockFor \in Nat /\ calls[d].start <= calls[d].reading
        BY <2>3, ClaimFacts
      <4> QED  BY <2>3, <4>1, <4>2 DEF Has
    <3>5. k \notin Range(s)
      BY <2>5, <3>2
    <3>6. /\ DOMAIN s = 1..Len(s) /\ Len(s) \in Nat /\ DOMAIN t = 1..(Len(s) + 1)
          /\ \A i \in 1..Len(s) : t[i] = s[i]
          /\ t[Len(s) + 1] = k
      BY <2>5, <3>1, AppendProperties
    <3>7. \A i \in 1..Len(s) : s[i] # k
      BY <3>5, <3>6 DEF Range
    <3>8. Apart(s)
      BY <1>a, <2>3, <2>5
    <3> HIDE DEF s, t
    <3>9. Apart(t)
      <4>1. \A i \in DOMAIN t : i \in 1..Len(s) \/ i = Len(s) + 1
        BY <3>6
      <4> QED  BY <3>6, <3>7, <3>8, <4>1
    <3>10. \A j \in Range(t) : Has(d, j)'
      BY <3>1, <3>3, <3>4
    <3> QED  BY <3>9, <3>10 DEF t
  <2> QED  BY <1>0, <1>b, <2>1, <2>3, <2>4, <2>5 DEF BatchMoves
<1>4. CASE UNCHANGED jobsVars
  BY <1>0, <1>4, <1>c DEF jobsVars, Kept
<1>5. QED
  BY <1>1, <1>2, <1>3, <1>4, NextCases

(* A batch holds a job twice only when the call has outlasted the leases it *)
(* asked for.                                                               *)
THEOREM BatchesAreDistinct == JobsSpec => []BatchIsDistinct
<1>1. JobsInit => BatchHeld
  BY DEF JobsInit, BatchHeld, Idle, ClaimOps
<1>2. StoreInv /\ BatchHeld => BatchIsDistinct
  <2> SUFFICES ASSUME StoreInv, BatchHeld, NEW c \in Clients, calls[c].op \in ClaimOps,
                      NEW h \in DOMAIN calls[c].batch, NEW i \in DOMAIN calls[c].batch,
                      h < i, calls[c].batch[h] = calls[c].batch[i]
               PROVE  Over(c)
    BY DEF BatchIsDistinct, Over, ClaimOps
  <2>1. DOMAIN calls[c].batch \subseteq Nat
    BY ClaimFacts
  <2>2. h # i
    BY <2>1
  <2> QED  BY <2>2 DEF BatchHeld
<1>3. QED
  BY <1>1, <1>2, BatchStep, StoreInvariant, PTL DEF JobsSpec
-----------------------------------------------------------------------------
(* However late a statement runs, a row whose lease is live is changed by   *)
(* its holder's own update or give-back only, and no finished row changes.  *)
THEOREM LateStatements == JobsSpec => LateCallsAreHarmless
<1> DEFINE HoldersOwn(j) ==
             LET w == jobs[j].lockedBy
             IN  /\ calls[w].op \in {"update", "undo"}
                 /\ calls'[w] # calls[w]
                 /\ jobs'[j].state # "processing" \/ jobs'[j].lockedBy = w
           Safe == \A j \in 1..nextID : jobs'[j] # jobs[j] =>
                     /\ Active(j, now) => HoldersOwn(j)
                     /\ jobs[j].state \notin {"synced", "dead"}
<1>1. StoreInv /\ [JobsNext]_jobsVars => [Safe]_jobsVars
  <2> SUFFICES ASSUME StoreInv, JobsNext PROVE Safe
    OBVIOUS
  <2>1. CASE Tick
    BY <2>1 DEF Tick
  <2>2. ASSUME NEW c \in Clients, ClientStep(c) PROVE Safe
    <3> SUFFICES ASSUME NEW j \in 1..nextID, ~Kept(j)
                 PROVE  /\ Active(j, now) => HoldersOwn(j)
                        /\ jobs[j].state \notin {"synced", "dead"}
      BY DEF Kept
    <3>1. Changed(j, c) /\ calls'[c] # calls[c]
      BY <2>2 DEF ClientStep, RowsMove, RowAppended, RowChanged, Kept
    <3>2. /\ now \in Nat /\ jobs[j].lockedUntil \in Int
          /\ calls[c].op \in {"update", "undo", "claim"} => At(c) \in Nat /\ At(c) <= now
      BY CallFacts DEF Row, NoTime
    <3>3. calls[c].op \in {"update", "undo", "claim"} /\ Expired(j, At(c)) => ~Active(j, now)
      BY <3>2 DEF Expired, Active
    <3>4. CASE Granted(j, c)
      BY <3>3, <3>4 DEF Granted, Queued, Active, Expired
    <3>5. CASE Renewed(j, c)
      BY <3>1, <3>5 DEF Renewed, Owned, Active
    <3>6. CASE Orphaned(j, c)
      BY <3>3, <3>6 DEF Orphaned, Expired
    <3>7. CASE \E failures \in {0, 1} : Ended(j, c, failures)
      BY <3>1, <3>3, <3>7 DEF Ended, Owned, Active, Expired
    <3> QED  BY <3>1, <3>4, <3>5, <3>6, <3>7 DEF Changed
  <2> QED  BY <2>1, <2>2, NextCases
<1>2. QED
  BY <1>1, StoreInvariant, PTL DEF JobsSpec, LateCallsAreHarmless
-----------------------------------------------------------------------------
(* Refinement of JobLease.                                                  *)

(* A row that does not change looks the same at the same time.              *)
LEMMA SameRow ==
  ASSUME NEW j \in JobIDs, nextID' = nextID, now' = now, j <= nextID => Kept(j)
  PROVE  /\ statusBar'[j] = statusBar[j]
         /\ holderBar'[j] = holderBar[j]
         /\ attemptsBar'[j] = attemptsBar[j]
<1>1. CASE j <= nextID
  BY <1>1 DEF statusBar, holderBar, attemptsBar, Phase, Active, Kept
<1>2. CASE ~(j <= nextID)
  BY <1>2 DEF statusBar, holderBar, attemptsBar, Phase
<1>3. QED
  BY <1>1, <1>2

(* Create adds one job to the abstract queue.                               *)
LEMMA AppendRefines ==
  ASSUME StoreInv, RowAppended, now' = now
  PROVE  Lease!LeaseNext
<1>1. /\ nextID \in Nat /\ nextID' = nextID + 1 /\ nextID' \in JobIDs
      /\ \A j \in 1..nextID : Kept(j)
      /\ jobs'[nextID'].state = "pending" /\ jobs'[nextID'].attempts = 0
  BY SqliteJobsAssumption DEF RowAppended, JobIDs, StoreInv
<1>2. \A j \in JobIDs : /\ j \in Nat /\ j >= 1
                        /\ j # nextID' => (j <= nextID' <=> j <= nextID)
                        /\ j <= nextID => jobs'[j] = jobs[j]
  BY <1>1 DEF JobIDs, Kept
<1>3. ASSUME NEW j \in JobIDs
      PROVE  /\ statusBar'[j] = IF j \in {nextID'} THEN "queued" ELSE statusBar[j]
             /\ holderBar'[j] = holderBar[j]
             /\ attemptsBar'[j] = attemptsBar[j]
  <2>1. CASE j = nextID'
    BY <1>1, <2>1 DEF statusBar, holderBar, attemptsBar, Phase, Active
  <2>2. CASE j # nextID'
    BY <1>1, <1>2, <2>2 DEF statusBar, holderBar, attemptsBar, Phase, Active
  <2>3. QED
    BY <2>1, <2>2
<1>4. statusBar[nextID'] = "absent"
  BY <1>1 DEF statusBar
<1>5. statusBar' = [j \in JobIDs |-> IF j \in {nextID'} THEN "queued" ELSE statusBar[j]]
  BY <1>3 DEF statusBar
<1>6. holderBar' = holderBar /\ attemptsBar' = attemptsBar
  BY <1>3 DEF holderBar, attemptsBar
<1>7. Lease!Add({nextID'})
  BY <1>4, <1>5, <1>6 DEF Lease!Add
<1>8. QED
  BY <1>1, <1>7 DEF Lease!LeaseNext

(* The leases that end with a tick of the clock lapse together.             *)
LEMMA TickRefines ==
  ASSUME StoreInv, Tick
  PROVE  Lease!LeaseNext
<1> DEFINE C == {j \in JobIDs : statusBar[j] = "held" /\ statusBar'[j] # "held"}
<1>1. now \in Nat /\ now' = now + 1 /\ jobs' = jobs /\ nextID' = nextID /\ nextID \in Nat
  BY SqliteJobsAssumption DEF Tick, StoreInv
<1>2. \A j \in JobIDs : j <= nextID => jobs[j].lockedUntil \in Int
  BY <1>1 DEF StoreInv, JobIDs, Row, NoTime
<1>3. ASSUME NEW j \in JobIDs
      PROVE  /\ statusBar'[j] = IF j \in C THEN "lapsed" ELSE statusBar[j]
             /\ holderBar'[j] = IF j \in C THEN NoWorker ELSE holderBar[j]
             /\ attemptsBar'[j] = attemptsBar[j]
  <2>1. CASE j <= nextID
    <3>1. CASE Active(j, now)
      BY <1>1, <1>2, <2>1, <3>1 DEF statusBar, holderBar, attemptsBar, Phase, Active
    <3>2. CASE ~Active(j, now)
      <4>1. ~Active(j, now')
        BY <1>1, <1>2, <2>1, <3>2 DEF Active
      <4>2. QED
        BY <1>1, <2>1, <3>2, <4>1 DEF statusBar, holderBar, attemptsBar, Phase, Active
    <3>3. QED
      BY <3>1, <3>2
  <2>2. CASE ~(j <= nextID)
    BY <1>1, <2>2 DEF statusBar, holderBar, attemptsBar, Phase
  <2>3. QED
    BY <2>1, <2>2
<1>4. \A j \in C : statusBar[j] = "held"
  OBVIOUS
<1> HIDE DEF C
<1>5. statusBar' = [j \in JobIDs |-> IF j \in C THEN "lapsed" ELSE statusBar[j]]
  BY <1>3 DEF statusBar
<1>6. holderBar' = [j \in JobIDs |-> IF j \in C THEN NoWorker ELSE holderBar[j]]
  BY <1>3 DEF holderBar
<1>7. attemptsBar' = attemptsBar
  BY <1>3 DEF attemptsBar
<1>8. Lease!Lapse(C) /\ C \in SUBSET JobIDs
  BY <1>4, <1>5, <1>6, <1>7 DEF Lease!Lapse, C
<1>9. QED
  BY <1>8 DEF Lease!LeaseNext

(* A change of one row made at its time grants, settles, kills, retries,    *)
(* releases or recalls its job; a renewal or a forced release is a stutter. *)
LEMMA ChangeRefines ==
  ASSUME StoreInv, NEW c \in Clients, RowChanged(c), now' = now, At(c) = now
  PROVE  [Lease!LeaseNext]_(Lease!leaseVars)
<1>1. PICK k \in 1..nextID : Changed(k, c) /\ \A j \in (1..nextID) \ {k} : Kept(j)
  BY DEF RowChanged
<1>2. /\ nextID' = nextID /\ now \in Nat /\ nextID \in 0..MaxJobs
      /\ k \in JobIDs /\ k <= nextID
  BY SqliteJobsAssumption DEF RowChanged, StoreInv, JobIDs
<1>3. /\ jobs[k].lockedUntil \in Int /\ jobs[k].attempts \in 0..MaxCount
      /\ jobs'[k].attempts \in 0..MaxCount
  <2>1. jobs[k] \in Row /\ jobs'[k] \in Row
    BY DEF RowChanged, StoreInv
  <2>2. QED
    BY <2>1 DEF Row, NoTime
<1>4. ASSUME NEW j \in JobIDs, j # k
      PROVE  /\ statusBar'[j] = statusBar[j] /\ holderBar'[j] = holderBar[j]
             /\ attemptsBar'[j] = attemptsBar[j]
  <2>1. j <= nextID => Kept(j)
    BY <1>1, <1>2, <1>4 DEF JobIDs
  <2>2. QED
    BY <1>2, <2>1, SameRow
<1>5. ASSUME NEW q, NEW w, NEW n,
             statusBar'[k] = q, holderBar'[k] = w, attemptsBar'[k] = n
      PROVE  /\ statusBar' = [statusBar EXCEPT ![k] = q]
             /\ holderBar' = [holderBar EXCEPT ![k] = w]
             /\ attemptsBar' = [attemptsBar EXCEPT ![k] = n]
  <2>1. statusBar' = [statusBar EXCEPT ![k] = q]
    BY <1>2, <1>4, <1>5 DEF statusBar
  <2>2. holderBar' = [holderBar EXCEPT ![k] = w]
    BY <1>2, <1>4, <1>5 DEF holderBar
  <2>3. attemptsBar' = [attemptsBar EXCEPT ![k] = n]
    BY <1>2, <1>4, <1>5 DEF attemptsBar
  <2> QED  BY <2>1, <2>2, <2>3
<1>6. /\ DOMAIN statusBar = JobIDs /\ statusBar = [j \in JobIDs |-> statusBar[j]]
      /\ DOMAIN holderBar = JobIDs /\ holderBar = [j \in JobIDs |-> holderBar[j]]
      /\ DOMAIN attemptsBar = JobIDs /\ attemptsBar = [j \in JobIDs |-> attemptsBar[j]]
  BY DEF statusBar, holderBar, attemptsBar
<1>7. CASE Granted(k, c)
  <2>1. calls[c].lockFor \in Nat /\ calls[c].lockFor # 0
    BY <1>7, ClaimFacts DEF Granted, ClaimOps
  <2>2. /\ statusBar[k] \in {"queued", "lapsed"} /\ statusBar'[k] = "held"
        /\ holderBar'[k] = c /\ attemptsBar'[k] = attemptsBar[k]
    BY <1>2, <1>3, <1>7, <2>1
    DEF Granted, Queued, Expired, statusBar, holderBar, attemptsBar, Phase, Active
  <2>3. /\ statusBar' = [statusBar EXCEPT ![k] = "held"]
        /\ holderBar' = [holderBar EXCEPT ![k] = c]
        /\ attemptsBar' = [attemptsBar EXCEPT ![k] = attemptsBar[k]]
    BY <1>5, <2>2
  <2>4. Lease!Grant({k}, c)
    <3>1. statusBar' = [j \in JobIDs |-> IF j \in {k} THEN "held" ELSE statusBar[j]]
      BY <1>6, <2>3
    <3>2. holderBar' = [j \in JobIDs |-> IF j \in {k} THEN c ELSE holderBar[j]]
      BY <1>6, <2>3
    <3>3. attemptsBar' = attemptsBar
      BY <1>6, <2>3
    <3> QED  BY <2>2, <3>1, <3>2, <3>3 DEF Lease!Grant, Lease!Waiting
  <2> QED  BY <1>2, <2>4 DEF Lease!LeaseNext
<1>8. CASE Renewed(k, c) \/ Orphaned(k, c)
  <2>1. /\ statusBar'[k] = statusBar[k] /\ holderBar'[k] = holderBar[k]
        /\ attemptsBar'[k] = attemptsBar[k]
    BY <1>2, <1>3, <1>8
    DEF Renewed, Orphaned, Owned, Active, Expired, NoTime, statusBar, holderBar, attemptsBar,
        Phase
  <2>2. /\ statusBar' = [statusBar EXCEPT ![k] = statusBar[k]]
        /\ holderBar' = [holderBar EXCEPT ![k] = holderBar[k]]
        /\ attemptsBar' = [attemptsBar EXCEPT ![k] = attemptsBar[k]]
    BY <1>5, <2>1
  <2>3. statusBar' = statusBar /\ holderBar' = holderBar /\ attemptsBar' = attemptsBar
    BY <1>6, <2>2
  <2> QED  BY <2>3 DEF Lease!leaseVars
<1>9. ASSUME NEW failures \in {0, 1}, Ended(k, c, failures) PROVE Lease!LeaseNext
  <2> DEFINE q == IF jobs'[k].state = "retrying" THEN "queued" ELSE jobs'[k].state
  <2>1. /\ statusBar'[k] = q /\ holderBar'[k] = NoWorker
        /\ attemptsBar'[k] = attemptsBar[k] + failures
        /\ attemptsBar[k] + failures <= MaxCount
    BY <1>2, <1>3, <1>9, SqliteJobsAssumption
    DEF Ended, statusBar, holderBar, attemptsBar, Phase, Active
  <2>2. /\ statusBar' = [statusBar EXCEPT ![k] = q]
        /\ holderBar' = [holderBar EXCEPT ![k] = NoWorker]
        /\ attemptsBar' = [attemptsBar EXCEPT ![k] = attemptsBar[k] + failures]
    BY <1>5, <2>1
  <2>3. CASE Owned(k, c, At(c))
    <3>1. Lease!Holds(k, c)
      BY <1>2, <2>3 DEF Lease!Holds, statusBar, holderBar, Phase, Owned, Active
    <3>2. Lease!End(k, c, q, failures)
      BY <2>1, <2>2, <3>1 DEF Lease!End
    <3>3. \/ q = "queued"
          \/ q = "synced" /\ failures = 0
          \/ q = "dead" /\ failures = 1
      <4>1. \/ jobs'[k].state = "synced" /\ failures = 0
            \/ jobs'[k].state = "dead" /\ failures = 1
            \/ jobs'[k].state = "retrying"
        BY <1>9 DEF Ended
      <4>2. QED
        BY <4>1
    <3>4. \/ Lease!Settle(k, c) \/ Lease!Kill(k, c)
          \/ Lease!Retry(k, c) \/ Lease!Release(k, c)
      BY <3>2, <3>3 DEF Lease!Settle, Lease!Kill, Lease!Retry, Lease!Release
    <3>5. QED
      BY <1>2, <3>4 DEF Lease!LeaseNext
  <2>4. CASE ~Owned(k, c, At(c))
    <3>1. Expired(k, now) /\ q = "queued" /\ failures = 0
      BY <1>9, <2>4 DEF Ended
    <3>2. statusBar[k] = "lapsed" /\ holderBar[k] = NoWorker
      BY <1>2, <1>3, <3>1 DEF Expired, Active, statusBar, holderBar, Phase
    <3>3. attemptsBar[k] + 0 = attemptsBar[k]
      BY <1>2, <1>3 DEF attemptsBar
    <3>4. holderBar' = holderBar /\ attemptsBar' = attemptsBar
      BY <1>6, <2>2, <3>1, <3>2, <3>3
    <3>5. Lease!Recall(k)
      BY <2>2, <3>1, <3>2, <3>4 DEF Lease!Recall
    <3>6. QED
      BY <1>2, <3>5 DEF Lease!LeaseNext
  <2>5. QED
    BY <2>3, <2>4
<1>10. QED
  BY <1>1, <1>7, <1>8, <1>9 DEF Changed

(* A step taken while no statement is late is a step of JobLease or a       *)
(* stutter; a batch is given back on time, whatever else is late.           *)
LEMMA StepRefines ==
  StoreInv /\ [JobsNext]_jobsVars
    => [ReadingsCurrent => Lease!LeaseNext]_(Lease!leaseVars)
<1> SUFFICES ASSUME StoreInv, [JobsNext]_jobsVars, ReadingsCurrent
             PROVE  [Lease!LeaseNext]_(Lease!leaseVars)
  OBVIOUS
<1>1. CASE Tick
  BY <1>1, TickRefines
<1>2. CASE UNCHANGED <<now, nextID, jobs>>
  BY <1>2 DEF Lease!leaseVars, statusBar, holderBar, attemptsBar, Phase, Active
<1>3. ASSUME NEW c \in Clients, ClientStep(c) PROVE [Lease!LeaseNext]_(Lease!leaseVars)
  <2>1. RowsMove(c) /\ now' = now
    BY <1>3 DEF ClientStep, CallMoves
  <2>2. CASE RowChanged(c)
    <3>1. calls[c].op \in {"update", "undo", "claim"}
      BY <2>2 DEF RowChanged, Changed, Granted, Renewed, Orphaned, Ended
    <3>2. At(c) = now
      BY <3>1 DEF At, ReadingsCurrent
    <3> QED  BY <2>1, <2>2, <3>2, ChangeRefines
  <2>3. CASE RowAppended
    BY <2>1, <2>3, AppendRefines
  <2> QED  BY <1>2, <2>1, <2>2, <2>3 DEF RowsMove
<1>4. QED
  BY <1>1, <1>2, <1>3, NextCases DEF jobsVars

(* The empty table maps to a queue without jobs.                            *)
LEMMA InitRefines == JobsInit => Lease!LeaseInit
<1> SUFFICES ASSUME JobsInit PROVE Lease!LeaseInit
  OBVIOUS
<1>1. \A j \in JobIDs : ~(j <= nextID)
  BY SqliteJobsAssumption DEF JobsInit, JobIDs
<1>2. QED
  BY <1>1 DEF Lease!LeaseInit, statusBar, holderBar, attemptsBar, Phase

(* Claims of one transaction per job, and those that are given back,        *)
(* implement the lease protocol the workers rely on, but for statements     *)
(* that run later than their call read the clock.                           *)
THEOREM StatementsImplementJobLease == JobsSpec => ImplementsJobLease
BY InitRefines, StepRefines, StoreInvariant, PTL DEF JobsSpec, ImplementsJobLease
=============================================================================
