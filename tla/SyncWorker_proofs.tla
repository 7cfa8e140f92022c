-------------------------- MODULE SyncWorker_proofs --------------------------
(***************************************************************************)
(* Theorems about the workers, for any number of processes, routines,      *)
(* jobs, crashes, cancellations and failures.                              *)
(***************************************************************************)
EXTENDS SyncWorker, FiniteSetTheorems, TLAPS

(* Every change has its job, which exists, and is claimed, only after it. *)
JobsHaveChanges ==
  /\ DOMAIN changes \subseteq Jobs
  /\ \A j \in Jobs : status[j] # "absent" => j \in DOMAIN changes
  /\ \A r \in Routines : \A i \in DOMAIN batch[r] :
       batch[r][i].job \in DOMAIN changes

(* Every key that was changed has a last change, the one Version chooses. *)
Changed(k) == {n \in DOMAIN changes : changes[n] = k}
NewestExists ==
  \A k \in Keys : Changed(k) # {} =>
    \E n \in Changed(k) : \A m \in Changed(k) : m <= n

BaseInv == WorkerTypeOK /\ JobsHaveChanges /\ NewestExists
-----------------------------------------------------------------------------
(* The key of the job in hand is a key, its job a change of that key.       *)
LEMMA InHandKey ==
  ASSUME BaseInv, NEW r \in Routines, batch[r] # <<>>
  PROVE  /\ Current(r) \in Claimed /\ Current(r).job \in Jobs
         /\ Current(r).job \in DOMAIN changes
         /\ Key(r) \in Keys
         /\ Tail(batch[r]) \in Seq(Claimed)
<1>1. batch[r] \in Seq(Claimed) /\ 1 \in DOMAIN batch[r]
  BY DEF BaseInv, WorkerTypeOK, DestTypeOK, BatchTypeOK
<1>2. Current(r) = batch[r][1] /\ batch[r][1] \in Claimed
  BY <1>1 DEF Current
<1>3. Current(r).job \in DOMAIN changes /\ Current(r).job \in Jobs
  BY <1>1, <1>2 DEF BaseInv, JobsHaveChanges, Claimed
<1>4. QED
  BY <1>1, <1>2, <1>3 DEF BaseInv, WorkerTypeOK, DestTypeOK, BatchTypeOK, Key

(* Version is the last change of a key, 0 when there is none.               *)
LEMMA VersionIsNewest ==
  ASSUME BaseInv, NEW k \in Keys
  PROVE  /\ Version(k) \in 0..Len(changes)
         /\ \A n \in Changed(k) : n <= Version(k)
         /\ Changed(k) # {} => Version(k) \in Changed(k)
         /\ Changed(k) = {} => Version(k) = 0
<1>0. changes \in Seq(Keys) /\ DOMAIN changes = 1..Len(changes) /\ Len(changes) \in Nat
  BY DEF BaseInv, WorkerTypeOK, DestTypeOK, BatchTypeOK
<1>1. CASE Changed(k) = {}
  BY <1>0, <1>1 DEF Version, Changed
<1>2. CASE Changed(k) # {}
  <2>1. \E n \in Changed(k) : \A m \in Changed(k) : m <= n
    BY <1>2 DEF BaseInv, NewestExists
  <2>2. Version(k) = CHOOSE n \in Changed(k) : \A m \in Changed(k) : m <= n
    BY <1>2 DEF Version, Changed
  <2>3. Version(k) \in Changed(k) /\ \A m \in Changed(k) : m <= Version(k)
    BY <2>1, <2>2
  <2>4. QED
    BY <1>0, <1>2, <2>3 DEF Changed
<1>3. QED
  BY <1>1, <1>2

(* A claimed batch is a list of the jobs of C, each once.                   *)
LEMMA BatchOfClaim ==
  ASSUME BaseInv, NEW C \in SUBSET Jobs, NEW w, Grant(C, w), NEW q \in Batches(C)
  PROVE  /\ q \in Seq(Claimed)
         /\ \A i \in DOMAIN q : /\ q[i].job \in C
                                /\ q[i].attempts = attempts[q[i].job]
         /\ \A i, j \in DOMAIN q : q[i].job = q[j].job => i = j
         /\ \A j \in C : \E i \in DOMAIN q : q[i].job = j
<1>0. DOMAIN changes = 1..Len(changes) /\ Len(changes) \in Nat
  BY DEF BaseInv, WorkerTypeOK, DestTypeOK, BatchTypeOK
<1>1. \A j \in C : j \in DOMAIN changes
  BY DEF BaseInv, JobsHaveChanges, Grant, Waiting
<1>2. IsFiniteSet(C)
  <2>1. IsFiniteSet(1..Len(changes))
    BY <1>0, FS_Interval
  <2>2. C \in SUBSET (1..Len(changes))
    BY <1>0, <1>1
  <2>3. QED
    BY <2>1, <2>2, FS_Subset
<1>3. Cardinality(C) \in Nat
  BY <1>2, FS_CardinalityType
<1>4. PICK f \in [1..Cardinality(C) -> C] :
        /\ \A i, j \in 1..Cardinality(C) : f[i] = f[j] => i = j
        /\ q = [i \in 1..Cardinality(C) |-> [job |-> f[i], attempts |-> attempts[f[i]]]]
  BY DEF Batches
<1>5. \A i \in 1..Cardinality(C) : [job |-> f[i], attempts |-> attempts[f[i]]] \in Claimed
  BY DEF Claimed, BaseInv, WorkerTypeOK, LeaseTypeOK
<1>6. q \in [1..Cardinality(C) -> Claimed]
  BY <1>4, <1>5
<1>7. q \in Seq(Claimed) /\ DOMAIN q = 1..Cardinality(C)
  BY <1>3, <1>6
<1>8. f \in Surjection(1..Cardinality(C), C)
  <2>1. f \in Injection(1..Cardinality(C), C)
    BY <1>4 DEF Injection, IsInjective
  <2>2. Cardinality(1..Cardinality(C)) = Cardinality(C)
    BY <1>3, FS_Interval
  <2>3. QED
    BY <1>2, <2>1, <2>2, FS_Injection
<1>9. \A j \in C : \E i \in DOMAIN q : q[i].job = j
  BY <1>4, <1>7, <1>8 DEF Surjection
<1>10. QED
  BY <1>4, <1>7, <1>9

-----------------------------------------------------------------------------
(* The workers use the store only as JobLease allows: they report, retry    *)
(* and release under their own worker ID and while their lease lasts.       *)
LEMMA WorkersUseLeases ==
  ASSUME BaseInv, WorkerNext
  PROVE  [LeaseNext]_leaseVars
<1>1. ASSUME NEW p \in Procs, RunOnce(p) PROVE [LeaseNext]_leaseVars
  BY <1>1 DEF RunOnce, Pending, LeaseNext, BaseInv, JobsHaveChanges
<1>2. ASSUME NEW p \in Procs, DispatchFails(p) PROVE [LeaseNext]_leaseVars
  BY <1>2 DEF DispatchFails, Pending, LeaseNext, BaseInv, JobsHaveChanges
<1>3. ASSUME NEW r \in Routines, ClaimBatch(r) PROVE [LeaseNext]_leaseVars
  BY <1>3, SyncWorkerAssumption DEF ClaimBatch, LeaseNext
<1>4. ASSUME NEW r \in Routines, ClaimNext(r) PROVE [LeaseNext]_leaseVars
  BY <1>4, SyncWorkerAssumption DEF ClaimNext, LeaseNext
<1>5. ASSUME NEW r \in Routines, MarkSynced(r) PROVE [LeaseNext]_leaseVars
  BY <1>5, SyncWorkerAssumption, InHandKey
  DEF MarkSynced, Report, LeaseNext, Working, BaseInv, WorkerTypeOK, BatchTypeOK,
     leaseVars
<1>6. ASSUME NEW r \in Routines, FailOrRetry(r) PROVE [LeaseNext]_leaseVars
  BY <1>6, SyncWorkerAssumption, InHandKey
  DEF FailOrRetry, Report, LeaseNext, Working, BaseInv, WorkerTypeOK, BatchTypeOK,
     leaseVars
<1>7. ASSUME NEW r \in Routines, RequeueClaimed(r) PROVE [LeaseNext]_leaseVars
  BY <1>7, SyncWorkerAssumption, InHandKey
  DEF RequeueClaimed, LeaseNext, Working, BaseInv, WorkerTypeOK, BatchTypeOK,
     leaseVars
<1>8. ASSUME NEW j \in Jobs, LeaseExpires(j) PROVE [LeaseNext]_leaseVars
  BY <1>8, SyncWorkerAssumption DEF LeaseExpires, LeaseNext
<1>9. ASSUME NEW j \in Jobs, OperatorRequeues(j) PROVE [LeaseNext]_leaseVars
  BY <1>9 DEF OperatorRequeues, LeaseNext
<1>10. QED
  BY <1>1, <1>2, <1>3, <1>4, <1>5, <1>6, <1>7, <1>8, <1>9
  DEF WorkerNext, Step, Change, Cancel, Crash, ClaimFails, StartJob, LeaveLoop,
     Project, ProjectFails, Apply, ApplyFails, ReturnError, HeartbeatFails, leaseVars

(* A step of JobLease keeps its types.                                      *)
LEMMA LeaseTypes ==
  ASSUME LeaseTypeOK, [LeaseNext]_leaseVars
  PROVE  LeaseTypeOK'
<1>1. ASSUME NEW A \in SUBSET Jobs, Add(A) \/ Lapse(A) PROVE LeaseTypeOK'
  BY <1>1 DEF Add, Lapse, LeaseTypeOK, Statuses
<1>2. ASSUME NEW C \in SUBSET Jobs, NEW w \in Workers, Grant(C, w) PROVE LeaseTypeOK'
  BY <1>2 DEF Grant, LeaseTypeOK, Statuses
<1>3. ASSUME NEW j \in Jobs, NEW w \in Workers, NEW o \in Statuses, NEW n \in {0, 1},
             End(j, w, o, n)
      PROVE  LeaseTypeOK'
  BY <1>3, JobLeaseAssumption DEF End, LeaseTypeOK
<1>4. ASSUME NEW j \in Jobs, Recall(j) PROVE LeaseTypeOK'
  BY <1>4 DEF Recall, LeaseTypeOK, Statuses
<1>5. QED
  BY <1>1, <1>2, <1>3, <1>4
  DEF LeaseNext, Settle, Kill, Retry, Release, LeaseTypeOK, leaseVars, Statuses

(* The destination's and the projections' versions stay versions.           *)
LEMMA DestTypes ==
  ASSUME BaseInv, WorkerNext
  PROVE  DestTypeOK'
<1> USE DEF BaseInv, WorkerTypeOK, DestTypeOK
<1>1. ASSUME NEW k \in Keys, Change(k) PROVE DestTypeOK'
  BY <1>1 DEF Change, leaseVars, workVars
<1>2. ASSUME NEW p \in Procs, RunOnce(p) PROVE DestTypeOK'
  BY <1>2 DEF RunOnce, destVars
<1>3. ASSUME NEW p \in Procs, DispatchFails(p) PROVE DestTypeOK'
  BY <1>3 DEF DispatchFails, destVars, workVars
<1>4. ASSUME NEW p \in Procs, Cancel(p) PROVE DestTypeOK'
  BY <1>4 DEF Cancel, destVars
<1>5. ASSUME NEW p \in Procs, Crash(p) PROVE DestTypeOK'
  BY <1>5 DEF Crash, destVars
<1>6. ASSUME NEW r \in Routines, Project(r) PROVE DestTypeOK'
  BY <1>6, InHandKey, VersionIsNewest
  DEF Project, Projection, BatchTypeOK, PlaceTypeOK, Working
<1>7. ASSUME NEW r \in Routines, Apply(r) PROVE DestTypeOK'
  BY SMTT(30), <1>7, InHandKey DEF Apply, Larger, BatchTypeOK, Working, PlaceTypeOK
<1>8. ASSUME NEW r \in Routines, ApplyFails(r) PROVE DestTypeOK'
  BY SMTT(30), <1>8, InHandKey DEF ApplyFails, BatchTypeOK, Working
<1>9. QED
  BY <1>1, <1>2, <1>3, <1>4, <1>5, <1>6, <1>7, <1>8
  DEF WorkerNext, Step, ClaimBatch, ClaimNext, ClaimFails, StartJob, LeaveLoop,
     ProjectFails, MarkSynced, FailOrRetry, RequeueClaimed, ReturnError,
     HeartbeatFails, LeaseExpires, OperatorRequeues, Report, destVars, workVars

(* Routines stay at places of processBatch.                                 *)
LEMMA PlaceTypes ==
  ASSUME BaseInv, WorkerNext
  PROVE  PlaceTypeOK'
<1> USE DEF BaseInv, WorkerTypeOK, PlaceTypeOK, Places, Working
<1>1. ASSUME NEW p \in Procs, RunOnce(p) PROVE PlaceTypeOK'
  BY <1>1 DEF RunOnce, NewContext
<1>2. ASSUME NEW p \in Procs, Cancel(p) PROVE PlaceTypeOK'
  BY <1>2 DEF Cancel, Goto
<1>3. ASSUME NEW p \in Procs, Crash(p) PROVE PlaceTypeOK'
  BY <1>3 DEF Crash, Goto
<1>4. ASSUME NEW r \in Routines, ClaimNext(r) PROVE PlaceTypeOK'
  BY <1>4 DEF ClaimNext, Goto
<1>5. ASSUME NEW r \in Routines, MarkSynced(r) PROVE PlaceTypeOK'
  BY <1>5 DEF MarkSynced, Report, Goto
<1>6. ASSUME NEW r \in Routines, FailOrRetry(r) PROVE PlaceTypeOK'
  BY <1>6 DEF FailOrRetry, Report, Goto
<1>7. QED
  BY <1>1, <1>2, <1>3, <1>4, <1>5, <1>6
  DEF WorkerNext, Step, Change, DispatchFails, ClaimBatch, ClaimFails, StartJob,
     LeaveLoop, Project, ProjectFails, Apply, ApplyFails, RequeueClaimed, ReturnError,
     HeartbeatFails, LeaseExpires, OperatorRequeues, Goto, workVars

(* Crashes, cancellations and faults stay within their bounds.              *)
LEMMA CountTypes ==
  ASSUME BaseInv, WorkerNext
  PROVE  CountTypeOK'
<1> USE SyncWorkerAssumption DEF BaseInv, WorkerTypeOK, CountTypeOK, Fault, countVars
<1>1. ASSUME NEW p \in Procs, DispatchFails(p) PROVE CountTypeOK'
  BY <1>1 DEF DispatchFails, Report, CountTypeOK
<1>2. ASSUME NEW p \in Procs, Cancel(p) PROVE CountTypeOK'
  BY <1>2 DEF Cancel, Report, CountTypeOK
<1>3. ASSUME NEW p \in Procs, Crash(p) PROVE CountTypeOK'
  BY <1>3 DEF Crash, Report, CountTypeOK
<1>4. ASSUME NEW r \in Routines, ClaimBatch(r) PROVE CountTypeOK'
  BY <1>4 DEF ClaimBatch, Report, CountTypeOK
<1>5. ASSUME NEW r \in Routines, ClaimNext(r) PROVE CountTypeOK'
  BY <1>5 DEF ClaimNext, Report, CountTypeOK
<1>6. ASSUME NEW r \in Routines, MarkSynced(r) PROVE CountTypeOK'
  BY <1>6 DEF MarkSynced, Report, CountTypeOK
<1>7. ASSUME NEW r \in Routines, FailOrRetry(r) PROVE CountTypeOK'
  BY <1>7 DEF FailOrRetry, Report, CountTypeOK
<1>8. ASSUME NEW r \in Routines, RequeueClaimed(r) PROVE CountTypeOK'
  BY <1>8 DEF RequeueClaimed, Report, CountTypeOK
<1>9. ASSUME NEW r \in Routines, HeartbeatFails(r) PROVE CountTypeOK'
  BY <1>9 DEF HeartbeatFails, Report, CountTypeOK
<1>10. QED
  BY <1>1, <1>2, <1>3, <1>4, <1>5, <1>6, <1>7, <1>8, <1>9
  DEF WorkerNext, Step, Change, RunOnce, ClaimFails, StartJob, LeaveLoop, Project,
     ProjectFails, Apply, ApplyFails, ReturnError, LeaseExpires, OperatorRequeues

(* Batches stay lists of claimed jobs, and the job at work stays in hand.   *)
LEMMA BatchTypes ==
  ASSUME BaseInv, WorkerNext
  PROVE  BatchTypeOK'
<1> USE DEF BaseInv, WorkerTypeOK, PlaceTypeOK, BatchTypeOK, Places, Working, Goto
<1>1. ASSUME NEW p \in Procs, RunOnce(p) PROVE BatchTypeOK'
  BY <1>1, InHandKey DEF RunOnce, Of, destVars
<1>2. ASSUME NEW p \in Procs, DispatchFails(p) PROVE BatchTypeOK'
  BY <1>2 DEF DispatchFails, workVars
<1>3. ASSUME NEW p \in Procs, Crash(p) PROVE BatchTypeOK'
  BY <1>3, InHandKey DEF Crash, Of
<1>4. ASSUME NEW r \in Routines, ClaimBatch(r) PROVE BatchTypeOK'
  <2>1. PICK C \in SUBSET Jobs :
          /\ Grant(C, WorkerID(r))
          /\ \/ (\E q \in Batches(C) : batch' = [batch EXCEPT ![r] = q]) /\ Goto(r, "next")
             \/ Goto(r, "requeue") /\ UNCHANGED batch
    BY <1>4 DEF ClaimBatch
  <2>2. \A q \in Batches(C) : q \in Seq(Claimed)
    BY <2>1, BatchOfClaim
  <2>3. batch' \in [Routines -> Seq(Claimed)] /\ \A s \in Routines \ {r} : batch'[s] = batch[s]
    BY <2>1, <2>2
  <2>4. QED
    BY <2>1, <2>3
<1>5. ASSUME NEW r \in Routines, ClaimNext(r) PROVE BatchTypeOK'
  <2>1. CASE UNCHANGED batch /\ pc'[r] \in {"next", "requeue"}
    BY <1>5, <2>1 DEF ClaimNext
  <2>2. CASE \E j \in Jobs :
               batch' = [batch EXCEPT ![r] = Append(@, [job |-> j, attempts |-> attempts[j]])]
    <3>1. PICK c \in Claimed : batch' = [batch EXCEPT ![r] = Append(@, c)]
      BY <2>2 DEF Claimed, LeaseTypeOK
    <3>2. batch' \in [Routines -> Seq(Claimed)] /\ \A s \in Routines \ {r} : batch'[s] = batch[s]
      BY <3>1
    <3>3. pc'[r] \in {"next", "claim", "requeue"} /\ OneByOne /\ \A s \in Routines \ {r} : pc'[s] = pc[s]
      BY <1>5, SyncWorkerAssumption DEF ClaimNext
    <3>4. QED
      BY <3>2, <3>3
  <2>3. QED
    BY <1>5, <2>1, <2>2 DEF ClaimNext
<1>6. ASSUME NEW r \in Routines, ClaimFails(r) PROVE BatchTypeOK'
  BY <1>6 DEF ClaimFails, Goto
<1>7. ASSUME NEW r \in Routines, StartJob(r) PROVE BatchTypeOK'
  BY <1>7, InHandKey DEF StartJob, Goto
<1>8. ASSUME NEW r \in Routines, LeaveLoop(r) PROVE BatchTypeOK'
  BY <1>8, InHandKey DEF LeaveLoop, Goto
<1>9. ASSUME NEW r \in Routines, Project(r) PROVE BatchTypeOK'
  BY <1>9, InHandKey DEF Project, Goto
<1>10. ASSUME NEW r \in Routines, ProjectFails(r) PROVE BatchTypeOK'
  BY <1>10, InHandKey DEF ProjectFails, Goto
<1>11. ASSUME NEW r \in Routines, Apply(r) PROVE BatchTypeOK'
  BY <1>11, InHandKey DEF Apply, Goto
<1>12. ASSUME NEW r \in Routines, ApplyFails(r) PROVE BatchTypeOK'
  BY <1>12, InHandKey DEF ApplyFails, Goto
<1>13. ASSUME NEW r \in Routines, MarkSynced(r) PROVE BatchTypeOK'
  BY <1>13, InHandKey DEF MarkSynced, Report
<1>14. ASSUME NEW r \in Routines, FailOrRetry(r) PROVE BatchTypeOK'
  BY <1>14, InHandKey DEF FailOrRetry, Report
<1>15. ASSUME NEW r \in Routines, RequeueClaimed(r) PROVE BatchTypeOK'
  BY <1>15, InHandKey DEF RequeueClaimed, Goto
<1>16. ASSUME NEW r \in Routines, ReturnError(r) PROVE BatchTypeOK'
  BY <1>16, InHandKey DEF ReturnError, Goto
<1>17. ASSUME NEW r \in Routines, HeartbeatFails(r) PROVE BatchTypeOK'
  BY <1>17 DEF HeartbeatFails, Goto
<1>18. QED
  BY <1>1, <1>2, <1>3, <1>4, <1>5, <1>6, <1>7, <1>8, <1>9, <1>10, <1>11, <1>12, <1>13,
     <1>14, <1>15, <1>16, <1>17
  DEF WorkerNext, Step, Change, Cancel, LeaseExpires, OperatorRequeues, workVars

(* A job is dispatched from its change's delta, and only a job that exists  *)
(* is claimed.                                                              *)
LEMMA JobsFollowChanges ==
  ASSUME BaseInv, WorkerNext
  PROVE  JobsHaveChanges'
<1> USE DEF BaseInv, JobsHaveChanges, WorkerTypeOK, DestTypeOK, BatchTypeOK, PlaceTypeOK, LeaseTypeOK
<1>1. ASSUME NEW k \in Keys, Change(k) PROVE JobsHaveChanges'
  <2>1. changes' = Append(changes, k) /\ Len(changes) + 1 \in Jobs
    BY <1>1 DEF Change
  <2>2. DOMAIN changes \subseteq DOMAIN changes' /\ DOMAIN changes' \subseteq Jobs
    BY <2>1
  <2>3. QED
    BY <1>1, <2>2 DEF Change, leaseVars, workVars
<1>2. ASSUME NEW p \in Procs, RunOnce(p) PROVE JobsHaveChanges'
  BY <1>2 DEF RunOnce, Add, Pending, leaseVars, destVars, workVars
<1>3. ASSUME NEW p \in Procs, DispatchFails(p) PROVE JobsHaveChanges'
  BY <1>3 DEF DispatchFails, Add, Pending, leaseVars, destVars, workVars
<1>4. ASSUME NEW p \in Procs, Cancel(p) PROVE JobsHaveChanges'
  BY <1>4 DEF Cancel, leaseVars, destVars
<1>5. ASSUME NEW p \in Procs, Crash(p) PROVE JobsHaveChanges'
  BY <1>5 DEF Crash, leaseVars, destVars, Of
<1>6. ASSUME NEW r \in Routines, ClaimBatch(r) PROVE JobsHaveChanges'
  <2>1. PICK C \in SUBSET Jobs :
          /\ Grant(C, WorkerID(r))
          /\ (\E q \in Batches(C) : batch' = [batch EXCEPT ![r] = q]) \/ UNCHANGED batch
    BY <1>6 DEF ClaimBatch
  <2>2. \A q \in Batches(C) : \A i \in DOMAIN q : q[i].job \in C
    BY <2>1, BatchOfClaim
  <2>3. \A j \in C : j \in DOMAIN changes
    BY <2>1 DEF Grant, Waiting
  <2>4. \A s \in Routines : \A i \in DOMAIN batch'[s] : batch'[s][i].job \in DOMAIN changes
    BY <2>1, <2>2, <2>3
  <2>5. UNCHANGED changes
    BY <1>6 DEF ClaimBatch, destVars
  <2>6. \A j \in Jobs : status'[j] # "absent" => j \in DOMAIN changes
    BY <2>1, <2>3 DEF Grant
  <2>7. QED
    BY <2>4, <2>5, <2>6
<1>7. ASSUME NEW r \in Routines, ClaimNext(r) PROVE JobsHaveChanges'
  <2>1. UNCHANGED changes
    BY <1>7 DEF ClaimNext, destVars
  <2>2. \A j \in Jobs : status'[j] # "absent" => j \in DOMAIN changes
    BY <1>7 DEF ClaimNext, Grant, Waiting, leaseVars
  <2>3. CASE UNCHANGED batch
    BY <2>1, <2>2, <2>3
  <2>4. ASSUME NEW j \in Jobs, Grant({j}, WorkerID(r)),
               batch' = [batch EXCEPT ![r] = Append(@, [job |-> j, attempts |-> attempts[j]])]
        PROVE  JobsHaveChanges'
    <3>1. j \in DOMAIN changes
      BY <2>4 DEF Grant, Waiting
    <3>2. \A i \in DOMAIN batch'[r] : batch'[r][i].job \in DOMAIN changes
      BY SMTT(30), <2>4, <3>1
    <3>3. QED
      BY <2>1, <2>2, <2>4, <3>2
  <2>5. QED
    BY <1>7, <2>3, <2>4 DEF ClaimNext
<1>8. ASSUME NEW r \in Routines, MarkSynced(r) PROVE JobsHaveChanges'
  <2>1. batch[r] # <<>> /\ batch' = [batch EXCEPT ![r] = Tail(@)]
    BY <1>8 DEF MarkSynced, Report, Working
  <2>2. UNCHANGED changes
    BY <1>8 DEF MarkSynced, Report, destVars
  <2>3. \A j \in Jobs : status'[j] # "absent" => status[j] # "absent"
    BY <1>8, InHandKey
    DEF MarkSynced, Report, Settle, Kill, Retry, End, Holds, leaseVars, Working
  <2>4. QED
    BY <2>1, <2>2, <2>3
<1>9. ASSUME NEW r \in Routines, FailOrRetry(r) PROVE JobsHaveChanges'
  <2>1. batch[r] # <<>> /\ batch' = [batch EXCEPT ![r] = Tail(@)]
    BY <1>9 DEF FailOrRetry, Report, Working
  <2>2. UNCHANGED changes
    BY <1>9 DEF FailOrRetry, Report, destVars
  <2>3. \A j \in Jobs : status'[j] # "absent" => status[j] # "absent"
    BY <1>9, InHandKey
    DEF FailOrRetry, Report, Settle, Kill, Retry, End, Holds, leaseVars, Working
  <2>4. QED
    BY <2>1, <2>2, <2>3
<1>10. ASSUME NEW r \in Routines, RequeueClaimed(r) PROVE JobsHaveChanges'
  <2>1. batch[r] # <<>> /\ batch' = [batch EXCEPT ![r] = Tail(@)] /\ UNCHANGED changes
    BY <1>10 DEF RequeueClaimed, destVars
  <2>2. \A j \in Jobs : status'[j] # "absent" => status[j] # "absent"
    BY <1>10, InHandKey DEF RequeueClaimed, Release, End, Holds, leaseVars
  <2>3. QED
    BY <2>1, <2>2
<1>11. ASSUME NEW j \in Jobs, LeaseExpires(j) PROVE JobsHaveChanges'
  BY <1>11 DEF LeaseExpires, Lapse, leaseVars, destVars, workVars
<1>12. ASSUME NEW j \in Jobs, OperatorRequeues(j) PROVE JobsHaveChanges'
  BY <1>12 DEF OperatorRequeues, Recall, leaseVars, destVars, workVars
<1>13. QED
  BY <1>1, <1>2, <1>3, <1>4, <1>5, <1>6, <1>7, <1>8, <1>9, <1>10, <1>11, <1>12
  DEF WorkerNext, Step, ClaimFails, StartJob, LeaveLoop, Project, ProjectFails, Apply,
     ApplyFails, ReturnError, HeartbeatFails, leaseVars, destVars, workVars

(* The newest change of a key is its newest until it is changed again.      *)
LEMMA NewestStays ==
  ASSUME BaseInv, WorkerNext
  PROVE  NewestExists'
<1>1. CASE UNCHANGED changes
  BY <1>1 DEF BaseInv, NewestExists, Changed
<1>2. ASSUME NEW k \in Keys, Change(k) PROVE NewestExists'
  <2>1. changes' = Append(changes, k) /\ changes \in Seq(Keys)
    BY <1>2 DEF Change, BaseInv, WorkerTypeOK, DestTypeOK
  <2>2. /\ Len(changes) + 1 \in Changed(k)'
        /\ \A m \in Changed(k)' : m <= Len(changes) + 1
    BY <2>1 DEF Changed
  <2>3. ASSUME NEW l \in Keys, l # k PROVE Changed(l)' = Changed(l)
    BY <2>1, <2>3 DEF Changed
  <2>4. QED
    BY <2>2, <2>3 DEF NewestExists, BaseInv
<1>3. QED
  BY <1>1, <1>2
  DEF WorkerNext, Step, RunOnce, DispatchFails, Cancel, Crash, ClaimBatch, ClaimNext,
     ClaimFails, StartJob, LeaveLoop, Project, ProjectFails, Apply, ApplyFails,
     MarkSynced, FailOrRetry, Report, RequeueClaimed, ReturnError, HeartbeatFails,
     LeaseExpires, OperatorRequeues, destVars

(* BaseInv is inductive. *)
LEMMA BaseInit == WorkerInit => BaseInv
<1> SUFFICES ASSUME WorkerInit PROVE BaseInv
  OBVIOUS
<1> USE SyncWorkerAssumption, JobLeaseAssumption DEF WorkerInit
<1>1. LeaseTypeOK
  BY DEF LeaseInit, LeaseTypeOK, Statuses
<1>2. DestTypeOK
  BY DEF DestTypeOK
<1>3. PlaceTypeOK
  BY DEF PlaceTypeOK, Places
<1>4. BatchTypeOK
  BY DEF BatchTypeOK, Working
<1>5. CountTypeOK
  BY DEF CountTypeOK
<1>6. JobsHaveChanges /\ NewestExists
  BY DEF LeaseInit, JobsHaveChanges, NewestExists, Changed
<1>7. QED
  BY <1>1, <1>2, <1>3, <1>4, <1>5, <1>6 DEF BaseInv, WorkerTypeOK

(* BaseInv is inductive. *)
LEMMA BaseStep == BaseInv /\ [WorkerNext]_workerVars => BaseInv'
<1>1. ASSUME BaseInv, WorkerNext PROVE BaseInv'
  <2>1. LeaseTypeOK'
    BY <1>1, WorkersUseLeases, LeaseTypes DEF BaseInv, WorkerTypeOK
  <2>2. WorkerTypeOK'
    BY <1>1, <2>1, DestTypes, PlaceTypes, BatchTypes, CountTypes DEF WorkerTypeOK
  <2>3. QED
    BY <1>1, <2>2, JobsFollowChanges, NewestStays DEF BaseInv
<1>2. ASSUME BaseInv, UNCHANGED workerVars PROVE BaseInv'
  BY <1>2
  DEF BaseInv, WorkerTypeOK, LeaseTypeOK, DestTypeOK, PlaceTypeOK, BatchTypeOK,
      CountTypeOK, JobsHaveChanges, NewestExists, Changed, workerVars, leaseVars,
      destVars, workVars, countVars
<1>3. QED
  BY <1>1, <1>2

(* Types, for any number of processes, routines, jobs and disturbances.     *)
THEOREM WorkersTyped == WorkerSpec => []BaseInv
BY BaseInit, BaseStep, PTL DEF WorkerSpec

(* Workers only take the steps every job store is shown to support.         *)
THEOREM WorkersFollowJobLease == WorkerSpec => LeaseSpec
<1>1. WorkerInit => LeaseInit
  BY DEF WorkerInit
<1>2. BaseInv /\ [WorkerNext]_workerVars => [LeaseNext]_leaseVars
  BY WorkersUseLeases DEF workerVars
<1>3. QED
  BY <1>1, <1>2, WorkersTyped, PTL DEF WorkerSpec, LeaseSpec
-----------------------------------------------------------------------------
(* How a step looks to one routine at work on a job: it is untouched, or it *)
(* takes the next step of processJob itself.                                *)
LEMMA AtWork ==
  ASSUME BaseInv, WorkerNext, NEW s \in Routines, pc'[s] \in Working
  PROVE  \/ pc'[s] = pc[s] /\ batch'[s] = batch[s] /\ read'[s] = read[s]
         \/ StartJob(s) /\ pc'[s] = "project" /\ batch'[s] = batch[s]
         \/ Project(s) /\ pc'[s] = "apply" /\ batch'[s] = batch[s]
         \/ Apply(s) /\ pc'[s] = "applied" /\ batch'[s] = batch[s]
<1> USE DEF BaseInv, WorkerTypeOK, DestTypeOK, PlaceTypeOK, BatchTypeOK, Working, Goto
<1> DEFINE Goal == \/ pc'[s] = pc[s] /\ batch'[s] = batch[s] /\ read'[s] = read[s]
                   \/ StartJob(s) /\ pc'[s] = "project" /\ batch'[s] = batch[s]
                   \/ Project(s) /\ pc'[s] = "apply" /\ batch'[s] = batch[s]
                   \/ Apply(s) /\ pc'[s] = "applied" /\ batch'[s] = batch[s]
<1>1. ASSUME NEW p \in Procs, RunOnce(p) PROVE Goal
  BY <1>1 DEF RunOnce, destVars, Of
<1>2. ASSUME NEW p \in Procs, Crash(p) PROVE Goal
  BY <1>2 DEF Crash, Of
<1>3. ASSUME NEW r \in Routines, ClaimBatch(r) PROVE Goal
  BY <1>3 DEF ClaimBatch, destVars
<1>4. ASSUME NEW r \in Routines, ClaimNext(r) PROVE Goal
  BY <1>4 DEF ClaimNext, destVars
<1>5. ASSUME NEW r \in Routines, StartJob(r) PROVE Goal
  <2>1. CASE s = r
    BY <1>5, <2>1 DEF StartJob
  <2>2. CASE s # r
    BY <1>5, <2>2 DEF StartJob, destVars
  <2>3. QED
    BY <2>1, <2>2
<1>6. ASSUME NEW r \in Routines, LeaveLoop(r) PROVE Goal
  BY <1>6 DEF LeaveLoop, destVars
<1>7. ASSUME NEW r \in Routines, Project(r) PROVE Goal
  <2>1. CASE s = r
    BY <1>7, <2>1 DEF Project
  <2>2. CASE s # r
    BY <1>7, <2>2 DEF Project, destVars
  <2>3. QED
    BY <2>1, <2>2
<1>8. ASSUME NEW r \in Routines, ProjectFails(r) PROVE Goal
  BY <1>8 DEF ProjectFails, destVars
<1>9. ASSUME NEW r \in Routines, Apply(r) PROVE Goal
  <2>1. CASE s = r
    BY <1>9, <2>1 DEF Apply
  <2>2. CASE s # r
    BY <1>9, <2>2 DEF Apply, destVars
  <2>3. QED
    BY <2>1, <2>2
<1>10. ASSUME NEW r \in Routines, ApplyFails(r) PROVE Goal
  BY <1>10 DEF ApplyFails, Goto
<1>11. ASSUME NEW r \in Routines, MarkSynced(r) PROVE Goal
  BY <1>11 DEF MarkSynced, Report, destVars
<1>12. ASSUME NEW r \in Routines, FailOrRetry(r) PROVE Goal
  BY <1>12 DEF FailOrRetry, Report, destVars
<1>13. ASSUME NEW r \in Routines, RequeueClaimed(r) PROVE Goal
  BY <1>13 DEF RequeueClaimed, destVars
<1>14. ASSUME NEW r \in Routines, ReturnError(r) PROVE Goal
  BY <1>14 DEF ReturnError, destVars
<1>15. QED
  BY <1>1, <1>2, <1>3, <1>4, <1>5, <1>6, <1>7, <1>8, <1>9, <1>10, <1>11, <1>12, <1>13,
     <1>14
  DEF WorkerNext, Step, Change, DispatchFails, Cancel, ClaimFails, HeartbeatFails,
     LeaseExpires, OperatorRequeues, destVars, workVars

(* Changes are never undone, and no version is forgotten.                   *)
LEMMA HistoryGrows ==
  ASSUME BaseInv, WorkerNext
  PROVE  /\ \A n \in DOMAIN changes : n \in DOMAIN changes' /\ changes'[n] = changes[n]
         /\ \A k \in Keys : applied'[k] >= applied[k]
<1> USE DEF BaseInv, WorkerTypeOK, DestTypeOK
<1>1. ASSUME NEW k \in Keys, Change(k)
      PROVE  \A n \in DOMAIN changes : n \in DOMAIN changes' /\ changes'[n] = changes[n]
  BY <1>1 DEF Change
<1>2. ASSUME NEW r \in Routines, Apply(r)
      PROVE  \A k \in Keys : applied'[k] >= applied[k]
  BY <1>2, InHandKey DEF Apply, Larger, BatchTypeOK, Working
<1>3. UNCHANGED changes \/ \E k \in Keys : Change(k)
  BY DEF WorkerNext, Step, Apply, RunOnce, DispatchFails, Cancel, Crash, ClaimBatch,
     ClaimNext, ClaimFails, StartJob, LeaveLoop, Project, ProjectFails, ApplyFails,
     MarkSynced, FailOrRetry, Report, RequeueClaimed, ReturnError, HeartbeatFails,
     LeaseExpires, OperatorRequeues, destVars
<1>4. UNCHANGED applied \/ \E r \in Routines : Apply(r)
  BY DEF WorkerNext, Step, Change, RunOnce, DispatchFails, Cancel, Crash, ClaimBatch,
     ClaimNext, ClaimFails, StartJob, LeaveLoop, Project, ProjectFails, ApplyFails,
     MarkSynced, FailOrRetry, Report, RequeueClaimed, ReturnError, HeartbeatFails,
     LeaseExpires, OperatorRequeues, destVars
<1>5. \A k \in Keys : applied[k] \in Nat
  OBVIOUS
<1>6. QED
  BY <1>1, <1>2, <1>3, <1>4, <1>5

(* Only MarkSynced makes a job synced: the one its routine has applied.     *)
LEMMA SyncedByMark ==
  ASSUME BaseInv, WorkerNext, NEW n \in Jobs, status'[n] = "synced", status[n] # "synced"
  PROVE  \E r \in Routines : MarkSynced(r) /\ Current(r).job = n
<1> USE DEF BaseInv, WorkerTypeOK, LeaseTypeOK
<1>1. ASSUME NEW p \in Procs, RunOnce(p) PROVE FALSE
  BY <1>1 DEF RunOnce, leaseVars, Add
<1>2. ASSUME NEW p \in Procs, DispatchFails(p) PROVE FALSE
  BY <1>2 DEF DispatchFails, leaseVars, Add
<1>3. ASSUME NEW r \in Routines, ClaimBatch(r) PROVE FALSE
  BY <1>3 DEF ClaimBatch, leaseVars, Grant
<1>4. ASSUME NEW r \in Routines, ClaimNext(r) PROVE FALSE
  BY <1>4 DEF ClaimNext, leaseVars, Grant
<1>5. ASSUME NEW r \in Routines, FailOrRetry(r) PROVE FALSE
  BY <1>5 DEF FailOrRetry, leaseVars, Report, Kill, Retry, End
<1>6. ASSUME NEW r \in Routines, RequeueClaimed(r) PROVE FALSE
  BY <1>6 DEF RequeueClaimed, leaseVars, Release, End
<1>7. ASSUME NEW j \in Jobs, LeaseExpires(j) PROVE FALSE
  BY <1>7 DEF LeaseExpires, leaseVars, Lapse
<1>8. ASSUME NEW j \in Jobs, OperatorRequeues(j) PROVE FALSE
  BY <1>8 DEF OperatorRequeues, leaseVars, Recall
<1>9. ASSUME NEW r \in Routines, MarkSynced(r) PROVE Current(r).job = n
  BY <1>9 DEF MarkSynced, Report, Settle, End, leaseVars
<1>10. QED
  BY <1>9, <1>1, <1>2, <1>3, <1>4, <1>5, <1>6, <1>7, <1>8
  DEF WorkerNext, Step, Change, Cancel, Crash, ClaimFails, StartJob, LeaveLoop,
     Project, ProjectFails, Apply, ApplyFails, ReturnError, HeartbeatFails, leaseVars

-----------------------------------------------------------------------------
(* What a routine read, and what it applied, is at least as new as the      *)
(* change whose job it has in hand.                                         *)
ReadIsRecent ==
  \A r \in Routines : pc[r] = "apply" => read[r] >= Current(r).job
AppliedIsRecent ==
  \A r \in Routines : pc[r] = "applied" => applied[Key(r)] >= Current(r).job

(* Versions are numbers. *)
Numbers ==
  /\ \A k \in Keys : applied[k] \in Nat /\ target[k] \in Nat
  /\ \A r \in Routines : read[r] \in Nat
  /\ Len(changes) \in Nat /\ \A n \in DOMAIN changes : n \in Nat

(* The type invariant implies it. *)
LEMMA VersionsAreNumbers == BaseInv => Numbers
<1> SUFFICES ASSUME BaseInv PROVE Numbers
  OBVIOUS
<1>1. Len(changes) \in Nat /\ DOMAIN changes = 1..Len(changes)
  BY DEF BaseInv, WorkerTypeOK, DestTypeOK
<1>2. 0..Len(changes) \subseteq Nat /\ 1..Len(changes) \subseteq Nat
  BY <1>1
<1>3. QED
  BY <1>1, <1>2 DEF Numbers, BaseInv, WorkerTypeOK, DestTypeOK

DeliveryInv == BaseInv /\ ReadIsRecent /\ AppliedIsRecent /\ SyncedMeansApplied

(* DeliveryInv is inductive. *)
LEMMA DeliveryStep == DeliveryInv /\ [WorkerNext]_workerVars => DeliveryInv'
<1>1. ASSUME DeliveryInv, UNCHANGED workerVars PROVE DeliveryInv'
  <2>1. BaseInv'
    BY <1>1, BaseStep DEF DeliveryInv
  <2>2. QED
    BY <1>1, <2>1
    DEF DeliveryInv, ReadIsRecent, AppliedIsRecent, SyncedMeansApplied, Current, Key,
        workerVars, leaseVars, destVars, workVars
<1>2. ASSUME DeliveryInv, WorkerNext PROVE DeliveryInv'
  <2>0. BaseInv /\ BaseInv'
    BY <1>2, BaseStep DEF DeliveryInv
  <2> Numbers /\ Numbers'
    BY <2>0, VersionsAreNumbers, PTL
  <2>1. ASSUME NEW s \in Routines, pc'[s] \in Working
        PROVE  /\ batch[s] # <<>> /\ Current(s)' = Current(s) /\ Key(s)' = Key(s)
               /\ Key(s) \in Keys /\ Current(s).job \in DOMAIN changes
    <3>1. batch'[s] = batch[s] /\ batch'[s] # <<>>
      BY <1>2, <2>0, <2>1, AtWork DEF BaseInv, WorkerTypeOK, BatchTypeOK
    <3>2. QED
      BY <1>2, <2>0, <3>1, InHandKey, HistoryGrows DEF Current, Key
  <2>2. ASSUME NEW s \in Routines, pc'[s] = "apply"
        PROVE  read'[s] >= Current(s).job'
    <3>1. CASE pc[s] = "apply" /\ read'[s] = read[s]
      BY <1>2, <2>1, <2>2, <3>1 DEF DeliveryInv, ReadIsRecent, Working
    <3>2. CASE Project(s)
      <4>1. Current(s).job \in Changed(Key(s))
        BY <2>1, <2>2 DEF Changed, Key, Working
      <4>2. read'[s] = Version(Key(s))
        BY <2>0, <3>2 DEF Project, Projection, BaseInv, WorkerTypeOK, DestTypeOK
      <4>3. Version(Key(s)) >= Current(s).job
        BY <2>0, <2>1, <2>2, <4>1, VersionIsNewest
        DEF Working, BaseInv, WorkerTypeOK, DestTypeOK
      <4>4. QED
        BY <2>1, <2>2, <4>2, <4>3 DEF Working
    <3>3. QED
      BY <1>2, <2>0, <2>2, <3>1, <3>2, AtWork DEF Working
  <2>3. ASSUME NEW s \in Routines, pc'[s] = "applied"
        PROVE  applied'[Key(s)'] >= Current(s).job'
    <3>1. CASE pc[s] = "applied"
      <4>1. applied[Key(s)] >= Current(s).job /\ applied'[Key(s)] >= applied[Key(s)]
        BY <1>2, <2>0, <2>1, <2>3, <3>1, HistoryGrows
        DEF DeliveryInv, AppliedIsRecent, Working
      <4>2. /\ applied[Key(s)] \in Nat /\ applied'[Key(s)] \in Nat
            /\ Current(s).job \in Nat
        BY <2>1, <2>3 DEF Numbers, Working
      <4>3. QED
        BY <2>1, <2>3, <4>1, <4>2 DEF Working
    <3>2. CASE Apply(s)
      <4>1. pc[s] = "apply" /\ read[s] >= Current(s).job
        BY <1>2, <3>2 DEF Apply, DeliveryInv, ReadIsRecent
      <4>2. read[s] \in Nat /\ applied[Key(s)] \in Nat /\ Current(s).job \in Nat
        BY <2>1, <2>3 DEF Numbers, Working
      <4>3. applied'[Key(s)] = Larger(applied[Key(s)], read[s])
        BY <2>0, <2>1, <2>3, <3>2
        DEF Apply, BaseInv, WorkerTypeOK, DestTypeOK, Working
      <4>4. QED
        BY <2>1, <2>3, <4>1, <4>2, <4>3 DEF Working, Larger
    <3>3. QED
      BY <1>2, <2>0, <2>3, <3>1, <3>2, AtWork DEF Working
  <2>4. ASSUME NEW n \in DOMAIN changes', status'[n] = "synced"
        PROVE  applied'[changes'[n]] >= n
    <3>1. n \in Jobs /\ n \in DOMAIN changes /\ changes'[n] = changes[n]
      <4>1. n \in Jobs
        BY <2>0 DEF BaseInv, JobsHaveChanges
      <4>2. CASE status[n] # "absent"
        BY <1>2, <2>0, <4>1, <4>2, HistoryGrows DEF BaseInv, JobsHaveChanges
      <4>3. CASE status[n] = "absent"
        BY <1>2, <2>0, <2>4, <4>1, <4>3, SyncedByMark, InHandKey, HistoryGrows
        DEF MarkSynced, BaseInv, WorkerTypeOK, BatchTypeOK, Working
      <4>4. QED
        BY <4>2, <4>3
    <3>2. applied[changes[n]] >= n
      <4>1. CASE status[n] = "synced"
        BY <1>2, <3>1, <4>1 DEF DeliveryInv, SyncedMeansApplied
      <4>2. CASE status[n] # "synced"
        <5>1. PICK r \in Routines : MarkSynced(r) /\ Current(r).job = n
          BY <1>2, <2>0, <2>4, <3>1, <4>2, SyncedByMark
        <5>2. pc[r] = "applied" /\ Key(r) = changes[n]
          BY <5>1 DEF MarkSynced, Key
        <5>3. QED
          BY <1>2, <5>1, <5>2 DEF DeliveryInv, AppliedIsRecent
      <4>3. QED
        BY <4>1, <4>2
    <3>3. changes[n] \in Keys /\ n \in Nat
      BY <2>0, <3>1 DEF BaseInv, WorkerTypeOK, DestTypeOK, Numbers
    <3>4. applied[changes[n]] \in Nat /\ applied'[changes[n]] \in Nat
      BY <3>3 DEF Numbers
    <3>5. QED
      BY <1>2, <2>0, <3>1, <3>2, <3>3, <3>4, HistoryGrows
  <2>5. QED
    BY <2>0, <2>2, <2>3, <2>4
    DEF DeliveryInv, ReadIsRecent, AppliedIsRecent, SyncedMeansApplied
<1>3. QED
  BY <1>1, <1>2

(* A job is synced only after an Apply succeeded with a projection read     *)
(* after the job's change: whatever else happened to the job, its leases    *)
(* and its routines.                                                        *)
THEOREM SyncedAfterApply == WorkerSpec => []SyncedMeansApplied
<1>1. WorkerInit => DeliveryInv
  BY BaseInit
  DEF WorkerInit, DeliveryInv, ReadIsRecent, AppliedIsRecent, SyncedMeansApplied
<1>2. DeliveryInv => SyncedMeansApplied
  BY DEF DeliveryInv
<1>3. QED
  BY <1>1, <1>2, DeliveryStep, PTL DEF WorkerSpec

-----------------------------------------------------------------------------
(* The destination never shows, and no routine ever holds, a version newer  *)
(* than the data.                                                           *)
NothingTooNew ==
  /\ \A k \in Keys : target[k] <= Version(k)
  /\ \A k \in Keys, r \in Routines : pc[r] = "apply" /\ Key(r) = k => read[r] <= Version(k)

(* A key no two routines had in hand at once only moves forward: one        *)
(* routine at a time holds a version of it, no older than the one shown.    *)
MovesForward ==
  /\ \A k \in Keys \ overlapped : applied[k] <= target[k]
  /\ \A r \in Routines : pc[r] = "apply" /\ Key(r) \notin overlapped =>
       /\ target[Key(r)] <= read[r]
       /\ \A s \in Routines : pc[s] = "apply" /\ Key(s) = Key(r) => s = r

OrderInv == DeliveryInv /\ NothingTooNew /\ MovesForward

(* Version is the last change of a key. *)
VersionIsLast ==
  \A k \in Keys :
    /\ Version(k) \in Nat
    /\ \A n \in DOMAIN changes : changes[n] = k => n <= Version(k)
    /\ Version(k) = 0 \/ (Version(k) \in DOMAIN changes /\ changes[Version(k)] = k)

(* It is in every reachable state. *)
LEMMA NewestVersion == BaseInv => VersionIsLast
<1>1. ASSUME BaseInv, NEW k \in Keys
      PROVE  /\ Version(k) \in Nat
             /\ \A n \in DOMAIN changes : changes[n] = k => n <= Version(k)
             /\ Version(k) = 0 \/ (Version(k) \in DOMAIN changes /\ changes[Version(k)] = k)
  <2>1. Len(changes) \in Nat
    BY <1>1 DEF BaseInv, WorkerTypeOK, DestTypeOK
  <2>2. Version(k) \in 0..Len(changes)
    BY <1>1, VersionIsNewest
  <2>3. QED
    BY <1>1, <2>1, <2>2, VersionIsNewest DEF Changed
<1>2. QED
  BY <1>1 DEF VersionIsLast

(* Changes only make the newest version of a key newer.                     *)
LEMMA VersionsGrow ==
  ASSUME BaseInv, WorkerNext
  PROVE  \A k \in Keys : Version(k) <= Version(k)'
<1>1. BaseInv'
  BY BaseStep
<1>2. VersionIsLast /\ VersionIsLast'
  BY <1>1, NewestVersion, PTL
<1>3. QED
  BY <1>2, HistoryGrows DEF VersionIsLast

(* Only an Apply, failed or not, changes what the destination shows.        *)
LEMMA TargetMoves ==
  ASSUME BaseInv, WorkerNext
  PROVE  \/ UNCHANGED <<target, applied>>
         \/ \E r \in Routines : Apply(r) \/ ApplyFails(r)
BY DEF WorkerNext, Step, Change, RunOnce, DispatchFails, Cancel, Crash, ClaimBatch,
   ClaimNext, ClaimFails, StartJob, LeaveLoop, Project, ProjectFails, MarkSynced,
   FailOrRetry, Report, RequeueClaimed, ReturnError, HeartbeatFails, LeaseExpires,
   OperatorRequeues, destVars

(* A key stays overlapped.                                                  *)
LEMMA OverlapStays ==
  ASSUME BaseInv, WorkerNext
  PROVE  overlapped \subseteq overlapped'
BY DEF WorkerNext, Step, Change, RunOnce, DispatchFails, Cancel, Crash, ClaimBatch,
   ClaimNext, ClaimFails, StartJob, LeaveLoop, Project, ProjectFails, Apply,
   ApplyFails, MarkSynced, FailOrRetry, Report, RequeueClaimed, ReturnError,
   HeartbeatFails, LeaseExpires, OperatorRequeues, destVars

(* A routine that holds a projection already held it, or just read it.      *)
LEMMA HoldsProjection ==
  ASSUME BaseInv, WorkerNext, NEW s \in Routines, pc'[s] = "apply"
  PROVE  /\ Key(s)' = Key(s) /\ Key(s) \in Keys
         /\ \/ pc[s] = "apply" /\ read'[s] = read[s]
            \/ Project(s)
<1>1. \/ pc'[s] = pc[s] /\ batch'[s] = batch[s] /\ read'[s] = read[s]
      \/ Project(s) /\ batch'[s] = batch[s]
  BY AtWork DEF Working
<1>2. batch[s] # <<>>
  BY <1>1 DEF Project, BaseInv, WorkerTypeOK, BatchTypeOK, Working
<1>3. QED
  BY <1>1, <1>2, InHandKey, HistoryGrows DEF Current, Key

(* OrderInv is inductive. *)
LEMMA OrderStep == OrderInv /\ [WorkerNext]_workerVars => OrderInv'
<1>1. ASSUME OrderInv, UNCHANGED workerVars PROVE OrderInv'
  <2>1. DeliveryInv'
    BY <1>1, DeliveryStep DEF OrderInv
  <2>2. \A k \in Keys : Version(k)' = Version(k)
    BY <1>1 DEF Version, workerVars, destVars
  <2>3. NothingTooNew' /\ MovesForward'
    BY <1>1, <2>2
    DEF OrderInv, NothingTooNew, MovesForward, Current, Key, workerVars, destVars,
        workVars
  <2>4. QED
    BY <2>1, <2>3 DEF OrderInv
<1>2. ASSUME OrderInv, WorkerNext PROVE OrderInv'
  <2>0. DeliveryInv' /\ BaseInv /\ BaseInv'
    BY <1>2, DeliveryStep, BaseStep DEF OrderInv, DeliveryInv
  <2>1. Numbers /\ Numbers' /\ VersionIsLast /\ VersionIsLast'
    BY <2>0, VersionsAreNumbers, NewestVersion, PTL
  <2>2. \A k \in Keys : Version(k) <= Version(k)'
    BY <1>2, <2>0, VersionsGrow
  <2>3. ASSUME NEW s \in Routines, pc'[s] = "apply"
        PROVE  /\ Key(s)' = Key(s) /\ Key(s) \in Keys
               /\ \/ pc[s] = "apply" /\ read'[s] = read[s]
                  \/ Project(s) /\ read'[s] = Version(Key(s))
    BY <1>2, <2>0, <2>3, HoldsProjection
    DEF Project, Projection, BaseInv, WorkerTypeOK, DestTypeOK
  <2>4. ASSUME NEW k \in Keys, NEW s \in Routines, pc'[s] = "apply", Key(s)' = k
        PROVE  read'[s] <= Version(k)'
    <3>1. read'[s] <= Version(k)
      BY <1>2, <2>1, <2>3, <2>4 DEF OrderInv, NothingTooNew, VersionIsLast
    <3>2. QED
      BY <2>1, <2>2, <2>4, <3>1 DEF Numbers, VersionIsLast
  <2>5. CASE UNCHANGED <<target, applied>>
    <3>1. \A k \in Keys : target'[k] <= Version(k)'
      BY <1>2, <2>1, <2>2, <2>5 DEF OrderInv, NothingTooNew, Numbers, VersionIsLast
    <3>2. \A k \in Keys \ overlapped' : applied'[k] <= target'[k]
      BY <1>2, <2>0, <2>5, OverlapStays DEF OrderInv, MovesForward
    <3>3. ASSUME NEW s \in Routines, pc'[s] = "apply", Key(s)' \notin overlapped'
          PROVE  target'[Key(s)'] <= read'[s]
      BY <1>2, <2>0, <2>3, <2>5, <3>3, OverlapStays
      DEF OrderInv, MovesForward, NothingTooNew
    <3>4. ASSUME NEW s \in Routines, pc'[s] = "apply", Key(s)' \notin overlapped',
                 NEW q \in Routines, pc'[q] = "apply", Key(q)' = Key(s)'
          PROVE  q = s
      <4>1. Key(s) \notin overlapped /\ Key(q) = Key(s)
        BY <1>2, <2>0, <2>3, <3>4, OverlapStays
      <4>2. CASE pc[s] = "apply" /\ pc[q] = "apply"
        BY <1>2, <4>1, <4>2 DEF OrderInv, MovesForward
      <4>3. ASSUME NEW r \in Routines, Project(r), NEW t \in Routines, pc[t] = "apply",
                   Key(t) = Key(r)
            PROVE  Key(r) \in overlapped'
        BY <4>3 DEF Project
      <4>4. ASSUME Project(s), pc[q] # "apply" PROVE q = s
        BY <1>2, <2>0, <3>4, <4>4
        DEF Project, Goto, BaseInv, WorkerTypeOK, PlaceTypeOK
      <4>5. ASSUME Project(q), pc[s] # "apply" PROVE q = s
        BY <1>2, <2>0, <3>4, <4>5
        DEF Project, Goto, BaseInv, WorkerTypeOK, PlaceTypeOK
      <4>6. QED
        BY <2>3, <3>4, <4>1, <4>2, <4>3, <4>4, <4>5
    <3>5. QED
      BY <2>0, <2>4, <3>1, <3>2, <3>3, <3>4 DEF OrderInv, NothingTooNew, MovesForward
  <2>6. ASSUME NEW r \in Routines, Apply(r) \/ ApplyFails(r) PROVE OrderInv'
    <3>1. /\ pc[r] = "apply" /\ Key(r) \in Keys /\ UNCHANGED <<changes, batch, overlapped>>
          /\ \A s \in Routines : pc'[s] = "apply" =>
               s # r /\ pc[s] = "apply" /\ read'[s] = read[s] /\ Key(s)' = Key(s)
      BY <2>0, <2>6, InHandKey
      DEF Apply, ApplyFails, Goto, BaseInv, WorkerTypeOK, DestTypeOK, PlaceTypeOK,
          BatchTypeOK, Working, Key, Current
    <3>2. /\ \A k \in Keys \ {Key(r)} : target'[k] = target[k] /\ applied'[k] = applied[k]
          /\ \/ target'[Key(r)] = read[r] /\ applied'[Key(r)] = Larger(applied[Key(r)], read[r])
             \/ target'[Key(r)] \in {target[Key(r)], read[r]} /\ UNCHANGED applied
      BY <2>0, <2>6, <3>1 DEF Apply, ApplyFails, BaseInv, WorkerTypeOK, DestTypeOK
    <3>3. \A k \in Keys : Version(k)' = Version(k)
      BY <3>1 DEF Version
    <3>4. NothingTooNew'
      BY <1>2, <2>4, <3>1, <3>2, <3>3 DEF OrderInv, NothingTooNew
    <3>5. \A k \in Keys \ overlapped' : applied'[k] <= target'[k]
      BY <1>2, <2>1, <3>1, <3>2 DEF OrderInv, MovesForward, Numbers, Larger
    <3>6. ASSUME NEW s \in Routines, pc'[s] = "apply", Key(s)' \notin overlapped'
          PROVE  /\ target'[Key(s)'] <= read'[s]
                 /\ \A q \in Routines : pc'[q] = "apply" /\ Key(q)' = Key(s)' => q = s
      BY <1>2, <2>3, <3>1, <3>2, <3>6 DEF OrderInv, MovesForward
    <3>7. QED
      BY <2>0, <3>4, <3>5, <3>6 DEF OrderInv, MovesForward
  <2>7. QED
    BY <1>2, <2>0, <2>5, <2>6, TargetMoves
<1>3. QED
  BY <1>1, <1>2

(* When every change is dispatched and synced the destination shows the     *)
(* newest version of every key that no two routines had in hand at once.    *)
LEMMA OrderInvConverges == OrderInv => ConvergedUnlessOverlapped
<1> SUFFICES ASSUME OrderInv, \A n \in DOMAIN changes : status[n] = "synced",
                    NEW k \in Keys \ overlapped
             PROVE  target[k] = Version(k)
  BY DEF ConvergedUnlessOverlapped
<1>1. BaseInv
  BY DEF OrderInv, DeliveryInv
<1>2. Numbers /\ VersionIsLast
  BY <1>1, VersionsAreNumbers, NewestVersion
<1>3. applied[k] <= target[k] /\ target[k] <= Version(k)
  BY DEF OrderInv, MovesForward, NothingTooNew
<1>4. CASE Version(k) = 0
  BY <1>2, <1>3, <1>4 DEF Numbers
<1>5. CASE Version(k) \in DOMAIN changes /\ changes[Version(k)] = k
  <2>1. applied[k] >= Version(k)
    BY <1>5 DEF OrderInv, DeliveryInv, SyncedMeansApplied
  <2>2. QED
    BY <1>2, <1>3, <2>1 DEF Numbers, VersionIsLast
<1>6. QED
  BY <1>2, <1>4, <1>5 DEF VersionIsLast

(* OrderInv holds of every run of the workers.                              *)
LEMMA OrderIsKept == WorkerSpec => []OrderInv
<1>1. WorkerInit => OrderInv
  <2>1. WorkerInit => BaseInv
    BY BaseInit
  <2>2. WorkerInit /\ VersionIsLast => OrderInv
    BY <2>1
    DEF WorkerInit, DeliveryInv, ReadIsRecent, AppliedIsRecent, SyncedMeansApplied,
        OrderInv, NothingTooNew, MovesForward, VersionIsLast
  <2>3. QED
    BY <2>1, <2>2, NewestVersion
<1>2. QED
  BY <1>1, OrderStep, PTL DEF WorkerSpec

(* Latest-state delivery, whatever crashes, lost leases, repeats, failures  *)
(* and cancellations happened: once everything is synced, the destination   *)
(* shows the newest version of every key no two routines had in hand at     *)
(* once.                                                                    *)
THEOREM DeliversLatest == WorkerSpec => []ConvergedUnlessOverlapped
BY OrderIsKept, OrderInvConverges, PTL

(* A deployment with a single routine: one process, Concurrency = 1, as the *)
(* SQLite store's worker lock enforces.                                     *)
OneRoutine == \A q, r \in Routines : q = r

(* No key was ever in hand twice at once. *)
NoOverlap == overlapped = {}

(* Alone, a routine overlaps with none, so the destination always converges *)
(* to the newest version of every key.                                      *)
THEOREM OneRoutineConverges ==
  ASSUME OneRoutine
  PROVE  WorkerSpec => []Converged
<1>1. WorkerInit => NoOverlap
  BY DEF WorkerInit, NoOverlap
<1>2. NoOverlap /\ [WorkerNext]_workerVars => NoOverlap'
  <2>1. ASSUME overlapped = {}, NEW r \in Routines, Project(r) PROVE overlapped' = {}
    BY <2>1 DEF Project, OneRoutine
  <2>2. QED
    BY <2>1
    DEF WorkerNext, Step, Change, RunOnce, DispatchFails, Cancel, Crash, ClaimBatch,
        ClaimNext, ClaimFails, StartJob, LeaveLoop, ProjectFails, Apply, ApplyFails,
        MarkSynced, FailOrRetry, Report, RequeueClaimed, ReturnError, HeartbeatFails,
        LeaseExpires, OperatorRequeues, destVars, workerVars, NoOverlap
<1>3. NoOverlap /\ ConvergedUnlessOverlapped => Converged
  BY DEF ConvergedUnlessOverlapped, Converged, NoOverlap
<1>4. QED
  BY <1>1, <1>2, <1>3, DeliversLatest, PTL DEF WorkerSpec
-----------------------------------------------------------------------------
(* No two routines share a worker ID.                                       *)
DistinctIDs == \A q, r \in Routines : WorkerID(q) = WorkerID(r) => q = r

(* A batch is claimed at once, or its leases last.                          *)
ClaimsLast == ~OneByOne \/ LeaseSized

(* A worker that still has the lease of a job in its batch knows the job's  *)
(* attempt count: it is the one of the claim.                               *)
HeldAsClaimed ==
  \A r \in Routines : \A i \in DOMAIN batch[r] :
    Holds(batch[r][i].job, WorkerID(r)) =>
      batch[r][i].attempts = attempts[batch[r][i].job]

(* While a routine claims, it has the leases of what it claimed.            *)
ClaimedStayHeld ==
  \A r \in Routines : pc[r] = "claim" =>
    \A i \in DOMAIN batch[r] : Holds(batch[r][i].job, WorkerID(r))

AttemptsInv == BaseInv /\ HeldAsClaimed /\ ClaimedStayHeld /\ DeadAfterLastAttempt

(* Where an entry of a batch comes from: it was there, or it is claimed now.*)
LEMMA EntriesCome ==
  ASSUME BaseInv, WorkerNext, NEW s \in Routines, NEW i \in DOMAIN batch'[s]
  PROVE  \/ \E m \in DOMAIN batch[s] : batch'[s][i] = batch[s][m]
         \/ /\ attempts'[batch'[s][i].job] = batch'[s][i].attempts
            /\ status'[batch'[s][i].job] = "held"
            /\ holder'[batch'[s][i].job] = WorkerID(s)
<1> DEFINE Old == \E m \in DOMAIN batch[s] : batch'[s][i] = batch[s][m]
           New == /\ attempts'[batch'[s][i].job] = batch'[s][i].attempts
                  /\ status'[batch'[s][i].job] = "held"
                  /\ holder'[batch'[s][i].job] = WorkerID(s)
<1> USE DEF BaseInv, WorkerTypeOK, BatchTypeOK
<1>1. CASE batch'[s] = batch[s]
  BY <1>1
<1>2. CASE batch'[s] = Tail(batch[s]) /\ batch[s] # <<>>
  BY <1>2
<1>3. CASE batch'[s] = <<>>
  BY <1>3
<1>4. ASSUME ClaimBatch(s) PROVE Old \/ New
  <2>1. PICK C \in SUBSET Jobs :
          /\ Grant(C, WorkerID(s))
          /\ (\E q \in Batches(C) : batch' = [batch EXCEPT ![s] = q]) \/ UNCHANGED batch
    BY <1>4 DEF ClaimBatch
  <2>2. CASE UNCHANGED batch
    BY <2>2
  <2>3. ASSUME NEW q \in Batches(C), batch' = [batch EXCEPT ![s] = q] PROVE New
    <3>1. batch'[s] = q
      BY <2>3
    <3>2. q[i].job \in C /\ q[i].attempts = attempts[q[i].job]
      BY <2>1, <2>3, <3>1, BatchOfClaim
    <3>3. QED
      BY <2>1, <3>1, <3>2 DEF Grant, Holds
  <2>4. QED
    BY <2>1, <2>2, <2>3
<1>5. ASSUME ClaimNext(s) PROVE Old \/ New
  <2>1. CASE UNCHANGED batch
    BY <2>1
  <2>2. ASSUME NEW j \in Jobs, Grant({j}, WorkerID(s)),
               batch' = [batch EXCEPT ![s] = Append(@, [job |-> j, attempts |-> attempts[j]])]
        PROVE  Old \/ New
    <3>1. batch'[s] = Append(batch[s], [job |-> j, attempts |-> attempts[j]])
      BY <2>2
    <3>2. i \in DOMAIN batch[s] \/ batch'[s][i] = [job |-> j, attempts |-> attempts[j]]
      BY <3>1
    <3>3. i \in DOMAIN batch[s] => batch'[s][i] = batch[s][i]
      BY <3>1
    <3>4. batch'[s][i] = [job |-> j, attempts |-> attempts[j]] => New
      BY <2>2 DEF Grant, Holds
    <3>5. QED
      BY <3>2, <3>3, <3>4
  <2>3. QED
    BY <1>5, <2>1, <2>2 DEF ClaimNext
<1>6. ASSUME NEW r \in Routines, MarkSynced(r) \/ FailOrRetry(r) \/ RequeueClaimed(r)
      PROVE  batch'[s] = batch[s] \/ (batch'[s] = Tail(batch[s]) /\ batch[s] # <<>>)
  BY <1>6 DEF MarkSynced, FailOrRetry, Report, RequeueClaimed, Working
<1>7. ASSUME NEW p \in Procs, Crash(p) PROVE batch'[s] = batch[s] \/ batch'[s] = <<>>
  BY <1>7 DEF Crash
<1>8. ASSUME NEW r \in Routines, ClaimBatch(r) \/ ClaimNext(r), r # s
      PROVE  batch'[s] = batch[s]
  BY <1>8 DEF ClaimBatch, ClaimNext
<1>9. QED
  BY <1>1, <1>2, <1>3, <1>4, <1>5, <1>6, <1>7, <1>8
  DEF WorkerNext, Step, Change, RunOnce, DispatchFails, Cancel, ClaimFails, StartJob,
      LeaveLoop, Project, ProjectFails, Apply, ApplyFails, ReturnError,
      HeartbeatFails, LeaseExpires, OperatorRequeues, workVars

(* How a lease begins: with a claim of the routine that gets it.            *)
LEMMA LeaseBegins ==
  ASSUME BaseInv, WorkerNext, NEW j \in Jobs, NEW w, Holds(j, w)', ~Holds(j, w)
  PROVE  \E r \in Routines : /\ ClaimBatch(r) \/ ClaimNext(r)
                             /\ WorkerID(r) = w /\ status[j] \in Waiting
<1> USE DEF Holds
<1>1. ASSUME NEW p \in Procs, RunOnce(p) \/ DispatchFails(p) PROVE FALSE
  BY <1>1 DEF RunOnce, DispatchFails, Add
<1>2. ASSUME NEW r \in Routines, ClaimBatch(r) \/ ClaimNext(r)
      PROVE  WorkerID(r) = w /\ status[j] \in Waiting
  BY <1>2 DEF ClaimBatch, ClaimNext, Grant, leaseVars
<1>3. ASSUME NEW r \in Routines, MarkSynced(r) \/ FailOrRetry(r) \/ RequeueClaimed(r)
      PROVE  FALSE
  BY <1>3 DEF MarkSynced, FailOrRetry, RequeueClaimed, Report, Settle, Kill, Retry,
     Release, End, leaseVars, BaseInv, WorkerTypeOK, LeaseTypeOK
<1>4. ASSUME NEW l \in Jobs, LeaseExpires(l) \/ OperatorRequeues(l) PROVE FALSE
  BY <1>4 DEF LeaseExpires, OperatorRequeues, Lapse, Recall, BaseInv, WorkerTypeOK,
     LeaseTypeOK
<1>5. QED
  BY <1>1, <1>2, <1>3, <1>4
  DEF WorkerNext, Step, Change, Cancel, Crash, ClaimFails, StartJob, LeaveLoop,
      Project, ProjectFails, Apply, ApplyFails, ReturnError, HeartbeatFails, leaseVars

(* How a lease ends: it expires, or its holder reports or gives back the    *)
(* job it has in hand.                                                      *)
LEMMA LeaseEnds ==
  ASSUME BaseInv, WorkerNext, NEW j \in Jobs, NEW w, Holds(j, w), ~Holds(j, w)'
  PROVE  \/ LeaseExpires(j)
         \/ \E r \in Routines : /\ MarkSynced(r) \/ FailOrRetry(r) \/ RequeueClaimed(r)
                                /\ WorkerID(r) = w /\ Current(r).job = j
<1> USE DEF Holds, BaseInv, WorkerTypeOK, LeaseTypeOK
<1>1. ASSUME NEW p \in Procs, RunOnce(p) \/ DispatchFails(p) PROVE FALSE
  BY <1>1 DEF RunOnce, DispatchFails, Add
<1>2. ASSUME NEW r \in Routines, ClaimBatch(r) \/ ClaimNext(r) PROVE FALSE
  BY <1>2 DEF ClaimBatch, ClaimNext, Grant, Waiting, leaseVars
<1>3. ASSUME NEW r \in Routines, MarkSynced(r) \/ FailOrRetry(r) \/ RequeueClaimed(r)
      PROVE  WorkerID(r) = w /\ Current(r).job = j
  BY <1>3 DEF MarkSynced, FailOrRetry, RequeueClaimed, Report, Settle, Kill, Retry,
     Release, End, leaseVars
<1>4. ASSUME NEW l \in Jobs, LeaseExpires(l) PROVE l = j
  BY <1>4 DEF LeaseExpires, Lapse
<1>5. ASSUME NEW l \in Jobs, OperatorRequeues(l) PROVE FALSE
  BY <1>5 DEF OperatorRequeues, Recall
<1>6. QED
  BY <1>1, <1>2, <1>3, <1>4, <1>5
  DEF WorkerNext, Step, Change, Cancel, Crash, ClaimFails, StartJob, LeaveLoop,
      Project, ProjectFails, Apply, ApplyFails, ReturnError, HeartbeatFails, leaseVars

(* Only failOrRetry counts an attempt and lets a job die, under the lease   *)
(* of its routine and as the routine's copy of the job decides.             *)
LEMMA AttemptsCounted ==
  ASSUME BaseInv, WorkerNext, NEW j \in Jobs,
         attempts'[j] # attempts[j] \/ ~(status'[j] = "dead" <=> status[j] = "dead")
  PROVE  \E r \in Routines :
           /\ FailOrRetry(r) /\ batch[r] # <<>> /\ Current(r).job = j /\ Holds(j, WorkerID(r))
           /\ attempts'[j] = attempts[j] + 1
           /\ status'[j] = IF LastAttempt(Current(r)) THEN "dead" ELSE "queued"
<1> USE DEF Holds, BaseInv, WorkerTypeOK, LeaseTypeOK
<1>1. ASSUME NEW p \in Procs, RunOnce(p) \/ DispatchFails(p) PROVE FALSE
  BY <1>1 DEF RunOnce, DispatchFails, Add
<1>2. ASSUME NEW r \in Routines, ClaimBatch(r) \/ ClaimNext(r) PROVE FALSE
  BY <1>2 DEF ClaimBatch, ClaimNext, Grant, Waiting, leaseVars
<1>3. ASSUME NEW r \in Routines, MarkSynced(r) \/ RequeueClaimed(r) PROVE FALSE
  BY <1>3 DEF MarkSynced, RequeueClaimed, Report, Settle, Release, End, leaseVars
<1>4. ASSUME NEW r \in Routines, FailOrRetry(r)
      PROVE  /\ batch[r] # <<>> /\ Current(r).job = j /\ Holds(j, WorkerID(r))
             /\ attempts'[j] = attempts[j] + 1
             /\ status'[j] = IF LastAttempt(Current(r)) THEN "dead" ELSE "queued"
  <2>1. batch[r] # <<>>
    BY <1>4 DEF FailOrRetry, BatchTypeOK, Working
  <2>2. QED
    BY <1>4, <2>1 DEF FailOrRetry, Report, Kill, Retry, End, leaseVars
<1>5. ASSUME NEW l \in Jobs, LeaseExpires(l) \/ OperatorRequeues(l) PROVE FALSE
  BY <1>5 DEF LeaseExpires, OperatorRequeues, Lapse, Recall
<1>6. QED
  BY <1>1, <1>2, <1>3, <1>4, <1>5
  DEF WorkerNext, Step, Change, Cancel, Crash, ClaimFails, StartJob, LeaveLoop,
      Project, ProjectFails, Apply, ApplyFails, ReturnError, HeartbeatFails, leaseVars

(* A routine that claims was claiming, or starts with nothing in hand.      *)
LEMMA ClaimBegins ==
  ASSUME BaseInv, WorkerNext, NEW s \in Routines, pc'[s] = "claim"
  PROVE  pc[s] = "claim" \/ batch[s] = <<>>
BY ZenonT(30) DEF WorkerNext, Step, Change, RunOnce, DispatchFails, Cancel, Crash, ClaimBatch,
   ClaimNext, ClaimFails, StartJob, LeaveLoop, Project, ProjectFails, Apply,
   ApplyFails, MarkSynced, FailOrRetry, Report, RequeueClaimed, ReturnError,
   HeartbeatFails, LeaseExpires, OperatorRequeues, workVars, Goto, Of, BaseInv,
   WorkerTypeOK, PlaceTypeOK, BatchTypeOK

(* AttemptsInv is inductive, given worker IDs of their own and claims that  *)
(* last.                                                                    *)
LEMMA AttemptsStep ==
  ASSUME DistinctIDs, ClaimsLast, AttemptsInv, [WorkerNext]_workerVars
  PROVE  AttemptsInv'
<1>1. CASE UNCHANGED workerVars
  <2>1. BaseInv'
    BY <1>1, BaseStep DEF AttemptsInv
  <2>2. QED
    BY <1>1, <2>1
    DEF AttemptsInv, HeldAsClaimed, ClaimedStayHeld, DeadAfterLastAttempt, Holds,
        workerVars, leaseVars, workVars
<1>2. CASE WorkerNext
  <2>1. BaseInv /\ BaseInv'
    BY <1>2, BaseStep DEF AttemptsInv
  <2>2. ASSUME NEW s \in Routines, NEW i \in DOMAIN batch'[s]
        PROVE  batch'[s][i].job \in Jobs
    <3>1. batch'[s] \in Seq(Claimed)
      BY <2>1 DEF BaseInv, WorkerTypeOK, BatchTypeOK
    <3>2. batch'[s][i] \in Claimed
      BY <3>1
    <3>3. QED
      BY <3>2 DEF Claimed
  <2>3. ASSUME NEW s \in Routines, NEW i \in DOMAIN batch'[s], NEW j \in Jobs,
               batch'[s][i].job = j, Holds(j, WorkerID(s))'
        PROVE  batch'[s][i].attempts = attempts'[j]
    <3>1. attempts'[j] = attempts[j]
      BY <1>2, <2>1, <2>3, AttemptsCounted DEF Holds
    <3>2. ASSUME NEW m \in DOMAIN batch[s], batch'[s][i] = batch[s][m]
          PROVE  batch[s][m].attempts = attempts[j]
      <4>1. CASE Holds(j, WorkerID(s))
        BY <2>3, <3>2, <4>1 DEF AttemptsInv, HeldAsClaimed
      <4>2. CASE ~Holds(j, WorkerID(s))
        <5>1. PICK r \in Routines : /\ ClaimBatch(r) \/ ClaimNext(r)
                                    /\ WorkerID(r) = WorkerID(s) /\ status[j] \in Waiting
          BY <1>2, <2>1, <2>3, <4>2, LeaseBegins
        <5>2. pc[s] = "claim"
          BY <5>1 DEF DistinctIDs, ClaimBatch, ClaimNext
        <5>3. QED
          BY <2>3, <3>2, <4>2, <5>2 DEF AttemptsInv, ClaimedStayHeld
      <4>3. QED
        BY <4>1, <4>2
    <3>3. QED
      BY <1>2, <2>1, <2>3, <3>1, <3>2, EntriesCome
  <2>4. ASSUME NEW s \in Routines, pc'[s] = "claim", NEW i \in DOMAIN batch'[s],
               NEW j \in Jobs, batch'[s][i].job = j
        PROVE  Holds(j, WorkerID(s))'
    <3>1. ASSUME NEW m \in DOMAIN batch[s], batch'[s][i] = batch[s][m],
                 ~Holds(j, WorkerID(s))'
          PROVE  FALSE
      <4>1. pc[s] = "claim"
        BY <1>2, <2>1, <2>4, <3>1, ClaimBegins
      <4>2. Holds(j, WorkerID(s)) /\ InBatch(j, s)
        BY <2>4, <3>1, <4>1 DEF AttemptsInv, ClaimedStayHeld, InBatch
      <4>3. LeaseSized
        BY <2>1, <3>1, <4>1 DEF ClaimsLast, BaseInv, WorkerTypeOK, BatchTypeOK
      <4>4. ~LeaseExpires(j)
        BY <4>2, <4>3 DEF LeaseExpires
      <4>5. PICK r \in Routines : /\ MarkSynced(r) \/ FailOrRetry(r) \/ RequeueClaimed(r)
                                  /\ WorkerID(r) = WorkerID(s)
        BY <1>2, <2>1, <3>1, <4>2, <4>4, LeaseEnds
      <4>6. QED
        BY <4>1, <4>5 DEF DistinctIDs, MarkSynced, FailOrRetry, RequeueClaimed
    <3>2. QED
      BY <1>2, <2>1, <2>4, <3>1, EntriesCome DEF Holds
  <2>5. ASSUME NEW j \in Jobs
        PROVE  attempts'[j] <= MaxAttempts /\ (status'[j] = "dead" <=> attempts'[j] = MaxAttempts)
    <3>1. CASE attempts'[j] = attempts[j] /\ (status'[j] = "dead" <=> status[j] = "dead")
      BY <3>1 DEF AttemptsInv, DeadAfterLastAttempt
    <3>2. CASE attempts'[j] # attempts[j] \/ ~(status'[j] = "dead" <=> status[j] = "dead")
      <4>1. PICK r \in Routines :
              /\ FailOrRetry(r) /\ batch[r] # <<>> /\ Current(r).job = j
              /\ Holds(j, WorkerID(r)) /\ attempts'[j] = attempts[j] + 1
              /\ status'[j] = IF LastAttempt(Current(r)) THEN "dead" ELSE "queued"
        BY <1>2, <2>1, <3>2, AttemptsCounted
      <4>2. 1 \in DOMAIN batch[r] /\ Current(r) = batch[r][1]
        BY <2>1, <4>1 DEF BaseInv, WorkerTypeOK, BatchTypeOK, Current
      <4>3. Current(r).attempts = attempts[j]
        BY <4>1, <4>2 DEF AttemptsInv, HeldAsClaimed
      <4>4. attempts[j] \in Nat /\ attempts[j] < MaxAttempts
        BY <2>1, <4>1, SyncWorkerAssumption, JobLeaseAssumption
        DEF AttemptsInv, DeadAfterLastAttempt, Holds, BaseInv, WorkerTypeOK, LeaseTypeOK
      <4>5. QED
        BY <4>1, <4>3, <4>4, SyncWorkerAssumption DEF LastAttempt
    <3>3. QED
      BY <3>1, <3>2
  <2>6. QED
    BY <2>1, <2>2, <2>3, <2>4, <2>5
    DEF AttemptsInv, HeldAsClaimed, ClaimedStayHeld, DeadAfterLastAttempt
<1>3. QED
  BY <1>1, <1>2

(* max_attempts is honoured: a job is dead exactly when its last attempt    *)
(* failed, although failOrRetry decides with the count it read when it      *)
(* claimed the job.                                                         *)
THEOREM AttemptsHonoured ==
  ASSUME DistinctIDs, ClaimsLast
  PROVE  WorkerSpec => []DeadAfterLastAttempt
<1>1. WorkerInit => AttemptsInv
  BY BaseInit, SyncWorkerAssumption
  DEF WorkerInit, LeaseInit, AttemptsInv, HeldAsClaimed, ClaimedStayHeld,
      DeadAfterLastAttempt
<1>2. AttemptsInv /\ [WorkerNext]_workerVars => AttemptsInv'
  BY AttemptsStep
<1>3. AttemptsInv => DeadAfterLastAttempt
  BY DEF AttemptsInv
<1>4. QED
  BY <1>1, <1>2, <1>3, PTL DEF WorkerSpec

(* What becomes of an entry of a batch: it stays, its process crashes, or   *)
(* its routine finishes it or gives it back.                                *)
LEMMA EntriesGo ==
  ASSUME BaseInv, WorkerNext, NEW s \in Routines, NEW i \in DOMAIN batch[s]
  PROVE  \/ \E m \in DOMAIN batch'[s] : batch'[s][m] = batch[s][i]
         \/ \E p \in Procs : Crash(p)
         \/ /\ MarkSynced(s) \/ FailOrRetry(s) \/ RequeueClaimed(s)
            /\ batch[s][i] = Current(s)
<1> DEFINE Stays == \E m \in DOMAIN batch'[s] : batch'[s][m] = batch[s][i]
<1> USE DEF BaseInv, WorkerTypeOK, BatchTypeOK
<1>1. batch[s] \in Seq(Claimed) /\ batch[s] # <<>>
  OBVIOUS
<1>2. CASE batch'[s] = batch[s]
  BY <1>2
<1>3. batch'[s] = Tail(batch[s]) => Stays \/ batch[s][i] = Current(s)
  <2>1. CASE i = 1
    BY <2>1, <1>1 DEF Current
  <2>2. ASSUME i # 1, batch'[s] = Tail(batch[s]) PROVE Stays
    <3>1. i - 1 \in DOMAIN batch'[s] /\ batch'[s][i - 1] = batch[s][i]
      BY <1>1, <2>2
    <3>2. QED
      BY <3>1
  <2>3. QED
    BY <2>1, <2>2
<1>4. ASSUME NEW j, batch'[s] = Append(batch[s], j) PROVE Stays
  <2>1. i \in DOMAIN batch'[s] /\ batch'[s][i] = batch[s][i]
    BY <1>1, <1>4
  <2>2. QED
    BY <2>1
<1>5. ASSUME MarkSynced(s) \/ FailOrRetry(s) \/ RequeueClaimed(s)
      PROVE  batch'[s] = Tail(batch[s])
  BY <1>5 DEF MarkSynced, FailOrRetry, Report, RequeueClaimed
<1>6. ASSUME NEW r \in Routines, r # s,
             MarkSynced(r) \/ FailOrRetry(r) \/ RequeueClaimed(r)
      PROVE  batch'[s] = batch[s]
  BY <1>6 DEF MarkSynced, FailOrRetry, Report, RequeueClaimed
<1>7. ASSUME NEW r \in Routines, ClaimBatch(r) PROVE batch'[s] = batch[s]
  BY <1>1, <1>7 DEF ClaimBatch
<1>8. ASSUME NEW r \in Routines, ClaimNext(r)
      PROVE  batch'[s] = batch[s] \/ \E j : batch'[s] = Append(batch[s], j)
  BY <1>8 DEF ClaimNext
<1>9. QED
  BY <1>2, <1>3, <1>4, <1>5, <1>6, <1>7, <1>8
  DEF WorkerNext, Step, Change, RunOnce, DispatchFails, Cancel, ClaimFails, StartJob,
      LeaveLoop, Project, ProjectFails, Apply, ApplyFails, ReturnError,
      HeartbeatFails, LeaseExpires, OperatorRequeues, workVars

(* Crashes and faults are counted, not forgotten.                           *)
LEMMA CountsGrow ==
  ASSUME BaseInv, WorkerNext
  PROVE  /\ crashes' >= crashes /\ faults' >= faults
         /\ \A p \in Procs : Crash(p) => crashes' > crashes
<1>1. crashes \in Nat /\ faults \in Nat
  BY SyncWorkerAssumption DEF BaseInv, WorkerTypeOK, CountTypeOK
<1>2. /\ UNCHANGED crashes \/ crashes' = crashes + 1
      /\ UNCHANGED faults \/ faults' = faults + 1
  BY DEF WorkerNext, Step, Change, RunOnce, DispatchFails, Cancel, Crash, ClaimBatch,
     ClaimNext, ClaimFails, StartJob, LeaveLoop, Project, ProjectFails, Apply,
     ApplyFails, MarkSynced, FailOrRetry, Report, RequeueClaimed, ReturnError,
     HeartbeatFails, LeaseExpires, OperatorRequeues, countVars, Fault
<1>3. QED
  BY <1>1, <1>2 DEF Crash

-----------------------------------------------------------------------------
(* Nothing crashed and the store failed nobody: every lease is in the hands *)
(* of its routine.                                                          *)
LeasesInHand ==
  crashes = 0 /\ faults = 0 =>
    \A r \in Routines, j \in Jobs : Holds(j, WorkerID(r)) => InBatch(j, r)

LeaseInv == BaseInv /\ LeasesInHand

(* LeaseInv is inductive, given worker IDs of their own. *)
LEMMA LeaseStep ==
  ASSUME DistinctIDs, LeaseInv, [WorkerNext]_workerVars
  PROVE  LeaseInv'
<1>1. CASE UNCHANGED workerVars
  <2>1. BaseInv'
    BY <1>1, BaseStep DEF LeaseInv
  <2>2. QED
    BY <1>1, <2>1
    DEF LeaseInv, LeasesInHand, Holds, InBatch, workerVars, leaseVars, workVars, countVars
<1>2. CASE WorkerNext
  <2>1. BaseInv /\ BaseInv'
    BY <1>2, BaseStep DEF LeaseInv
  <2>2. ASSUME crashes' = 0, faults' = 0, NEW s \in Routines, NEW j \in Jobs,
               Holds(j, WorkerID(s))'
        PROVE  InBatch(j, s)'
    <3>1. /\ crashes = 0 /\ faults = 0 /\ ~Fault
          /\ \A p \in Procs : ~Crash(p)
      BY <1>2, <2>1, <2>2, CountsGrow, SyncWorkerAssumption
      DEF BaseInv, WorkerTypeOK, CountTypeOK, Fault
    <3>2. CASE ~Holds(j, WorkerID(s))
      <4>1. PICK r \in Routines : /\ ClaimBatch(r) \/ ClaimNext(r)
                                  /\ WorkerID(r) = WorkerID(s) /\ status[j] \in Waiting
        BY <1>2, <2>1, <2>2, <3>2, LeaseBegins
      <4>2. ClaimBatch(s) \/ ClaimNext(s)
        BY <4>1 DEF DistinctIDs
      <4>3. CASE ClaimBatch(s)
        <5>1. PICK C \in SUBSET Jobs :
                Grant(C, WorkerID(s)) /\ \E q \in Batches(C) : batch' = [batch EXCEPT ![s] = q]
          BY <3>1, <4>3 DEF ClaimBatch
        <5>2. j \in C
          BY <2>2, <4>1, <5>1 DEF Grant, Holds, Waiting
        <5>3. PICK q \in Batches(C) : batch' = [batch EXCEPT ![s] = q]
          BY <5>1
        <5>4. batch'[s] = q
          BY <2>1, <5>3 DEF BaseInv, WorkerTypeOK, BatchTypeOK
        <5>5. QED
          BY <2>1, <5>1, <5>2, <5>4, BatchOfClaim DEF InBatch
      <4>4. CASE ClaimNext(s)
        <5>1. PICK l \in Jobs :
                /\ Grant({l}, WorkerID(s))
                /\ batch' = [batch EXCEPT ![s] = Append(@, [job |-> l, attempts |-> attempts[l]])]
          BY <2>2, <3>1, <3>2, <4>4 DEF ClaimNext, Holds, leaseVars
        <5>2. j = l
          BY <2>2, <4>1, <5>1 DEF Grant, Holds, Waiting
        <5>3. batch'[s] = Append(batch[s], [job |-> l, attempts |-> attempts[l]])
              /\ Len(batch[s]) \in Nat
          BY <2>1, <5>1 DEF BaseInv, WorkerTypeOK, BatchTypeOK
        <5>4. Len(batch[s]) + 1 \in DOMAIN batch'[s]
              /\ batch'[s][Len(batch[s]) + 1].job = l
          BY <5>3
        <5>5. QED
          BY <5>2, <5>4 DEF InBatch
      <4>5. QED
        BY <4>2, <4>3, <4>4
    <3>3. CASE Holds(j, WorkerID(s))
      <4>1. PICK i \in DOMAIN batch[s] : batch[s][i].job = j
        BY <2>2, <3>1, <3>3 DEF LeaseInv, LeasesInHand, InBatch
      <4>2. ASSUME MarkSynced(s) \/ FailOrRetry(s) \/ RequeueClaimed(s),
                   batch[s][i] = Current(s)
            PROVE  FALSE
        <5>1. Current(s).job = j /\ Holds(Current(s).job, WorkerID(s))
          BY <3>3, <4>1, <4>2
        <5>2. status'[j] \in {"synced", "dead", "queued"}
          BY <2>1, <3>1, <4>2, <5>1
          DEF MarkSynced, FailOrRetry, RequeueClaimed, Report, Settle, Kill, Retry, Release,
              End, BaseInv, WorkerTypeOK, LeaseTypeOK
        <5>3. QED
          BY <2>2, <5>2 DEF Holds
      <4>3. QED
        BY <1>2, <2>1, <3>1, <4>1, <4>2, EntriesGo DEF InBatch
    <3>4. QED
      BY <3>2, <3>3
  <2>3. QED
    BY <2>1, <2>2 DEF LeaseInv, LeasesInHand
<1>3. QED
  BY <1>1, <1>2

(* Routines, their batches and the leases in the store agree: a routine that *)
(* returned leaves no lease behind, unless it crashed or the store failed   *)
(* it.                                                                      *)
THEOREM BatchesAgree ==
  ASSUME DistinctIDs
  PROVE  WorkerSpec => []BatchesConsistent
<1>1. WorkerInit => LeaseInv
  BY BaseInit DEF WorkerInit, LeaseInit, LeaseInv, LeasesInHand, Holds
<1>2. LeaseInv /\ [WorkerNext]_workerVars => LeaseInv'
  BY LeaseStep
<1>3. LeaseInv => BatchesConsistent
  BY DEF LeaseInv, LeasesInHand, InBatch, BatchesConsistent, NoLeaseLeftBehind,
     BaseInv,
     WorkerTypeOK, BatchTypeOK
<1>4. QED
  BY <1>1, <1>2, <1>3, PTL DEF WorkerSpec
=============================================================================
