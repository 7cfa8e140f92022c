--------------------------- MODULE HostLoop_proofs ---------------------------
(***************************************************************************)
(* Theorems about the loop that drains a sync, for any number of           *)
(* goroutines, changes, attempts and faults.                               *)
(***************************************************************************)
EXTENDS HostLoop, FiniteSetTheorems, TLAPS

(* A job under way has an attempt left. *)
AttemptsLeft ==
  \A c \in Changes : job[c] \notin {"synced", "dead"} => tries[c] < MaxAttempts

(* A job of a batch is processing, in the batch of one goroutine only. *)
BatchesHold ==
  \A w \in Workers : \A c \in claimed[w] :
    /\ job[c] = "processing"
    /\ \A v \in Workers : c \in claimed[v] => v = w

(* A goroutine that has found no pending delta knows that what was recorded *)
(* before it called WorkComplete has been dispatched.                       *)
CountsHold ==
  \A w \in Workers :
    /\ before[w] \subseteq Recorded
    /\ place[w] = "counting jobs" =>
         \A c \in before[w] : delta[c] = "dispatched"
    /\ complete[w] => place[w] = "ended"

(* The goroutines end only when one of them found the work complete or sent *)
(* an error.                                                                *)
EndsExplained ==
  /\ \A w \in Workers : place[w] = "ended" => done
  /\ \A w \in Workers : place[w] = "sent" => errCh > 0
  /\ done => errCh > 0 \/ \E w \in Workers : complete[w]
  /\ result # "none" => \A w \in Workers : place[w] = "ended"

(* Every error in errCh is that of a goroutine that has left the loop. *)
Senders == {w \in Workers : place[w] \in {"sent", "ended"}}
ErrorsCounted == errCh <= Cardinality(Senders)

HostInv ==
  /\ CompletionIsTrue
  /\ AttemptsLeft /\ BatchesHold /\ CountsHold /\ EndsExplained /\ ErrorsCounted
-----------------------------------------------------------------------------
(* What was recorded, dispatched or settled stays so.                       *)
LEMMA WorkGoesOn ==
  ASSUME HostTypeOK, BatchesHold, [HostNext]_hostVars
  PROVE  /\ Recorded \subseteq Recorded'
         /\ Settled \subseteq Settled'
         /\ \A c \in Changes : delta[c] = "dispatched" => delta'[c] = "dispatched"
<1> USE DEF HostTypeOK, Recorded, Settled
<1>1. ASSUME NEW c \in Changes, Enqueue(c) \/ BecomesDue(c) \/ LeaseExpires(c)
      PROVE  /\ Recorded \subseteq Recorded'
             /\ Settled \subseteq Settled'
             /\ \A d \in Changes : delta[d] = "dispatched" => delta'[d] = "dispatched"
  BY <1>1 DEF Enqueue, BecomesDue, LeaseExpires
<1>2. ASSUME NEW w \in Workers, DispatchPending(w)
      PROVE  /\ Recorded \subseteq Recorded'
             /\ Settled \subseteq Settled'
             /\ \A d \in Changes : delta[d] = "dispatched" => delta'[d] = "dispatched"
  BY <1>2 DEF DispatchPending, PendingDeltas
<1>3. ASSUME NEW w \in Workers, ClaimNextBatch(w)
      PROVE  delta' = delta /\ Settled \subseteq Settled'
  BY <1>3 DEF ClaimNextBatch
<1>4. ASSUME NEW w \in Workers, NEW c \in Changes, Finish(w, c)
      PROVE  delta' = delta /\ Settled \subseteq Settled'
  BY <1>4 DEF Finish, BatchesHold
<1>5. ASSUME NEW w \in Workers, MakeRetryingAvailable(w) \/ Fails(w)
      PROVE  delta' = delta /\ Settled \subseteq Settled'
  BY ZenonT(30), <1>5 DEF MakeRetryingAvailable, Fails, BatchesHold
<1>6. CASE UNCHANGED workVars
  BY <1>6 DEF workVars
<1>7. QED
  BY <1>1, <1>2, <1>3, <1>4, <1>5, <1>6
  DEF HostNext, Worker, Cancel, SeesDone, SeesCancel, SeesNothing, Wakes, RunOnceReturns,
      CountFirst, CountSecond, SendError, Stop, RunWorkersReturns, hostVars

(* The loop starts without work or errors.                                  *)
LEMMA HostInitOK == HostInit => HostInv
<1> SUFFICES ASSUME HostInit PROVE HostInv
  OBVIOUS
<1>1. Cardinality(Workers) \in Nat /\ Cardinality(Senders) \in Nat
  <2>1. Senders \subseteq Workers
    BY DEF Senders
  <2>2. QED
    BY <2>1, HostLoopAssumption, FS_CardinalityType, FS_Subset
<1>2. 0 \in 0..MaxAttempts /\ 0 \in 0..MaxFaults /\ 0 \in 0..Cardinality(Workers)
  BY <1>1, HostLoopAssumption
<1>3. HostTypeOK
  BY <1>2 DEF HostInit, HostTypeOK, JobStates, Places
<1>4. QED
  BY <1>1, <1>3, HostLoopAssumption
  DEF HostInit, HostInv, CompletionIsTrue, CompleteMeansSettled, NilMeansComplete,
      AttemptsLeft, BatchesHold, CountsHold, EndsExplained, ErrorsCounted, Recorded

(* The rows are typed, and the batches hold jobs that are being processed.  *)
RowsOK == HostTypeOK /\ AttemptsLeft /\ BatchesHold

(* The outcome of a job leaves them so.                                     *)
LEMMA FinishKeepsRows ==
  ASSUME RowsOK, NEW w \in Workers, NEW c \in Changes, Finish(w, c)
  PROVE  RowsOK'
<1>0. HostTypeOK /\ AttemptsLeft /\ BatchesHold /\ MaxAttempts \in Nat
  BY HostLoopAssumption DEF RowsOK
<1>1. /\ c \in claimed[w] /\ claimed' = [claimed EXCEPT ![w] = @ \ {c}]
      /\ UNCHANGED <<delta, place, callVars, faults>>
  BY DEF Finish
<1>2. job[c] = "processing" /\ tries[c] < MaxAttempts /\ tries[c] \in 0..MaxAttempts
  BY <1>0, <1>1 DEF HostTypeOK, AttemptsLeft, BatchesHold
<1>3. tries[c] + 1 \in 0..MaxAttempts
  BY <1>0, <1>2
<1>4. PICK s \in {"synced", "dead", "retrying"}, n \in 0..MaxAttempts :
        /\ job' = [job EXCEPT ![c] = s] /\ tries' = [tries EXCEPT ![c] = n]
        /\ s = "retrying" => n < MaxAttempts
  <2>1. CASE job' = [job EXCEPT ![c] = "synced"] /\ UNCHANGED tries
    <3>1. tries' = [tries EXCEPT ![c] = tries[c]]
      BY <1>0, <2>1 DEF HostTypeOK
    <3>2. QED
      BY <1>2, <2>1, <3>1
  <2>2. CASE /\ tries' = [tries EXCEPT ![c] = @ + 1]
             /\ job' = [job EXCEPT ![c] =
                          IF LastAttempt(tries'[c]) THEN "dead" ELSE "retrying"]
    <3>1. tries'[c] = tries[c] + 1
      BY <1>0, <2>2 DEF HostTypeOK
    <3>2. CASE tries[c] + 1 >= MaxAttempts
      BY <1>3, <2>2, <3>1, <3>2 DEF LastAttempt
    <3>3. CASE ~(tries[c] + 1 >= MaxAttempts)
      <4>1. tries[c] + 1 < MaxAttempts
        BY <1>0, <1>2, <3>3
      <4>2. QED
        BY <1>3, <2>2, <3>1, <3>3, <4>1 DEF LastAttempt
    <3>4. QED
      BY <3>2, <3>3
  <2>3. QED
    BY <2>1, <2>2 DEF Finish
<1>5. HostTypeOK'
  BY <1>0, <1>1, <1>2, <1>4 DEF HostTypeOK, callVars, JobStates
<1>6. AttemptsLeft'
  BY <1>0, <1>4 DEF AttemptsLeft, HostTypeOK
<1>7. \A v \in Workers : claimed'[v] \subseteq claimed[v] /\ c \notin claimed'[v]
  BY <1>0, <1>1 DEF HostTypeOK, BatchesHold
<1>8. \A d \in Changes \ {c} : job'[d] = job[d]
  BY <1>0, <1>4 DEF HostTypeOK
<1>9. BatchesHold'
  <2>1. \A v \in Workers : \A d \in claimed[v] : d \in Changes
    BY <1>0 DEF HostTypeOK
  <2>2. QED
    BY <1>0, <1>7, <1>8, <2>1 DEF BatchesHold
<1>10. QED
  BY <1>5, <1>6, <1>9 DEF RowsOK

(* So does every other step.                                                *)
LEMMA RowsStep == RowsOK /\ [HostNext]_hostVars => RowsOK'
<1> SUFFICES ASSUME RowsOK, [HostNext]_hostVars PROVE RowsOK'
  OBVIOUS
<1>0. /\ faults < MaxFaults => faults + 1 \in 0..MaxFaults
      /\ errCh < Capacity => errCh + 1 \in 0..Cardinality(Workers)
      /\ \A c \in Changes : tries[c] < MaxAttempts => tries[c] + 1 \in 0..MaxAttempts
      /\ MaxAttempts \in Nat
  <2>1. MaxAttempts \in Nat /\ MaxFaults \in Nat /\ Cardinality(Workers) \in Nat
    BY HostLoopAssumption, FS_CardinalityType
  <2>2. /\ faults \in 0..MaxFaults /\ errCh \in 0..Cardinality(Workers)
        /\ \A c \in Changes : tries[c] \in 0..MaxAttempts
    BY DEF RowsOK, HostTypeOK
  <2>3. QED
    BY <2>1, <2>2 DEF Capacity
<1>00. HostTypeOK /\ AttemptsLeft /\ BatchesHold
  BY DEF RowsOK
<1> USE DEF RowsOK, HostTypeOK, AttemptsLeft, BatchesHold, JobStates, Places, Goto
<1>1. ASSUME NEW c \in Changes, Enqueue(c) PROVE RowsOK'
  BY <1>1 DEF Enqueue, callVars
<1>2. ASSUME NEW c \in Changes, BecomesDue(c) PROVE RowsOK'
  BY <1>2 DEF BecomesDue, callVars
<1>3. ASSUME NEW c \in Changes, LeaseExpires(c) PROVE RowsOK'
  <2>1. /\ job[c] = "processing" /\ faults' \in 0..MaxFaults
        /\ job' = [job EXCEPT ![c] = "expired"] /\ tries' = tries
    BY <1>0, <1>3 DEF LeaseExpires
  <2>2. \A w \in Workers : claimed'[w] = claimed[w] \ {c}
    BY <1>3 DEF LeaseExpires
  <2>3. BatchesHold'
    BY <1>3, <2>2 DEF LeaseExpires
  <2>4. HostTypeOK'
    BY ZenonT(30), <1>3, <2>1 DEF LeaseExpires, callVars
  <2>5. AttemptsLeft'
    BY <2>1
  <2>6. QED
    BY <2>3, <2>4, <2>5
<1>4. CASE Cancel
  BY <1>4 DEF Cancel, workVars
<1>5. ASSUME NEW w \in Workers, DispatchPending(w) PROVE RowsOK'
  <2>1. PICK D \in SUBSET PendingDeltas :
          /\ delta' = [c \in Changes |-> IF c \in D THEN "dispatched" ELSE delta[c]]
          /\ job' = [c \in Changes |-> IF c \in D THEN "pending" ELSE job[c]]
    BY <1>5 DEF DispatchPending
  <2>2. \A c \in D : c \in Changes /\ job[c] = "none"
    BY DEF PendingDeltas
  <2>3. /\ place' = [place EXCEPT ![w] = "claiming"]
        /\ UNCHANGED <<tries, claimed, callVars, faults>>
    BY <1>5 DEF DispatchPending
  <2>4. HostTypeOK'
    BY <2>1, <2>2, <2>3 DEF callVars
  <2>5. QED
    BY <2>1, <2>2, <2>3, <2>4
<1>6. ASSUME NEW w \in Workers, ClaimNextBatch(w) PROVE RowsOK'
  <2>1. PICK C \in SUBSET {c \in Changes : job[c] \in {"pending", "due", "expired"}} :
          /\ job' = [c \in Changes |-> IF c \in C THEN "processing" ELSE job[c]]
          /\ claimed' = [claimed EXCEPT ![w] = C]
    BY <1>6 DEF ClaimNextBatch
  <2>2. /\ place' = [place EXCEPT ![w] = "working"]
        /\ UNCHANGED <<delta, tries, callVars, faults>>
    BY <1>6 DEF ClaimNextBatch
  <2>3. \A v \in Workers : claimed'[v] = IF v = w THEN C ELSE claimed[v]
    BY <2>1
  <2>4. HostTypeOK' /\ AttemptsLeft'
    BY <2>1, <2>2 DEF callVars
  <2>5. BatchesHold'
    <3> SUFFICES ASSUME NEW v \in Workers, NEW d \in claimed'[v]
                 PROVE  /\ job'[d] = "processing"
                        /\ \A u \in Workers : d \in claimed'[u] => u = v
      OBVIOUS
    <3>1. CASE d \in C
      <4>1. \A u \in Workers : d \notin claimed[u]
        BY <3>1
      <4>2. QED
        BY ZenonT(30), <2>1, <2>3, <3>1, <4>1
    <3>2. CASE d \notin C
      <4>1. v # w /\ d \in claimed[v] /\ d \in Changes
        BY <2>3, <3>2
      <4>2. QED
        BY ZenonT(30), <2>1, <2>3, <3>2, <4>1
    <3>3. QED
      BY <3>1, <3>2
  <2>6. QED
    BY <2>4, <2>5
<1>7. ASSUME NEW w \in Workers, NEW c \in Changes, Finish(w, c) PROVE RowsOK'
  BY <1>7, FinishKeepsRows
<1>8. ASSUME NEW w \in Workers, MakeRetryingAvailable(w) PROVE RowsOK'
  BY <1>8 DEF MakeRetryingAvailable, Recorded
<1>9. ASSUME NEW w \in Workers, Fails(w) PROVE RowsOK'
  <2>1. PICK back \in {"due", "processing"} :
          job' = [c \in Changes |-> IF c \in claimed[w] THEN back ELSE job[c]]
    BY <1>9 DEF Fails
  <2>2. /\ claimed' = [claimed EXCEPT ![w] = {}]
        /\ place' = [place EXCEPT ![w] = "failed"]
        /\ UNCHANGED <<delta, tries, callVars>>
    BY <1>9 DEF Fails
  <2>3. faults' \in 0..MaxFaults
    BY <1>0, <1>9 DEF Fails
  <2>4. HostTypeOK' /\ AttemptsLeft'
    BY <2>1, <2>2, <2>3 DEF callVars
  <2>5. \A v \in Workers : claimed'[v] = IF v = w THEN {} ELSE claimed[v]
    BY <2>2
  <2>6. BatchesHold'
    BY <2>1, <2>5
  <2>7. QED
    BY <2>4, <2>6
<1>10. ASSUME NEW w \in Workers,
              SeesDone(w) \/ SeesCancel(w) \/ SeesNothing(w) \/ Wakes(w) \/ RunOnceReturns(w)
       PROVE  RowsOK'
  BY ZenonT(30), <1>10
  DEF SeesDone, SeesCancel, SeesNothing, Wakes, RunOnceReturns, workVars, callVars
<1>11. ASSUME NEW w \in Workers, CountFirst(w) \/ CountSecond(w) PROVE RowsOK'
  BY ZenonT(30), <1>11 DEF CountFirst, CountSecond, workVars, callVars
<1>12. ASSUME NEW w \in Workers, SendError(w) \/ Stop(w) PROVE RowsOK'
  <2>1. errCh' \in 0..Cardinality(Workers)
    BY <1>0, <1>12 DEF SendError, Stop, Capacity
  <2>2. QED
    BY ZenonT(30), <1>12, <2>1 DEF SendError, Stop, workVars
<1>13. CASE RunWorkersReturns
  BY <1>13 DEF RunWorkersReturns, Outcome, workVars
<1>14. CASE UNCHANGED hostVars
  BY <1>14 DEF hostVars, workVars, callVars
<1>15. QED
  BY <1>1, <1>2, <1>3, <1>4, <1>5, <1>6, <1>7, <1>8, <1>9, <1>10, <1>11, <1>12, <1>13,
     <1>14
  DEF HostNext, Worker
-----------------------------------------------------------------------------
(* What a goroutine that ends, finds a count empty or calls WorkComplete    *)
(* changes; every other step moves goroutines about inside the loop.        *)
Inside == Places \ {"counting jobs", "sent", "ended"}

Roams(w) ==
  /\ UNCHANGED callVars
  /\ \/ UNCHANGED place
     \/ \E to \in Inside : /\ place[w] \notin {"sent", "ended"}
                           /\ place' = [place EXCEPT ![w] = to]

(* Together these are all the steps there are.                              *)
LEMMA HostCases ==
  ASSUME RowsOK, HostNext
  PROVE  \/ \E w \in Workers :
              \/ Roams(w) \/ SeesDone(w) \/ MakeRetryingAvailable(w)
              \/ CountFirst(w) \/ CountSecond(w) \/ SendError(w) \/ Stop(w)
         \/ UNCHANGED <<workVars, place, before, complete, done, errCh, result>>
         \/ RunWorkersReturns
<1>1. PICK v \in Workers : TRUE
  BY HostLoopAssumption
<1>2. ASSUME NEW c \in Changes, Enqueue(c) \/ BecomesDue(c) \/ LeaseExpires(c)
      PROVE  Roams(v)
  BY <1>2 DEF Enqueue, BecomesDue, LeaseExpires, Roams
<1>3. CASE Cancel
  BY <1>3 DEF Cancel
<1>4. ASSUME NEW w \in Workers,
             \/ SeesCancel(w) \/ SeesNothing(w) \/ Wakes(w)
             \/ DispatchPending(w) \/ ClaimNextBatch(w)
             \/ (\E c \in Changes : Finish(w, c)) \/ RunOnceReturns(w) \/ Fails(w)
      PROVE  Roams(w)
  BY <1>4
  DEF SeesCancel, SeesNothing, Wakes, DispatchPending, ClaimNextBatch, Finish,
      RunOnceReturns, Fails,
      Roams, Goto, Inside, Places
<1>5. QED
  BY <1>2, <1>3, <1>4 DEF HostNext, Worker

(* Before it counts jobs, a goroutine has seen that no delta is pending.    *)
LEMMA CountsStep == HostInv /\ [HostNext]_hostVars => CountsHold'
<1> SUFFICES ASSUME HostInv, [HostNext]_hostVars, NEW w \in Workers
             PROVE  /\ before'[w] \subseteq Recorded'
                    /\ place'[w] = "counting jobs" =>
                         \A c \in before'[w] : delta'[c] = "dispatched"
                    /\ complete'[w] => place'[w] = "ended"
  BY DEF CountsHold
<1>1. /\ HostTypeOK /\ CountsHold /\ RowsOK
      /\ Recorded \subseteq Recorded'
      /\ \A c \in Changes : delta[c] = "dispatched" => delta'[c] = "dispatched"
  BY WorkGoesOn DEF HostInv, CompletionIsTrue, RowsOK
<1>2. ASSUME before'[w] = before[w], complete'[w] = complete[w],
             \/ place'[w] = place[w]
             \/ place[w] # "ended" /\ place'[w] # "counting jobs"
      PROVE  /\ before'[w] \subseteq Recorded'
             /\ place'[w] = "counting jobs" =>
                  \A c \in before'[w] : delta'[c] = "dispatched"
             /\ complete'[w] => place'[w] = "ended"
  <2>1. before[w] \subseteq Changes
    BY <1>1 DEF HostTypeOK
  <2>2. QED
    BY <1>1, <1>2, <2>1 DEF CountsHold
<1>3. ASSUME NEW v \in Workers, Roams(v) \/ SeesDone(v) \/ SendError(v) \/ Stop(v)
      PROVE  /\ before'[w] = before[w] /\ complete'[w] = complete[w]
             /\ \/ place'[w] = place[w]
                \/ place[w] # "ended" /\ place'[w] # "counting jobs"
  BY <1>1, <1>3
  DEF HostTypeOK, Roams, SeesDone, SendError, Stop, Goto, callVars, Inside
<1>4. ASSUME NEW v \in Workers, MakeRetryingAvailable(v)
      PROVE  /\ before'[w] \subseteq Recorded'
             /\ place'[w] = "counting jobs" =>
                  \A c \in before'[w] : delta'[c] = "dispatched"
             /\ complete'[w] => place'[w] = "ended"
  BY <1>1, <1>2, <1>4 DEF HostTypeOK, CountsHold, MakeRetryingAvailable, Goto
<1>5. ASSUME NEW v \in Workers, CountFirst(v)
      PROVE  /\ before'[w] \subseteq Recorded'
             /\ place'[w] = "counting jobs" =>
                  \A c \in before'[w] : delta'[c] = "dispatched"
             /\ complete'[w] => place'[w] = "ended"
  <2>1. CASE PendingDeltas = {} /\ v = w
    <3>1. \A c \in before[w] : c \in Changes /\ delta[c] = "dispatched"
      <4>1. before[w] \subseteq Recorded
        BY <1>1 DEF CountsHold
      <4>2. \A c \in Recorded : c \in Changes /\ delta[c] = "dispatched"
        BY <1>1, <2>1 DEF HostTypeOK, PendingDeltas, Recorded
      <4>3. QED
        BY <4>1, <4>2
    <3>2. before' = before /\ complete' = complete /\ delta' = delta /\ ~complete[w]
      BY <1>1, <1>5, <2>1 DEF CountFirst, workVars, callVars, CountsHold
    <3>3. QED
      BY <1>1, <3>1, <3>2 DEF CountsHold
  <2>2. CASE PendingDeltas # {} \/ v # w
    BY <1>1, <1>2, <1>5, <2>2 DEF HostTypeOK, CountFirst, Counted, Goto, callVars
  <2>3. QED
    BY <2>1, <2>2
<1>6. ASSUME NEW v \in Workers, CountSecond(v)
      PROVE  /\ before'[w] \subseteq Recorded'
             /\ place'[w] = "counting jobs" =>
                  \A c \in before'[w] : delta'[c] = "dispatched"
             /\ complete'[w] => place'[w] = "ended"
  <2>1. before' = before /\ place[v] = "counting jobs" /\ place'[v] # "counting jobs"
    BY <1>1, <1>6 DEF HostTypeOK, CountSecond, Goto
  <2>2. CASE v = w
    <3>1. complete'[w] => place'[w] = "ended"
      BY ZenonT(30), <1>1, <1>6, <2>2 DEF HostTypeOK, CountsHold, CountSecond, Goto
    <3>2. QED
      BY <1>1, <2>1, <2>2, <3>1 DEF CountsHold
  <2>3. CASE v # w
    <3>1. place'[w] = place[w]
      BY <1>1, <1>6, <2>3 DEF HostTypeOK, CountSecond, Goto
    <3>2. complete' = complete \/ complete' = [complete EXCEPT ![v] = TRUE]
      BY <1>6 DEF CountSecond
    <3>3. complete'[w] = complete[w]
      BY <1>1, <2>3, <3>2 DEF HostTypeOK
    <3>4. QED
      BY <1>2, <2>1, <3>1, <3>3
  <2>4. QED
    BY <2>2, <2>3
<1>7. CASE UNCHANGED <<place, before, complete>>
  BY <1>2, <1>7
<1>8. QED
  BY <1>1, <1>2, <1>3, <1>4, <1>5, <1>6, <1>7, HostCases
  DEF RunWorkersReturns, hostVars, callVars

(* A goroutine that finds no open job after the deltas were dispatched is   *)
(* right that the work was done, and settled work stays so.                 *)
LEMMA CompleteStep == HostInv /\ [HostNext]_hostVars => CompleteMeansSettled'
<1> SUFFICES ASSUME HostInv, [HostNext]_hostVars, NEW w \in Workers, complete'[w]
             PROVE  before'[w] \subseteq Settled'
  BY DEF CompleteMeansSettled
<1>1. /\ HostTypeOK /\ CountsHold /\ RowsOK
      /\ Settled \subseteq Settled'
  BY WorkGoesOn DEF HostInv, CompletionIsTrue, RowsOK
<1>2. ASSUME before'[w] = before[w], complete[w] PROVE before'[w] \subseteq Settled'
  BY <1>1, <1>2 DEF HostInv, CompletionIsTrue, CompleteMeansSettled
<1>3. ASSUME NEW v \in Workers, MakeRetryingAvailable(v)
      PROVE  before'[w] = before[w] /\ complete[w]
  <2>1. complete' = complete /\ place[v] = "after" /\ v # w
    BY <1>1, <1>3 DEF MakeRetryingAvailable, CountsHold
  <2>2. QED
    BY <1>1, <1>3, <2>1 DEF MakeRetryingAvailable, HostTypeOK
<1>4. ASSUME NEW v \in Workers, CountSecond(v) PROVE before'[w] \subseteq Settled'
  <2>1. before' = before /\ job' = job
    BY <1>4 DEF CountSecond, workVars
  <2>2. CASE complete[w]
    BY <1>2, <2>1, <2>2
  <2>3. CASE ~complete[w]
    <3>1. v = w /\ place[w] = "counting jobs" /\ OpenJobs = {}
      <4>1. complete' # complete
        BY <2>3
      <4>2. /\ Counted(2) = {} /\ place[v] = "counting jobs"
            /\ complete' = [complete EXCEPT ![v] = TRUE]
        BY <1>4, <4>1, Zenon DEF CountSecond
      <4>3. v = w
        BY <1>1, <2>3, <4>2 DEF HostTypeOK
      <4>4. Counted(2) = OpenJobs
        BY DEF Counted
      <4>5. QED
        BY <4>2, <4>3, <4>4
    <3>2. \A c \in before[w] : c \in Changes /\ delta[c] = "dispatched"
      BY <1>1, <3>1 DEF CountsHold, HostTypeOK
    <3>3. \A c \in before[w] : job[c] \in JobStates /\ job[c] # "none" /\ c \notin OpenJobs
      BY <1>1, <3>1, <3>2 DEF HostTypeOK
    <3>4. before[w] \subseteq Settled
      BY <3>2, <3>3 DEF OpenJobs, Settled, JobStates
    <3>5. QED
      BY <1>1, <2>1, <3>4
  <2>4. QED
    BY <2>2, <2>3
<1>5. CASE UNCHANGED <<before, complete>>
  BY <1>2, <1>5
<1>6. QED
  BY <1>1, <1>3, <1>2, <1>4, <1>5, HostCases
  DEF Roams, SeesDone, CountFirst, SendError, Stop, RunWorkersReturns, hostVars, callVars

(* No goroutine ends without a reason, and RunWorkers waits for all.        *)
LEMMA EndsStep ==
  HostInv /\ [HostNext]_hostVars => EndsExplained' /\ (result' = "ok" => errCh' = 0)
<1> SUFFICES ASSUME HostInv, [HostNext]_hostVars
             PROVE  EndsExplained' /\ (result' = "ok" => errCh' = 0)
  OBVIOUS
<1>1. /\ HostTypeOK /\ RowsOK /\ CountsHold /\ EndsExplained /\ errCh \in Nat
      /\ result = "ok" => errCh = 0
  <2>1. Cardinality(Workers) \in Nat
    BY HostLoopAssumption, FS_CardinalityType
  <2>2. QED
    BY <2>1 DEF HostInv, CompletionIsTrue, NilMeansComplete, RowsOK, HostTypeOK
<1> USE DEF EndsExplained
<1>2. ASSUME NEW w \in Workers, Roams(w)
      PROVE  EndsExplained' /\ (result' = "ok" => errCh' = 0)
  BY <1>1, <1>2 DEF Roams, callVars, Inside, HostTypeOK
<1>3. ASSUME NEW w \in Workers, SeesDone(w)
      PROVE  EndsExplained' /\ (result' = "ok" => errCh' = 0)
  BY <1>1, <1>3 DEF SeesDone, Goto, callVars, HostTypeOK
<1>4. ASSUME NEW w \in Workers, MakeRetryingAvailable(w) \/ CountFirst(w)
      PROVE  EndsExplained' /\ (result' = "ok" => errCh' = 0)
  <2>1. place[w] \in {"after", "counting deltas"} /\ result = "none"
    BY <1>1, <1>4 DEF MakeRetryingAvailable, CountFirst, HostTypeOK
  <2>2. PICK to \in {"counting deltas", "counting jobs", "sleeping"} :
          place' = [place EXCEPT ![w] = to]
    BY <1>4 DEF MakeRetryingAvailable, CountFirst, Goto
  <2>3. UNCHANGED <<complete, done, errCh, result>>
    BY <1>4 DEF MakeRetryingAvailable, CountFirst, callVars
  <2>4. QED
    BY <1>1, <2>1, <2>2, <2>3 DEF HostTypeOK
<1>5. ASSUME NEW w \in Workers, CountSecond(w)
      PROVE  EndsExplained' /\ (result' = "ok" => errCh' = 0)
  <2>1. /\ errCh' = errCh /\ result' = result /\ result = "none"
        /\ \A v \in Workers \ {w} : place'[v] = place[v]
    BY <1>1, <1>5 DEF CountSecond, Goto, HostTypeOK
  <2>2. CASE Counted(2) = {}
    <3>1. /\ place'[w] = "ended" /\ done'
          /\ complete' = [complete EXCEPT ![w] = TRUE]
      BY <1>1, <1>5, <2>2 DEF CountSecond, Goto, HostTypeOK
    <3>2. complete'[w]
      BY <1>1, <3>1 DEF HostTypeOK
    <3>3. QED
      BY <1>1, <2>1, <3>1, <3>2
  <2>3. CASE Counted(2) # {}
    <3>1. place'[w] = "sleeping" /\ UNCHANGED <<complete, done>>
      BY <1>1, <1>5, <2>3 DEF CountSecond, Goto, HostTypeOK
    <3>2. QED
      BY <1>1, <2>1, <3>1
  <2>4. QED
    BY <2>2, <2>3
<1>6. ASSUME NEW w \in Workers, SendError(w)
      PROVE  EndsExplained' /\ (result' = "ok" => errCh' = 0)
  <2>1. errCh' = errCh + 1 /\ errCh' > 0
    BY <1>1, <1>6 DEF SendError
  <2>2. QED
    BY <1>1, <1>6, <2>1 DEF SendError, Goto, HostTypeOK
<1>7. ASSUME NEW w \in Workers, Stop(w)
      PROVE  EndsExplained' /\ (result' = "ok" => errCh' = 0)
  BY <1>1, <1>7 DEF Stop, Goto, HostTypeOK
<1>8. CASE RunWorkersReturns
  BY <1>1, <1>8 DEF RunWorkersReturns, Outcome
<1>9. CASE UNCHANGED <<place, complete, done, errCh, result>>
  BY <1>1, <1>9
<1>10. QED
  BY <1>1, <1>2, <1>3, <1>4, <1>5, <1>6, <1>7, <1>8, <1>9, HostCases
  DEF hostVars, callVars

(* Every goroutine sends at most one error.                                 *)
LEMMA ErrorsStep == HostInv /\ [HostNext]_hostVars => ErrorsCounted'
<1> SUFFICES ASSUME HostInv, [HostNext]_hostVars PROVE ErrorsCounted'
  OBVIOUS
<1>1. /\ HostTypeOK /\ RowsOK /\ errCh \in Nat /\ ErrorsCounted
      /\ IsFiniteSet(Workers) /\ IsFiniteSet(Senders) /\ IsFiniteSet(Senders')
      /\ Cardinality(Senders) \in Nat /\ Cardinality(Senders') \in Nat
  <2>1. IsFiniteSet(Workers) /\ Cardinality(Workers) \in Nat
    BY HostLoopAssumption, FS_CardinalityType
  <2>2. Senders \subseteq Workers /\ Senders' \subseteq Workers
    BY DEF Senders
  <2>3. IsFiniteSet(Senders) /\ IsFiniteSet(Senders')
    BY <2>1, <2>2, FS_Subset
  <2>4. Cardinality(Senders) \in Nat /\ Cardinality(Senders') \in Nat
    BY <2>3, FS_CardinalityType
  <2>5. QED
    BY <2>1, <2>3, <2>4 DEF HostInv, CompletionIsTrue, RowsOK, HostTypeOK
<1>2. ASSUME NEW w \in Workers, SendError(w) PROVE ErrorsCounted'
  <2>1. errCh' = errCh + 1 /\ w \notin Senders
    BY <1>2 DEF SendError, Senders
  <2>2. Senders' = Senders \cup {w}
    BY <1>1, <1>2 DEF SendError, Goto, Senders, HostTypeOK
  <2>3. Cardinality(Senders') = Cardinality(Senders) + 1
    BY <1>1, <2>1, <2>2, FS_AddElement
  <2>4. QED
    BY <1>1, <2>1, <2>3 DEF ErrorsCounted
<1>3. ASSUME errCh' = errCh, Senders \subseteq Senders' PROVE ErrorsCounted'
  <2>1. Cardinality(Senders) <= Cardinality(Senders')
    BY <1>1, <1>3, FS_Subset
  <2>2. QED
    BY <1>1, <1>3, <2>1 DEF ErrorsCounted
<1>4. ASSUME NEW w \in Workers,
             \/ Roams(w) \/ SeesDone(w) \/ MakeRetryingAvailable(w)
             \/ CountFirst(w) \/ CountSecond(w) \/ Stop(w)
      PROVE  errCh' = errCh /\ Senders \subseteq Senders'
  <2>1. errCh' = errCh
    BY <1>4
    DEF Roams, SeesDone, MakeRetryingAvailable, CountFirst, CountSecond, Stop, callVars
  <2>2. \/ UNCHANGED place
        \/ \E to \in Places : /\ place[w] \notin {"sent", "ended"} \/ to = "ended"
                              /\ place' = [place EXCEPT ![w] = to]
    BY <1>4
    DEF Roams, SeesDone, MakeRetryingAvailable, CountFirst, CountSecond, Stop, Goto, Inside,
        Places
  <2>3. QED
    BY <1>1, <2>1, <2>2 DEF Senders, HostTypeOK
<1>5. CASE UNCHANGED <<place, errCh>>
  BY <1>3, <1>5 DEF Senders
<1>6. QED
  BY <1>1, <1>2, <1>3, <1>4, <1>5, HostCases DEF RunWorkersReturns, hostVars, callVars

(* HostInv is inductive.                                                    *)
LEMMA HostStep == HostInv /\ [HostNext]_hostVars => HostInv'
<1> SUFFICES ASSUME HostInv, [HostNext]_hostVars PROVE HostInv'
  OBVIOUS
<1>1. RowsOK'
  BY RowsStep DEF HostInv, CompletionIsTrue, RowsOK
<1>2. /\ CountsHold' /\ CompleteMeansSettled' /\ ErrorsCounted'
      /\ EndsExplained' /\ (result' = "ok" => errCh' = 0)
  BY CountsStep, CompleteStep, EndsStep, ErrorsStep
<1>3. NilMeansComplete'
  <2> SUFFICES ASSUME result' = "ok"
               PROVE  /\ \E w \in Workers : complete'[w] /\ before'[w] \subseteq Settled'
                      /\ errCh' = 0
    BY DEF NilMeansComplete
  <2>1. PICK v \in Workers : TRUE
    BY HostLoopAssumption
  <2>2. errCh' = 0 /\ done' /\ ~(errCh' > 0)
    BY <1>2, <2>1 DEF EndsExplained
  <2>3. \E w \in Workers : complete'[w]
    BY <1>2, <2>2 DEF EndsExplained
  <2>4. QED
    BY <1>2, <2>2, <2>3 DEF CompleteMeansSettled
<1>4. QED
  BY <1>1, <1>2, <1>3 DEF HostInv, CompletionIsTrue, RowsOK

(* So HostInv holds in every reachable state.                               *)
LEMMA HostInvariant == HostSpec => []HostInv
BY HostInitOK, HostStep, PTL DEF HostSpec

(* A WorkComplete that answers TRUE, and a RunWorkers that returns nil, are *)
(* right: all that was recorded before the question was asked is settled,   *)
(* whatever is dispatched between its two counts.                           *)
THEOREM CompletionIsNeverClaimedFalsely == HostSpec => []CompletionIsTrue
<1>1. HostInv => CompletionIsTrue
  BY DEF HostInv
<1>2. QED
  BY <1>1, HostInvariant, PTL

(* A goroutine that failed finds room in errCh, so that RunWorkers never    *)
(* waits for one that cannot send.                                          *)
THEOREM ErrorsHaveRoom ==
  HostSpec => [](\A w \in Workers : place[w] = "failed" => errCh < Capacity)
<1>1. HostInv => \A w \in Workers : place[w] = "failed" => errCh < Capacity
  <2> SUFFICES ASSUME HostInv, NEW w \in Workers, place[w] = "failed"
               PROVE  errCh < Capacity
    OBVIOUS
  <2>1. IsFiniteSet(Workers) /\ Senders \subseteq Workers \ {w} /\ errCh \in Nat
    <3>1. IsFiniteSet(Workers) /\ Cardinality(Workers) \in Nat
      BY HostLoopAssumption, FS_CardinalityType
    <3>2. QED
      BY <3>1 DEF Senders, HostInv, CompletionIsTrue, HostTypeOK
  <2>2. /\ IsFiniteSet(Workers \ {w})
        /\ Cardinality(Workers \ {w}) = Cardinality(Workers) - 1
    BY <2>1, FS_RemoveElement
  <2>3. Cardinality(Senders) <= Cardinality(Workers \ {w}) /\ IsFiniteSet(Senders)
    BY <2>1, <2>2, FS_Subset
  <2>4. Cardinality(Senders) \in Nat /\ Cardinality(Workers) \in Nat
    BY <2>1, <2>3, FS_CardinalityType
  <2>5. QED
    BY <2>1, <2>2, <2>3, <2>4 DEF HostInv, ErrorsCounted, Capacity
<1>2. QED
  BY <1>1, HostInvariant, PTL
=============================================================================
