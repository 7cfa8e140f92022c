-------------------------- MODULE WorkerLock_proofs --------------------------
(***************************************************************************)
(* Theorems about the singleton lock of SQLite workers, for any number of  *)
(* processes, any naming of them, and any number of crashes and failures.  *)
(***************************************************************************)
EXTENDS WorkerLock, TLAPS

(* How far the routines of one process are with each other: the heartbeat   *)
(* beats only while the main routine has use for it, the watcher ends after *)
(* it with its error, and the result is given after the watcher ended.      *)
RoutinesAgree(p) ==
  /\ main[p].stage \in {"off", "acquiring"} =>
       beat[p].stage = "off" /\ ~watch[p].done
  /\ beat[p].stage \in {"idle", "renewing"} =>
       main[p].stage \in {"running", "stopping", "waiting"}
  /\ watch[p].done =>
       beat[p].stage \in {"ended", "off"} /\ watch[p].cause = beat[p].cause
  /\ main[p].result # "none" =>
       main[p].stage \in {"releasing", "done", "crashed"}
  /\ main[p].result = "ok" => watch[p].done /\ watch[p].cause = "none"

(* No routine has a reading from the future; while the processes are timely *)
(* each statement runs at the time it was given.                            *)
ReadingsOK(p) ==
  /\ main[p].reading <= now /\ beat[p].reading <= now
  /\ timely /\ main[p].stage = "acquiring" => main[p].reading = now
  /\ timely /\ beat[p].stage = "renewing" => beat[p].reading = now

RoutineInv ==
  /\ LockTypeOK
  /\ \A p \in Processes : RoutinesAgree(p) /\ ReadingsOK(p)

(* While the processes are timely, a process that counts on the lock has it *)
(* and is alone.                                                            *)
LockHeld ==
  timely => \A p \in Processes : UsesLock(p) =>
    /\ lock.owner = workerID[p] /\ lock.expires > now
    /\ \A q \in Processes : UsesLock(q) => q = p

LockInv == RoutineInv /\ LockHeld
-----------------------------------------------------------------------------
(* A process changes what its own routines know, and nothing of another.    *)
LEMMA OwnRoutinesOnly ==
  ASSUME LockTypeOK, NEW p \in Processes, Process(p)
  PROVE  /\ workerID' = workerID /\ now' = now /\ timely' = timely
         /\ \A q \in Processes \ {p} :
              main'[q] = main[q] /\ beat'[q] = beat[q] /\ watch'[q] = watch[q]
<1> USE DEF LockTypeOK, Go
<1>1. CASE Start(p) \/ AcquireWorkerLock(p) \/ RunEnds(p) \/ Cancel(p)
  BY <1>1 DEF Start, AcquireWorkerLock, RunEnds, Cancel
<1>2. CASE Shutdown(p)
  BY <1>2 DEF Shutdown, RunCancelled, StopHeartbeat, Wait, ReleaseLock, ReleaseFails
<1>3. CASE BeatTicks(p) \/ BeatStops(p) \/ Renew(p)
  BY <1>3
  DEF BeatTicks, BeatStops, Renew, RenewWorkerLock, RenewInterrupted, RenewFails
<1>4. CASE Watch(p) \/ Crash(p)
  BY <1>4 DEF Watch, Crash
<1>5. QED
  BY <1>1, <1>2, <1>3, <1>4 DEF Process

(* Readings and deadlines are times.                                        *)
LEMMA TimesAreTyped ==
  ASSUME LockTypeOK, NEW p \in Processes
  PROVE  /\ now \in 0..MaxTime /\ MaxTime \in Nat /\ lock.expires \in Nat
         /\ main[p] \in Main /\ beat[p] \in Beat /\ watch[p] \in Watcher
         /\ main[p].reading \in 0..MaxTime /\ beat[p].reading \in 0..MaxTime
         /\ main[p].reading + Lease \in 0..(MaxTime + Lease)
         /\ beat[p].reading + Lease \in 0..(MaxTime + Lease)
         /\ workerID[p] \in Range(workerID)
         /\ workerID[p] # NoWorker
<1>1. MaxTime \in Nat /\ Lease \in Nat /\ lock.expires \in 0..(MaxTime + Lease)
  BY WorkerLockAssumption DEF LockTypeOK
<1>2. main[p] \in Main /\ beat[p] \in Beat /\ watch[p] \in Watcher
  BY DEF LockTypeOK
<1>3. main[p].reading \in 0..MaxTime /\ beat[p].reading \in 0..MaxTime
  BY <1>2 DEF Main, Beat
<1>4. workerID[p] \in Range(workerID) /\ workerID[p] # NoWorker
  BY WorkerLockAssumption DEF LockTypeOK, Range
<1>5. QED
  BY <1>1, <1>2, <1>3, <1>4 DEF LockTypeOK

(* What a step makes of its process fits its types and what its routines    *)
(* know of each other.                                                      *)
Local(p) ==
  /\ main[p] \in Main /\ beat[p] \in Beat /\ watch[p] \in Watcher
  /\ watch[p].cause # "none" => watch[p].done /\ main[p].cancelled
  /\ RoutinesAgree(p) /\ ReadingsOK(p)

(* A step leaves its own process so.                                        *)
LEMMA LocalStep ==
  ASSUME RoutineInv, NEW p \in Processes, Process(p)
  PROVE  Local(p)'
<1> USE DEF RoutineInv
<1>0. /\ LockTypeOK /\ RoutinesAgree(p) /\ ReadingsOK(p) /\ now \in 0..MaxTime
      /\ main[p] \in Main /\ beat[p] \in Beat /\ watch[p] \in Watcher
      /\ watch[p].cause # "none" => watch[p].done /\ main[p].cancelled
      /\ now \in Int /\ main[p].reading \in Int /\ beat[p].reading \in Int
      /\ main \in [Processes -> Main] /\ beat \in [Processes -> Beat]
      /\ watch \in [Processes -> Watcher]
      /\ 0 \in 0..MaxTime /\ 0 <= now /\ now <= now
  BY TimesAreTyped DEF LockTypeOK
<1>00. workerID' = workerID /\ now' = now /\ timely' = timely
  BY <1>0, OwnRoutinesOnly
<1> USE DEF Local, Main, Beat, Watcher, RoutinesAgree, ReadingsOK, Causes
<1>1. CASE Start(p)
  <2>1. /\ main[p].stage = "off"
        /\ main'[p] = [main[p] EXCEPT !.stage = "acquiring", !.reading = now]
        /\ beat'[p] = beat[p] /\ watch'[p] = watch[p]
    BY <1>1, <1>0 DEF Start, Go
  <2>2. QED
    BY ZenonT(30), <2>1, <1>0, <1>00
<1>2. CASE AcquireWorkerLock(p)
  <2>1. main[p].stage = "acquiring" /\ watch'[p] = watch[p]
    BY <1>2 DEF AcquireWorkerLock
  <2>2. CASE Available(p)
    <3>1. /\ main'[p] = [main[p] EXCEPT !.stage = "running", !.reading = 0]
          /\ beat'[p] = [beat[p] EXCEPT !.stage = "idle"]
      BY <1>2, <2>2, <1>0 DEF AcquireWorkerLock, Go
    <3>2. QED
      BY ZenonT(30), <2>1, <3>1, <1>0, <1>00
  <2>3. CASE ~Available(p)
    <3>1. /\ main'[p] = [main[p] EXCEPT !.stage = "done", !.reading = 0,
                                        !.result = "already running"]
          /\ beat'[p] = beat[p]
      BY <1>2, <2>3, <1>0 DEF AcquireWorkerLock, Go
    <3>2. QED
      BY ZenonT(30), <2>1, <3>1, <1>0, <1>00
  <2>4. QED
    BY <2>2, <2>3
<1>3. CASE RunEnds(p)
  <2>1. /\ main[p].stage = "running"
        /\ \E err \in {"none", "failed"} :
             main'[p] = [main[p] EXCEPT !.stage = "stopping", !.runErr = err]
        /\ beat'[p] = beat[p] /\ watch'[p] = watch[p]
    BY <1>3, <1>0 DEF RunEnds, Go
  <2>2. QED
    BY ZenonT(30), <2>1, <1>0, <1>00
<1>4. CASE RunCancelled(p)
  <2>1. /\ main[p].stage = "running"
        /\ main'[p] = [main[p] EXCEPT !.stage = "stopping", !.runErr = "cancelled"]
        /\ beat'[p] = beat[p] /\ watch'[p] = watch[p]
    BY <1>4, <1>0 DEF RunCancelled, Go
  <2>2. QED
    BY ZenonT(30), <2>1, <1>0, <1>00
<1>5. CASE Cancel(p)
  <2>1. /\ main[p].stage \in {"running", "stopping"}
        /\ main' = [main EXCEPT ![p] = [main[p] EXCEPT !.cancelled = TRUE]]
        /\ beat'[p] = beat[p] /\ watch'[p] = watch[p]
    BY <1>5, Zenon DEF Cancel, Go
  <2>2. main'[p] = [main[p] EXCEPT !.cancelled = TRUE]
    BY <2>1, <1>0
  <2>3. QED
    BY ZenonT(30), <2>1, <2>2, <1>0, <1>00
<1>6. CASE StopHeartbeat(p)
  <2>1. /\ main[p].stage = "stopping"
        /\ main'[p] = [main[p] EXCEPT !.stage = "waiting"]
        /\ beat'[p] = [beat[p] EXCEPT !.stopped = TRUE] /\ watch'[p] = watch[p]
    BY <1>6, <1>0 DEF StopHeartbeat, Go
  <2>2. QED
    BY ZenonT(30), <2>1, <1>0, <1>00
<1>7. CASE Wait(p)
  <2>1. /\ main[p].stage = "waiting" /\ watch[p].done
        /\ main'[p] = [main[p] EXCEPT !.stage = "releasing", !.result = Result(p)]
        /\ beat'[p] = beat[p] /\ watch'[p] = watch[p]
    BY <1>7, <1>0 DEF Wait, Go, Waited
  <2>2. QED
    BY ZenonT(30), <2>1, <1>0, <1>00 DEF Result
<1>8. CASE ReleaseLock(p)
  <2>1. /\ main[p].stage = "releasing"
        /\ main'[p] = [main[p] EXCEPT !.stage = "done"]
        /\ beat'[p] = beat[p] /\ watch'[p] = watch[p]
    BY <1>8, <1>0 DEF ReleaseLock, Go
  <2>2. QED
    BY <2>1, <1>0, <1>00
<1>9. CASE ReleaseFails(p)
  <2>1. /\ main[p].stage = "releasing"
        /\ main'[p] = [main[p] EXCEPT !.stage = "done"]
        /\ beat'[p] = beat[p] /\ watch'[p] = watch[p]
    BY <1>9, <1>0 DEF ReleaseFails, Go
  <2>2. QED
    BY <2>1, <1>0, <1>00
<1>10. CASE BeatTicks(p)
  <2>1. /\ beat[p].stage = "idle"
        /\ main'[p] = main[p]
        /\ beat'[p] = [beat[p] EXCEPT !.stage = "renewing", !.reading = now]
        /\ watch'[p] = watch[p]
    BY <1>10, <1>0 DEF BeatTicks, Go
  <2>2. QED
    BY ZenonT(30), <2>1, <1>0, <1>00
<1>11. CASE BeatStops(p)
  <2>1. /\ beat[p].stage = "idle"
        /\ main'[p] = main[p]
        /\ beat'[p] = Ended(p, "none") /\ watch'[p] = watch[p]
    BY <1>11, <1>0 DEF BeatStops, Go
  <2>2. QED
    BY ZenonT(30), <2>1, <1>0, <1>00 DEF Ended
<1>12. CASE RenewWorkerLock(p)
  <2>1. /\ beat[p].stage = "renewing"
        /\ main'[p] = main[p] /\ watch'[p] = watch[p]
    BY <1>12, <1>0 DEF RenewWorkerLock
  <2>2. CASE beat'[p] = [beat[p] EXCEPT !.stage = "idle", !.reading = 0]
    BY ZenonT(30), <2>1, <2>2, <1>0, <1>00
  <2>3. CASE beat'[p] = Ended(p, "lost")
    BY ZenonT(30), <2>1, <2>3, <1>0, <1>00 DEF Ended
  <2>4. QED
    BY <1>12, <2>2, <2>3, <1>0 DEF RenewWorkerLock
<1>13. CASE RenewInterrupted(p)
  <2>1. /\ beat[p].stage = "renewing"
        /\ main'[p] = main[p]
        /\ beat'[p] = Ended(p, "interrupted") /\ watch'[p] = watch[p]
    BY <1>13, <1>0 DEF RenewInterrupted, Go
  <2>2. QED
    BY ZenonT(30), <2>1, <1>0, <1>00 DEF Ended
<1>14. CASE RenewFails(p)
  <2>1. /\ beat[p].stage = "renewing"
        /\ main'[p] = main[p]
        /\ beat'[p] = Ended(p, "database") /\ watch'[p] = watch[p]
    BY <1>14, <1>0 DEF RenewFails, Go
  <2>2. QED
    BY ZenonT(30), <2>1, <1>0, <1>00 DEF Ended
<1>15. CASE Watch(p)
  <2>1. /\ beat[p].stage = "ended" /\ ~watch[p].done /\ beat' = beat
        /\ watch' = [watch EXCEPT ![p] = [done |-> TRUE, cause |-> beat[p].cause]]
    BY <1>15 DEF Watch
  <2>2. beat[p].cause \in Causes /\ beat'[p] = beat[p]
    BY <2>1, <1>0
  <2>3. [done |-> TRUE, cause |-> beat[p].cause] \in Watcher
    BY <2>2
  <2>4. watch'[p] \in Watcher /\ watch'[p].done /\ watch'[p].cause = beat[p].cause
    BY <2>1, <2>3, <1>0
  <2>5. CASE beat[p].cause # "none"
    <3>1. main' = [main EXCEPT ![p] = [main[p] EXCEPT !.cancelled = TRUE]]
      BY <1>15, <2>5 DEF Watch, Cancels, Go
    <3>2. main'[p] = [main[p] EXCEPT !.cancelled = TRUE]
      BY <3>1, <1>0
    <3>3. QED
      BY ZenonT(30), <2>1, <2>2, <2>4, <3>2, <1>0, <1>00
  <2>6. CASE beat[p].cause = "none"
    <3>1. main' = main
      BY <1>15, <2>6 DEF Watch, Cancels
    <3>2. QED
      BY ZenonT(30), <2>1, <2>2, <2>4, <2>6, <3>1, <1>0, <1>00
  <2>7. QED
    BY <2>5, <2>6
<1>16. CASE Crash(p)
  <2>1. /\ main[p].stage # "off"
        /\ main'[p] = [main[p] EXCEPT !.stage = "crashed"]
        /\ beat'[p] = [beat[p] EXCEPT !.stage = "off"] /\ watch'[p] = watch[p]
    BY <1>16, <1>0 DEF Crash, Go
  <2>2. QED
    BY ZenonT(30), <2>1, <1>0, <1>00
<1>17. QED
  BY <1>1, <1>2, <1>3, <1>4, <1>5, <1>6, <1>7, <1>8, <1>9, <1>10, <1>11, <1>12, <1>13,
     <1>14, <1>15, <1>16
  DEF Process, Shutdown, Renew

(* What a step of a process does to the lock: it takes one that is free or  *)
(* has expired, renews its own, gives its own back, or leaves it alone.     *)
Takes(p) ==
  /\ main[p].stage = "acquiring" /\ main'[p].stage = "running"
  /\ lock.owner = NoWorker \/ lock.expires <= main[p].reading
  /\ lock' = [owner |-> workerID[p], expires |-> main[p].reading + Lease]

Renews(p) ==
  /\ beat[p].stage = "renewing" /\ beat'[p].stage = "idle" /\ main'[p] = main[p]
  /\ lock.owner = workerID[p]
  /\ lock' = [owner |-> workerID[p], expires |-> beat[p].reading + Lease]

GivesBack(p) ==
  /\ main[p].stage = "releasing" /\ main'[p].stage = "done"
  /\ lock.owner = workerID[p] /\ lock' = Free

Leaves(p) ==
  /\ lock' = lock
  /\ UsesLock(p)' => UsesLock(p)
  /\ \/ main'[p].stage \in {"off", "acquiring", "done"} =>
          main[p].stage \in {"off", "acquiring", "done"}
     \/ faults' # 0
     \/ main[p].stage = "releasing" /\ lock.owner # workerID[p]

(* These are the only things that happen to it.                             *)
LEMMA LockSteps ==
  ASSUME RoutineInv, NEW p \in Processes, Process(p)
  PROVE  /\ Takes(p) \/ Renews(p) \/ GivesBack(p) \/ Leaves(p)
         /\ faults' \in 0..MaxFaults /\ crashes' \in 0..MaxCrashes
         /\ faults' = 0 => faults = 0
<1> USE DEF Leaves, UsesLock
<1>0. /\ main \in [Processes -> Main] /\ beat \in [Processes -> Beat]
      /\ main[p] \in Main /\ beat[p] \in Beat /\ faults \in 0..MaxFaults
      /\ crashes \in 0..MaxCrashes /\ MaxFaults \in Nat /\ MaxCrashes \in Nat
      /\ lock = [owner |-> lock.owner, expires |-> lock.expires]
  BY WorkerLockAssumption DEF RoutineInv, LockTypeOK
<1>1. CASE Start(p)
  BY <1>0, <1>1 DEF Start, Go, Main
<1>2. CASE AcquireWorkerLock(p)
  <2>1. CASE Available(p)
    <3>1. main'[p].stage = "running"
      BY ZenonT(30), <1>0, <1>2, <2>1 DEF AcquireWorkerLock, Go, Main
    <3>2. Takes(p) /\ faults' = faults /\ crashes' = crashes
      BY <1>2, <2>1, <3>1 DEF AcquireWorkerLock, Takes, Available
    <3>3. QED
      BY <1>0, <3>2
  <2>2. CASE ~Available(p)
    <3>1. main'[p].stage = "done"
      BY <1>0, <1>2, <2>2 DEF AcquireWorkerLock, Go, Main
    <3>2. lock' = lock /\ faults' = faults /\ crashes' = crashes
      BY <1>2, <2>2 DEF AcquireWorkerLock
    <3>3. main[p].stage = "acquiring"
      BY <1>2 DEF AcquireWorkerLock
    <3>4. QED
      BY <1>0, <3>1, <3>2, <3>3
  <2>3. QED
    BY <2>1, <2>2
<1>3. CASE RunEnds(p)
  <2>1. /\ main[p].stage = "running" /\ main'[p].stage = "stopping"
        /\ UNCHANGED <<lock, faults, crashes>>
    BY <1>0, <1>3 DEF RunEnds, Go, Main
  <2>2. QED
    BY <1>0, <2>1
<1>4. CASE Cancel(p)
  BY <1>0, <1>4 DEF Cancel, Go, Main
<1>5. CASE RunCancelled(p)
  BY <1>0, <1>5 DEF RunCancelled, Go, Main
<1>6. CASE StopHeartbeat(p) \/ Wait(p)
  <2>1. /\ main[p].stage \in {"stopping", "waiting"}
        /\ main'[p].stage \in {"waiting", "releasing"}
        /\ UNCHANGED <<lock, faults, crashes>>
    BY ZenonT(30), <1>0, <1>6 DEF StopHeartbeat, Wait, Go, Main
  <2>2. QED
    BY <1>0, <2>1
<1>7. CASE ReleaseLock(p)
  BY <1>0, <1>7 DEF ReleaseLock, Released, MayRelease, Go, Main, GivesBack
<1>8. CASE ReleaseFails(p)
  <2>1. /\ main'[p].stage = "done" /\ faults < MaxFaults /\ faults' = faults + 1
        /\ UNCHANGED <<lock, crashes>>
    BY <1>0, <1>8 DEF ReleaseFails, Go, Main
  <2>2. QED
    BY <1>0, <2>1
<1>9. CASE BeatTicks(p) \/ BeatStops(p)
  BY <1>0, <1>9 DEF BeatTicks, BeatStops
<1>10. CASE RenewWorkerLock(p)
  BY <1>0, <1>10 DEF RenewWorkerLock, Beat, Renews
<1>11. CASE RenewInterrupted(p) \/ RenewFails(p)
  BY <1>0, <1>11 DEF RenewInterrupted, RenewFails
<1>12. CASE Watch(p)
  <2>1. main' = main \/ main' = [main EXCEPT ![p] = [main[p] EXCEPT !.cancelled = TRUE]]
    BY <1>12 DEF Watch, Go
  <2>2. main'[p].stage = main[p].stage
    BY <1>0, <2>1 DEF Main
  <2>3. UNCHANGED <<lock, faults, crashes>>
    BY <1>12 DEF Watch
  <2>4. QED
    BY <1>0, <2>2, <2>3
<1>13. CASE Crash(p)
  <2>1. /\ main'[p].stage = "crashed" /\ crashes < MaxCrashes /\ crashes' = crashes + 1
        /\ UNCHANGED <<lock, faults>>
    BY <1>0, <1>13 DEF Crash, Go, Main
  <2>2. QED
    BY <1>0, <2>1
<1>14. QED
  BY <1>1, <1>2, <1>3, <1>4, <1>5, <1>6, <1>7, <1>8, <1>9, <1>10, <1>11, <1>12, <1>13
  DEF Process, Shutdown, Renew

(* The processes start with routines that agree.                            *)
LEMMA RoutineInit == LockInit => RoutineInv
BY WorkerLockAssumption
DEF LockInit, RoutineInv, LockTypeOK, RoutinesAgree, ReadingsOK, Main, Beat, Watcher,
    Causes, Free, Range

(* Every step keeps them so, and the lock typed.                            *)
LEMMA RoutineStep == RoutineInv /\ [LockNext]_lockVars => RoutineInv'
<1> SUFFICES ASSUME RoutineInv, [LockNext]_lockVars PROVE RoutineInv'
  OBVIOUS
<1>1. ASSUME NEW p \in Processes, Process(p) PROVE RoutineInv'
  <2>1. LockTypeOK
    BY DEF RoutineInv
  <2>2. /\ workerID' = workerID /\ now' = now /\ timely' = timely
        /\ \A q \in Processes \ {p} :
             main'[q] = main[q] /\ beat'[q] = beat[q] /\ watch'[q] = watch[q]
    BY <1>1, <2>1, OwnRoutinesOnly
  <2>3. ASSUME NEW q \in Processes PROVE Local(q)'
    <3>1. CASE q = p
      BY <1>1, <3>1, LocalStep
    <3>2. CASE q # p
      <4>1. main'[q] = main[q] /\ beat'[q] = beat[q] /\ watch'[q] = watch[q]
        BY <2>2, <3>2
      <4>2. Local(q)
        BY <2>1, TimesAreTyped DEF RoutineInv, Local, LockTypeOK
      <4>3. QED
        BY <2>2, <4>1, <4>2 DEF Local, RoutinesAgree, ReadingsOK
    <3>3. QED
      BY <3>1, <3>2
  <2>4. /\ main' = [q \in Processes |-> main'[q]]
        /\ beat' = [q \in Processes |-> beat'[q]]
        /\ watch' = [q \in Processes |-> watch'[q]]
    BY <1>1, <2>1
    DEF LockTypeOK, Process, Start, AcquireWorkerLock, RunEnds, Cancel, Shutdown,
        RunCancelled, StopHeartbeat, Wait, ReleaseLock, ReleaseFails, BeatTicks, BeatStops,
        Renew, RenewWorkerLock, RenewInterrupted, RenewFails, Watch, Crash, Go
  <2>5. lock' \in [owner : Range(workerID) \cup {NoWorker}, expires : 0..(MaxTime + Lease)]
    <3>1. Takes(p) \/ Renews(p) \/ GivesBack(p) \/ Leaves(p)
      BY <1>1, LockSteps
    <3>2. 0 \in 0..(MaxTime + Lease)
      BY WorkerLockAssumption
    <3>3. QED
      BY <2>1, <3>1, <3>2, TimesAreTyped
      DEF LockTypeOK, Takes, Renews, GivesBack, Leaves, Free
  <2>6. faults' \in 0..MaxFaults /\ crashes' \in 0..MaxCrashes
    BY <1>1, LockSteps
  <2>7. LockTypeOK'
    BY <2>1, <2>2, <2>3, <2>4, <2>5, <2>6 DEF LockTypeOK, Local
  <2>8. QED
    BY <2>3, <2>7 DEF RoutineInv, Local
<1>2. CASE Tick
  <2>1. /\ now' = now + 1 /\ now' \in 0..MaxTime /\ now \in Nat
        /\ UNCHANGED <<workerID, lock, main, beat, watch, faults, crashes>>
    BY <1>2, WorkerLockAssumption DEF Tick, RoutineInv, LockTypeOK
  <2>2. LockTypeOK'
    BY <1>2, <2>1 DEF Tick, RoutineInv, LockTypeOK
  <2>3. ASSUME NEW p \in Processes PROVE RoutinesAgree(p)' /\ ReadingsOK(p)'
    <3>1. RoutinesAgree(p)'
      BY <2>1 DEF RoutineInv, RoutinesAgree
    <3>2. main[p].reading \in Nat /\ beat[p].reading \in Nat
      BY TimesAreTyped DEF RoutineInv
    <3>3. timely' => main[p].stage # "acquiring" /\ beat[p].stage # "renewing"
      BY <1>2 DEF Tick
    <3>4. QED
      BY <2>1, <3>1, <3>2, <3>3 DEF RoutineInv, ReadingsOK
  <2>4. QED
    BY <2>2, <2>3 DEF RoutineInv
<1>3. CASE UNCHANGED lockVars
  BY <1>3 DEF lockVars, RoutineInv, LockTypeOK, RoutinesAgree, ReadingsOK
<1>4. QED
  BY <1>1, <1>2, <1>3 DEF LockNext

(* So they agree in every reachable state.                                  *)
LEMMA RoutineInvariant == LockSpec => []RoutineInv
BY RoutineInit, RoutineStep, PTL DEF LockSpec

(* A run that ends in success missed no error of its heartbeat, which had   *)
(* ended before the result was given.                                       *)
THEOREM RoutinesAreConsistent == LockSpec => []RoutinesConsistent
<1>1. RoutineInv => RoutinesConsistent
  BY DEF RoutineInv, RoutinesAgree, RoutinesConsistent, SuccessMissesNoError
<1>2. QED
  BY <1>1, RoutineInvariant, PTL
-----------------------------------------------------------------------------
(* Nobody counts on the lock yet.                                           *)
LEMMA HeldInit == LockInit => LockHeld
BY DEF LockInit, LockHeld, UsesLock

(* A lock is taken only when no timely process counts on it, and a timely   *)
(* process renews it before it expires.                                     *)
LEMMA HeldStep == RoutineInv /\ LockHeld /\ [LockNext]_lockVars => LockHeld'
<1> SUFFICES ASSUME RoutineInv, LockHeld, [LockNext]_lockVars, timely',
                    NEW p \in Processes, UsesLock(p)'
             PROVE  /\ lock'.owner = workerID'[p] /\ lock'.expires > now'
                    /\ \A q \in Processes : UsesLock(q)' => q = p
  BY DEF LockHeld
<1>1. LockTypeOK /\ \A q \in Processes : RoutinesAgree(q) /\ ReadingsOK(q)
  BY DEF RoutineInv
<1>2. ASSUME NEW r \in Processes, Process(r)
      PROVE  /\ lock'.owner = workerID'[p] /\ lock'.expires > now'
             /\ \A q \in Processes : UsesLock(q)' => q = p
  <2>1. /\ workerID' = workerID /\ now' = now /\ timely
        /\ \A q \in Processes \ {r} : main'[q] = main[q]
    BY <1>1, <1>2, OwnRoutinesOnly
  <2>2. \A q \in Processes \ {r} : UsesLock(q)' => UsesLock(q)
    BY <2>1 DEF UsesLock
  <2>3. /\ now \in Nat /\ Lease \in Nat /\ Lease > 0
        /\ main[r].reading \in Nat /\ main[r].reading <= now
        /\ beat[r].reading \in Nat /\ beat[r].reading <= now
    BY <1>1, TimesAreTyped, WorkerLockAssumption DEF ReadingsOK
  <2>4. CASE Takes(r)
    <3>1. main[r].reading = now /\ ~UsesLock(r)
      BY <1>1, <2>1, <2>4 DEF Takes, ReadingsOK, UsesLock
    <3>2. ASSUME NEW q \in Processes PROVE ~UsesLock(q)
      <4>1. UsesLock(q) => lock.owner = workerID[q] /\ lock.expires > now
        BY <2>1 DEF LockHeld
      <4>2. workerID[q] # NoWorker /\ lock.expires \in Nat
        BY <1>1, TimesAreTyped
      <4>3. QED
        BY <2>3, <2>4, <4>1, <4>2 DEF Takes
    <3>3. p = r /\ \A q \in Processes : UsesLock(q)' => q = r
      BY <2>2, <3>2
    <3>4. QED
      BY <2>1, <2>3, <2>4, <3>1, <3>3 DEF Takes
  <2>5. CASE Renews(r)
    <3>1. UsesLock(r) /\ UsesLock(r)' /\ beat[r].reading = now
      BY <1>1, <2>1, <2>5 DEF Renews, RoutinesAgree, ReadingsOK, UsesLock
    <3>2. p = r /\ \A q \in Processes : UsesLock(q)' => q = r
      BY <2>1, <2>2, <3>1 DEF LockHeld
    <3>3. QED
      BY <2>1, <2>3, <2>5, <3>1, <3>2 DEF Renews
  <2>6. CASE GivesBack(r)
    <3>1. UsesLock(r) /\ ~UsesLock(r)'
      BY <2>6 DEF GivesBack, UsesLock
    <3>2. p # r /\ UsesLock(p)
      BY <2>2, <3>1
    <3>3. QED
      BY <2>1, <3>1, <3>2 DEF LockHeld
  <2>7. CASE Leaves(r)
    <3>1. \A q \in Processes : UsesLock(q)' => UsesLock(q)
      BY <2>2, <2>7 DEF Leaves
    <3>2. QED
      BY <2>1, <2>7, <3>1 DEF Leaves, LockHeld
  <2>8. QED
    BY <1>2, <2>4, <2>5, <2>6, <2>7, LockSteps
<1>3. CASE Tick
  BY <1>3 DEF Tick, UsesLock, LockHeld
<1>4. CASE UNCHANGED lockVars
  BY <1>4 DEF lockVars, UsesLock, LockHeld
<1>5. QED
  BY <1>2, <1>3, <1>4 DEF LockNext

(* One process works on the database at a time, however many are started    *)
(* and whatever they are called, as long as none is too late to renew.      *)
THEOREM WorksAlone == LockSpec => []OneWorker
<1>1. LockHeld => OneWorker
  BY DEF LockHeld, OneWorker, Working, UsesLock
<1>2. QED
  BY <1>1, RoutineInvariant, HeldInit, HeldStep, PTL DEF LockSpec

(* A process that still runs, or that crashed, has the owner's name.        *)
OwnerRuns ==
  \E p \in Processes : /\ workerID[p] = lock.owner
                       /\ main[p].stage \notin {"off", "acquiring", "done"}

(* A lock that is held is held by a process that still runs or that         *)
(* crashed, or it was left by a release that failed and nobody renews it.   *)
THEOREM LockComesBack == LockSpec => []LockIsReleased
<1> DEFINE Owner == lock.owner # NoWorker /\ faults = 0 => OwnerRuns
<1>1. LockInit => Owner
  BY DEF LockInit, Free
<1>2. RoutineInv /\ Owner /\ [LockNext]_lockVars => Owner'
  <2> SUFFICES ASSUME RoutineInv, Owner, [LockNext]_lockVars,
                      lock'.owner # NoWorker, faults' = 0
               PROVE  \E p \in Processes :
                        /\ workerID'[p] = lock'.owner
                        /\ main'[p].stage \notin {"off", "acquiring", "done"}
    BY DEF OwnerRuns
  <2>1. LockTypeOK
    BY DEF RoutineInv
  <2>2. ASSUME NEW r \in Processes, Process(r)
        PROVE  \E p \in Processes :
                 /\ workerID'[p] = lock'.owner
                 /\ main'[p].stage \notin {"off", "acquiring", "done"}
    <3>1. /\ workerID' = workerID /\ faults = 0
          /\ \A q \in Processes \ {r} : main'[q] = main[q]
      BY <2>1, <2>2, OwnRoutinesOnly, LockSteps
    <3>2. CASE Takes(r)
      BY <3>1, <3>2 DEF Takes
    <3>3. CASE Renews(r)
      <4>1. main'[r].stage \in {"running", "stopping", "waiting"}
        BY <3>3 DEF Renews, RoutineInv, RoutinesAgree
      <4>2. QED
        BY <3>1, <3>3, <4>1 DEF Renews
    <3>4. CASE GivesBack(r)
      BY <3>4 DEF GivesBack, Free
    <3>5. CASE Leaves(r)
      <4>1. PICK p \in Processes : /\ workerID[p] = lock.owner
                                   /\ main[p].stage \notin {"off", "acquiring", "done"}
        BY <3>1, <3>5 DEF Leaves, OwnerRuns
      <4>2. main'[p].stage \notin {"off", "acquiring", "done"}
        BY <3>1, <3>5, <4>1 DEF Leaves
      <4>3. QED
        BY <3>1, <3>5, <4>1, <4>2 DEF Leaves
    <3>6. QED
      BY <2>2, <3>2, <3>3, <3>4, <3>5, LockSteps
  <2>3. CASE Tick \/ UNCHANGED lockVars
    BY <2>3 DEF Tick, lockVars, OwnerRuns
  <2>4. QED
    BY <2>2, <2>3 DEF LockNext
<1>3. RoutineInv /\ Owner => LockIsReleased
  <2>1. RoutineInv => \A p \in Processes :
          main[p].stage \in {"off", "acquiring", "done"} => beat[p].stage \in {"off", "ended"}
    BY DEF RoutineInv, LockTypeOK, RoutinesAgree, Beat
  <2>2. RoutineInv => faults = 0 \/ faults > 0
    BY WorkerLockAssumption DEF RoutineInv, LockTypeOK
  <2>3. QED
    BY <2>1, <2>2 DEF LockIsReleased, OwnerRuns
<1>4. QED
  BY <1>1, <1>2, <1>3, RoutineInvariant, PTL DEF LockSpec

(* A live lock changes by the steps of processes of its owner's name only.  *)
THEOREM OthersCannotTakeIt == LockSpec => OthersLockKept
<1> DEFINE Kept == lock.owner # NoWorker /\ lock.expires > now /\ lock' # lock
                     => \E p \in Processes : /\ workerID[p] = lock.owner
                                             /\ main'[p] # main[p] \/ beat'[p] # beat[p]
<1>1. RoutineInv /\ [LockNext]_lockVars => [Kept]_lockVars
  <2> SUFFICES ASSUME RoutineInv, LockNext, lock.owner # NoWorker, lock.expires > now,
                      lock' # lock
               PROVE  \E p \in Processes : /\ workerID[p] = lock.owner
                                           /\ main'[p] # main[p] \/ beat'[p] # beat[p]
    OBVIOUS
  <2>1. PICK p \in Processes : Process(p)
    BY DEF LockNext, Tick
  <2>2. ~Takes(p)
    <3>1. /\ main[p].reading \in Nat /\ main[p].reading <= now
          /\ lock.expires \in Nat /\ now \in Nat
      BY TimesAreTyped DEF RoutineInv, ReadingsOK
    <3>2. QED
      BY <3>1 DEF Takes
  <2>3. Renews(p) \/ GivesBack(p)
    BY <2>1, <2>2, LockSteps DEF Leaves
  <2>4. QED
    BY <2>3 DEF Renews, GivesBack
<1>2. QED
  BY <1>1, RoutineInvariant, PTL DEF LockSpec, OthersLockKept
=============================================================================
