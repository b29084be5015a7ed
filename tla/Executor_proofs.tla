-------------------------- MODULE Executor_proofs --------------------------
(***************************************************************************)
(* Proofs about Executor, for any jobs, destinations, cancel requests and  *)
(* bounds.                                                                 *)
(***************************************************************************)
EXTENDS Executor, TLAPS

(* A request past its first read has a job.                                 *)
RequestHasJob ==
    \A r \in Request : rpc[r] \in {"signal", "wait", "delete", "drop"} => rjob[r] \in Job

(* A runner between its SELECT and its release has a job of its own         *)
(* destination.                                                             *)
RunnerHasJob ==
    \A d \in Dest : pc[d] \in Working \cup {"claim", "pause", "release"} =>
                       cur[d] \in Job /\ DestOf[cur[d]] = d

(* TypeOK alone is not inductive: cur[d] and rjob[r] index the columns.     *)
TypeInv == TypeOK /\ RequestHasJob /\ RunnerHasJob

USE ExecutorAssumption DEF Status, Cause, Location, Working, Rows, PendingOf,
    rows, disk, loop, reqs, env, vars, Goto, GotoReq, Partial, Fault

LEMMA InitTyped == Init => TypeInv
<1> SUFFICES ASSUME Init PROVE TypeInv
  OBVIOUS
<1>1. TypeOK
  <2>1. temp \in [Job -> SUBSET Partial] /\ paused \in BOOLEAN /\ stopping \in BOOLEAN
    BY DEF Init
  <2> QED
    BY <2>1 DEF Init, TypeOK
<1>2. RequestHasJob /\ RunnerHasJob
  BY DEF Init, RequestHasJob, RunnerHasJob
<1> QED
  BY <1>1, <1>2 DEF TypeInv

LEMMA StepTyped == TypeInv /\ [Next]_vars => TypeInv'
<1> SUFFICES ASSUME TypeInv, [Next]_vars PROVE TypeInv'
  OBVIOUS
<1> USE DEF TypeInv, TypeOK, RequestHasJob, RunnerHasJob
<1>1. ASSUME NEW d \in Dest, Spawn(d) PROVE TypeInv'
  BY <1>1 DEF Spawn
<1>2. ASSUME NEW d \in Dest, RunnerStep(d) PROVE TypeInv'
  <2>1. CASE RecoverRow(d)
    BY <2>1 DEF RecoverRow, RequeueRow
  <2>2. CASE Recovered(d)
    BY <2>2 DEF Recovered, Swept
  <2>3. CASE Poll(d)
    BY <2>3 DEF Poll
  <2>4. CASE Select(d)
    BY <2>4 DEF Select
  <2>5. CASE ClaimRow(d)
    BY <2>5 DEF ClaimRow
  <2>6. CASE ClaimLost(d)
    BY <2>6 DEF ClaimLost
  <2>7. CASE Prepared(d)
    BY <2>7 DEF Prepared, PeekAhead
  <2>8. CASE PrepareFails(d)
    BY <2>8 DEF PrepareFails, PeekAhead
  <2>9. CASE WriteStops(d)
    BY <2>9 DEF WriteStops, AfterError
  <2>10. CASE WriteCommits(d)
    BY <2>10 DEF WriteCommits
  <2>11. CASE VerifyPasses(d)
    BY <2>11 DEF VerifyPasses
  <2>12. CASE VerifyFails(d)
    BY <2>12 DEF VerifyFails, AfterError
  <2>13. CASE Finish(d)
    BY <2>13 DEF Finish, UpdateStatus, UpdateErr
  <2>14. CASE RequeueCancelled(d)
    BY <2>14 DEF RequeueCancelled, RequeueRow
  <2>15. CASE CountAttempt(d)
    BY <2>15 DEF CountAttempt
  <2>16. CASE RequeueFailed(d)
    BY <2>16 DEF RequeueFailed, RequeueRow
  <2>17. CASE ParkFailed(d)
    BY <2>17 DEF ParkFailed, UpdateStatus, UpdateErr
  <2>18. CASE AutoPause(d)
    BY <2>18 DEF AutoPause
  <2>19. CASE Release(d)
    BY <2>19 DEF Release
  <2> QED
    BY <1>2, <2>1, <2>2, <2>3, <2>4, <2>5, <2>6, <2>7, <2>8, <2>9, <2>10,
       <2>11, <2>12, <2>13, <2>14, <2>15, <2>16, <2>17, <2>18, <2>19
       DEF RunnerStep
<1>10. ASSUME NEW d \in Dest, RunnerFault(d) PROVE TypeInv'
  <2>1. CASE RowDropped(d)
    BY <2>1 DEF RowDropped
  <2>2. CASE RetryDropped(d)
    BY <2>2 DEF RetryDropped
  <2>3. CASE PauseDropped(d)
    BY <2>3 DEF PauseDropped
  <2>4. CASE TempKept(d)
    BY <2>4 DEF TempKept, AfterError
  <2>5. CASE RunnerReturns(d)
    BY <2>5 DEF RunnerReturns
  <2> QED
    BY <1>10, <2>1, <2>2, <2>3, <2>4, <2>5 DEF RunnerFault
<1>3. ASSUME NEW r \in Request, CancelReads(r) PROVE TypeInv'
  BY <1>3 DEF CancelReads
<1>4. ASSUME NEW r \in Request, RequestStep(r) PROVE TypeInv'
  <2>1. CASE CancelSignals(r)
    BY <2>1 DEF CancelSignals
  <2>2. CASE CancelSeesStop(r)
    BY <2>2 DEF CancelSeesStop
  <2>3. CASE CancelTimesOut(r)
    BY <2>3 DEF CancelTimesOut
  <2>4. CASE CancelDeletes(r)
    BY <2>4 DEF CancelDeletes, DeleteRow
  <2>5. CASE CancelDrops(r)
    BY <2>5 DEF CancelDrops, DeleteRow
  <2> QED
    BY <1>4, <2>1, <2>2, <2>3, <2>4, <2>5 DEF RequestStep
<1>5. ASSUME NEW j \in Job,
             \/ Enqueue(j) \/ PauseJob(j) \/ ResumeJob(j)
             \/ RetryJob(j) \/ SkipJob(j)
      PROVE TypeInv'
  BY <1>5 DEF Enqueue, PauseJob, ResumeJob, RetryJob, SkipJob, DeleteRow, UserOp
<1>6. ASSUME NEW p \in BOOLEAN, SetPaused(p) PROVE TypeInv'
  BY <1>6 DEF SetPaused, UserOp
<1>7. CASE Shutdown
  BY <1>7 DEF Shutdown
<1>8. CASE Die
  <2>1. TypeOK'
    <3>1. rpc' \in [Request -> {"idle", "lost"}]
      BY <1>8 DEF Die
    <3>2. /\ pc' \in [Dest -> {"down"}]
          /\ cur' \in [Dest -> {None}] /\ ahead' \in [Dest -> {None}]
          /\ token' \in [Dest -> {"none"}] /\ why' \in [Dest -> {"none"}]
          /\ restarts' \in Nat
      BY <1>8 DEF Die
    <3>3. stopping' \in BOOLEAN
      BY <1>8 DEF Die
    <3>4. /\ UNCHANGED <<rows, paused, disk, rjob, ops, faults>>
          /\ alarm' \subseteq alarm
      BY <1>8 DEF Die
    <3> QED
      BY <3>1, <3>2, <3>3, <3>4
  <2>2. RequestHasJob' /\ RunnerHasJob'
    BY <1>8 DEF Die
  <2> QED
    BY <2>1, <2>2
<1>9. CASE UNCHANGED vars
  BY <1>9
<1> QED
  BY <1>1, <1>2, <1>3, <1>4, <1>5, <1>6, <1>7, <1>8, <1>9, <1>10 DEF Next

(* The columns, the disk and the runners keep their types, and TypeInv is   *)
(* an invariant.                                                            *)
THEOREM TypeCorrect == Spec => []TypeOK
<1>1. TypeInv => TypeOK
  BY DEF TypeInv
<1> QED
  BY InitTyped, StepTyped, <1>1, PTL DEF Spec

-----------------------------------------------------------------------------
(* The row a runner works on is running, or was deleted under it by a       *)
(* cancel that saw an earlier run of it stop. It is not one given up.       *)
WorkedRow ==
    \A d \in Dest : pc[d] \in Working => /\ status[cur[d]] \in {"running", "gone"}
                                        /\ cur[d] \notin stuck

(* A row that a failed statement left behind is running.                    *)
StuckRuns == \A j \in stuck : status[j] = "running"

(* The inductive invariant behind OneRunningPerDest: a runner claims a row  *)
(* only where no row of its destination is running, which needs both that   *)
(* running rows have an owner and that recover left none behind.            *)
RowInv == WorkedRow /\ StuckRuns /\ RunningRowOwned /\ OneRunningPerDest

LEMMA StepOwned == TypeInv /\ RowInv /\ [Next]_vars => RowInv'
<1> SUFFICES ASSUME TypeInv, RowInv, [Next]_vars PROVE RowInv'
  OBVIOUS
<1> USE DEF TypeInv, TypeOK, RequestHasJob, RunnerHasJob,
            RowInv, WorkedRow, StuckRuns, RunningRowOwned, OneRunningPerDest
<1>1. ASSUME NEW d \in Dest, Spawn(d) PROVE RowInv'
  BY <1>1 DEF Spawn
<1>2. ASSUME NEW d \in Dest, RunnerStep(d) PROVE RowInv'
  <2>1. CASE RecoverRow(d)
    <3>1. WorkedRow'
      BY <2>1 DEF RecoverRow, RequeueRow
    <3>2. RunningRowOwned'
      BY <2>1 DEF RecoverRow, RequeueRow
    <3>3. OneRunningPerDest' /\ StuckRuns'
      BY <2>1 DEF RecoverRow, RequeueRow
    <3> QED
      BY <3>1, <3>2, <3>3
  <2>2. CASE Recovered(d)
    BY <2>2 DEF Recovered, Swept
  <2>3. CASE Poll(d)
    BY <2>3 DEF Poll
  <2>4. CASE Select(d)
    BY <2>4 DEF Select
  <2>5. CASE ClaimRow(d)
    BY <2>5 DEF ClaimRow
  <2>6. CASE ClaimLost(d)
    BY <2>6 DEF ClaimLost
  <2>7. CASE Prepared(d)
    BY <2>7 DEF Prepared, PeekAhead
  <2>8. CASE PrepareFails(d)
    BY <2>8 DEF PrepareFails, PeekAhead
  <2>9. CASE WriteStops(d)
    BY <2>9 DEF WriteStops, AfterError
  <2>10. CASE WriteCommits(d)
    BY <2>10 DEF WriteCommits
  <2>11. CASE VerifyPasses(d)
    BY <2>11 DEF VerifyPasses
  <2>12. CASE VerifyFails(d)
    BY <2>12 DEF VerifyFails, AfterError
  <2>13. CASE Finish(d)
    <3>1. WorkedRow'
      BY <2>13 DEF Finish, UpdateStatus, UpdateErr
    <3>2. RunningRowOwned'
      BY <2>13 DEF Finish, UpdateStatus, UpdateErr
    <3>3. OneRunningPerDest' /\ StuckRuns'
      BY <2>13 DEF Finish, UpdateStatus, UpdateErr
    <3> QED
      BY <3>1, <3>2, <3>3
  <2>14. CASE RequeueCancelled(d)
    <3>1. WorkedRow'
      BY <2>14 DEF RequeueCancelled, RequeueRow, Requeueable
    <3>2. RunningRowOwned'
      BY <2>14 DEF RequeueCancelled, RequeueRow, Requeueable
    <3>3. OneRunningPerDest' /\ StuckRuns'
      BY <2>14 DEF RequeueCancelled, RequeueRow, Requeueable
    <3> QED
      BY <3>1, <3>2, <3>3
  <2>15. CASE CountAttempt(d)
    BY <2>15 DEF CountAttempt
  <2>16. CASE RequeueFailed(d)
    <3>1. WorkedRow'
      BY <2>16 DEF RequeueFailed, RequeueRow, Requeueable
    <3>2. RunningRowOwned'
      BY <2>16 DEF RequeueFailed, RequeueRow, Requeueable
    <3>3. OneRunningPerDest' /\ StuckRuns'
      BY <2>16 DEF RequeueFailed, RequeueRow, Requeueable
    <3> QED
      BY <3>1, <3>2, <3>3
  <2>17. CASE ParkFailed(d)
    <3>1. WorkedRow'
      BY <2>17 DEF ParkFailed, UpdateStatus, UpdateErr
    <3>2. RunningRowOwned'
      BY <2>17 DEF ParkFailed, UpdateStatus, UpdateErr
    <3>3. OneRunningPerDest' /\ StuckRuns'
      BY <2>17 DEF ParkFailed, UpdateStatus, UpdateErr
    <3> QED
      BY <3>1, <3>2, <3>3
  <2>18. CASE AutoPause(d)
    BY <2>18 DEF AutoPause
  <2>19. CASE Release(d)
    BY <2>19 DEF Release
  <2> QED
    BY <1>2, <2>1, <2>2, <2>3, <2>4, <2>5, <2>6, <2>7, <2>8, <2>9, <2>10,
       <2>11, <2>12, <2>13, <2>14, <2>15, <2>16, <2>17, <2>18, <2>19
       DEF RunnerStep
<1>10. ASSUME NEW d \in Dest, RunnerFault(d) PROVE RowInv'
  <2>1. CASE RowDropped(d)
    BY <2>1 DEF RowDropped
  <2>2. CASE RetryDropped(d)
    BY <2>2 DEF RetryDropped
  <2>3. CASE PauseDropped(d)
    BY <2>3 DEF PauseDropped
  <2>4. CASE TempKept(d)
    BY <2>4 DEF TempKept, AfterError
  <2>5. CASE RunnerReturns(d)
    BY <2>5 DEF RunnerReturns
  <2> QED
    BY <1>10, <2>1, <2>2, <2>3, <2>4, <2>5 DEF RunnerFault
<1>3. ASSUME NEW r \in Request, CancelReads(r) PROVE RowInv'
  BY <1>3 DEF CancelReads
<1>4. ASSUME NEW r \in Request, RequestStep(r) PROVE RowInv'
  <2>1. CASE CancelSignals(r) \/ CancelSeesStop(r) \/ CancelTimesOut(r)
    BY <2>1 DEF CancelSignals, CancelSeesStop, CancelTimesOut
  <2>2. CASE CancelDeletes(r)
    <3>1. WorkedRow'
      BY <2>2 DEF CancelDeletes, DeleteRow
    <3>2. RunningRowOwned'
      BY <2>2 DEF CancelDeletes, DeleteRow
    <3>3. OneRunningPerDest' /\ StuckRuns'
      BY <2>2 DEF CancelDeletes, DeleteRow
    <3> QED
      BY <3>1, <3>2, <3>3
  <2>3. CASE CancelDrops(r)
    <3>1. WorkedRow'
      BY <2>3 DEF CancelDrops, DeleteRow
    <3>2. RunningRowOwned'
      BY <2>3 DEF CancelDrops, DeleteRow
    <3>3. OneRunningPerDest' /\ StuckRuns'
      BY <2>3 DEF CancelDrops, DeleteRow
    <3> QED
      BY <3>1, <3>2, <3>3
  <2> QED
    BY <1>4, <2>1, <2>2, <2>3 DEF RequestStep
<1>5. ASSUME NEW j \in Job,
             \/ Enqueue(j) \/ PauseJob(j) \/ ResumeJob(j)
             \/ RetryJob(j) \/ SkipJob(j)
      PROVE RowInv'
  BY <1>5 DEF Enqueue, PauseJob, ResumeJob, RetryJob, SkipJob, DeleteRow, UserOp
<1>6. ASSUME NEW p \in BOOLEAN, SetPaused(p) PROVE RowInv'
  BY <1>6 DEF SetPaused, UserOp
<1>7. CASE Shutdown
  BY <1>7 DEF Shutdown
<1>8. CASE Die
  BY <1>8 DEF Die
<1>9. CASE UNCHANGED vars
  BY <1>9
<1> QED
  BY <1>1, <1>2, <1>3, <1>4, <1>5, <1>6, <1>7, <1>8, <1>9, <1>10 DEF Next

LEMMA InitOwned == Init => RowInv
BY DEF Init, RowInv, WorkedRow, StuckRuns, RunningRowOwned, OneRunningPerDest

(* The invariant the other proofs start from.                               *)
LEMMA Inductive == Spec => [](TypeInv /\ RowInv)
BY InitTyped, InitOwned, StepTyped, StepOwned, PTL DEF Spec

(* At most one running row per destination beside those a failed statement  *)
(* left running, for any number of jobs, destinations, cancel requests,     *)
(* operations, faults and crashes.                                          *)
THEOREM OneRunning == Spec => []OneRunningPerDest
<1>1. RowInv => OneRunningPerDest
  BY DEF RowInv
<1> QED
  BY Inductive, <1>1, PTL

(* The executor walks away from a row it claimed only where a statement     *)
(* about that row failed.                                                   *)
THEOREM RunningOwned == Spec => []RunningRowOwned
<1>1. RowInv => RunningRowOwned
  BY DEF RowInv
<1> QED
  BY Inductive, <1>1, PTL

-----------------------------------------------------------------------------
(* A runner about to record success holds a verified output, and one past   *)
(* the write no partial chunk.                                              *)
FinishHoldsGood ==
    \A d \in Dest :
       /\ pc[d] = "finish" => final[cur[d]] = "good"
       /\ pc[d] \in {"verify", "finish"} => "chunk" \notin temp[cur[d]]

DiskInv == FinishHoldsGood /\ DoneIsVerified /\ NoOrphanTemp

LEMMA StepDisk == TypeInv /\ RowInv /\ DiskInv /\ [Next]_vars => DiskInv'
<1> SUFFICES ASSUME TypeInv, RowInv, DiskInv, [Next]_vars PROVE DiskInv'
  OBVIOUS
<1> USE DEF TypeInv, TypeOK, RequestHasJob, RunnerHasJob, RowInv, WorkedRow, StuckRuns,
            DiskInv, FinishHoldsGood, DoneIsVerified, NoOrphanTemp
<1>1. ASSUME NEW d \in Dest, Spawn(d) PROVE DiskInv'
  BY <1>1 DEF Spawn
<1>2. ASSUME NEW d \in Dest, RunnerStep(d) PROVE DiskInv'
  <2>1. CASE RecoverRow(d)
    BY <2>1 DEF RecoverRow, RequeueRow
  <2>2. CASE Recovered(d)
    <3>1. \A j \in Job : /\ temp'[j] \subseteq temp[j]
                         /\ "temp" \in temp'[j] => DestOf[j] # d
      BY <2>2 DEF Recovered, Swept
    <3>2. /\ UNCHANGED <<status, final, cur>>
          /\ \A e \in Dest : e # d => pc'[e] = pc[e]
          /\ pc'[d] = "poll"
      BY <2>2 DEF Recovered, Swept
    <3> QED
      BY <3>1, <3>2
  <2>3. CASE Poll(d)
    BY <2>3 DEF Poll
  <2>4. CASE Select(d)
    BY <2>4 DEF Select
  <2>5. CASE ClaimRow(d)
    BY <2>5 DEF ClaimRow
  <2>6. CASE ClaimLost(d)
    BY <2>6 DEF ClaimLost
  <2>7. CASE Prepared(d)
    BY <2>7 DEF Prepared, PeekAhead
  <2>8. CASE PrepareFails(d)
    BY <2>8 DEF PrepareFails, PeekAhead
  <2>9. CASE WriteStops(d)
    BY <2>9 DEF WriteStops, AfterError
  <2>10. CASE WriteCommits(d)
    BY <2>10 DEF WriteCommits
  <2>11. CASE VerifyPasses(d)
    BY <2>11 DEF VerifyPasses
  <2>12. CASE VerifyFails(d)
    BY <2>12 DEF VerifyFails, AfterError
  <2>13. CASE Finish(d)
    BY <2>13 DEF Finish, UpdateStatus, UpdateErr
  <2>14. CASE RequeueCancelled(d)
    BY <2>14 DEF RequeueCancelled, RequeueRow, Requeueable
  <2>15. CASE CountAttempt(d)
    BY <2>15 DEF CountAttempt
  <2>16. CASE RequeueFailed(d)
    BY <2>16 DEF RequeueFailed, RequeueRow, Requeueable
  <2>17. CASE ParkFailed(d)
    BY <2>17 DEF ParkFailed, UpdateStatus, UpdateErr
  <2>18. CASE AutoPause(d)
    BY <2>18 DEF AutoPause
  <2>19. CASE Release(d)
    BY <2>19 DEF Release
  <2> QED
    BY <1>2, <2>1, <2>2, <2>3, <2>4, <2>5, <2>6, <2>7, <2>8, <2>9, <2>10,
       <2>11, <2>12, <2>13, <2>14, <2>15, <2>16, <2>17, <2>18, <2>19
       DEF RunnerStep
<1>10. ASSUME NEW d \in Dest, RunnerFault(d) PROVE DiskInv'
  <2>1. CASE RowDropped(d)
    BY <2>1 DEF RowDropped
  <2>2. CASE RetryDropped(d)
    BY <2>2 DEF RetryDropped
  <2>3. CASE PauseDropped(d)
    BY <2>3 DEF PauseDropped
  <2>4. CASE TempKept(d)
    BY <2>4 DEF TempKept, AfterError
  <2>5. CASE RunnerReturns(d)
    BY <2>5 DEF RunnerReturns
  <2> QED
    BY <1>10, <2>1, <2>2, <2>3, <2>4, <2>5 DEF RunnerFault
<1>3. ASSUME NEW r \in Request, CancelReads(r) PROVE DiskInv'
  BY <1>3 DEF CancelReads
<1>4. ASSUME NEW r \in Request, RequestStep(r) PROVE DiskInv'
  <2>1. CASE CancelSignals(r) \/ CancelSeesStop(r) \/ CancelTimesOut(r)
    BY <2>1 DEF CancelSignals, CancelSeesStop, CancelTimesOut
  <2>2. CASE CancelDeletes(r)
    BY <2>2 DEF CancelDeletes, DeleteRow
  <2>3. CASE CancelDrops(r)
    BY <2>3 DEF CancelDrops, DeleteRow
  <2> QED
    BY <1>4, <2>1, <2>2, <2>3 DEF RequestStep
<1>5. ASSUME NEW j \in Job,
             \/ Enqueue(j) \/ PauseJob(j) \/ ResumeJob(j)
             \/ RetryJob(j) \/ SkipJob(j)
      PROVE DiskInv'
  BY <1>5 DEF Enqueue, PauseJob, ResumeJob, RetryJob, SkipJob, DeleteRow, UserOp
<1>6. ASSUME NEW p \in BOOLEAN, SetPaused(p) PROVE DiskInv'
  BY <1>6 DEF SetPaused, UserOp
<1>7. CASE Shutdown
  BY <1>7 DEF Shutdown
<1>8. CASE Die
  BY <1>8 DEF Die
<1>9. CASE UNCHANGED vars
  BY <1>9
<1> QED
  BY <1>1, <1>2, <1>3, <1>4, <1>5, <1>6, <1>7, <1>8, <1>9, <1>10 DEF Next

LEMMA OutputsInductive == Spec => []DiskInv
<1>1. Init => DiskInv
  BY DEF Init, DiskInv, FinishHoldsGood, DoneIsVerified, NoOrphanTemp
<1> QED
  BY Inductive, <1>1, StepDisk, PTL DEF Spec

(* A job is done only with a verified output at its final path.             *)
THEOREM OutputsSafe == Spec => []DoneIsVerified
<1>1. DiskInv => DoneIsVerified
  BY DEF DiskInv
<1> QED
  BY OutputsInductive, <1>1, PTL

(* A temp file has a writer, or a runner that will sweep before it writes,  *)
(* or could not be removed; a partial chunk is never one of a done job's.   *)
THEOREM TempsOwned == Spec => []NoOrphanTemp
<1>1. DiskInv => NoOrphanTemp
  BY DEF DiskInv
<1> QED
  BY OutputsInductive, <1>1, PTL

-----------------------------------------------------------------------------
(* Every step of the executor is a move of the abstract lifecycle, or       *)
(* leaves the statuses alone.                                               *)
LEMMA StepImplements == TypeInv /\ RowInv /\ [Next]_vars => [Lifecycle!Next]_(Lifecycle!columns)
<1> SUFFICES ASSUME TypeInv, RowInv, [Next]_vars PROVE [Lifecycle!Next]_(Lifecycle!columns)
  OBVIOUS
<1> USE DEF TypeInv, TypeOK, RequestHasJob, RunnerHasJob, RowInv, WorkedRow, StuckRuns,
            RunningRowOwned
<1> USE DEF Lifecycle!Next, Lifecycle!Move, Lifecycle!Enqueue, Lifecycle!Claim,
            Lifecycle!Succeed, Lifecycle!Park, Lifecycle!Requeue, Lifecycle!Retry,
            Lifecycle!Pause, Lifecycle!Resume, Lifecycle!Remove, Lifecycle!Status,
            Lifecycle!Abandon, Lifecycle!columns
<1>1. ASSUME NEW d \in Dest, Spawn(d) PROVE [Lifecycle!Next]_(Lifecycle!columns)
  BY <1>1 DEF Spawn
<1>2. ASSUME NEW d \in Dest, RunnerStep(d) PROVE [Lifecycle!Next]_(Lifecycle!columns)
  <2>1. CASE RecoverRow(d)
    BY <2>1 DEF RecoverRow, RequeueRow
  <2>2. CASE Recovered(d)
    BY <2>2 DEF Recovered, Swept
  <2>3. CASE Poll(d)
    BY <2>3 DEF Poll
  <2>4. CASE Select(d)
    BY <2>4 DEF Select
  <2>5. CASE ClaimRow(d)
    <3>1. Lifecycle!Claim(cur[d])
      BY <2>5 DEF ClaimRow
    <3> QED
      BY <2>5, <3>1 DEF ClaimRow
  <2>6. CASE ClaimLost(d)
    BY <2>6 DEF ClaimLost
  <2>7. CASE Prepared(d)
    BY <2>7 DEF Prepared, PeekAhead
  <2>8. CASE PrepareFails(d)
    BY <2>8 DEF PrepareFails, PeekAhead
  <2>9. CASE WriteStops(d)
    BY <2>9 DEF WriteStops, AfterError
  <2>10. CASE WriteCommits(d)
    BY <2>10 DEF WriteCommits
  <2>11. CASE VerifyPasses(d)
    BY <2>11 DEF VerifyPasses
  <2>12. CASE VerifyFails(d)
    BY <2>12 DEF VerifyFails, AfterError
  <2>13. CASE Finish(d)
    <3>0. stuck \ {cur[d]} = stuck /\ UNCHANGED stuck
      BY <2>13 DEF Finish
    <3>1. CASE status[cur[d]] = "running"
      BY <2>13, <3>0, <3>1 DEF Finish, UpdateStatus
    <3>2. CASE status[cur[d]] = "gone"
      BY <2>13, <3>0, <3>2 DEF Finish, UpdateStatus
    <3> QED
      BY <2>13, <3>1, <3>2 DEF Finish
  <2>14. CASE RequeueCancelled(d)
    BY <2>14 DEF RequeueCancelled, RequeueRow, Requeueable
  <2>15. CASE CountAttempt(d)
    BY <2>15 DEF CountAttempt
  <2>16. CASE RequeueFailed(d)
    BY <2>16 DEF RequeueFailed, RequeueRow, Requeueable
  <2>17. CASE ParkFailed(d)
    <3>0. stuck \ {cur[d]} = stuck /\ UNCHANGED stuck
      BY <2>17 DEF ParkFailed
    <3>1. CASE status[cur[d]] = "running"
      BY <2>17, <3>0, <3>1 DEF ParkFailed, UpdateStatus
    <3>2. CASE status[cur[d]] = "gone"
      BY <2>17, <3>0, <3>2 DEF ParkFailed, UpdateStatus
    <3> QED
      BY <2>17, <3>1, <3>2 DEF ParkFailed
  <2>18. CASE AutoPause(d)
    BY <2>18 DEF AutoPause
  <2>19. CASE Release(d)
    BY <2>19 DEF Release
  <2> QED
    BY <1>2, <2>1, <2>2, <2>3, <2>4, <2>5, <2>6, <2>7, <2>8, <2>9, <2>10,
       <2>11, <2>12, <2>13, <2>14, <2>15, <2>16, <2>17, <2>18, <2>19
       DEF RunnerStep
<1>10. ASSUME NEW d \in Dest, RunnerFault(d) PROVE [Lifecycle!Next]_(Lifecycle!columns)
  <2>1. CASE RowDropped(d)
    BY <2>1 DEF RowDropped
  <2>2. CASE RetryDropped(d)
    BY <2>2 DEF RetryDropped
  <2>3. CASE PauseDropped(d)
    BY <2>3 DEF PauseDropped
  <2>4. CASE TempKept(d)
    BY <2>4 DEF TempKept, AfterError
  <2>5. CASE RunnerReturns(d)
    <3>1. UNCHANGED status
      BY <2>5 DEF RunnerReturns
    <3>2. CASE \E j \in Job \ stuck : DestOf[j] = d /\ status[j] = "running"
      <4>1. PICK j \in Job \ stuck : DestOf[j] = d /\ status[j] = "running"
        BY <3>2
      <4>2. stuck' = stuck \cup {j}
        BY <2>5, <4>1 DEF RunnerReturns, OneRunningPerDest
      <4>3. Lifecycle!Abandon(j)
        BY <3>1, <4>1, <4>2
      <4> QED
        BY <4>3
    <3>3. CASE ~ \E j \in Job \ stuck : DestOf[j] = d /\ status[j] = "running"
      <4>1. stuck' = stuck
        BY <2>5, <3>3 DEF RunnerReturns
      <4> QED
        BY <3>1, <4>1
    <3> QED
      BY <3>2, <3>3
  <2> QED
    BY <1>10, <2>1, <2>2, <2>3, <2>4, <2>5 DEF RunnerFault
<1>3. ASSUME NEW r \in Request, CancelReads(r) PROVE [Lifecycle!Next]_(Lifecycle!columns)
  BY <1>3 DEF CancelReads
<1>4. ASSUME NEW r \in Request, RequestStep(r) PROVE [Lifecycle!Next]_(Lifecycle!columns)
  <2>1. CASE CancelSignals(r) \/ CancelSeesStop(r) \/ CancelTimesOut(r)
    BY <2>1 DEF CancelSignals, CancelSeesStop, CancelTimesOut
  <2>2. CASE CancelDeletes(r)
    <3>1. CASE rjob[r] \in Rows
      <4>1. Lifecycle!Remove(rjob[r])
        BY <2>2, <3>1 DEF CancelDeletes, DeleteRow
      <4> QED
        BY <2>2, <4>1 DEF CancelDeletes
    <3>2. CASE rjob[r] \notin Rows
      BY <2>2, <3>2 DEF CancelDeletes, DeleteRow
    <3> QED
      BY <3>1, <3>2
  <2>3. CASE CancelDrops(r)
    BY <2>3 DEF CancelDrops, DeleteRow
  <2> QED
    BY <1>4, <2>1, <2>2, <2>3 DEF RequestStep
<1>5. ASSUME NEW j \in Job,
             \/ Enqueue(j) \/ PauseJob(j) \/ ResumeJob(j)
             \/ RetryJob(j) \/ SkipJob(j)
      PROVE [Lifecycle!Next]_(Lifecycle!columns)
  BY <1>5 DEF Enqueue, PauseJob, ResumeJob, RetryJob, SkipJob, DeleteRow, UserOp
<1>6. ASSUME NEW p \in BOOLEAN, SetPaused(p) PROVE [Lifecycle!Next]_(Lifecycle!columns)
  BY <1>6 DEF SetPaused, UserOp
<1>7. CASE Shutdown
  BY <1>7 DEF Shutdown
<1>8. CASE Die
  BY <1>8 DEF Die
<1>9. CASE UNCHANGED vars
  BY <1>9
<1> HIDE DEF TypeInv, RowInv, Lifecycle!Next, Lifecycle!columns
<1> QED
  BY <1>1, <1>2, <1>3, <1>4, <1>5, <1>6, <1>7, <1>8, <1>9, <1>10 DEF Next

(* The executor, its handlers, its shutdowns and its crashes implement the  *)
(* job lifecycle.                                                           *)
THEOREM Refinement == Spec => ImplementsLifecycle
<1>1. Init => Lifecycle!Init
  BY DEF Init, Lifecycle!Init
<1> QED
  BY Inductive, <1>1, StepImplements, PTL DEF Spec, ImplementsLifecycle, Lifecycle!Spec

-----------------------------------------------------------------------------
LEMMA StepRemoves == TypeInv /\ RowInv /\ [Next]_vars => RemovedByCancel
<1> SUFFICES ASSUME TypeInv, RowInv, [Next]_vars PROVE RemovedByCancel
  OBVIOUS
<1> USE DEF TypeInv, TypeOK, RequestHasJob, RunnerHasJob, RowInv, WorkedRow, StuckRuns,
            RemovedByCancel
<1>1. ASSUME NEW d \in Dest, Spawn(d) PROVE RemovedByCancel
  BY <1>1 DEF Spawn
<1>2. ASSUME NEW d \in Dest, RunnerStep(d) PROVE RemovedByCancel
  <2>1. CASE RecoverRow(d)
    BY <2>1 DEF RecoverRow, RequeueRow
  <2>2. CASE Recovered(d)
    BY <2>2 DEF Recovered, Swept
  <2>3. CASE Poll(d)
    BY <2>3 DEF Poll
  <2>4. CASE Select(d)
    BY <2>4 DEF Select
  <2>5. CASE ClaimRow(d)
    BY <2>5 DEF ClaimRow
  <2>6. CASE ClaimLost(d)
    BY <2>6 DEF ClaimLost
  <2>7. CASE Prepared(d)
    BY <2>7 DEF Prepared, PeekAhead
  <2>8. CASE PrepareFails(d)
    BY <2>8 DEF PrepareFails, PeekAhead
  <2>9. CASE WriteStops(d)
    BY <2>9 DEF WriteStops, AfterError
  <2>10. CASE WriteCommits(d)
    BY <2>10 DEF WriteCommits
  <2>11. CASE VerifyPasses(d)
    BY <2>11 DEF VerifyPasses
  <2>12. CASE VerifyFails(d)
    BY <2>12 DEF VerifyFails, AfterError
  <2>13. CASE Finish(d)
    BY <2>13 DEF Finish, UpdateStatus, UpdateErr
  <2>14. CASE RequeueCancelled(d)
    BY <2>14 DEF RequeueCancelled, RequeueRow, Requeueable
  <2>15. CASE CountAttempt(d)
    BY <2>15 DEF CountAttempt
  <2>16. CASE RequeueFailed(d)
    BY <2>16 DEF RequeueFailed, RequeueRow, Requeueable
  <2>17. CASE ParkFailed(d)
    BY <2>17 DEF ParkFailed, UpdateStatus, UpdateErr
  <2>18. CASE AutoPause(d)
    BY <2>18 DEF AutoPause
  <2>19. CASE Release(d)
    BY <2>19 DEF Release
  <2> QED
    BY <1>2, <2>1, <2>2, <2>3, <2>4, <2>5, <2>6, <2>7, <2>8, <2>9, <2>10,
       <2>11, <2>12, <2>13, <2>14, <2>15, <2>16, <2>17, <2>18, <2>19
       DEF RunnerStep
<1>10. ASSUME NEW d \in Dest, RunnerFault(d) PROVE RemovedByCancel
  <2>1. CASE RowDropped(d)
    BY <2>1 DEF RowDropped
  <2>2. CASE RetryDropped(d)
    BY <2>2 DEF RetryDropped
  <2>3. CASE PauseDropped(d)
    BY <2>3 DEF PauseDropped
  <2>4. CASE TempKept(d)
    BY <2>4 DEF TempKept, AfterError
  <2>5. CASE RunnerReturns(d)
    BY <2>5 DEF RunnerReturns
  <2> QED
    BY <1>10, <2>1, <2>2, <2>3, <2>4, <2>5 DEF RunnerFault
<1>3. ASSUME NEW r \in Request, CancelReads(r) PROVE RemovedByCancel
  BY <1>3 DEF CancelReads
<1>4. ASSUME NEW r \in Request, RequestStep(r) PROVE RemovedByCancel
  <2>1. CASE CancelSignals(r) \/ CancelSeesStop(r) \/ CancelTimesOut(r)
    BY <2>1 DEF CancelSignals, CancelSeesStop, CancelTimesOut
  <2>2. CASE CancelDeletes(r)
    BY <2>2 DEF CancelDeletes, DeleteRow
  <2>3. CASE CancelDrops(r)
    BY <2>3 DEF CancelDrops, DeleteRow
  <2> QED
    BY <1>4, <2>1, <2>2, <2>3 DEF RequestStep
<1>5. ASSUME NEW j \in Job,
             \/ Enqueue(j) \/ PauseJob(j) \/ ResumeJob(j)
             \/ RetryJob(j) \/ SkipJob(j)
      PROVE RemovedByCancel
  BY <1>5 DEF Enqueue, PauseJob, ResumeJob, RetryJob, SkipJob, DeleteRow, UserOp
<1>6. ASSUME NEW p \in BOOLEAN, SetPaused(p) PROVE RemovedByCancel
  BY <1>6 DEF SetPaused, UserOp
<1>7. CASE Shutdown
  BY <1>7 DEF Shutdown
<1>8. CASE Die
  BY <1>8 DEF Die
<1>9. CASE UNCHANGED vars
  BY <1>9
<1> QED
  BY <1>1, <1>2, <1>3, <1>4, <1>5, <1>6, <1>7, <1>8, <1>9, <1>10 DEF Next

(* No skip and no cancel deletes a row while it runs, except a cancel that  *)
(* waited for a run of it to stop.                                          *)
THEOREM RunningRowsSurvive == Spec => OnlyCancelRemovesRunning
<1>1. TypeInv /\ RowInv /\ [Next]_vars => [RemovedByCancel]_vars
  BY StepRemoves
<1> QED
  BY Inductive, <1>1, StepRemoves, PTL DEF Spec, OnlyCancelRemovesRunning

-----------------------------------------------------------------------------
(* A destination with an alarm is about to pause the queue, or has paused   *)
(* it and looks for no job.                                                 *)
HaltInv == \A d \in alarm : \/ pc[d] = "pause"
                            \/ paused /\ pc[d] \notin {"select", "claim"}

(* No job starts where one was parked.                                      *)
NoneSkipped == \A j \in Job : status[j] = "pending" /\ status'[j] = "running" =>
                                  DestOf[j] \notin alarm

LEMMA StepHalts == TypeInv /\ HaltInv /\ [Next]_vars => HaltInv'
<1> SUFFICES ASSUME TypeInv, HaltInv, [Next]_vars PROVE HaltInv'
  OBVIOUS
<1> USE DEF TypeInv, TypeOK, RunnerHasJob, HaltInv
<1>1. ASSUME NEW d \in Dest, Spawn(d) PROVE HaltInv'
  BY <1>1 DEF Spawn
<1>2. ASSUME NEW d \in Dest, RunnerStep(d) PROVE HaltInv'
  <2>1. CASE RecoverRow(d)
    BY <2>1 DEF RecoverRow, RequeueRow
  <2>2. CASE Recovered(d)
    BY <2>2 DEF Recovered, Swept
  <2>3. CASE Poll(d)
    BY <2>3 DEF Poll
  <2>4. CASE Select(d)
    BY <2>4 DEF Select
  <2>5. CASE ClaimRow(d)
    BY <2>5 DEF ClaimRow
  <2>6. CASE ClaimLost(d)
    BY <2>6 DEF ClaimLost
  <2>7. CASE Prepared(d)
    BY <2>7 DEF Prepared
  <2>8. CASE PrepareFails(d)
    BY <2>8 DEF PrepareFails
  <2>9. CASE WriteStops(d)
    BY <2>9 DEF WriteStops, AfterError
  <2>10. CASE WriteCommits(d)
    BY <2>10 DEF WriteCommits
  <2>11. CASE VerifyPasses(d)
    BY <2>11 DEF VerifyPasses
  <2>12. CASE VerifyFails(d)
    BY <2>12 DEF VerifyFails, AfterError
  <2>13. CASE Finish(d)
    BY <2>13 DEF Finish, UpdateStatus
  <2>14. CASE RequeueCancelled(d)
    BY <2>14 DEF RequeueCancelled, RequeueRow
  <2>15. CASE CountAttempt(d)
    BY <2>15 DEF CountAttempt
  <2>16. CASE RequeueFailed(d)
    BY <2>16 DEF RequeueFailed, RequeueRow
  <2>17. CASE ParkFailed(d)
    BY <2>17 DEF ParkFailed, UpdateStatus
  <2>18. CASE AutoPause(d)
    BY <2>18 DEF AutoPause
  <2>19. CASE Release(d)
    BY <2>19 DEF Release
  <2> QED
    BY <1>2, <2>1, <2>2, <2>3, <2>4, <2>5, <2>6, <2>7, <2>8, <2>9, <2>10,
       <2>11, <2>12, <2>13, <2>14, <2>15, <2>16, <2>17, <2>18, <2>19
       DEF RunnerStep
<1>10. ASSUME NEW d \in Dest, RunnerFault(d) PROVE HaltInv'
  <2>1. CASE RowDropped(d)
    BY <2>1 DEF RowDropped
  <2>2. CASE RetryDropped(d)
    BY <2>2 DEF RetryDropped
  <2>3. CASE PauseDropped(d)
    BY <2>3 DEF PauseDropped
  <2>4. CASE TempKept(d)
    BY <2>4 DEF TempKept, AfterError
  <2>5. CASE RunnerReturns(d)
    BY <2>5 DEF RunnerReturns
  <2> QED
    BY <1>10, <2>1, <2>2, <2>3, <2>4, <2>5 DEF RunnerFault
<1>3. ASSUME NEW r \in Request, CancelReads(r) \/ RequestStep(r) PROVE HaltInv'
  BY <1>3 DEF CancelReads, RequestStep, CancelSignals, CancelSeesStop, CancelTimesOut,
              CancelDeletes, CancelDrops
<1>5. ASSUME NEW j \in Job,
             \/ Enqueue(j) \/ PauseJob(j) \/ ResumeJob(j)
             \/ RetryJob(j) \/ SkipJob(j)
      PROVE HaltInv'
  BY <1>5 DEF Enqueue, PauseJob, ResumeJob, RetryJob, SkipJob, UserOp
<1>6. ASSUME NEW p \in BOOLEAN, SetPaused(p) PROVE HaltInv'
  BY <1>6 DEF SetPaused, UserOp
<1>7. CASE Shutdown
  BY <1>7 DEF Shutdown
<1>8. CASE Die
  BY <1>8 DEF Die
<1>9. CASE UNCHANGED vars
  BY <1>9
<1> QED
  BY <1>1, <1>2, <1>3, <1>5, <1>6, <1>7, <1>8, <1>9, <1>10 DEF Next

LEMMA StepSkipsNone == TypeInv /\ HaltInv /\ [Next]_vars => NoneSkipped
<1> SUFFICES ASSUME TypeInv, HaltInv, [Next]_vars PROVE NoneSkipped
  OBVIOUS
<1> USE DEF TypeInv, TypeOK, RunnerHasJob, RequestHasJob, NoneSkipped
<1>1. ASSUME NEW d \in Dest, Spawn(d) PROVE NoneSkipped
  BY <1>1 DEF Spawn
<1>2. ASSUME NEW d \in Dest, RunnerStep(d) PROVE NoneSkipped
  <2>1. CASE RecoverRow(d)
    BY <2>1 DEF RecoverRow, RequeueRow
  <2>2. CASE Recovered(d)
    BY <2>2 DEF Recovered, Swept
  <2>3. CASE Poll(d)
    BY <2>3 DEF Poll
  <2>4. CASE Select(d)
    BY <2>4 DEF Select
  <2>5. CASE ClaimRow(d)
    BY <2>5 DEF ClaimRow, HaltInv
  <2>6. CASE ClaimLost(d)
    BY <2>6 DEF ClaimLost
  <2>7. CASE Prepared(d)
    BY <2>7 DEF Prepared
  <2>8. CASE PrepareFails(d)
    BY <2>8 DEF PrepareFails
  <2>9. CASE WriteStops(d)
    BY <2>9 DEF WriteStops, AfterError
  <2>10. CASE WriteCommits(d)
    BY <2>10 DEF WriteCommits
  <2>11. CASE VerifyPasses(d)
    BY <2>11 DEF VerifyPasses
  <2>12. CASE VerifyFails(d)
    BY <2>12 DEF VerifyFails, AfterError
  <2>13. CASE Finish(d)
    BY <2>13 DEF Finish, UpdateStatus
  <2>14. CASE RequeueCancelled(d)
    BY <2>14 DEF RequeueCancelled, RequeueRow
  <2>15. CASE CountAttempt(d)
    BY <2>15 DEF CountAttempt
  <2>16. CASE RequeueFailed(d)
    BY <2>16 DEF RequeueFailed, RequeueRow
  <2>17. CASE ParkFailed(d)
    BY <2>17 DEF ParkFailed, UpdateStatus
  <2>18. CASE AutoPause(d)
    BY <2>18 DEF AutoPause
  <2>19. CASE Release(d)
    BY <2>19 DEF Release
  <2> QED
    BY <1>2, <2>1, <2>2, <2>3, <2>4, <2>5, <2>6, <2>7, <2>8, <2>9, <2>10,
       <2>11, <2>12, <2>13, <2>14, <2>15, <2>16, <2>17, <2>18, <2>19
       DEF RunnerStep
<1>10. ASSUME NEW d \in Dest, RunnerFault(d) PROVE NoneSkipped
  <2>1. CASE RowDropped(d)
    BY <2>1 DEF RowDropped
  <2>2. CASE RetryDropped(d)
    BY <2>2 DEF RetryDropped
  <2>3. CASE PauseDropped(d)
    BY <2>3 DEF PauseDropped
  <2>4. CASE TempKept(d)
    BY <2>4 DEF TempKept, AfterError
  <2>5. CASE RunnerReturns(d)
    BY <2>5 DEF RunnerReturns
  <2> QED
    BY <1>10, <2>1, <2>2, <2>3, <2>4, <2>5 DEF RunnerFault
<1>3. ASSUME NEW r \in Request, CancelReads(r) \/ RequestStep(r) PROVE NoneSkipped
  BY <1>3 DEF CancelReads, RequestStep, CancelSignals, CancelSeesStop, CancelTimesOut,
              CancelDeletes, CancelDrops, DeleteRow
<1>5. ASSUME NEW j \in Job,
             \/ Enqueue(j) \/ PauseJob(j) \/ ResumeJob(j)
             \/ RetryJob(j) \/ SkipJob(j)
      PROVE NoneSkipped
  BY <1>5 DEF Enqueue, PauseJob, ResumeJob, RetryJob, SkipJob, DeleteRow, UserOp
<1>6. ASSUME NEW p \in BOOLEAN, SetPaused(p) PROVE NoneSkipped
  BY <1>6 DEF SetPaused, UserOp
<1>7. CASE Shutdown \/ Die
  BY <1>7 DEF Shutdown, Die
<1>9. CASE UNCHANGED vars
  BY <1>9
<1> QED
  BY <1>1, <1>2, <1>3, <1>5, <1>6, <1>7, <1>9, <1>10 DEF Next

(* Once a job of a destination is parked it starts no other before the user *)
(* resumes the queue, whatever jobs, destinations, faults and user          *)
(* operations there are, unless the pausing itself fails or the process     *)
(* dies before it (fail, SetPaused).                                        *)
THEOREM ErrorsHalt == Spec => ErrorHaltsQueue
<1>1. Init => HaltInv
  BY DEF Init, HaltInv
<1>2. TypeInv /\ HaltInv /\ [Next]_vars => [NoneSkipped]_vars
  BY StepSkipsNone
<1>3. [][NoneSkipped]_vars => ErrorHaltsQueue
  BY PTL DEF NoneSkipped, ErrorHaltsQueue
<1> QED
  BY Inductive, <1>1, <1>2, <1>3, StepHalts, PTL DEF Spec
=============================================================================
