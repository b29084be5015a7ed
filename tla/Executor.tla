------------------------------ MODULE Executor ------------------------------
(***************************************************************************)
(* The job table, the per-destination runner that drains it, and the HTTP  *)
(* handlers that act on it, inside one process that may be shut down or    *)
(* killed and started again. Every SQL statement is one step: the store    *)
(* uses no transaction, so anything may happen between two of them. The    *)
(* jobs."order" column is left out: an enqueue or a reorder rewrites it    *)
(* row by row, so here any pending row may be the one that sorts first.    *)
(* Any statement of the runner may fail; where the code drops the error    *)
(* the runner goes on as if it had succeeded. Each job has a final path of *)
(* its own (Ps1Outputs has jobs that share one). The lease another process *)
(* would contend for is module DestLease.                                  *)
(***************************************************************************)
EXTENDS Naturals

CONSTANTS Job,          \* job ids (AUTOINCREMENT: never reused)
          Dest,         \* destination paths, one runner each
          DestOf,       \* the destination of each job
          Split,        \* the jobs of kind split_and_copy
          Request,      \* cancel requests, each served by its own handler
          MaxAttempts,  \* failed tries before a job is parked
          MaxOps,       \* bound: one-statement user operations
          MaxRestarts,  \* bound: process deaths
          MaxFaults,    \* bound: failed statements and removals
          None          \* no job

ASSUME ExecutorAssumption ==
    /\ DestOf \in [Job -> Dest]
    /\ MaxAttempts \in Nat \ {0}
    /\ Split \subseteq Job
    /\ MaxOps \in Nat /\ MaxRestarts \in Nat /\ MaxFaults \in Nat
    /\ None \notin Job

VARIABLES
    status,    \* jobs.status: "new" before the insert, "gone" after a delete
    attempts,  \* jobs.attempt_count
    err,       \* jobs.error, by what failed
    paused,    \* queue_state.paused, the whole-queue flag
    stuck,     \* history: running rows that a failed statement left behind
    temp,      \* job -> the kinds of partial output of it on the destination
    final,     \* job -> what its final path holds
    pc,        \* where each runner is
    cur,       \* the job each runner selected or claimed
    ahead,     \* the job each runner is preparing in the background
    token,     \* Executor.cancels: the running job's cancel function
    why,       \* the error a runner is recording
    stopping,  \* the process context is done
    rpc, rjob, \* where each cancel request is, and its job
    alarm,     \* history: destinations that parked a job and pause the queue
    ops, restarts, faults

rows  == <<status, attempts, err, stuck>>
disk  == <<temp, final>>
loop  == <<pc, cur, ahead, token, why>>
reqs  == <<rpc, rjob>>
env   == <<stopping, ops, restarts, faults>>
vars  == <<rows, paused, disk, loop, reqs, alarm, env>>

Status == {"new", "pending", "running", "paused", "error", "done", "gone"}
Cause  == {"none", "prepare", "context", "write"}

(* Copies, conversions and ember copies stream into an .oplbm.* file, a     *)
(* split straight into the chunks. "kept": the file's removal failed.       *)
Partial == {"temp", "kept", "chunk"}

Rows         == {j \in Job : status[j] \notin {"new", "gone"}}
PendingOf(d) == {j \in Rows : DestOf[j] = d /\ status[j] = "pending"}

(* Locations where the runner of d works on the row it claimed ...          *)
Working == {"prepare", "write", "verify", "finish", "requeue",
            "fail", "retry", "park"}
(* ... and all of them. "down": no runner; "poll": the top of the loop.     *)
Location == {"down", "recover", "poll", "select", "claim", "pause", "release"}
               \cup Working

Init == /\ status = [j \in Job |-> "new"]
        /\ attempts = [j \in Job |-> 0]
        /\ err = [j \in Job |-> "none"]
        /\ paused = FALSE
        /\ stuck = {}
        /\ temp = [j \in Job |-> {}]
        /\ final = [j \in Job |-> "none"]
        /\ pc = [d \in Dest |-> "down"]
        /\ cur = [d \in Dest |-> None]
        /\ ahead = [d \in Dest |-> None]
        /\ token = [d \in Dest |-> "none"]
        /\ why = [d \in Dest |-> "none"]
        /\ stopping = FALSE
        /\ rpc = [r \in Request |-> "idle"]
        /\ rjob = [r \in Request |-> None]
        /\ alarm = {}
        /\ ops = 0
        /\ restarts = 0
        /\ faults = 0

-----------------------------------------------------------------------------
(* The store's statements. UPDATE ... WHERE id=? of a deleted row is a      *)
(* no-op that reports no error.                                             *)

Goto(d, l) == pc' = [pc EXCEPT ![d] = l]

UpdateStatus(j, to) ==
    status' = [status EXCEPT ![j] = IF j \in Rows THEN to ELSE @]

UpdateErr(j, e) ==
    err' = [err EXCEPT ![j] = IF j \in Rows THEN e ELSE @]

(* DELETE: the row's columns go with it.                                    *)
DeleteRow(j) == /\ status' = [status EXCEPT ![j] = IF j \in Rows THEN "gone" ELSE @]
                /\ attempts' = [attempts EXCEPT ![j] = 0]
                /\ err' = [err EXCEPT ![j] = "none"]
                /\ stuck' = stuck \ {j}

(* RequeueJob's row: everything back to pending except a done one.          *)
Requeueable(j) == j \in Rows /\ status[j] # "done"

RequeueRow(j) == /\ status' = [status EXCEPT ![j] = "pending"]
                 /\ err' = [err EXCEPT ![j] = "none"]
                 /\ stuck' = stuck \ {j}

(* Some error ended executeJob: a cancelled context requeues, else it fails. *)
ContextDone(d) == token[d] = "cancelled" \/ stopping

AfterError(d) ==
    /\ Goto(d, IF ContextDone(d) THEN "requeue" ELSE "fail")
    /\ why' = [why EXCEPT ![d] = "write"]

-----------------------------------------------------------------------------
(* The runner of destination d (RunDestination).                            *)

Spawn(d) == /\ pc[d] = "down" /\ ~stopping
            /\ Goto(d, "recover")
            /\ UNCHANGED <<rows, paused, disk, cur, ahead, token, why,
                           reqs, alarm, env>>

(* recover: rows a dead process left running go back to pending ...         *)
RecoverRow(d) ==
    /\ pc[d] = "recover"
    /\ \E j \in Job : /\ DestOf[j] = d /\ status[j] = "running"
                      /\ RequeueRow(j)
    /\ UNCHANGED <<attempts, paused, disk, loop, reqs, alarm, env>>

(* SweepStaleTemps deletes every .oplbm.* file; it knows nothing of chunks. *)
Swept(d) == [j \in Job |-> IF DestOf[j] = d THEN temp[j] \ {"temp", "kept"}
                                             ELSE temp[j]]

(* Mutant: the sweep and the loop start without waiting for recover.        *)
RecoveredEarly(d) ==
    /\ pc[d] = "recover"
    /\ temp' = Swept(d)
    /\ Goto(d, "poll")
    /\ UNCHANGED <<rows, paused, final, cur, ahead, token, why,
                   reqs, alarm, env>>

(* ... and then the temp files it left are swept.                           *)
Recovered(d) ==
    /\ pc[d] = "recover"
    /\ \A j \in Job : DestOf[j] = d => status[j] # "running"
    /\ temp' = Swept(d)
    /\ Goto(d, "poll")
    /\ UNCHANGED <<rows, paused, final, cur, ahead, token, why,
                   reqs, alarm, env>>

(* The top of the loop: a done context ends the runner, the pause flag      *)
(* keeps it here.                                                           *)
Poll(d) ==
    /\ pc[d] = "poll"
    /\ \/ stopping /\ Goto(d, "down") /\ ahead' = [ahead EXCEPT ![d] = None]
       \/ ~stopping /\ ~paused /\ Goto(d, "select") /\ UNCHANGED ahead
    /\ UNCHANGED <<rows, paused, disk, cur, token, why, reqs, alarm, env>>

(* NextPending: a SELECT, then an UPDATE guarded by the status.             *)
Select(d) ==
    /\ pc[d] = "select"
    /\ \/ /\ PendingOf(d) = {}
          /\ Goto(d, "poll") /\ UNCHANGED cur
       \/ \E j \in PendingOf(d) :
             Goto(d, "claim") /\ cur' = [cur EXCEPT ![d] = j]
    /\ UNCHANGED <<rows, paused, disk, ahead, token, why, reqs, alarm, env>>

(* Mutant: the UPDATE has no AND status='pending'.                          *)
ClaimAnyRow(d) ==
    LET j == cur[d] IN
    /\ pc[d] = "claim" /\ j \in Rows
    /\ status' = [status EXCEPT ![j] = "running"]
    /\ err' = [err EXCEPT ![j] = "none"]
    /\ Goto(d, "prepare")
    /\ UNCHANGED <<attempts, stuck, paused, disk, cur, ahead, token, why,
                   reqs, alarm, env>>

ClaimRow(d) ==
    LET j == cur[d] IN
    /\ pc[d] = "claim"
    /\ status[j] = "pending"
    /\ status' = [status EXCEPT ![j] = "running"]
    /\ err' = [err EXCEPT ![j] = "none"]
    /\ Goto(d, "prepare")
    /\ UNCHANGED <<attempts, stuck, paused, disk, cur, ahead, token, why,
                   reqs, alarm, env>>

(* Somebody else changed the row before the UPDATE, or deleted it before    *)
(* the SELECT that loads it.                                                *)
ClaimLost(d) ==
    /\ \/ pc[d] = "claim" /\ status[cur[d]] # "pending"
       \/ pc[d] = "prepare" /\ cur[d] \notin Rows
    /\ Goto(d, "poll")
    /\ cur' = [cur EXCEPT ![d] = None]
    /\ UNCHANGED <<rows, paused, disk, ahead, token, why, reqs, alarm, env>>

(* prepareAhead: peek at the next pending job, start planning it.           *)
PeekAhead(d) ==
    \E a \in IF PendingOf(d) = {} THEN {None} ELSE PendingOf(d) :
       ahead' = [ahead EXCEPT ![d] = a]

(* A plan is ready: executeJob registers the job's cancel function and the  *)
(* kind's write begins, with a temp file or (a split) by truncating the     *)
(* first chunk of whatever set is there.                                    *)
Prepared(d) ==
    LET j == cur[d] IN
    /\ pc[d] = "prepare"
    /\ PeekAhead(d)
    /\ token' = [token EXCEPT ![d] = "live"]
    /\ IF j \in Split
         THEN /\ temp' = [temp EXCEPT ![j] = @ \cup {"chunk"}]
              /\ final' = [final EXCEPT ![j] = "none"]
         ELSE temp' = [temp EXCEPT ![j] = @ \cup {"temp"}] /\ UNCHANGED final
    /\ Goto(d, "write")
    /\ UNCHANGED <<rows, paused, cur, why, reqs, alarm, env>>

(* No plan: the planner refused the source, or awaitPrep gave up waiting    *)
(* for a plan started ahead because the context is done.                    *)
PrepareFails(d) ==
    /\ pc[d] = "prepare"
    /\ PeekAhead(d)
    /\ \/ why' = [why EXCEPT ![d] = "prepare"]
       \/ /\ ahead[d] = cur[d] /\ stopping
          /\ why' = [why EXCEPT ![d] = "context"]
    /\ Goto(d, "fail")
    /\ UNCHANGED <<rows, paused, disk, cur, token, reqs, alarm, env>>

(* Mutant: the abort keeps the temp file.                                   *)
WriteStopsKeepingTemp(d) ==
    /\ pc[d] = "write"
    /\ AfterError(d)
    /\ UNCHANGED <<rows, paused, disk, cur, ahead, token, reqs, alarm, env>>

(* The stream stops on an I/O error or on a done context; either way the    *)
(* temp file goes. A split removes the chunks it had completed, never the   *)
(* one it was writing.                                                      *)
WriteStops(d) ==
    /\ pc[d] = "write"
    /\ temp' = [temp EXCEPT ![cur[d]] = @ \ {"temp"}]
    /\ AfterError(d)
    /\ UNCHANGED <<rows, paused, final, cur, ahead, token, reqs, alarm, env>>

(* The temp file is renamed into place, or the last chunk is complete and   *)
(* the record written. The medium may have corrupted the output, and a      *)
(* cancel may have come too late to be noticed.                             *)
WriteCommits(d) ==
    /\ pc[d] = "write"
    /\ temp' = [temp EXCEPT ![cur[d]] = @ \ {"temp", "chunk"}]
    /\ \E f \in {"good", "bad"} : final' = [final EXCEPT ![cur[d]] = f]
    /\ Goto(d, "verify")
    /\ UNCHANGED <<rows, paused, cur, ahead, token, why, reqs, alarm, env>>

(* Mutant: the hashes are not compared.                                     *)
VerifyNothing(d) ==
    /\ pc[d] = "verify"
    /\ Goto(d, "finish")
    /\ UNCHANGED <<rows, paused, disk, cur, ahead, token, why,
                   reqs, alarm, env>>

(* The read-back hash: a mismatch, or a read error, leaves the file (copy,  *)
(* split, ember) or removes it (convert).                                   *)
VerifyPasses(d) ==
    /\ pc[d] = "verify"
    /\ final[cur[d]] = "good"
    /\ Goto(d, "finish")
    /\ UNCHANGED <<rows, paused, disk, cur, ahead, token, why,
                   reqs, alarm, env>>

VerifyFails(d) ==
    /\ pc[d] = "verify"
    /\ \E f \in {final[cur[d]], "none"} : final' = [final EXCEPT ![cur[d]] = f]
    /\ AfterError(d)
    /\ UNCHANGED <<rows, paused, temp, cur, ahead, token, reqs, alarm, env>>

Finish(d) ==
    /\ pc[d] = "finish"
    /\ UpdateStatus(cur[d], "done")
    /\ UpdateErr(cur[d], "none")
    /\ Goto(d, "release")
    /\ UNCHANGED <<attempts, stuck, paused, disk, cur, ahead, token, why,
                   reqs, alarm, env>>

(* Mutant: a cancelled job is left as it is.                                *)
ForgetCancelled(d) ==
    /\ pc[d] = "requeue"
    /\ Goto(d, "release")
    /\ UNCHANGED <<rows, paused, disk, cur, ahead, token, why,
                   reqs, alarm, env>>

(* Cancelled or shut down: back to pending; a done or missing row stays.    *)
RequeueCancelled(d) ==
    /\ pc[d] = "requeue"
    /\ IF Requeueable(cur[d]) THEN RequeueRow(cur[d]) ELSE UNCHANGED <<status, err, stuck>>
    /\ Goto(d, "release")
    /\ UNCHANGED <<attempts, paused, disk, cur, ahead, token, why,
                   reqs, alarm, env>>

(* Mutant: the count is compared but never stored.                          *)
CountNothing(d) ==
    LET j == cur[d] IN
    /\ pc[d] = "fail"
    /\ Goto(d, IF j \in Rows /\ why[d] = "write" /\ attempts[j] + 1 < MaxAttempts
                 THEN "retry" ELSE "park")
    /\ UNCHANGED <<rows, paused, disk, cur, ahead, token, why,
                   reqs, alarm, env>>

(* fail: count the try. A missing row is an error of its own, which parks.  *)
CountAttempt(d) ==
    LET j == cur[d]
        n == attempts[j] + 1 IN
    /\ pc[d] = "fail"
    /\ attempts' = [attempts EXCEPT ![j] = IF j \in Rows THEN n ELSE @]
    /\ Goto(d, IF j \in Rows /\ why[d] = "write" /\ n < MaxAttempts
                 THEN "retry" ELSE "park")
    /\ UNCHANGED <<status, err, stuck, paused, disk, cur, ahead, token, why,
                   reqs, alarm, env>>

RequeueFailed(d) ==
    /\ pc[d] = "retry"
    /\ IF Requeueable(cur[d])
         THEN RequeueRow(cur[d]) /\ Goto(d, "release")
         ELSE UNCHANGED <<status, err, stuck>> /\ Goto(d, "park")
    /\ UNCHANGED <<attempts, paused, disk, cur, ahead, token, why,
                   reqs, alarm, env>>

ParkFailed(d) ==
    /\ pc[d] = "park"
    /\ UpdateStatus(cur[d], "error")
    /\ UpdateErr(cur[d], why[d])
    /\ alarm' = IF cur[d] \in Rows THEN alarm \cup {d} ELSE alarm
    /\ Goto(d, "pause")
    /\ UNCHANGED <<attempts, stuck, paused, disk, cur, ahead, token, why,
                   reqs, env>>

(* Mutant: a failure does not pause the queue.                              *)
NoAutoPause(d) ==
    /\ pc[d] = "pause"
    /\ Goto(d, "release")
    /\ UNCHANGED <<rows, paused, disk, cur, ahead, token, why,
                   reqs, alarm, env>>

AutoPause(d) ==
    /\ pc[d] = "pause"
    /\ paused' = TRUE
    /\ Goto(d, "release")
    /\ UNCHANGED <<rows, disk, cur, ahead, token, why, reqs, alarm, env>>

(* The deferred unregistration, after the row was already updated.          *)
Release(d) ==
    /\ pc[d] = "release"
    /\ token' = [token EXCEPT ![d] = "none"]
    /\ cur' = [cur EXCEPT ![d] = None]
    /\ why' = [why EXCEPT ![d] = "none"]
    /\ Goto(d, "poll")
    /\ UNCHANGED <<rows, paused, disk, ahead, reqs, alarm, env>>

(* Failing statements. The error of a FinishJob or RequeueJob that ends a   *)
(* job is dropped: the row stays running while its runner goes on. A retry  *)
(* that cannot be recorded parks instead.                                   *)
Fault == /\ faults < MaxFaults
         /\ faults' = faults + 1
         /\ UNCHANGED <<stopping, ops, restarts>>

RowDropped(d) ==
    /\ pc[d] \in {"finish", "requeue", "park"}
    /\ Fault
    /\ stuck' = stuck \cup ({cur[d]} \cap Rows)
    /\ Goto(d, IF pc[d] = "park" THEN "pause" ELSE "release")
    /\ UNCHANGED <<status, attempts, err, paused, disk, cur, ahead, token, why,
                   reqs, alarm>>

RetryDropped(d) ==
    /\ pc[d] \in {"fail", "retry"}
    /\ Fault
    /\ Goto(d, "park")
    /\ UNCHANGED <<rows, paused, disk, cur, ahead, token, why, reqs, alarm>>

(* SetPaused fails, unnoticed: the queue goes on.                           *)
PauseDropped(d) ==
    /\ pc[d] = "pause"
    /\ Fault
    /\ alarm' = alarm \ {d}
    /\ Goto(d, "release")
    /\ UNCHANGED <<rows, paused, disk, cur, ahead, token, why, reqs>>

(* The removal of a temp file fails, unnoticed.                             *)
TempKept(d) ==
    /\ pc[d] = "write" /\ cur[d] \notin Split
    /\ Fault
    /\ temp' = [temp EXCEPT ![cur[d]] = (@ \ {"temp"}) \cup {"kept"}]
    /\ AfterError(d)
    /\ UNCHANGED <<rows, paused, final, cur, ahead, token, reqs, alarm>>

(* recover, the sweep, Paused or NextPending fails: the runner returns, to  *)
(* be spawned again. A row that NextPending had claimed stays running.      *)
RunnerReturns(d) ==
    /\ pc[d] \in {"recover", "poll", "select", "claim", "prepare"}
    /\ Fault
    /\ stuck' = stuck \cup {j \in Rows : DestOf[j] = d /\ status[j] = "running"}
    /\ Goto(d, "down")
    /\ cur' = [cur EXCEPT ![d] = None]
    /\ ahead' = [ahead EXCEPT ![d] = None]
    /\ UNCHANGED <<status, attempts, err, paused, disk, token, why, reqs, alarm>>

RunnerFault(d) == \/ RowDropped(d) \/ RetryDropped(d) \/ PauseDropped(d)
                  \/ TempKept(d) \/ RunnerReturns(d)

RunnerStep(d) ==
    \/ RecoverRow(d) \/ Recovered(d) \/ Poll(d)
    \/ Select(d) \/ ClaimRow(d) \/ ClaimLost(d)
    \/ Prepared(d) \/ PrepareFails(d)
    \/ WriteStops(d) \/ WriteCommits(d)
    \/ VerifyPasses(d) \/ VerifyFails(d) \/ Finish(d)
    \/ RequeueCancelled(d) \/ CountAttempt(d) \/ RequeueFailed(d)
    \/ ParkFailed(d) \/ AutoPause(d) \/ Release(d)

-----------------------------------------------------------------------------
(* PATCH /api/queue/{id} action=cancel: cancelJob, one statement at a time. *)

GotoReq(r, l) == rpc' = [rpc EXCEPT ![r] = l]

CancelReads(r) ==
    /\ rpc[r] = "idle"
    /\ \E j \in Rows :
          /\ rjob' = [rjob EXCEPT ![r] = j]
          /\ GotoReq(r, IF status[j] = "running" THEN "signal" ELSE "drop")
    /\ UNCHANGED <<rows, paused, disk, loop, alarm, env>>

(* CancelDestination looks the function up by destination, not by job.      *)
CancelSignals(r) ==
    LET d == DestOf[rjob[r]] IN
    /\ rpc[r] = "signal"
    /\ IF token[d] = "none"
         THEN GotoReq(r, "refused") /\ UNCHANGED token
         ELSE /\ GotoReq(r, "wait")
              /\ token' = [token EXCEPT ![d] = "cancelled"]
    /\ UNCHANGED <<rows, paused, disk, pc, cur, ahead, why, rjob, alarm, env>>

CancelSeesStop(r) ==
    /\ rpc[r] = "wait"
    /\ status[rjob[r]] # "running"
    /\ GotoReq(r, "delete")
    /\ UNCHANGED <<rows, paused, disk, loop, rjob, alarm, env>>

CancelTimesOut(r) ==
    /\ rpc[r] = "wait"
    /\ status[rjob[r]] = "running"
    /\ GotoReq(r, "timeout")
    /\ UNCHANGED <<rows, paused, disk, loop, rjob, alarm, env>>

(* DeleteJob has no guard on the status.                                    *)
CancelDeletes(r) ==
    /\ rpc[r] = "delete"
    /\ DeleteRow(rjob[r])
    /\ GotoReq(r, "ok")
    /\ UNCHANGED <<paused, disk, loop, rjob, alarm, env>>

(* Mutant: DELETE without AND status!='running'.                            *)
CancelDropsAny(r) ==
    LET j == rjob[r] IN
    /\ rpc[r] = "drop"
    /\ IF j \notin Rows
         THEN GotoReq(r, "refused") /\ UNCHANGED rows
         ELSE GotoReq(r, "ok") /\ DeleteRow(j)
    /\ UNCHANGED <<paused, disk, loop, rjob, alarm, env>>

(* CancelJob refuses a running row.                                         *)
CancelDrops(r) ==
    LET j == rjob[r] IN
    /\ rpc[r] = "drop"
    /\ IF status[j] = "running" \/ j \notin Rows
         THEN GotoReq(r, "refused") /\ UNCHANGED rows
         ELSE GotoReq(r, "ok") /\ DeleteRow(j)
    /\ UNCHANGED <<paused, disk, loop, rjob, alarm, env>>

RequestStep(r) ==
    \/ CancelSignals(r) \/ CancelSeesStop(r) \/ CancelTimesOut(r)
    \/ CancelDeletes(r) \/ CancelDrops(r)

-----------------------------------------------------------------------------
(* The one-statement user operations, MaxOps of them in a behaviour; a      *)
(* resume follows a pause and needs no bound of its own.                    *)

UserOp == /\ ops < MaxOps
          /\ ops' = ops + 1
          /\ UNCHANGED <<disk, loop, reqs, stopping, restarts, faults>>

Enqueue(j) ==
    /\ status[j] = "new"
    /\ status' = [status EXCEPT ![j] = "pending"]
    /\ UNCHANGED <<attempts, err, stuck, paused, disk, loop, reqs, alarm, env>>

PauseJob(j) == /\ UserOp
               /\ status[j] \in {"pending", "error"}
               /\ status' = [status EXCEPT ![j] = "paused"]
               /\ UNCHANGED <<attempts, err, stuck, paused, alarm>>

ResumeJob(j) ==
    /\ status[j] = "paused"
    /\ status' = [status EXCEPT ![j] = "pending"]
    /\ UNCHANGED <<attempts, err, stuck, paused, disk, loop, reqs, alarm, env>>

RetryJob(j) == /\ UserOp
               /\ status[j] = "error"
               /\ status' = [status EXCEPT ![j] = "pending"]
               /\ err' = [err EXCEPT ![j] = "none"]
               /\ attempts' = [attempts EXCEPT ![j] = 0]
               /\ UNCHANGED <<stuck, paused, alarm>>

SkipJob(j) == /\ UserOp
              /\ j \in Rows /\ status[j] # "running"
              /\ DeleteRow(j)
              /\ UNCHANGED <<paused, alarm>>

SetPaused(p) == /\ UserOp
                /\ paused # p
                /\ paused' = p
                /\ alarm' = IF p THEN alarm ELSE {}
                /\ UNCHANGED rows

-----------------------------------------------------------------------------
(* Shutdown ends the process context; the runners notice in their own time. *)
(* Die is the end of the process at any moment, killed or not waited for,   *)
(* and the start of the next one on the same database and destination.      *)

Shutdown == /\ ~stopping
            /\ stopping' = TRUE
            /\ UNCHANGED <<rows, paused, disk, loop, reqs, alarm,
                            ops, restarts, faults>>

Die == /\ restarts < MaxRestarts
       /\ restarts' = restarts + 1
       /\ stopping' = FALSE
       /\ pc' = [d \in Dest |-> "down"]
       /\ cur' = [d \in Dest |-> None]
       /\ ahead' = [d \in Dest |-> None]
       /\ token' = [d \in Dest |-> "none"]
       /\ why' = [d \in Dest |-> "none"]
       /\ rpc' = [r \in Request |-> IF rpc[r] = "idle" THEN "idle" ELSE "lost"]
       /\ alarm' = {d \in alarm : pc[d] # "pause"}
       /\ UNCHANGED <<rows, paused, disk, rjob, ops, faults>>

Next ==
    \/ \E d \in Dest : Spawn(d) \/ RunnerStep(d) \/ RunnerFault(d)
    \/ \E r \in Request : CancelReads(r) \/ RequestStep(r)
    \/ \E j \in Job : \/ Enqueue(j) \/ PauseJob(j) \/ ResumeJob(j)
                      \/ RetryJob(j) \/ SkipJob(j)
    \/ \E p \in BOOLEAN : SetPaused(p)
    \/ Shutdown
    \/ Die

Spec == Init /\ [][Next]_vars

(* The scheduler runs every goroutine: the supervisor respawns a runner on  *)
(* its 2 s tick, a runner takes its next step, a cancel handler polls until *)
(* its deadline. Users promise nothing, and no fault is owed.               *)
Fairness == /\ \A d \in Dest : WF_vars(Spawn(d)) /\ WF_vars(RunnerStep(d))
            /\ \A r \in Request : WF_vars(RequestStep(r))

FairSpec == Spec /\ Fairness

-----------------------------------------------------------------------------
TypeOK ==
    /\ status \in [Job -> Status]
    /\ attempts \in [Job -> Nat]
    /\ err \in [Job -> Cause]
    /\ paused \in BOOLEAN
    /\ stuck \subseteq Job
    /\ temp \in [Job -> SUBSET Partial]
    /\ final \in [Job -> {"none", "good", "bad"}]
    /\ pc \in [Dest -> Location]
    /\ cur \in [Dest -> Job \cup {None}]
    /\ ahead \in [Dest -> Job \cup {None}]
    /\ token \in [Dest -> {"none", "live", "cancelled"}]
    /\ why \in [Dest -> Cause]
    /\ stopping \in BOOLEAN
    /\ rpc \in [Request -> {"idle", "signal", "wait", "delete", "drop", "ok",
                            "refused", "timeout", "lost"}]
    /\ rjob \in [Request -> Job \cup {None}]
    /\ alarm \in SUBSET Dest
    /\ ops \in Nat /\ restarts \in Nat /\ faults \in Nat

(* At most one running row per destination, whatever the handlers, the      *)
(* shutdown and the crashes do (NextPending, recover, RequeueJob), beside   *)
(* the rows that a failed statement left running.                           *)
OneRunningPerDest ==
    \A j, k \in Job \ stuck : /\ status[j] = "running" /\ status[k] = "running"
                              /\ DestOf[j] = DestOf[k]
                              => j = k

(* A running row is the one its destination's runner works on, or the one   *)
(* a dead process left for the next runner to recover, or one whose last    *)
(* statement failed: only a dropped error makes the executor walk away from *)
(* a row it claimed (executeJob, fail, recover).                            *)
RunningRowOwned ==
    \A j \in Job : status[j] = "running" =>
        LET d == DestOf[j] IN
        \/ j \in stuck
        \/ pc[d] \in {"down", "recover"}
        \/ pc[d] \in Working /\ cur[d] = j

(* A job is done only with its verified output at the final path            *)
(* (runCopy .. verifyFile, FinishJob).                                      *)
DoneIsVerified == \A j \in Job : status[j] = "done" => final[j] = "good"

(* A temp file exists only while its writer is streaming it, or until the   *)
(* next runner of the destination has swept what a crash left, unless its   *)
(* removal failed. A partial chunk of a split is not swept: it stays, but   *)
(* never beside a done job of its own (WriteStops, SweepStaleTemps).        *)
NoOrphanTemp ==
    \A j \in Job :
        /\ "temp" \in temp[j] =>
              \/ pc[DestOf[j]] \in {"down", "recover"}
              \/ pc[DestOf[j]] = "write" /\ cur[DestOf[j]] = j
        /\ "chunk" \in temp[j] => j \in Split /\ status[j] # "done"

Lifecycle == INSTANCE JobLifecycle

(* The executor, its handlers, its faults and its crashes implement the job *)
(* lifecycle.                                                               *)
ImplementsLifecycle == Lifecycle!Spec

(* A running row is deleted by a cancel that signalled it first, never by   *)
(* a skip or a cancel that read an older status (CancelJob, DeleteJob).     *)
RemovedByCancel ==
    \A j \in Job : status[j] = "running" /\ status'[j] = "gone" =>
        \E r \in Request : rpc[r] = "delete" /\ rjob[r] = j

OnlyCancelRemovesRunning == [][RemovedByCancel]_vars

(* Once a job of d is parked in error, d starts no other job before the     *)
(* user resumes the queue: nothing is skipped silently, unless SetPaused    *)
(* fails (its error is dropped) or the process dies before it (fail).       *)
ErrorHaltsQueue ==
    [][\A j \in Job : status[j] = "pending" /\ status'[j] = "running" =>
          DestOf[j] \notin alarm]_vars

(* A pending job is eventually settled, or the queue is waiting for the     *)
(* user, or the process is ending, or the job's last statement failed:      *)
(* retries of a failing job end, and a lost claim, a cancel, or a row left  *)
(* running beside it never wedges the runner.                               *)
EveryJobSettles ==
    \A j \in Job : status[j] = "pending" ~>
        \/ status[j] \notin {"pending", "running"}
        \/ paused \/ stopping \/ j \in stuck

(* A shutdown request ends every runner (or the process dies first) without *)
(* leaving a row of its destination running, but for failed statements.     *)
Quiet(d) == /\ pc[d] = "down"
            /\ \A j \in Job \ stuck : DestOf[j] = d => status[j] # "running"

ShutdownCompletes ==
    \A d \in Dest : stopping /\ pc[d] # "down" ~> Quiet(d) \/ ~stopping

(* A cancel that answers "deleted" has stopped the job.                     *)
CancelOkMeansStopped ==
    \A r \in Request : rpc[r] = "ok" =>
        \A d \in Dest : ~(pc[d] \in Working /\ cur[d] = rjob[r])

(* A shutdown sends unfinished jobs back to pending, it parks none.         *)
ShutdownParksNothing == \A j \in Job : err[j] # "context"
=============================================================================
