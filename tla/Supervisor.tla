----------------------------- MODULE Supervisor -----------------------------
(***************************************************************************)
(* Who serves a destination. Run rescans every two seconds which paths are *)
(* worth serving (LivePaths), spawns a RunDestination goroutine for each,  *)
(* cools one that failed, and cancels and forgets one whose path it no     *)
(* longer finds. This module has one destination, the goroutines Run has   *)
(* spawned for it, the other processes that serve it from the same         *)
(* database, and the requests that change its settings and its job. They   *)
(* contend for the lease of DestLease, which this module extends: a        *)
(* process of DestLease is here one call of RunDestination.                *)
(***************************************************************************)
EXTENDS DestLease

CONSTANTS Runner,     \* the processes that are goroutines of this Run
          MaxFaults,  \* bound: failed probes, failed statements, retried writes
          MaxOps      \* bound: what users and the hardware do, starts of others

ASSUME SupervisorAssumption == /\ Runner \subseteq Proc
                               /\ MaxFaults \in Nat /\ MaxOps \in Nat

VARIABLES
    volume,    \* the destination is a drive: Volumes lists it while plugged in
    present,   \* its directory exists
    custom,    \* it has a destination_settings row
    deleting,  \* a DeleteSettings has counted no jobs and not deleted yet
    row,       \* its job; "settled" is done or error, "stuck" is running too:
               \* its writer went on, but the statement to say so failed
    sup,       \* where Run is
    seen,      \* this scan's targets have the destination
    current,   \* Run's runners entry, Nobody when there is none
    cooling,   \* Run's cooled entry is younger than 30 s
    pc,        \* where each call of RunDestination is
    cancelled, \* the calls whose own context was cancelled
    stopping,  \* the context of Run is done
    faults, ops

device == <<volume, present>>
table  == <<custom, deleting, row>>
scan   == <<sup, seen, current, cooling>>
calls  == <<pc, cancelled>>
limits == <<faults, ops>>
supVars == <<vars, device, table, scan, calls, stopping, limits>>

RowStatus == {"none", "pending", "running", "stuck", "paused", "settled"}
Live      == {"pending", "running", "stuck", "paused"}

(* Run: "idle" waits for the next tick or for the end; "waiting" has         *)
(* cancelled everything and receives the results.                            *)
ScanAt == {"idle", "settings", "jobs", "reap", "spawn", "waiting", "returned"}

(* RunDestination: "ended" has put its error into done; "free" was received *)
(* or is awaited by nobody. "lock" is all of AcquireLock.                   *)
CallAt == {"free", "resolve", "parked", "lock", "recover", "check", "poll",
           "write", "ended", "dead"}
Leased == {"recover", "check", "poll", "write"}

ContextDone(p) == p \in cancelled \/ (stopping /\ p \in Runner)

SupInit == /\ Init
           /\ volume \in BOOLEAN
           /\ present \in BOOLEAN
           /\ custom \in BOOLEAN
           /\ deleting = FALSE
           /\ row \in {"none", "pending", "settled"}
           /\ sup = "idle"
           /\ seen = FALSE
           /\ current = Nobody
           /\ cooling = FALSE
           /\ pc = [p \in Proc |-> "free"]
           /\ cancelled = {}
           /\ stopping = FALSE
           /\ faults = 0
           /\ ops = 0

CountFault == faults < MaxFaults /\ faults' = faults + 1
CountOp    == ops < MaxOps /\ ops' = ops + 1

CallGoes(p, to) == /\ pc' = [pc EXCEPT ![p] = to]
                   /\ UNCHANGED cancelled

-----------------------------------------------------------------------------
(* Run.                                                                     *)

SupAt(from, to) == sup = from /\ sup' = to

(* LivePaths asks three sources one after the other. A source that fails is *)
(* left out without a word.                                                 *)
Finds(source) == \/ seen' = source /\ UNCHANGED faults
                 \/ seen' = seen /\ CountFault

ScanVolumes ==
    /\ SupAt("idle", "settings") /\ ~stopping
    /\ \/ seen' = (volume /\ present) /\ UNCHANGED faults
       \/ seen' = FALSE /\ CountFault
    /\ UNCHANGED <<vars, device, table, current, cooling, calls, stopping, ops>>

ScanSettings ==
    /\ SupAt("settings", "jobs")
    /\ Finds(seen \/ custom)
    /\ UNCHANGED <<vars, device, table, current, cooling, calls, stopping, ops>>

(* Mutant: jobs do not make their path a target.                            *)
ScanForgetsJobs ==
    /\ SupAt("jobs", "reap")
    /\ UNCHANGED <<vars, device, table, seen, current, cooling, calls,
                   stopping, limits>>

ScanJobs ==
    /\ SupAt("jobs", "reap")
    /\ Finds(seen \/ row \in Live)
    /\ UNCHANGED <<vars, device, table, current, cooling, calls, stopping, ops>>

(* A runner that has returned is taken off the map; unless the process is   *)
(* stopping its path cools down.                                            *)
Reap ==
    /\ SupAt("reap", "spawn")
    /\ IF current # Nobody /\ pc[current] = "ended"
       THEN /\ pc' = [pc EXCEPT ![current] = "free"]
            /\ current' = Nobody
            /\ cooling' = (cooling \/ ~stopping)
       ELSE UNCHANGED <<pc, current, cooling>>
    /\ UNCHANGED <<vars, device, table, seen, cancelled, stopping, limits>>

(* Mutant: the runner is taken off the map and goes on.                     *)
ForgetsOnly ==
    /\ SupAt("spawn", "idle") /\ ~seen /\ current # Nobody
    /\ pc' = [pc EXCEPT ![current] = IF @ = "ended" THEN "free" ELSE @]
    /\ current' = Nobody
    /\ UNCHANGED <<vars, device, table, seen, cooling, cancelled, stopping, limits>>

(* The destination is no target any more: cancel its runner and forget it.  *)
Forgets ==
    /\ SupAt("spawn", "idle") /\ ~seen /\ current # Nobody
    /\ IF pc[current] = "ended"
       THEN pc' = [pc EXCEPT ![current] = "free"] /\ UNCHANGED cancelled
       ELSE cancelled' = cancelled \cup {current} /\ UNCHANGED pc
    /\ current' = Nobody
    /\ UNCHANGED <<vars, device, table, seen, cooling, stopping, limits>>

(* A target without a runner gets one, after its cooldown.                  *)
Spawns ==
    /\ SupAt("spawn", "idle") /\ seen /\ current = Nobody /\ ~cooling
    /\ \E r \in Runner : pc[r] = "free"
    /\ LET r == CHOOSE r \in Runner : pc[r] = "free"
       IN CallGoes(r, "resolve") /\ current' = r
    /\ seen' = FALSE
    /\ UNCHANGED <<vars, device, table, cooling, stopping, limits>>

Rests ==
    /\ SupAt("spawn", "idle")
    /\ \/ ~seen /\ current = Nobody
       \/ seen /\ (current # Nobody \/ cooling)
    /\ seen' = FALSE
    /\ UNCHANGED <<vars, device, table, current, cooling, calls,
                   stopping, limits>>

(* Thirty seconds pass. *)
Cools == /\ cooling
         /\ cooling' = FALSE
         /\ UNCHANGED <<vars, device, table, sup, seen, current, calls,
                        stopping, limits>>

(* ctx.Done: cancel every runner on the map (their contexts are children of *)
(* this one and done already), ...                                          *)
CancelsAll ==
    /\ SupAt("idle", "waiting") /\ stopping
    /\ UNCHANGED <<vars, device, table, seen, current, cooling, calls,
                   stopping, limits>>

(* ... wait for each of them and return.                                    *)
Returns ==
    /\ SupAt("waiting", "returned")
    /\ current # Nobody => pc[current] = "ended"
    /\ UNCHANGED <<vars, device, table, seen, current, cooling, calls,
                   stopping, limits>>

RunStep == \/ ScanVolumes \/ ScanSettings \/ ScanJobs \/ Reap
           \/ Forgets \/ Spawns \/ Rests \/ CancelsAll \/ Returns

-----------------------------------------------------------------------------
(* RunDestination, in a goroutine of Run or in another process.             *)

CallMoves(p, from, to) == pc[p] = from /\ CallGoes(p, to)

(* Its result goes into done, which has a place for it whether or not Run   *)
(* still knows the runner.                                                  *)
CallEnds(p) == /\ pc' = [pc EXCEPT ![p] = IF p = current THEN "ended" ELSE "free"]
               /\ cancelled' = cancelled \ {p}

Shared == <<device, custom, deleting, scan, stopping, ops>>

(* ResolveDestination, and the first look of waitForPath.                   *)
Resolves(p) ==
    /\ \/ present /\ CallMoves(p, "resolve", "lock") /\ UNCHANGED faults
       \/ ~present /\ CallMoves(p, "resolve", "parked") /\ UNCHANGED faults
       \/ pc[p] = "resolve" /\ CallEnds(p) /\ CountFault
    /\ UNCHANGED <<vars, row, Shared>>

(* Mutant: the wait has no case for ctx.Done.                               *)
WaitsBlindly(p) ==
    /\ \/ present /\ CallMoves(p, "parked", "lock") /\ UNCHANGED faults
       \/ pc[p] = "parked" /\ CallEnds(p) /\ CountFault
    /\ UNCHANGED <<vars, row, Shared>>

(* waitForPath polls every ten seconds until the path is back, until its    *)
(* context ends, or until Stat fails in another way.                        *)
Waits(p) ==
    /\ \/ present /\ CallMoves(p, "parked", "lock") /\ UNCHANGED faults
       \/ pc[p] = "parked" /\ ContextDone(p) /\ CallEnds(p) /\ UNCHANGED faults
       \/ pc[p] = "parked" /\ CallEnds(p) /\ CountFault
    /\ UNCHANGED <<vars, row, Shared>>

(* AcquireLock: its SELECT, and its INSERT or UPDATE. Nothing in it looks   *)
(* at the context.                                                          *)
Locks(p) ==
    /\ pc[p] = "lock"
    /\ \/ (SeesNoRow(p) \/ SeesStaleRow(p)) /\ UNCHANGED calls
       \/ Inserts(p) /\ IF owner = Nobody THEN CallGoes(p, "recover") ELSE CallEnds(p)
       \/ TakesOver(p) /\ CallGoes(p, "recover")
    /\ UNCHANGED <<row, faults, Shared>>

(* A fresh row refuses. *)
Refused(p) ==
    /\ pc[p] = "lock" /\ at[p] = "out" /\ owner # Nobody /\ ~Stale
    /\ CallEnds(p)
    /\ UNCHANGED <<vars, row, faults, Shared>>

(* Mutant: the loop starts at once. *)
SkipsRecovery(p) ==
    /\ CallMoves(p, "recover", "check")
    /\ UNCHANGED <<vars, row, faults, Shared>>

(* recover requeues what a dead owner left running; the sweep follows.      *)
Recovers(p) ==
    /\ CallMoves(p, "recover", "check")
    /\ row' = IF row \in {"running", "stuck"} THEN "pending" ELSE row
    /\ UNCHANGED <<vars, faults, Shared>>

(* The loop looks at its context, then asks for a job.                      *)
Checks(p) ==
    /\ ~ContextDone(p)
    /\ CallMoves(p, "check", "poll")
    /\ UNCHANGED <<vars, row, faults, Shared>>

Polls(p) ==
    /\ \/ row = "pending" /\ row' = "running" /\ CallMoves(p, "poll", "write")
       \/ row # "pending" /\ CallMoves(p, "poll", "check") /\ UNCHANGED row
    /\ UNCHANGED <<vars, faults, Shared>>

(* executeJob ends: done or parked, requeued because its context ended, or  *)
(* requeued to be tried again. A row deleted meanwhile stays deleted. When  *)
(* FinishJob or RequeueJob fails the row stays as it is and the loop goes   *)
(* on.                                                                      *)
WriteEnds(p) ==
    /\ CallMoves(p, "write", "check")
    /\ \/ /\ row' = IF row = "none" THEN row ELSE "settled"
          /\ UNCHANGED faults
       \/ /\ row' = IF row \in {"none", "settled"} THEN row ELSE "pending"
          /\ IF ContextDone(p) THEN UNCHANGED faults ELSE CountFault
       \/ row' = (IF row = "running" THEN "stuck" ELSE row) /\ CountFault
    /\ UNCHANGED <<vars, Shared>>

(* The context is done, or a statement failed: the lease is given back.     *)
Leaves(p) ==
    /\ \/ pc[p] = "check" /\ ContextDone(p) /\ UNCHANGED faults
       \/ pc[p] \in {"recover", "check", "poll"} /\ CountFault
    /\ CallEnds(p)
    /\ Releases(p)
    /\ UNCHANGED <<row, Shared>>

(* The heartbeat's goroutine, and the clock.                                *)
Heartbeats(p) == /\ pc[p] \in {"check", "poll", "write"}
                 /\ Beats(p)
                 /\ UNCHANGED <<device, table, scan, calls, stopping, limits>>

TimePasses == /\ Tick
              /\ UNCHANGED <<device, table, scan, calls, stopping, limits>>

CallStep(p) == \/ Resolves(p) \/ Waits(p) \/ Locks(p) \/ Refused(p) \/ Recovers(p)
               \/ Checks(p) \/ Polls(p) \/ WriteEnds(p) \/ Leaves(p)

-----------------------------------------------------------------------------
(* Another process that serves the destination from the same database.      *)

OtherStarts(p) == /\ p \notin Runner /\ at[p] = "out"
                  /\ CallMoves(p, "free", "resolve")
                  /\ CountOp
                  /\ UNCHANGED <<vars, device, table, scan, stopping, faults>>

OtherStops(p) == /\ p \notin Runner /\ pc[p] \notin {"free", "dead"}
                 /\ p \notin cancelled
                 /\ cancelled' = cancelled \cup {p}
                 /\ UNCHANGED <<vars, device, table, scan, pc, stopping, limits>>

OtherDies(p) == /\ p \notin Runner
                /\ Crashes(p)
                /\ CallGoes(p, "dead")
                /\ UNCHANGED <<device, table, scan, stopping, limits>>

-----------------------------------------------------------------------------
(* Users and the hardware. The server takes no requests once it is stopping. *)

Plugs == /\ present' = ~present
         /\ CountOp
         /\ UNCHANGED <<vars, volume, table, scan, calls, stopping, faults>>

(* enqueueItems' INSERT, and the statements of pause, resume and cancel     *)
(* that change a row that is not running.                                   *)
Enqueues == /\ ~stopping /\ row \in {"none", "settled"}
            /\ row' = "pending"
            /\ CountOp
            /\ UNCHANGED <<vars, device, custom, deleting, scan, calls,
                           stopping, faults>>

EditsJob == /\ ~stopping
            /\ \/ row = "pending" /\ row' \in {"paused", "none"}
               \/ row = "paused" /\ row' \in {"pending", "none"}
               \/ row = "settled" /\ row' = "none"
            /\ CountOp
            /\ UNCHANGED <<vars, device, custom, deleting, scan, calls,
                           stopping, faults>>

(* UpsertSettings: POST wants the directory to be there; PATCH writes the   *)
(* row it merged whether or not there still is, or ever was, one.           *)
Upserts == /\ ~stopping /\ ~custom
           /\ custom' = TRUE
           /\ CountOp
           /\ UNCHANGED <<vars, device, deleting, row, scan, calls,
                          stopping, faults>>

(* DeleteSettings: the COUNT, and the DELETE (which only reports an error   *)
(* when there is no row to delete).                                         *)
DeleteCounts == /\ ~stopping /\ ~deleting /\ custom /\ row = "none"
                /\ deleting' = TRUE
                /\ UNCHANGED <<vars, device, custom, row, scan, calls,
                               stopping, limits>>

Deletes == /\ deleting
           /\ deleting' = FALSE
           /\ custom' = FALSE
           /\ UNCHANGED <<vars, device, row, scan, calls, stopping, limits>>

Shutdown == /\ ~stopping
            /\ stopping' = TRUE
            /\ UNCHANGED <<vars, device, table, scan, calls, limits>>

Outside == \/ Plugs \/ Enqueues \/ EditsJob \/ Upserts \/ DeleteCounts
           \/ Deletes \/ Shutdown

SupNext == \/ RunStep \/ Cools \/ TimePasses \/ Outside
           \/ \E p \in Proc : \/ CallStep(p) \/ Heartbeats(p)
                              \/ OtherStarts(p) \/ OtherStops(p) \/ OtherDies(p)

SupSpec == SupInit /\ [][SupNext]_supVars

(* Goroutines go on, ticks come and clocks run. Nobody has to plug anything *)
(* in, and neither faults nor users are owed.                               *)
SupFairSpec == /\ SupSpec
               /\ WF_supVars(RunStep) /\ WF_supVars(Cools) /\ WF_supVars(TimePasses)
               /\ \A p \in Proc : WF_supVars(CallStep(p))

-----------------------------------------------------------------------------
SupTypeOK == /\ TypeOK
             /\ {volume, present, custom, deleting, seen, cooling, stopping} \subseteq BOOLEAN
             /\ row \in RowStatus
             /\ sup \in ScanAt
             /\ current \in Runner \cup {Nobody}
             /\ pc \in [Proc -> CallAt]
             /\ cancelled \subseteq Proc
             /\ faults \in 0 .. MaxFaults /\ ops \in 0 .. MaxOps

(* Run loses no goroutine that would go on for ever: one it no longer has   *)
(* on its map has been told to stop.                                        *)
NoneRunsUnwatched ==
    \A r \in Runner : pc[r] \notin {"free", "ended"} => r = current \/ ContextDone(r)

(* Until two processes took one dead owner's lease together, a job is       *)
(* running exactly while somebody writes it, but for a row whose last       *)
(* statement failed. A row that a dead process left running is seen to      *)
(* before anybody asks the table for a job, although runners come, go and   *)
(* are forgotten in the middle of a write.                                  *)
RunningIsWritten ==
    \/ raced
    \/ /\ \A p \in Proc : pc[p] = "write" => row = "running"
       /\ row = "running" => \/ \E p \in Proc : pc[p] = "write"
                             \/ \A p \in Proc : pc[p] \notin {"check", "poll"}

(* A pending job on a destination that stays plugged in is taken up, by     *)
(* this process or by another, whatever failed, was deleted or was held by  *)
(* the dead before.                                                         *)
PendingServed ==
    (row = "pending" /\ present /\ ~stopping) ~> (row # "pending" \/ ~present \/ stopping)

(* Run returns after its context ended: no runner waits for a drive, for a  *)
(* lease or for work without listening.                                     *)
RunReturns == stopping ~> sup = "returned"

(* Refuted: "shutdown waits for all runners" (comment of Run).              *)
ShutdownWaitsForAll ==
    sup = "returned" => \A r \in Runner : pc[r] \in {"free", "ended"}

(* Refuted: "It refuses while jobs still reference the path" (comment of    *)
(* DeleteSettings).                                                         *)
DeleteRefuses == [][custom /\ ~custom' => row = "none"]_supVars
=============================================================================
