------------------------- MODULE Supervisor_proofs -------------------------
(* Proofs about DestLease and Supervisor, for any processes, goroutines,    *)
(* crashes, faults and requests.                                            *)
EXTENDS Supervisor, TLAPS

USE LeaseAssumption DEF Place, Holders, Stale, vars, Move

(* The row's owner holds the lease or died holding it.                      *)
OwnerHeld == owner # Nobody => at[owner] \in {"hold", "dead"}

(* A live owner's row is fresh: this is where PromptBeats is used.          *)
LiveIsFresh == owner # Nobody /\ at[owner] = "hold" => age <= StaleAfter

(* Without a race every holder has the row, ...                             *)
HoldersOwn == \A p \in Proc : at[p] = "hold" => owner = p

(* ... a process about to take the row over is alone in that, and the owner *)
(* it displaces is still the dead one it saw.                               *)
TakeoverIsSafe ==
    \A p \in Proc : at[p] = "takeover" =>
        /\ owner # Nobody /\ at[owner] = "dead"
        /\ \A q \in Proc : at[q] = "takeover" => q = p

LeaseInv == /\ TypeOK /\ OwnerHeld /\ LiveIsFresh
            /\ ~raced => HoldersOwn /\ TakeoverIsSafe

LEMMA InitLease == Init => LeaseInv
<1> SUFFICES ASSUME Init PROVE LeaseInv
  OBVIOUS
<1>1. TypeOK
  <2>1. raced \in BOOLEAN
    BY DEF Init
  <2> QED
    BY <2>1 DEF Init, TypeOK
<1>2. OwnerHeld /\ LiveIsFresh /\ HoldersOwn /\ TakeoverIsSafe
  BY DEF Init, OwnerHeld, LiveIsFresh, HoldersOwn, TakeoverIsSafe
<1> QED
  BY <1>1, <1>2 DEF LeaseInv

LEMMA StepLease == PromptBeats /\ LeaseInv /\ [Next]_vars => LeaseInv'
<1> SUFFICES ASSUME PromptBeats, LeaseInv, [Next]_vars PROVE LeaseInv'
  OBVIOUS
<1> USE DEF LeaseInv, TypeOK, OwnerHeld, LiveIsFresh, HoldersOwn, TakeoverIsSafe
<1>1. ASSUME NEW p \in Proc, SeesNoRow(p) PROVE LeaseInv'
  BY <1>1 DEF SeesNoRow
<1>2. ASSUME NEW p \in Proc, SeesStaleRow(p) PROVE LeaseInv'
  <2>1. raced' \in BOOLEAN
    BY <1>2, Zenon DEF SeesStaleRow
  <2>2. ~raced' => ~raced /\ \A q \in Proc : at[q] # "takeover"
    BY <1>2 DEF SeesStaleRow
  <2>3. /\ at[p] = "out" /\ at' = [at EXCEPT ![p] = "takeover"]
        /\ Stale /\ UNCHANGED <<owner, age, crashes>>
    BY <1>2 DEF SeesStaleRow
  <2> QED
    BY <2>1, <2>2, <2>3
<1>3. ASSUME NEW p \in Proc, Inserts(p) PROVE LeaseInv'
  BY <1>3 DEF Inserts
<1>4. ASSUME NEW p \in Proc, TakesOver(p) PROVE LeaseInv'
  BY <1>4 DEF TakesOver
<1>5. ASSUME NEW p \in Proc, Beats(p) PROVE LeaseInv'
  BY <1>5 DEF Beats
<1>6. ASSUME NEW p \in Proc, Releases(p) PROVE LeaseInv'
  BY <1>6 DEF Releases
<1>7. ASSUME NEW p \in Proc, Crashes(p) PROVE LeaseInv'
  BY <1>7 DEF Crashes
<1>8. CASE Tick
  BY <1>8 DEF Tick
<1>9. CASE UNCHANGED vars
  BY <1>9
<1> QED
  BY <1>1, <1>2, <1>3, <1>4, <1>5, <1>6, <1>7, <1>8, <1>9 DEF Next, Acquire

(* While heartbeats are prompt, two processes hold the lease together only  *)
(* after both were taking over one dead owner's row: crashes, restarts and  *)
(* INSERT races alone never give two writers.                               *)
THEOREM LeaseExclusive ==
    ASSUME PromptBeats PROVE Spec => []ExclusiveUntilRace
<1>1. LeaseInv => ExclusiveUntilRace
  BY DEF LeaseInv, HoldersOwn, ExclusiveUntilRace, OneHolder
<1>2. LeaseInv /\ [Next]_vars => LeaseInv'
  BY StepLease
<1> QED
  BY InitLease, <1>1, <1>2, PTL DEF Spec

-----------------------------------------------------------------------------
(* Supervisor: the calls of RunDestination and the requests do nothing to   *)
(* the lease but what DestLease says.                                       *)

USE SupervisorAssumption
    DEF device, table, scan, calls, limits, supVars, Shared, CallGoes, CallMoves,
        CountFault, CountOp, SupAt

LEMMA SupStepIsLeaseStep == [SupNext]_supVars => [Next]_vars
<1> SUFFICES ASSUME [SupNext]_supVars PROVE [Next]_vars
  OBVIOUS
<1> USE DEF Next, Acquire
<1>1. CASE RunStep
  BY <1>1 DEF RunStep, ScanVolumes, ScanSettings, ScanJobs, Reap, Forgets, Spawns,
              Rests, CancelsAll, Returns
<1>2. CASE Cools \/ Outside
  BY <1>2 DEF Cools, Outside, Plugs, Enqueues, EditsJob, Upserts, DeleteCounts,
              Deletes, Shutdown
<1>3. CASE TimePasses
  BY <1>3 DEF TimePasses
<1>4. ASSUME NEW p \in Proc, Locks(p) PROVE [Next]_vars
  BY <1>4 DEF Locks
<1>5. ASSUME NEW p \in Proc, Leaves(p) PROVE [Next]_vars
  BY <1>5 DEF Leaves
<1>6. ASSUME NEW p \in Proc,
             \/ Resolves(p) \/ Waits(p) \/ Refused(p) \/ Recovers(p) \/ Checks(p)
             \/ Polls(p) \/ WriteEnds(p)
      PROVE  [Next]_vars
  BY <1>6 DEF Resolves, Waits, Refused, Recovers, Checks, Polls, WriteEnds
<1>7. ASSUME NEW p \in Proc, Heartbeats(p) PROVE [Next]_vars
  BY <1>7 DEF Heartbeats
<1>8. ASSUME NEW p \in Proc, OtherDies(p) PROVE [Next]_vars
  BY <1>8 DEF OtherDies
<1>9. ASSUME NEW p \in Proc, OtherStarts(p) \/ OtherStops(p) PROVE [Next]_vars
  BY <1>9 DEF OtherStarts, OtherStops
<1>10. CASE UNCHANGED supVars
  BY <1>10
<1> QED
  BY <1>1, <1>2, <1>3, <1>4, <1>5, <1>6, <1>7, <1>8, <1>9, <1>10
     DEF SupNext, CallStep

(* The supervisor, the other processes and the requests together implement  *)
(* the lease protocol.                                                      *)
THEOREM ServesByLease == SupSpec => Spec
<1>1. SupInit => Init
  BY DEF SupInit
<1> QED
  BY <1>1, SupStepIsLeaseStep, PTL DEF SupSpec, Spec

(* The lease stays exclusive while goroutines of one process are forgotten  *)
(* and replaced, and other processes come, stop and die.                    *)
THEOREM ServedExclusively ==
    ASSUME PromptBeats PROVE SupSpec => []ExclusiveUntilRace
BY ServesByLease, LeaseExclusive, PTL

-----------------------------------------------------------------------------
(* Where the calls are. *)
CallsTyped == /\ pc \in [Proc -> CallAt]
              /\ current \in Runner \cup {Nobody}
              /\ cancelled \subseteq Proc

WatchInv == CallsTyped /\ NoneRunsUnwatched

LEMMA WatchCall ==
    ASSUME WatchInv, NEW p \in Proc, NEW to \in CallAt, pc[p] # "free", pc[p] # "ended",
           CallGoes(p, to) \/ CallEnds(p), UNCHANGED <<scan, stopping>>
    PROVE  WatchInv'
BY DEF WatchInv, CallsTyped, NoneRunsUnwatched, ContextDone, CallEnds, CallAt

LEMMA StepWatch == WatchInv /\ [SupNext]_supVars => WatchInv'
<1> SUFFICES ASSUME WatchInv, [SupNext]_supVars PROVE WatchInv'
  OBVIOUS
<1> USE DEF WatchInv, CallsTyped, NoneRunsUnwatched, ContextDone
<1>1. CASE Spawns
  <2>1. PICK r \in Runner : /\ pc[r] = "free"
                            /\ pc' = [pc EXCEPT ![r] = "resolve"]
                            /\ current' = r
    BY <1>1 DEF Spawns
  <2>2. UNCHANGED <<cancelled, stopping>> /\ current = Nobody
    BY <1>1 DEF Spawns
  <2> QED
    BY <2>1, <2>2 DEF CallAt
<1>2. CASE Forgets
  <2>1. current \in Runner /\ current' = Nobody /\ UNCHANGED stopping
    BY <1>2 DEF Forgets
  <2>2. CASE pc[current] = "ended"
    BY <1>2, <2>1, <2>2 DEF Forgets, CallAt
  <2>3. CASE pc[current] # "ended"
    BY <1>2, <2>1, <2>3 DEF Forgets
  <2> QED
    BY <2>2, <2>3
<1>3. CASE Reap
  BY <1>3 DEF Reap, CallAt
<1>4. CASE \/ ScanVolumes \/ ScanSettings \/ ScanJobs \/ Rests \/ CancelsAll \/ Returns
  BY <1>4 DEF ScanVolumes, ScanSettings, ScanJobs, Rests, CancelsAll, Returns
<1>5. CASE Cools \/ TimePasses \/ Outside
  BY <1>5 DEF Cools, TimePasses, Outside, Plugs, Enqueues, EditsJob, Upserts,
              DeleteCounts, Deletes, Shutdown
<1>6. ASSUME NEW p \in Proc, CallStep(p) PROVE WatchInv'
  <2>1. /\ pc[p] \notin {"free", "ended"} /\ UNCHANGED <<scan, stopping>>
        /\ \/ UNCHANGED calls \/ CallEnds(p) \/ \E to \in CallAt : CallGoes(p, to)
    <3> USE DEF CallAt
    <3>1. CASE Resolves(p)
      BY <3>1 DEF Resolves
    <3>2. CASE Waits(p)
      BY <3>2 DEF Waits
    <3>3. CASE Locks(p)
      BY <3>3 DEF Locks
    <3>4. CASE Refused(p) \/ Recovers(p) \/ Checks(p) \/ Polls(p)
      BY <3>4 DEF Refused, Recovers, Checks, Polls
    <3>5. CASE WriteEnds(p)
      BY <3>5 DEF WriteEnds
    <3>6. CASE Leaves(p)
      BY <3>6 DEF Leaves
    <3> QED
      BY <1>6, <3>1, <3>2, <3>3, <3>4, <3>5, <3>6 DEF CallStep
  <2>2. CASE UNCHANGED calls
    BY <2>1, <2>2
  <2>3. CASE CallEnds(p)
    BY <2>1, <2>3, WatchCall DEF CallAt
  <2>4. ASSUME NEW to \in CallAt, CallGoes(p, to) PROVE WatchInv'
    BY <2>1, <2>4, WatchCall
  <2> QED
    BY <2>1, <2>2, <2>3, <2>4
<1>7. ASSUME NEW p \in Proc, OtherStarts(p) \/ OtherStops(p) \/ OtherDies(p)
      PROVE  WatchInv'
  BY <1>7 DEF OtherStarts, OtherStops, OtherDies, CallAt
<1>8. ASSUME NEW p \in Proc, Heartbeats(p) PROVE WatchInv'
  BY <1>8 DEF Heartbeats
<1>9. CASE UNCHANGED supVars
  BY <1>9
<1> QED
  BY <1>1, <1>2, <1>3, <1>4, <1>5, <1>6, <1>7, <1>8, <1>9 DEF SupNext, RunStep

(* However the destination comes and goes: a goroutine that Run has taken   *)
(* off its map has been told to stop.                                       *)
THEOREM Watched == SupSpec => []NoneRunsUnwatched
<1>1. SupInit => WatchInv
  BY DEF SupInit, WatchInv, CallsTyped, NoneRunsUnwatched, CallAt
<1>2. WatchInv => NoneRunsUnwatched
  BY DEF WatchInv
<1> QED
  BY <1>1, <1>2, StepWatch, PTL DEF SupSpec

-----------------------------------------------------------------------------
(* A call is past AcquireLock exactly while it has the lease (or believes   *)
(* it has).                                                                 *)
HeldWhereLeased == \A p \in Proc : pc[p] \in Leased <=> at[p] = "hold"

WrittenInv == /\ LeaseInv /\ CallsTyped /\ row \in RowStatus
              /\ HeldWhereLeased /\ RunningIsWritten

LEMMA OneLeased ==
    ASSUME LeaseInv, HeldWhereLeased, ~raced, NEW p \in Proc, NEW q \in Proc,
           pc[p] \in Leased, pc[q] \in Leased
    PROVE  p = q
BY DEF LeaseInv, HoldersOwn, HeldWhereLeased

LEMMA RacedStays == LeaseInv /\ [Next]_vars => (raced => raced')
BY DEF Next, Acquire, SeesNoRow, SeesStaleRow, Inserts, TakesOver, Beats, Releases,
       Crashes, Tick, LeaseInv, TypeOK

(* What a step does to the row, the calls and the lease of a call.          *)
LEMMA StepHeld == WrittenInv /\ [SupNext]_supVars => CallsTyped' /\ HeldWhereLeased'
<1> DEFINE G == CallsTyped' /\ HeldWhereLeased'
<1> SUFFICES ASSUME WrittenInv, [SupNext]_supVars PROVE G
  OBVIOUS
<1> USE DEF WrittenInv, CallsTyped, HeldWhereLeased, Leased, CallAt, LeaseInv, TypeOK
<1>1. CASE RunStep
  <2>1. UNCHANGED vars
    BY <1>1 DEF RunStep, ScanVolumes, ScanSettings, ScanJobs, Reap, Forgets, Spawns,
                Rests, CancelsAll, Returns
  <2>2. CASE Spawns
    <3>1. PICK r \in Runner : /\ pc[r] = "free"
                              /\ pc' = [pc EXCEPT ![r] = "resolve"]
                              /\ current' = r /\ UNCHANGED cancelled
      BY <2>2 DEF Spawns
    <3> QED
      BY <2>1, <3>1
  <2>3. CASE Forgets
    BY <2>1, <2>3 DEF Forgets
  <2>4. CASE Reap
    BY <2>1, <2>4 DEF Reap
  <2>5. CASE \/ ScanVolumes \/ ScanSettings \/ ScanJobs \/ Rests \/ CancelsAll \/ Returns
    BY <2>1, <2>5 DEF ScanVolumes, ScanSettings, ScanJobs, Rests, CancelsAll, Returns
  <2> QED
    BY <1>1, <2>2, <2>3, <2>4, <2>5 DEF RunStep
<1>2. CASE Cools \/ Outside
  BY <1>2 DEF Cools, Outside, Plugs, Enqueues, EditsJob, Upserts, DeleteCounts,
              Deletes, Shutdown
<1>3. CASE TimePasses
  BY <1>3 DEF TimePasses, Tick
<1>4. ASSUME NEW p \in Proc, CallStep(p) PROVE G
  <2>1. CASE Locks(p)
    <3>1. CASE (SeesNoRow(p) \/ SeesStaleRow(p)) /\ UNCHANGED calls
      BY <2>1, <3>1 DEF Locks, SeesNoRow, SeesStaleRow
    <3>2. CASE Inserts(p) /\ IF owner = Nobody THEN CallGoes(p, "recover") ELSE CallEnds(p)
      BY <2>1, <3>2 DEF Locks, Inserts, CallEnds
    <3>3. CASE TakesOver(p) /\ CallGoes(p, "recover")
      BY <2>1, <3>3 DEF Locks, TakesOver
    <3> QED
      BY <2>1, <3>1, <3>2, <3>3 DEF Locks
  <2>2. CASE Leaves(p)
    BY <2>2 DEF Leaves, Releases, CallEnds
  <2>3. CASE Resolves(p) \/ Waits(p)
    BY <2>3 DEF Resolves, Waits, CallEnds
  <2>4. CASE Refused(p) \/ Recovers(p) \/ Checks(p) \/ Polls(p)
    BY <2>4 DEF Refused, Recovers, Checks, Polls, CallEnds
  <2>5. CASE WriteEnds(p)
    BY <2>5 DEF WriteEnds
  <2> QED
    BY <1>4, <2>1, <2>2, <2>3, <2>4, <2>5 DEF CallStep
<1>5. ASSUME NEW p \in Proc, Heartbeats(p) PROVE G
  BY <1>5 DEF Heartbeats, Beats
<1>6. ASSUME NEW p \in Proc, OtherDies(p) PROVE G
  BY <1>6 DEF OtherDies, Crashes
<1>7. ASSUME NEW p \in Proc, OtherStarts(p) \/ OtherStops(p) PROVE G
  BY <1>7 DEF OtherStarts, OtherStops
<1>8. CASE UNCHANGED supVars
  BY <1>8
<1> QED
  BY <1>1, <1>2, <1>3, <1>4, <1>5, <1>6, <1>7, <1>8 DEF SupNext

(* A step that changes neither the row nor who may ask or write.            *)
LEMMA WrittenKept ==
    ASSUME WrittenInv, raced => raced', UNCHANGED row,
           \A p \in Proc : /\ pc[p] = "write" <=> pc'[p] = "write"
                           /\ pc'[p] \in {"check", "poll"} => pc[p] \in {"check", "poll"}
    PROVE  RunningIsWritten' /\ row' \in RowStatus
BY DEF WrittenInv, RunningIsWritten

LEMMA StepWritten ==
    WrittenInv /\ [SupNext]_supVars => RunningIsWritten' /\ row' \in RowStatus
<1> DEFINE G == RunningIsWritten' /\ row' \in RowStatus
<1> SUFFICES ASSUME WrittenInv, [SupNext]_supVars PROVE G
  OBVIOUS
<1>0. raced => raced'
  BY SupStepIsLeaseStep, RacedStays DEF WrittenInv
<1> USE DEF CallsTyped, CallAt
<1>1. CASE RunStep
  <2>1. UNCHANGED row /\ \A p \in Proc :
           pc'[p] # pc[p] => pc[p] \in {"free", "ended"} /\ pc'[p] \in {"free", "resolve"}
    <3> USE DEF WrittenInv
    <3>1. CASE Spawns
      <4>1. PICK r \in Runner : /\ pc[r] = "free"
                                /\ pc' = [pc EXCEPT ![r] = "resolve"]
        BY <3>1 DEF Spawns
      <4> QED
        BY <3>1, <4>1 DEF Spawns
    <3>2. CASE Forgets
      BY <3>2 DEF Forgets
    <3>3. CASE Reap
      BY <3>3 DEF Reap
    <3>4. CASE \/ ScanVolumes \/ ScanSettings \/ ScanJobs \/ Rests \/ CancelsAll \/ Returns
      BY <3>4 DEF ScanVolumes, ScanSettings, ScanJobs, Rests, CancelsAll, Returns
    <3> QED
      BY <1>1, <3>1, <3>2, <3>3, <3>4 DEF RunStep
  <2> QED
    BY <1>0, <2>1, WrittenKept
<1>2. CASE Outside
  <2>1. /\ UNCHANGED pc
        /\ \/ UNCHANGED row
           \/ row # "running" /\ row' \in {"none", "pending", "paused"}
    BY <1>2 DEF Outside, Plugs, Enqueues, EditsJob, Upserts, DeleteCounts, Deletes, Shutdown
  <2> QED
    BY <1>0, <2>1 DEF WrittenInv, RunningIsWritten, RowStatus
<1>3. CASE Cools \/ TimePasses
  BY <1>0, <1>3, WrittenKept DEF Cools, TimePasses
<1>4. ASSUME NEW p \in Proc, CallStep(p) PROVE G
  <2>1. CASE Locks(p) \/ Leaves(p) \/ Resolves(p) \/ Waits(p) \/ Refused(p)
    <3>1. UNCHANGED row
      BY <2>1 DEF Locks, Leaves, Resolves, Waits, Refused
    <3>2. \E to \in {"ended", "free", "lock", "parked", "recover", pc[p]} :
             pc' = [pc EXCEPT ![p] = to]
      BY <2>1 DEF Locks, Leaves, Resolves, Waits, Refused, CallEnds, WrittenInv
    <3>3. pc[p] # "write"
      BY <2>1 DEF Locks, Leaves, Resolves, Waits, Refused
    <3> QED
      BY <1>0, <3>1, <3>2, <3>3, WrittenKept DEF WrittenInv
  <2>2. CASE Recovers(p) \/ WriteEnds(p)
    <3>1. pc[p] \in Leased /\ pc' = [pc EXCEPT ![p] = "check"] /\ row' # "running"
          /\ row' \in RowStatus
      BY <2>2 DEF Recovers, WriteEnds, Leased, RowStatus, WrittenInv
    <3>2. ~raced => \A q \in Proc : q # p => pc[q] \notin Leased
      BY <3>1, OneLeased DEF WrittenInv
    <3> QED
      BY <1>0, <3>1, <3>2 DEF WrittenInv, RunningIsWritten, Leased
  <2>3. CASE Checks(p)
    BY <1>0, <2>3, WrittenKept DEF Checks, WrittenInv
  <2>4. CASE Polls(p)
    <3>1. CASE row = "pending"
      BY <1>0, <2>4, <3>1 DEF Polls, WrittenInv, RunningIsWritten, RowStatus
    <3>2. CASE row # "pending"
      BY <1>0, <2>4, <3>2, WrittenKept DEF Polls, WrittenInv
    <3> QED
      BY <3>1, <3>2
  <2> QED
    BY <1>4, <2>1, <2>2, <2>3, <2>4 DEF CallStep
<1>5. ASSUME NEW p \in Proc, Heartbeats(p) PROVE G
  BY <1>0, <1>5, WrittenKept DEF Heartbeats
<1>6. ASSUME NEW p \in Proc, OtherDies(p) PROVE G
  <2>1. pc' = [pc EXCEPT ![p] = "dead"] /\ UNCHANGED row
    BY <1>6 DEF OtherDies
  <2>2. ~raced /\ pc[p] = "write" => \A q \in Proc : q # p => pc[q] \notin Leased
    BY OneLeased DEF WrittenInv, Leased
  <2> QED
    BY <1>0, <2>1, <2>2 DEF WrittenInv, RunningIsWritten, Leased
<1>7. ASSUME NEW p \in Proc, OtherStarts(p) \/ OtherStops(p) PROVE G
  BY <1>0, <1>7, WrittenKept DEF OtherStarts, OtherStops, WrittenInv
<1>8. CASE UNCHANGED supVars
  BY <1>0, <1>8, WrittenKept
<1> QED
  BY <1>1, <1>2, <1>3, <1>4, <1>5, <1>6, <1>7, <1>8 DEF SupNext

(* A job is running exactly while somebody writes it, and what a dead       *)
(* process left running is seen to before the queue is asked for a job.     *)
THEOREM RunningWritten ==
    ASSUME PromptBeats PROVE SupSpec => []RunningIsWritten
<1>1. SupInit => WrittenInv
  <2>1. SupInit => LeaseInv
    BY InitLease DEF SupInit
  <2> QED
    BY <2>1 DEF SupInit, Init, WrittenInv, CallsTyped, CallAt, RowStatus,
                HeldWhereLeased, Leased, RunningIsWritten
<1>2. WrittenInv /\ [SupNext]_supVars => WrittenInv'
  <2>1. WrittenInv /\ [SupNext]_supVars => LeaseInv'
    BY SupStepIsLeaseStep, StepLease DEF WrittenInv
  <2> QED
    BY <2>1, StepHeld, StepWritten DEF WrittenInv
<1>3. WrittenInv => RunningIsWritten
  BY DEF WrittenInv
<1> QED
  BY <1>1, <1>2, <1>3, PTL DEF SupSpec
=============================================================================
