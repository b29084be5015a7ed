------------------------------ MODULE Progress ------------------------------
(***************************************************************************)
(* The phase and the bytes_done of one job's row: the tracker of the try   *)
(* that runs writes them, a split's ticker goroutine beside it once a      *)
(* second, and the statements that claim, finish and requeue the job. A    *)
(* goroutine that has taken a tick may save it after its try has ended.    *)
(* Which status follows from what is module Executor.                      *)
(***************************************************************************)
EXTENDS Integers, Sequences

CONSTANTS Files,    \* files of an Ember copy
          Size,     \* units of each file
          MaxTries, \* bound: claims of the job
          MaxOps    \* bound: pauses, retries, deletes and process deaths

Kind == {"copy", "convert", "split", "ember"}
Try  == 1 .. MaxTries

(* What a try of each kind does: phases it sets, bytes it moves, its ticker. *)
Work(kind) ==
    CASE kind = "copy"    -> <<"Copying", "bytes", "Verifying">>
      [] kind = "convert" -> <<"Converting", "bytes", "Verifying">>
      [] kind = "split"   -> <<"Splitting", "ticker", "bytes", "Verifying">>
      [] kind = "ember"   -> [k \in 1 .. 2 * Files + 1 |->
                                IF k = 1 THEN "Copying"
                                ELSE IF k % 2 = 0 THEN "bytes" ELSE "Verifying"]

VARIABLES
    kind,
    status, phase, done, \* the row; "new" before its insert, "gone" at last,
                         \* no phase is "none"
    try,       \* the last try
    at,        \* where the runner is: "idle", "work", "stop", "settle"
    step,      \* the step of Work(kind) it is at
    now,       \* tracker.phase
    moved,     \* of each try: tracker.done, the ticker's counted.n
    pos,       \* units of the file it moves
    passed,    \* the try succeeded
    cancelled, \* the context of the try is done
    ticker,    \* each try's goroutine: "none", "select", "save", "ended"
    tick,      \* a tick is waiting in its channel
    held,      \* what it read when it took a tick
    cleared,   \* history: a requeue or retry brought the job where it is
    stale,     \* history: the last save was a ticker's, and of an old count
               \* or of a job that was not running
    ops

row    == <<status, phase, done>>
runner == <<try, at, step, now, moved, pos, passed>>
timer  == <<ticker, tick, held>>
notes  == <<cleared, stale>>
vars   == <<kind, row, runner, cancelled, timer, notes, ops>>

Init == /\ kind = "copy"
        /\ status = "new" /\ phase = "none" /\ done = 0
        /\ try = 0 /\ at = "idle" /\ step = 1 /\ now = "none"
        /\ moved = [t \in Try |-> 0] /\ pos = 0
        /\ passed = FALSE /\ cancelled = FALSE
        /\ ticker = [t \in Try |-> "none"]
        /\ tick = [t \in Try |-> FALSE]
        /\ held = [t \in Try |-> 0]
        /\ cleared = FALSE /\ stale = FALSE
        /\ ops = 0

Enqueue(k) ==
    /\ status = "new" /\ status' = "pending"
    /\ kind' = k /\ cleared' = TRUE
    /\ UNCHANGED <<phase, done, runner, cancelled, timer, stale, ops>>

(* UPDATE jobs SET phase, bytes_done WHERE id: nothing if the row is gone.  *)
Checkpoint(p, n) == /\ phase' = IF status = "gone" THEN phase ELSE p
                    /\ done' = IF status = "gone" THEN done ELSE n
                    /\ UNCHANGED status
-----------------------------------------------------------------------------
(* The runner.                                                              *)

(* NextPending, and a new tracker.                                          *)
Claims ==
    /\ at = "idle" /\ status = "pending" /\ try < MaxTries
    /\ status' = "running" /\ phase' = "none" /\ UNCHANGED done
    /\ try' = try + 1 /\ at' = "work" /\ step' = 1
    /\ now' = "none" /\ pos' = 0 /\ passed' = FALSE /\ cancelled' = FALSE
    /\ cleared' = FALSE
    /\ UNCHANGED <<kind, moved, timer, stale, ops>>

Doing(what) == at = "work" /\ step <= Len(Work(kind)) /\ Work(kind)[step] \in what

(* Mutant: the phase is saved with the next bytes.                          *)
RemembersPhase ==
    /\ Doing({"Copying", "Converting", "Splitting", "Verifying"})
    /\ now' = Work(kind)[step] /\ step' = step + 1 /\ pos' = 0
    /\ UNCHANGED <<kind, row, try, at, moved, passed, cancelled, timer, notes, ops>>

SetsPhase ==
    /\ Doing({"Copying", "Converting", "Splitting", "Verifying"})
    /\ now' = Work(kind)[step] /\ step' = step + 1 /\ pos' = 0
    /\ Checkpoint(now', moved[try]) /\ stale' = FALSE
    /\ UNCHANGED <<kind, try, at, moved, passed, cancelled, timer, cleared, ops>>

StartsTicker ==
    /\ Doing({"ticker"})
    /\ ticker' = [ticker EXCEPT ![try] = "select"]
    /\ step' = step + 1
    /\ UNCHANGED <<kind, row, try, at, now, moved, pos, passed, cancelled,
                   tick, held, notes, ops>>

(* A block: the tracker counts it and saves, if it is time to. Of an Ember  *)
(* copy it counts the file's bytes.                                         *)
Moves ==
    /\ Doing({"bytes"})
    /\ pos' = pos + 1
    /\ moved' = [moved EXCEPT ![try] = pos']
    /\ step' = IF pos' = Size THEN step + 1 ELSE step
    /\ \/ Checkpoint(now, pos') /\ stale' = FALSE
       \/ UNCHANGED <<row, stale>>
    /\ UNCHANGED <<kind, try, at, now, passed, cancelled, timer, cleared, ops>>

(* The try returns, with or without an error: done is closed ...            *)
Returns(ok) ==
    /\ at = "work"
    /\ ok => step > Len(Work(kind))
    /\ passed' = ok
    /\ at' = IF ticker[try] = "none" THEN "settle" ELSE "stop"
    /\ UNCHANGED <<kind, row, try, step, now, moved, pos, cancelled, timer, notes, ops>>

(* ... and then the ticker is stopped, which empties its channel.           *)
Stops ==
    /\ at = "stop"
    /\ tick' = [tick EXCEPT ![try] = FALSE]
    /\ at' = "settle"
    /\ UNCHANGED <<kind, row, try, step, now, moved, pos, passed, cancelled,
                   ticker, held, notes, ops>>

(* FinishJob, which leaves bytes_done alone; it writes status and phase.    *)
Finish(s) == /\ status' = IF status = "gone" THEN status ELSE s
             /\ phase' = IF status = "gone" THEN phase ELSE "none"
             /\ UNCHANGED <<done, cleared, stale>>

RequeueJob == IF status \in {"gone", "done"} THEN UNCHANGED <<row, notes>>
              ELSE /\ status' = "pending" /\ phase' = "none" /\ done' = 0
                   /\ cleared' = TRUE /\ stale' = FALSE

(* executeJob and fail: a try that was cancelled is never parked.           *)
Settles ==
    /\ at = "settle"
    /\ \/ passed /\ Finish("done")
       \/ ~passed /\ RequeueJob
       \/ ~passed /\ ~cancelled /\ Finish("error")
    /\ at' = "idle" /\ cancelled' = TRUE
    /\ UNCHANGED <<kind, try, step, now, moved, pos, passed, timer, ops>>

(* A cancel or a shutdown.                                                  *)
Cancelled ==
    /\ at = "work" /\ ~cancelled
    /\ cancelled' = TRUE
    /\ UNCHANGED <<kind, row, runner, timer, notes, ops>>
-----------------------------------------------------------------------------
(* The goroutine.                                                           *)

Stopped(t) == t < try \/ at \in {"settle", "idle"}

(* A second has passed.                                                     *)
Ticks(t) ==
    /\ ticker[t] # "none" /\ ~Stopped(t) /\ ~tick[t]
    /\ tick' = [tick EXCEPT ![t] = TRUE]
    /\ UNCHANGED <<kind, row, runner, cancelled, ticker, held, notes, ops>>

(* select takes any case that is ready, a tick beside a closed channel too. *)
Takes(t) ==
    /\ ticker[t] = "select" /\ tick[t]
    /\ ticker' = [ticker EXCEPT ![t] = "save"]
    /\ tick' = [tick EXCEPT ![t] = FALSE]
    /\ held' = [held EXCEPT ![t] = moved[t]]
    /\ UNCHANGED <<kind, row, runner, cancelled, notes, ops>>

Saves(t) ==
    /\ ticker[t] = "save"
    /\ ticker' = [ticker EXCEPT ![t] = "select"]
    /\ Checkpoint("Splitting", held[t])
    /\ stale' = (t # try \/ status # "running" \/ held[t] # moved[t])
    /\ UNCHANGED <<kind, runner, cancelled, tick, held, cleared, ops>>

(* done is closed, or the context of the job is done.                       *)
TryOver(t) == t < try \/ at # "work" \/ cancelled

Ends(t) ==
    /\ ticker[t] = "select" /\ TryOver(t)
    /\ ticker' = [ticker EXCEPT ![t] = "ended"]
    /\ UNCHANGED <<kind, row, runner, cancelled, tick, held, notes, ops>>
-----------------------------------------------------------------------------
(* PATCH /api/queue/{id}, and the end of the process.                       *)

Op == ops < MaxOps /\ ops' = ops + 1 /\ UNCHANGED <<kind, moved, try>>

User(from, to) == /\ Op /\ status \in from /\ status' = to
                  /\ UNCHANGED <<phase, at, step, now, pos, passed, cancelled, timer, stale>>

PauseJob == User({"pending", "error"}, "paused") /\ cleared' = FALSE /\ UNCHANGED done

ResumeJob == User({"paused"}, "pending") /\ UNCHANGED <<done, cleared>>

RetryJob == User({"error"}, "pending") /\ done' = 0 /\ cleared' = TRUE

(* CancelJob, or DeleteJob under a runner that does not stop.               *)
Deletes == User({"pending", "running", "paused", "error", "done"}, "gone")
           /\ UNCHANGED <<done, cleared>>

(* Its goroutines end with it, and recover requeues what was running.       *)
Dies == /\ Op /\ at # "idle"
        /\ at' = "idle" /\ step' = 1 /\ now' = "none" /\ pos' = 0 /\ passed' = FALSE
        /\ cancelled' = TRUE
        /\ ticker' = [t \in Try |-> IF ticker[t] = "none" THEN "none" ELSE "ended"]
        /\ tick' = [t \in Try |-> FALSE]
        /\ UNCHANGED <<row, held, notes>>

Recovers == /\ at = "idle" /\ status = "running"
            /\ RequeueJob
            /\ UNCHANGED <<kind, runner, cancelled, timer, ops>>

RunnerStep == \/ SetsPhase \/ StartsTicker \/ Moves \/ Stops \/ Settles
              \/ \E ok \in BOOLEAN : Returns(ok)

Next == \/ \E k \in Kind : Enqueue(k)
        \/ Claims \/ RunnerStep \/ Cancelled \/ Dies \/ Recovers
        \/ \E t \in Try : Ticks(t) \/ Takes(t) \/ Saves(t) \/ Ends(t)
        \/ PauseJob \/ ResumeJob \/ RetryJob \/ Deletes

(* The runner goes on, and so does a goroutine that can: but a tick need    *)
(* not come, and of two ready cases any may be taken.                       *)
Fairness == /\ WF_vars(RunnerStep)
            /\ \A t \in Try : WF_vars(Saves(t)) /\ WF_vars(Ends(t))

Spec == Init /\ [][Next]_vars /\ Fairness
-----------------------------------------------------------------------------
TypeOK ==
    /\ kind \in Kind
    /\ status \in {"new", "pending", "running", "paused", "error", "done", "gone"}
    /\ phase \in {"none", "Copying", "Converting", "Splitting", "Verifying"}
    /\ done \in 0 .. Size
    /\ try \in 0 .. MaxTries
    /\ at \in {"idle", "work", "stop", "settle"}
    /\ moved \in [Try -> 0 .. Size] /\ pos \in 0 .. Size
    /\ ticker \in [Try -> {"none", "select", "save", "ended"}]
    /\ tick \in [Try -> BOOLEAN]
    /\ held \in [Try -> 0 .. Size]
    /\ {passed, cancelled, cleared, stale} \subseteq BOOLEAN

(* Unless a ticker saved an old count or after its try: a finished job's    *)
(* bytes are all there, whatever checkpoints were skipped; a job that is    *)
(* started over starts from nothing; none shows a phase while it rests      *)
(* (tracker, FinishJob, RequeueJob, RetryJob).                              *)
RestsWithItsBytes ==
    ~stale => /\ status = "done" => done = Size
              /\ cleared /\ status = "pending" => done = 0
              /\ status \in {"done", "error"} /\ at # "settle" => phase = "none"

(* "RequeueJob returns a job to pending, clearing error and progress": a    *)
(* job that was started over has none until it is claimed.                  *)
ClearedStaysClear == cleared /\ status = "pending" => phase = "none" /\ done = 0

(* "Converting -> Splitting -> Copying -> Verifying -> Done": the phase of  *)
(* a try that runs never goes back.                                         *)
Rank(p) == CASE p = "none" -> 0 [] p = "Converting" -> 1 [] p = "Splitting" -> 2
             [] p = "Copying" -> 3 [] p = "Verifying" -> 4

PhasesAdvance ==
    [][at # "idle" /\ at' # "idle" /\ status = "running" /\ status' = "running"
         => Rank(phase) <= Rank(phase')]_vars
=============================================================================
