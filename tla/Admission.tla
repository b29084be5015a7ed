----------------------------- MODULE Admission -----------------------------
(***************************************************************************)
(* Which jobs a destination takes and in which order it runs them: enqueue *)
(* requests check the free space and number their jobs, a reorder          *)
(* renumbers all of them, and the runner consumes both, each statement by  *)
(* statement and none in a transaction. Module Executor has the runner's   *)
(* control in full; here it is what it does to order and space.            *)
(***************************************************************************)
EXTENDS Integers, FiniteSets, SequencesExt

CONSTANTS Batch,     \* enqueue requests for the destination
          Sizes,     \* the bytes_total of each one's jobs, a sequence
          Capacity,  \* bytes of the device
          Mover,     \* reorder requests
          MaxEvents, \* bound: failures, pauses, resumes, retries, deletes
          None       \* no job

(* The n-th job of a batch.                                                 *)
Job == UNION {{b} \X DOMAIN Sizes[b] : b \in Batch}

ASSUME AdmissionAssumption ==
    /\ IsFiniteSet(Batch)
    /\ Sizes \in [Batch -> Seq(Nat \ {0})]
    /\ Capacity \in Nat /\ MaxEvents \in Nat
    /\ None \notin Job

Total(j) == Sizes[j[1]][j[2]]

VARIABLES
    status,    \* jobs.status
    ord,       \* jobs."order"
    done,      \* jobs.bytes_done
    temp,      \* bytes of each job's temp file
    kept,      \* bytes of each job's output at its final path
    wpc, cur,  \* where the runner is and its job
    waiting,   \* history: what was pending when the runner chose its job
    at,        \* where each enqueue request is
    free,      \* the free bytes it saw
    top,       \* the last order it knows of
    next,      \* which of its jobs is inserted next
    earlier,   \* history: the requests that had returned when it began
    mat,       \* where each reorder request is
    list,      \* the queue it has still to number, its job already moved
    place,     \* the number it gives next
    goal,      \* history: the move it makes, if nobody interferes
    moved,     \* history: some reorder began
    excused,   \* history: an enqueue request overlapped another one or did
               \* not know the free bytes, the runner moved bytes between
               \* its two readings, bytes came back that no in-flight sum
               \* counts, or a row was left running
    events

rows   == <<status, ord, done>>
device == <<temp, kept>>
runner == <<wpc, cur, waiting>>
batch  == <<at, free, top, next, earlier>>
mover  == <<mat, list, place, goal, moved>>
vars   == <<rows, device, runner, batch, mover, excused, events>>

Rows    == {j \in Job : status[j] \notin {"new", "gone"}}
Pending == {j \in Job : status[j] = "pending"}
Active  == {j \in Job : status[j] \in {"pending", "running", "paused"}}

(* f[j] bytes of each j in S, in all: their number.                         *)
Bytes(f, S) == Cardinality(UNION {{j} \X (1 .. f[j]) : j \in S})

OnDevice == [j \in Job |-> temp[j] + kept[j]]

Free == Capacity - Bytes(OnDevice, Job)

(* FreeBytes when the probe could not tell.                                 *)
Unknown == -1

Init == /\ status = [j \in Job |-> "new"]
        /\ ord = [j \in Job |-> 0]
        /\ done = [j \in Job |-> 0]
        /\ temp = [j \in Job |-> 0]
        /\ kept = [j \in Job |-> 0]
        /\ wpc = "idle" /\ cur = None /\ waiting = {}
        /\ at = [b \in Batch |-> "idle"]
        /\ free = [b \in Batch |-> 0]
        /\ top = [b \in Batch |-> 0]
        /\ next = [b \in Batch |-> 1]
        /\ earlier = [b \in Batch |-> {}]
        /\ mat = [m \in Mover |-> "idle"]
        /\ list = [m \in Mover |-> <<>>]
        /\ place = [m \in Mover |-> 0]
        /\ goal = [m \in Mover |-> <<>>]
        /\ moved = FALSE
        /\ excused = FALSE
        /\ events = 0

-----------------------------------------------------------------------------
(* POST /api/queue: enqueueItems.                                           *)

Goto(b, l) == at' = [at EXCEPT ![b] = l]

Busy(b) == at[b] \in {"sum", "max", "insert"}

(* Validated; the destination's free bytes are read first (Probe, whose     *)
(* failure is no error).                                                    *)
Resolves(b) ==
    /\ at[b] = "idle"
    /\ \E f \in {Free, Unknown} : free' = [free EXCEPT ![b] = f]
    /\ earlier' = [earlier EXCEPT ![b] = {c \in Batch : at[c] = "returned"}]
    /\ excused' = (excused \/ \E c \in Batch : Busy(c))
    /\ Goto(b, "sum")
    /\ UNCHANGED <<rows, device, runner, top, next, mover, events>>

Left == [j \in Job |-> Total(j) - done[j]]

(* Mutant: paused jobs are not in flight.                                   *)
RunnableBytes == Bytes(Left, {j \in Active : status[j] # "paused"})

InFlightBytes == Bytes(Left, Active)

Need(b) == Bytes([j \in Job |-> Total(j)], {j \in Job : j[1] = b})

TooMuch(b) == free[b] # Unknown /\ Need(b) + InFlightBytes > free[b]

(* A request known to lack room is refused.                                 *)
Admits(b) ==
    /\ at[b] = "sum"
    /\ Goto(b, IF TooMuch(b) THEN "refused" ELSE "max")
    /\ free' = [free EXCEPT ![b] = 0]
    /\ excused' = (excused \/ wpc = "fail" \/ free[b] = Unknown)
    /\ UNCHANGED <<rows, device, runner, top, next, earlier, mover,
                   events>>

(* COALESCE(MAX("order"), -1).                                              *)
ReadsMax(b) ==
    /\ at[b] = "max"
    /\ \E n \in {ord[j] : j \in Rows} \cup {-1} :
          /\ \A j \in Rows : ord[j] <= n
          /\ top' = [top EXCEPT ![b] = n]
    /\ Goto(b, "insert")
    /\ UNCHANGED <<rows, device, runner, free, next, earlier, mover, excused, events>>

(* A row more or less: what a reorder read is no longer the queue.          *)
SpoilsGoals == goal' = [m \in Mover |-> <<>>]

Inserts(b) ==
    LET j == <<b, next[b]>> IN
    /\ at[b] = "insert"
    /\ j \in Job
    /\ status' = [status EXCEPT ![j] = "pending"]
    /\ ord' = [ord EXCEPT ![j] = top[b] + 1]
    /\ top' = [top EXCEPT ![b] = @ + 1]
    /\ next' = [next EXCEPT ![b] = @ + 1]
    /\ SpoilsGoals
    /\ UNCHANGED <<done, device, runner, at, free, earlier, mat, list, place,
                   moved, excused, events>>

(* All inserted; or the database refused a statement, and the rows inserted *)
(* before it stay.                                                          *)
Returns(b) ==
    /\ \/ at[b] = "insert" /\ next[b] > Len(Sizes[b])
       \/ Busy(b)
    /\ Goto(b, "returned")
    /\ free' = [free EXCEPT ![b] = 0]
    /\ top' = [top EXCEPT ![b] = 0]
    /\ UNCHANGED <<rows, device, runner, next, earlier, mover, excused, events>>

-----------------------------------------------------------------------------
(* The runner.                                                              *)

(* It moved bytes: a request between its two readings saw neither state.    *)
MovesBytes == excused' = (excused \/ \E b \in Batch : at[b] = "sum")

(* Mutant: no ORDER BY.                                                     *)
SelectsAny ==
    /\ wpc = "idle"
    /\ cur' \in Pending
    /\ waiting' = Pending
    /\ wpc' = "claim"
    /\ UNCHANGED <<rows, device, batch, mover, excused, events>>

(* NextPending: the lowest order; SQLite may take any of equals ...         *)
Selects ==
    /\ wpc = "idle"
    /\ cur' \in {j \in Pending : \A k \in Pending : ord[j] <= ord[k]}
    /\ waiting' = Pending
    /\ wpc' = "claim"
    /\ UNCHANGED <<rows, device, batch, mover, excused, events>>

(* ... and a guarded UPDATE: a job paused or cancelled meanwhile is lost.   *)
Claims ==
    /\ wpc = "claim"
    /\ \/ /\ status[cur] = "pending"
          /\ status' = [status EXCEPT ![cur] = "running"]
          /\ wpc' = "prepare" /\ UNCHANGED cur
       \/ /\ status[cur] # "pending"
          /\ wpc' = "idle" /\ cur' = None /\ UNCHANGED status
    /\ waiting' = {}
    /\ UNCHANGED <<ord, done, device, batch, mover, excused, events>>

(* setPhase: the first checkpoint.                                          *)
Begins ==
    /\ wpc = "prepare"
    /\ done' = [done EXCEPT ![cur] = 0]
    /\ wpc' = "write"
    /\ UNCHANGED <<status, ord, device, cur, waiting, batch, mover, excused,
                   events>>

Writes ==
    /\ wpc = "write" /\ temp[cur] < Total(cur) /\ Free > 0
    /\ temp' = [temp EXCEPT ![cur] = @ + 1]
    /\ MovesBytes
    /\ UNCHANGED <<rows, kept, runner, batch, mover, events>>

Checkpoints ==
    /\ wpc \in {"write", "verify"}
    /\ done' = [done EXCEPT ![cur] = IF wpc = "write" THEN temp[cur] ELSE Total(cur)]
    /\ done' # done
    /\ MovesBytes
    /\ UNCHANGED <<status, ord, device, runner, batch, mover, events>>

Commits ==
    /\ wpc = "write" /\ temp[cur] = Total(cur)
    /\ temp' = [temp EXCEPT ![cur] = 0]
    /\ kept' = [kept EXCEPT ![cur] = Total(cur)]
    /\ wpc' = "verify"
    /\ MovesBytes
    /\ UNCHANGED <<rows, cur, waiting, batch, mover, events>>

Passes ==
    /\ wpc = "verify" /\ done[cur] = Total(cur)
    /\ status' = [status EXCEPT ![cur] = "done"]
    /\ wpc' = "idle" /\ cur' = None
    /\ MovesBytes
    /\ UNCHANGED <<ord, done, device, waiting, batch, mover, events>>

(* A failure before, in or after the write: the temp file goes, an output   *)
(* whose hash is wrong stays.                                               *)
Fails ==
    /\ \/ wpc \in {"prepare", "write"} /\ MovesBytes
       \/ wpc = "verify" /\ done[cur] = Total(cur) /\ excused' = TRUE
    /\ temp' = [temp EXCEPT ![cur] = 0]
    /\ wpc' = "fail"
    /\ events < MaxEvents /\ events' = events + 1
    /\ UNCHANGED <<rows, kept, cur, waiting, batch, mover>>

(* RequeueJob, or FinishJob with the error, which leaves bytes_done alone.  *)
Settles ==
    /\ wpc = "fail"
    /\ \/ /\ status' = [status EXCEPT ![cur] = "pending"]
          /\ done' = [done EXCEPT ![cur] = 0]
       \/ status' = [status EXCEPT ![cur] = "error"] /\ UNCHANGED done
    /\ wpc' = "idle" /\ cur' = None
    /\ MovesBytes
    /\ UNCHANGED <<ord, device, waiting, batch, mover, events>>

(* The statement that ends a job fails, the error is dropped and the row    *)
(* stays as it is.                                                          *)
Drops ==
    /\ \/ wpc = "fail"
       \/ wpc = "verify" /\ done[cur] = Total(cur)
    /\ wpc' = "idle" /\ cur' = None
    /\ excused' = TRUE
    /\ events < MaxEvents /\ events' = events + 1
    /\ UNCHANGED <<rows, device, waiting, batch, mover>>

RunnerStep == \/ Selects \/ Claims \/ Begins \/ Writes \/ Checkpoints
              \/ Commits \/ Passes \/ Fails \/ Settles \/ Drops

-----------------------------------------------------------------------------
(* PATCH /api/queue/{id}.                                                   *)

Op == /\ events < MaxEvents /\ events' = events + 1
      /\ UNCHANGED <<ord, device, runner, batch, mat, list, place, moved>>

(* A job in error is not in flight, and its bytes_done is stale.            *)
PauseJob(j) == /\ Op /\ status[j] \in {"pending", "error"}
               /\ status' = [status EXCEPT ![j] = "paused"]
               /\ excused' = (excused \/ status[j] = "error")
               /\ UNCHANGED <<done, goal>>

ResumeJob(j) == /\ Op /\ status[j] = "paused"
                /\ status' = [status EXCEPT ![j] = "pending"]
                /\ UNCHANGED <<done, goal, excused>>

RetryJob(j) == /\ Op /\ status[j] = "error"
               /\ status' = [status EXCEPT ![j] = "pending"]
               /\ done' = [done EXCEPT ![j] = 0]
               /\ excused' = TRUE
               /\ UNCHANGED goal

CancelJob(j) == /\ Op /\ status[j] \notin {"new", "gone", "running"}
                /\ status' = [status EXCEPT ![j] = "gone"]
                /\ SpoilsGoals
                /\ UNCHANGED <<done, excused>>

(* The rows in queue order; any order of equals.                            *)
Queues == {s \in SetToSeqs(Rows) :
             \A i, k \in DOMAIN s : i < k => ord[s[i]] <= ord[s[k]]}

(* The zero-based position p among the rest and the moved job, or last.     *)
Place(rest, p) == IF p > Len(rest) THEN Len(rest) ELSE p

(* Mutant: append(rest[:position], target) into the array of rest.          *)
MovedAliased(rest, j, p) ==
    LET q == Place(rest, p) IN
    SubSeq(rest, 1, q) \o <<j>>
        \o [SubSeq(rest, q + 1, Len(rest)) EXCEPT ![1] = j]

(* The rest of the queue with job j put in.                                 *)
Moved(rest, j, p) == InsertAt(rest, Place(rest, p) + 1, j)

(* Reorder: ListJobs ...                                                    *)
MoverReads(m) ==
    /\ mat[m] = "idle"
    /\ \E s \in Queues, p \in 0 .. Cardinality(Rows) : \E i \in DOMAIN s :
          LET rest == RemoveAt(s, i) IN
          /\ list' = [list EXCEPT ![m] = Moved(rest, s[i], p)]
          /\ goal' = [goal EXCEPT ![m] = [job |-> s[i], place |-> p, rest |-> rest]]
    /\ mat' = [mat EXCEPT ![m] = "write"]
    /\ moved' = TRUE
    /\ UNCHANGED <<rows, device, runner, batch, place, excused, events>>

(* ... and one UPDATE per job.                                              *)
MoverWrites(m) ==
    /\ mat[m] = "write" /\ list[m] # <<>>
    /\ LET j == Head(list[m]) IN
       ord' = [ord EXCEPT ![j] = IF j \in Rows THEN place[m] ELSE @]
    /\ list' = [list EXCEPT ![m] = Tail(@)]
    /\ place' = [place EXCEPT ![m] = @ + 1]
    /\ goal' = [k \in Mover |-> IF k = m THEN goal[m] ELSE <<>>]
    /\ UNCHANGED <<status, done, device, runner, batch, mat, moved, excused, events>>

(* Done, or a statement failed and the rest keeps its old orders.           *)
MoverReturns(m) ==
    /\ mat[m] = "write"
    /\ mat' = [mat EXCEPT ![m] = IF list[m] = <<>> THEN "moved" ELSE "failed"]
    /\ list' = [list EXCEPT ![m] = <<>>]
    /\ place' = [place EXCEPT ![m] = 0]
    /\ goal' = [goal EXCEPT ![m] = <<>>]
    /\ UNCHANGED <<rows, device, runner, batch, moved, excused, events>>

Next ==
    \/ \E b \in Batch : \/ Resolves(b) \/ Admits(b) \/ ReadsMax(b)
                        \/ Inserts(b) \/ Returns(b)
    \/ RunnerStep
    \/ \E j \in Job : \/ PauseJob(j) \/ ResumeJob(j)
                      \/ RetryJob(j) \/ CancelJob(j)
    \/ \E m \in Mover : MoverReads(m) \/ MoverWrites(m) \/ MoverReturns(m)

Spec == Init /\ [][Next]_vars
-----------------------------------------------------------------------------
TypeOK ==
    /\ status \in [Job -> {"new", "pending", "running", "paused", "error",
                           "done", "gone"}]
    /\ ord \in [Job -> Nat]
    /\ done \in [Job -> Nat] /\ \A j \in Job : done[j] <= Total(j)
    /\ temp \in [Job -> Nat]
    /\ kept \in [Job -> Nat]
    /\ wpc \in {"idle", "claim", "prepare", "write", "verify", "fail"}
    /\ cur \in Job \cup {None} /\ waiting \subseteq Job
    /\ at \in [Batch -> {"idle", "sum", "max", "insert", "refused", "returned"}]
    /\ free \in [Batch -> Nat \cup {Unknown}]
    /\ top \in [Batch -> Nat \cup {-1}]
    /\ next \in [Batch -> Nat]
    /\ earlier \in [Batch -> SUBSET Batch]
    /\ mat \in [Mover -> {"idle", "write", "moved", "failed"}]
    /\ list \in [Mover -> Seq(Job)]
    /\ place \in [Mover -> Nat]
    /\ moved \in BOOLEAN /\ excused \in BOOLEAN
    /\ events \in Nat

(* Bytes the jobs the destination has taken are still going to write.       *)
Unwritten == [j \in Job |-> IF j = cur /\ wpc = "verify" THEN 0
                            ELSE Total(j) - temp[j]]

Owed == Bytes(Unwritten, Active)

Fits == Owed <= Free

(* What the destination has taken fits on it, at every moment of every job, *)
(* as long as requests come one by one with the runner at rest between      *)
(* their two readings, the probe answers, no statement that ends a job      *)
(* fails and no failed job is brought back (enqueueItems, InFlightBytes).   *)
FitsIfCounted == excused \/ Fits

(* No job starts before one that was enqueued earlier and was waiting when  *)
(* the runner chose, unless the user moved jobs: one resumed or retried     *)
(* between the two statements comes too late (Enqueue's MAX + 1,            *)
(* NextPending's ORDER BY).                                                 *)
Before(k, j) == k[1] \in earlier[j[1]] \/ (k[1] = j[1] /\ k[2] < j[2])

ClaimsInOrder ==
    [][\A j \in Job : status[j] = "pending" /\ status'[j] = "running" /\ ~moved =>
          \A k \in waiting : ~Before(k, j)]_vars

(* A reorder nobody interfered with puts its job where it was told to and   *)
(* leaves all others in their order, with no two orders equal (Reorder).    *)
MoveLands ==
    \A m \in Mover : mat[m] = "write" /\ list[m] = <<>> /\ goal[m] # <<>> =>
        LET g == goal[m] IN
        /\ Cardinality({k \in Rows : ord[k] < ord[g.job]})
             = Min({g.place, Cardinality(Rows) - 1})
        /\ \A i, k \in DOMAIN g.rest : i < k => ord[g.rest[i]] < ord[g.rest[k]]
        /\ \A j, k \in Rows : ord[j] = ord[k] => j = k
=============================================================================
