------------------------------- MODULE Events -------------------------------
(***************************************************************************)
(* The stream of queue events: once a second handleEvents lists the jobs   *)
(* and sends what changed since the last time, and a last word about the   *)
(* jobs that are gone, while the rows change and a connection may break    *)
(* under any event. The browser connects again. An id is never used twice. *)
(***************************************************************************)
EXTENDS Integers

CONSTANTS Job,
          MaxChanges,  \* bound: changes of rows
          MaxConnects, \* bound: connections
          Gone,        \* no such row, nothing said
          Removed      \* the message of a job's end

(* jobSig: the phase goes with the bytes. The ETA is left out.              *)
Sig == [status : {"pending", "running"}, done : 0 .. 1]

VARIABLES
    rows,    \* the table: [Job -> Sig or Gone]
    fresh,   \* ids not given out yet
    conn,    \* "none", "idle" between two snapshots, "changes", "removals"
    listing, \* what ListJobs returned
    todo,    \* the jobs of this pass still to be looked at
    last, seen,  \* the maps of this connection
    heard,   \* the client: the last event of this connection about each job
    late,    \* the client was told of a job after it was told of its end
    changes, connects

vars == <<rows, fresh, conn, listing, todo, last, seen, heard, late, changes, connects>>

Nothing == [j \in Job |-> Gone]

Init == /\ rows = Nothing /\ fresh = Job
        /\ conn = "none"
        /\ listing = Nothing /\ todo = {}
        /\ last = Nothing /\ seen = {}
        /\ heard = Nothing
        /\ late = FALSE
        /\ changes = 0 /\ connects = 0

-----------------------------------------------------------------------------
(* The rest of the program: enqueue, the runner, cancel.                    *)
Row(j, r) == /\ changes < MaxChanges /\ changes' = changes + 1
             /\ rows' = [rows EXCEPT ![j] = r]
             /\ UNCHANGED <<conn, listing, todo, last, seen, heard, late, connects>>

Enqueued(j) == /\ j \in fresh /\ fresh' = fresh \ {j}
               /\ Row(j, [status |-> "pending", done |-> 0])

Changed(j, sig) == rows[j] # Gone /\ rows[j] # sig /\ Row(j, sig) /\ UNCHANGED fresh

Deleted(j) == rows[j] # Gone /\ Row(j, Gone) /\ UNCHANGED fresh

-----------------------------------------------------------------------------
(* handleEvents.                                                            *)
table == <<rows, fresh, changes>>

(* A snapshot lists the jobs. A listing that fails skips the tick.          *)
Lists == /\ conn' = "changes"
         /\ listing' = rows
         /\ todo' = {j \in Job : rows[j] # Gone}
         /\ UNCHANGED table

(* A connection starts with empty maps and a snapshot.                      *)
Connects == /\ conn = "none" /\ connects < MaxConnects
            /\ connects' = connects + 1
            /\ Lists
            /\ last' = Nothing /\ seen' = todo'
            /\ heard' = Nothing /\ late' = FALSE

Ticks == /\ conn = "idle"
         /\ Lists
         /\ seen' = seen \cup todo'
         /\ UNCHANGED <<last, heard, late, connects>>

(* emit: the client hears the event, or the connection is gone.             *)
Emits(j, e) ==
    \/ /\ heard' = [heard EXCEPT ![j] = e]
       /\ late' = (late \/ heard[j] = Removed)
       /\ UNCHANGED conn
    \/ conn' = "none" /\ UNCHANGED <<heard, late>>

(* Mutant: a job whose bytes stand still is taken for unchanged.            *)
SameBytes(j) == last[j] # Gone /\ last[j].done = listing[j].done

Unchanged(j) == last[j] = listing[j]

Looks(j) ==
    /\ conn = "changes" /\ j \in todo
    /\ todo' = todo \ {j}
    /\ IF Unchanged(j) THEN UNCHANGED <<last, conn, heard, late>>
       ELSE last' = [last EXCEPT ![j] = listing[j]] /\ Emits(j, listing[j])
    /\ UNCHANGED <<table, listing, seen, connects>>

TurnsToRemoved ==
    /\ conn = "changes" /\ todo = {}
    /\ conn' = "removals"
    /\ todo' = {j \in seen : listing[j] = Gone}
    /\ UNCHANGED <<table, listing, last, seen, heard, late, connects>>

Forgets(j) == seen' = seen \ {j} /\ last' = [last EXCEPT ![j] = Gone]

Removes(j) ==
    /\ conn = "removals" /\ j \in todo
    /\ todo' = todo \ {j}
    /\ Forgets(j)
    /\ Emits(j, Removed)
    /\ UNCHANGED <<table, listing, connects>>

Rests ==
    /\ conn = "removals" /\ todo = {}
    /\ conn' = "idle"
    /\ UNCHANGED <<table, listing, todo, last, seen, heard, late, connects>>

(* The client goes away between two snapshots.                              *)
Leaves == /\ conn = "idle"
          /\ conn' = "none"
          /\ UNCHANGED <<table, listing, todo, last, seen, heard, late, connects>>

Next == \/ \E j \in Job : \/ Enqueued(j) \/ Deleted(j) \/ Looks(j) \/ Removes(j)
                          \/ \E sig \in Sig : Changed(j, sig)
        \/ Connects \/ Ticks \/ TurnsToRemoved \/ Rests \/ Leaves

Spec == Init /\ [][Next]_vars

-----------------------------------------------------------------------------
(* Between two snapshots the events of a connection add up to what was      *)
(* listed last: nothing changed without a word, what is gone was said to    *)
(* be, and after that word there was none about the job (snapshot).         *)
HeardIsListed ==
    /\ conn = "idle" => \A j \in Job : IF listing[j] # Gone THEN heard[j] = listing[j]
                                       ELSE heard[j] \in {Gone, Removed}
    /\ ~late
=============================================================================
