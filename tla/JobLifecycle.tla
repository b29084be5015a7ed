---------------------------- MODULE JobLifecycle ----------------------------
(***************************************************************************)
(* What the transfer queue promises of every job row, whatever the         *)
(* executor, the HTTP handlers and a crash do to it: the legal moves of    *)
(* its status column, and at most one running row per destination that     *)
(* anybody still works on: a row may get stuck in running, and then only   *)
(* a recovery or a removal moves it.                                       *)
(* "new" is an id not yet inserted and "gone" one whose row was deleted;   *)
(* ids are AUTOINCREMENT, so a gone id never comes back.                   *)
(***************************************************************************)
CONSTANTS Job,      \* the job ids
          Dest,     \* the destination paths
          DestOf    \* the destination each job was enqueued for

VARIABLES status,   \* jobs.status, per id
          stuck     \* the running rows that nobody works on any more

columns == <<status, stuck>>

Status == {"new", "pending", "running", "paused", "error", "done", "gone"}

Init == /\ status = [j \in Job |-> "new"]
        /\ stuck = {}

Move(j, from, to) == /\ status[j] \in from
                     /\ status' = [status EXCEPT ![j] = to]
                     /\ stuck' = stuck \ {j}

Enqueue(j) == Move(j, {"new"}, "pending")

(* Exactly one destination-writing job per destination.                    *)
Claim(j) == /\ \A k \in Job \ stuck : DestOf[k] = DestOf[j] => status[k] # "running"
            /\ Move(j, {"pending"}, "running")

Succeed(j) == j \notin stuck /\ Move(j, {"running"}, "done")
Park(j)    == j \notin stuck /\ Move(j, {"running"}, "error")

(* The statement that should have moved the row failed.                    *)
Abandon(j) == /\ status[j] = "running"
              /\ stuck' = stuck \cup {j}
              /\ UNCHANGED status

(* Cancelled, interrupted, or failed with tries left.                      *)
Requeue(j) == Move(j, {"running"}, "pending")

Retry(j)  == Move(j, {"error"}, "pending")
Pause(j)  == Move(j, {"pending", "error"}, "paused")
Resume(j) == Move(j, {"paused"}, "pending")
Remove(j) == Move(j, Status \ {"new", "gone"}, "gone")

Next == \E j \in Job :
           \/ Enqueue(j) \/ Claim(j)
           \/ Succeed(j) \/ Park(j) \/ Requeue(j) \/ Abandon(j)
           \/ Retry(j) \/ Pause(j) \/ Resume(j) \/ Remove(j)

Spec == Init /\ [][Next]_columns
=============================================================================
