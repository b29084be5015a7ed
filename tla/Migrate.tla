------------------------------ MODULE Migrate -------------------------------
(***************************************************************************)
(* Opening the job store. Open brings the schema of an older database up   *)
(* to date statement by statement, each committed on its own, guarded by    *)
(* looks at the schema that come before it. Several processes may open the *)
(* same file; each may die between two statements and start again.         *)
(***************************************************************************)
EXTENDS Naturals

CONSTANTS Proc,
          Job,         \* the jobs of the old database
          Registered,  \* ... whose destination is in its registry
          Nobody,
          MaxMisreads, \* bound: looks that fail and report that there is nothing
          MaxStops     \* bound: deaths, and statements that fail by themselves

(* What a database has: tables, and the columns that came or went. The lock *)
(* table is keyed by one of two columns.                                    *)
Object == {"destinations", "total_bytes", "destination_id", "destination_path",
           "attempt_count", "locks_by_id", "locks_by_path"}
Jobs   == {"destination_id", "destination_path"}
Locks  == {"locks_by_id", "locks_by_path"}

(* The databases of the releases before live destinations.                  *)
OldSchema == {{"destinations", "destination_id", "locks_by_id"} \cup more :
                more \in SUBSET {"total_bytes", "attempt_count"}}

At == {"closed", "open", "refused", "create", "registry1", "seesTotal", "total",
       "seesAttempts", "attempts", "registry2", "settings", "seesPath", "path",
       "jobs", "drop", "seesPath2", "path2", "seesId", "id", "index", "seesLocks",
       "seesKey", "dropLocks", "makeLocks"}

VARIABLES
    schema,    \* the objects there are
    settings,  \* the registry's settings are in destination_settings
    path,      \* destination_path of the old jobs: TRUE once it is their own
    lease,     \* the row of the lock table keyed by path
    pc,        \* where each process is in Open
    disturbed, \* processes in whose Open another one changed the schema
    misread,   \* a look at the schema failed and said "no"
    misreads, stops

vars == <<schema, settings, path, lease, pc, disturbed, misread, misreads, stops>>
data == <<settings, path, lease>>
luck == <<misread, misreads, stops>>

Init == /\ \/ schema \in OldSchema /\ path = [j \in Job |-> FALSE]
           \/ schema = {} /\ path = [j \in {} |-> FALSE]
        /\ settings = FALSE
        /\ lease = Nobody
        /\ pc = [p \in Proc |-> "closed"]
        /\ disturbed = {}
        /\ misread = FALSE
        /\ misreads = 0 /\ stops = 0

Opening(p) == pc[p] \notin {"closed", "open", "refused"}

Goes(p, from, to) == pc[p] = from /\ pc' = [pc EXCEPT ![p] = to]

(* hasTable and hasColumn: an error is a no.                                *)
Looks(p, from, answer, yes, no) ==
    /\ \/ answer /\ Goes(p, from, yes) /\ UNCHANGED <<misread, misreads>>
       \/ ~answer /\ Goes(p, from, no) /\ UNCHANGED <<misread, misreads>>
       \/ /\ answer /\ Goes(p, from, no)
          /\ misread' = TRUE
          /\ misreads < MaxMisreads /\ misreads' = misreads + 1
    /\ UNCHANGED <<schema, data, disturbed, stops>>

(* A statement. Without what it needs the database refuses it, and Open     *)
(* returns the error.                                                       *)
Refused(p) == /\ pc' = [pc EXCEPT ![p] = "refused"]
              /\ UNCHANGED <<schema, data, disturbed>>

Alters(p, s) == /\ schema' = s
                /\ disturbed' = IF s = schema THEN disturbed
                                ELSE disturbed \cup {q \in Proc \ {p} : Opening(q)}

(* ALTER TABLE ADD COLUMN is not idempotent.                                *)
Adds(p, from, table, column, to) ==
    /\ pc[p] = from
    /\ IF table /\ column \notin schema
         THEN Goes(p, from, to) /\ Alters(p, schema \cup {column}) /\ UNCHANGED data
         ELSE Refused(p)
    /\ UNCHANGED luck

HasJobs == schema \cap Jobs # {}

(* migration001 makes jobs as they are today, if there are none.            *)
Creates(p) ==
    /\ Goes(p, "create", "registry1")
    /\ Alters(p, IF HasJobs THEN schema ELSE schema \cup {"destination_path"})
    /\ UNCHANGED <<data, luck>>

(* migrateCapacity. *)
LooksForRegistry(p) == Looks(p, "registry1", "destinations" \in schema, "seesTotal", "seesAttempts")

LooksForTotal(p) ==
    /\ Goes(p, "seesTotal", IF "total_bytes" \in schema THEN "seesAttempts" ELSE "total")
    /\ UNCHANGED <<schema, data, disturbed, luck>>

AddsTotal(p) == Adds(p, "total", "destinations" \in schema, "total_bytes", "seesAttempts")

(* migrateAttempts. *)
LooksForAttempts(p) ==
    /\ Goes(p, "seesAttempts", IF "attempt_count" \in schema THEN "registry2" ELSE "attempts")
    /\ UNCHANGED <<schema, data, disturbed, luck>>

AddsAttempts(p) == Adds(p, "attempts", HasJobs, "attempt_count", "registry2")

(* migrateLiveDestinations. *)
LooksForDestinations(p) ==
    Looks(p, "registry2", "destinations" \in schema, "settings", "seesPath2")

BackfillsSettings(p) ==
    /\ pc[p] = "settings"
    /\ IF "destinations" \in schema
         THEN /\ Goes(p, "settings", "seesPath")
              /\ settings' = TRUE
              /\ UNCHANGED <<schema, path, lease, disturbed>>
         ELSE Refused(p)
    /\ UNCHANGED luck

(* Mutant: the column is added without a look.                              *)
NeverLooksForPath(p) == Looks(p, "seesPath", FALSE, "jobs", "path")

LooksForPath(p) == Looks(p, "seesPath", "destination_path" \in schema, "jobs", "path")

AddsPath(p) == Adds(p, "path", HasJobs, "destination_path", "jobs")

(* Mutant: only a column that is new is filled.                             *)
SkipsBackfill(p) ==
    /\ Goes(p, "jobs", "drop")
    /\ UNCHANGED <<schema, data, disturbed, luck>>

BackfillsPaths(p) ==
    /\ pc[p] = "jobs"
    /\ IF {"destinations", "destination_id", "destination_path"} \subseteq schema
         THEN /\ Goes(p, "jobs", "drop")
              /\ path' = [j \in DOMAIN path |-> path[j] \/ j \in Registered]
              /\ UNCHANGED <<schema, settings, lease, disturbed>>
         ELSE Refused(p)
    /\ UNCHANGED luck

DropsRegistry(p) ==
    /\ Goes(p, "drop", "seesId")
    /\ Alters(p, schema \ {"destinations", "total_bytes"})
    /\ UNCHANGED <<data, luck>>

LooksForPathOnly(p) == Looks(p, "seesPath2", "destination_path" \in schema, "seesId", "path2")

AddsPathOnly(p) == Adds(p, "path2", HasJobs, "destination_path", "seesId")

LooksForId(p) == Looks(p, "seesId", "destination_id" \in schema, "id", "index")

DropsId(p) ==
    /\ pc[p] = "id"
    /\ IF "destination_id" \in schema
         THEN /\ Goes(p, "id", "index")
              /\ Alters(p, schema \ {"destination_id"})
              /\ UNCHANGED data
         ELSE Refused(p)
    /\ UNCHANGED luck

Indexes(p) ==
    /\ pc[p] = "index"
    /\ IF "destination_path" \in schema
         THEN Goes(p, "index", "seesLocks") /\ UNCHANGED <<schema, data, disturbed>>
         ELSE Refused(p)
    /\ UNCHANGED luck

LooksForLocks(p) == Looks(p, "seesLocks", schema \cap Locks # {}, "seesKey", "makeLocks")

LooksForLocksKey(p) ==
    Looks(p, "seesKey", "locks_by_path" \in schema, "makeLocks", "dropLocks")

(* DROP TABLE takes the leases with it. *)
DropsLocks(p) ==
    /\ pc[p] = "dropLocks"
    /\ IF schema \cap Locks # {}
         THEN /\ Goes(p, "dropLocks", "makeLocks")
              /\ Alters(p, schema \ Locks)
              /\ lease' = Nobody
              /\ UNCHANGED <<settings, path>>
         ELSE Refused(p)
    /\ UNCHANGED luck

MakesLocks(p) ==
    /\ Goes(p, "makeLocks", "open")
    /\ Alters(p, IF schema \cap Locks # {} THEN schema ELSE schema \cup {"locks_by_path"})
    /\ UNCHANGED <<data, luck>>

OpenStep(p) ==
    \/ Creates(p) \/ LooksForRegistry(p) \/ LooksForTotal(p) \/ AddsTotal(p)
    \/ LooksForAttempts(p) \/ AddsAttempts(p) \/ LooksForDestinations(p)
    \/ BackfillsSettings(p) \/ LooksForPath(p) \/ AddsPath(p) \/ BackfillsPaths(p)
    \/ DropsRegistry(p) \/ LooksForPathOnly(p) \/ AddsPathOnly(p) \/ LooksForId(p)
    \/ DropsId(p) \/ Indexes(p) \/ LooksForLocks(p) \/ LooksForLocksKey(p)
    \/ DropsLocks(p) \/ MakesLocks(p)

(* Open is called. *)
Starts(p) == /\ pc[p] \in {"closed", "refused"}
             /\ pc' = [pc EXCEPT ![p] = "create"]
             /\ disturbed' = disturbed \ {p}
             /\ UNCHANGED <<schema, data, luck>>

(* The process dies, or a statement fails by itself; the lease stays.       *)
Stops(p) == /\ pc[p] \notin {"closed", "refused"}
            /\ stops < MaxStops /\ stops' = stops + 1
            /\ pc' = [pc EXCEPT ![p] = "closed"]
            /\ UNCHANGED <<schema, data, disturbed, misread, misreads>>

(* AcquireLock, of a store that is open.                                    *)
Leases(p) == /\ pc[p] = "open" /\ "locks_by_path" \in schema /\ lease = Nobody
             /\ lease' = p
             /\ UNCHANGED <<schema, settings, path, pc, disturbed, luck>>

Next == \E p \in Proc : OpenStep(p) \/ Starts(p) \/ Stops(p) \/ Leases(p)

Spec == Init /\ [][Next]_vars

-----------------------------------------------------------------------------
TypeOK == /\ schema \subseteq Object
          /\ settings \in BOOLEAN
          /\ path \in [Job -> BOOLEAN] \cup [{} -> BOOLEAN]
          /\ lease \in Proc \cup {Nobody}
          /\ pc \in [Proc -> At]
          /\ disturbed \subseteq Proc
          /\ misread \in BOOLEAN
          /\ misreads \in 0 .. MaxMisreads /\ stops \in 0 .. MaxStops

(* Whoever dies wherever, and however many open at once: what the old       *)
(* registry knew has been copied before it is dropped, and the jobs have    *)
(* their paths before their ids go, unless a look at the schema failed      *)
(* (migrateLiveDestinations).                                               *)
NothingLost ==
    \/ misread
    \/ /\ DOMAIN path # {} /\ "destinations" \notin schema => settings
       /\ {"destinations", "destination_id"} \subseteq schema
            \/ \A j \in DOMAIN path \cap Registered : path[j]

(* Open is refused only if another process migrated at the same time, or a  *)
(* look failed: after a death anywhere the next one finishes the work.      *)
RefusedOnlyIfDisturbed ==
    \A p \in Proc : pc[p] = "refused" => p \in disturbed \/ misread

(* Refuted: "Legacy rows are backfilled ... before the old objects are      *)
(* dropped" (comment of migrateLiveDestinations), if a look fails.          *)
BackfilledFirst ==
    "destination_id" \in schema \/ \A j \in DOMAIN path \cap Registered : path[j]

(* Refuted: "the lock table is rebuilt empty only while its schema still    *)
(* uses ids" (comment of migrateLiveDestinations), if two processes open.   *)
RebuiltOnlyById ==
    [][lease # Nobody /\ lease' = Nobody => "locks_by_id" \in schema]_vars
=============================================================================
