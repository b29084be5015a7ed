---------------------------- MODULE Parts_proofs ----------------------------
(***************************************************************************)
(* Proofs about Events, Preflight, Migrate, Progress, CueMerge, LogRotate, *)
(* for the constants that MCParts declares: any jobs, bounds, faults.      *)
(***************************************************************************)
EXTENDS MCParts, Integers, Sequences, WellFoundedInduction, SequenceTheorems,
        FiniteSetTheorems, TLAPS

(* Events, for any jobs, changes and connections.                           *)
StreamTyped ==
    /\ rows \in [Job -> Sse!Sig \cup {Gone}]
    /\ listing \in [Job -> Sse!Sig \cup {Gone}]
    /\ told \in [Job -> Sse!Sig \cup {Gone}]
    /\ heard \in [Job -> Sse!Sig \cup {Gone, Removed}]
    /\ conn \in {"none", "idle", "changes", "removals"}
    /\ fresh \subseteq Job /\ seen \subseteq Job /\ todo \subseteq Job

(* An id in the table, in a listing or seen is not given out again, so a job *)
(* said to be removed, or about to be, never comes back.                    *)
IdsUsedOnce ==
    \A j \in Job :
        /\ rows[j] # Gone \/ listing[j] # Gone \/ j \in seen \/ heard[j] = Removed => j \notin fresh
        /\ j \in seen /\ listing[j] = Gone => rows[j] = Gone
        /\ heard[j] = Removed => j \notin seen /\ listing[j] = Gone /\ rows[j] = Gone

(* The maps are what the client was told, ...                               *)
ToldIsHeard ==
    \A j \in Job :
        /\ IF told[j] = Gone THEN heard[j] \in {Gone, Removed} ELSE heard[j] = told[j]
        /\ told[j] # Gone \/ listing[j] # Gone => j \in seen

(* ... and todo is what is still between them and the listing.              *)
RestIsTodo ==
    /\ \A j \in Job : listing[j] # Gone =>
          told[j] = listing[j] \/ (conn = "changes" /\ j \in todo)
    /\ conn = "changes" => \A j \in todo : listing[j] # Gone
    /\ conn = "removals" => todo = {j \in seen : listing[j] = Gone}
    /\ conn = "idle" => \A j \in seen : listing[j] # Gone

StreamInv == /\ StreamTyped /\ ~late
             /\ conn # "none" => IdsUsedOnce /\ ToldIsHeard /\ RestIsTodo
             /\ \A j \in Job : rows[j] # Gone => j \notin fresh

LEMMA InitStream == Sse!Init => StreamInv
BY DEF Sse!Init, Sse!Nothing, StreamInv, StreamTyped

LEMMA StepStream == StreamInv /\ [Sse!Next]_(Sse!vars) => StreamInv'
<1> SUFFICES ASSUME StreamInv, [Sse!Next]_(Sse!vars) PROVE StreamInv'
  OBVIOUS
<1> USE GoneIsNoSig DEF StreamInv, StreamTyped
<1>1. ASSUME NEW j \in Job, NEW r \in Sse!Sig \cup {Gone}, Sse!Row(j, r),
             \/ j \in fresh /\ r # Gone /\ fresh' = fresh \ {j}
             \/ rows[j] # Gone /\ fresh' = fresh
      PROVE  StreamInv'
  <2>1. StreamTyped' /\ ~late' /\ \A k \in Job : rows'[k] # Gone => k \notin fresh'
    BY <1>1 DEF Sse!Row
  <2>2. ASSUME conn' # "none" PROVE IdsUsedOnce'
    BY <1>1, <2>2 DEF Sse!Row, IdsUsedOnce
  <2>3. ASSUME conn' # "none" PROVE ToldIsHeard' /\ RestIsTodo'
    BY <1>1, <2>3 DEF Sse!Row, ToldIsHeard, RestIsTodo
  <2> QED
    BY <2>1, <2>2, <2>3
<1>2. ASSUME Sse!Connects PROVE StreamInv'
  <2>1. StreamTyped' /\ ~late' /\ \A k \in Job : rows'[k] # Gone => k \notin fresh'
    BY <1>2 DEF Sse!Connects, Sse!Lists, Sse!table, Sse!Nothing
  <2>2. IdsUsedOnce'
    BY <1>2 DEF Sse!Connects, Sse!Lists, Sse!table, Sse!Nothing, IdsUsedOnce
  <2>3. ToldIsHeard' /\ RestIsTodo'
    BY <1>2 DEF Sse!Connects, Sse!Lists, Sse!table, Sse!Nothing, ToldIsHeard, RestIsTodo
  <2> QED
    BY <2>1, <2>2, <2>3
<1>3. ASSUME Sse!Ticks PROVE StreamInv'
  <2>1. StreamTyped' /\ ~late' /\ \A k \in Job : rows'[k] # Gone => k \notin fresh'
    BY <1>3 DEF Sse!Ticks, Sse!Lists, Sse!table
  <2>2. IdsUsedOnce'
    BY <1>3 DEF Sse!Ticks, Sse!Lists, Sse!table, IdsUsedOnce
  <2>3. ToldIsHeard' /\ RestIsTodo'
    BY <1>3 DEF Sse!Ticks, Sse!Lists, Sse!table, ToldIsHeard, RestIsTodo
  <2> QED
    BY <2>1, <2>2, <2>3
<1>4. ASSUME NEW j \in Job, Sse!Looks(j) PROVE StreamInv'
  <2>1. heard[j] # Removed /\ listing[j] \in Sse!Sig
    BY <1>4 DEF Sse!Looks, IdsUsedOnce, RestIsTodo
  <2>2. CASE Sse!Unchanged(j)
    BY <1>4, <2>2 DEF Sse!Looks, Sse!Unchanged, Sse!table, IdsUsedOnce, ToldIsHeard, RestIsTodo
  <2>3. CASE ~Sse!Unchanged(j)
    <3>1. StreamTyped' /\ ~late' /\ \A k \in Job : rows'[k] # Gone => k \notin fresh'
      BY <1>4, <2>1, <2>3 DEF Sse!Looks, Sse!Emits, Sse!table
    <3>2. ASSUME conn' # "none" PROVE IdsUsedOnce'
      BY <1>4, <2>1, <2>3, <3>2 DEF Sse!Looks, Sse!Emits, Sse!table, IdsUsedOnce
    <3>3. ASSUME conn' # "none" PROVE ToldIsHeard' /\ RestIsTodo'
      BY <1>4, <2>1, <2>3, <3>3 DEF Sse!Looks, Sse!Emits, Sse!table, ToldIsHeard, RestIsTodo
    <3> QED
      BY <3>1, <3>2, <3>3
  <2> QED
    BY <2>2, <2>3
<1>5. ASSUME NEW j \in Job, Sse!Removes(j) PROVE StreamInv'
  <2>1. j \in seen /\ listing[j] = Gone /\ heard[j] # Removed
    BY <1>5 DEF Sse!Removes, IdsUsedOnce, RestIsTodo
  <2>2. StreamTyped' /\ \A k \in Job : rows'[k] # Gone => k \notin fresh'
    <3>1. told' \in [Job -> Sse!Sig \cup {Gone}] /\ seen' \subseteq Job /\ todo' \subseteq Job
      BY <1>5 DEF Sse!Removes, Sse!Forgets
    <3>2. heard' \in [Job -> Sse!Sig \cup {Gone, Removed}]
      BY <1>5 DEF Sse!Removes, Sse!Emits
    <3>3. conn' \in {"none", "idle", "changes", "removals"}
      BY <1>5 DEF Sse!Removes, Sse!Emits
    <3> QED
      BY <1>5, <3>1, <3>2, <3>3 DEF Sse!Removes, Sse!table
  <2>5. ~late'
    BY <1>5, <2>1 DEF Sse!Removes, Sse!Emits
  <2>3. ASSUME conn' # "none" PROVE IdsUsedOnce'
    BY <1>5, <2>1, <2>3 DEF Sse!Removes, Sse!Forgets, Sse!Emits, Sse!table, IdsUsedOnce
  <2>4. ASSUME conn' # "none" PROVE ToldIsHeard' /\ RestIsTodo'
    BY <1>5, <2>1, <2>4 DEF Sse!Removes, Sse!Forgets, Sse!Emits, Sse!table, ToldIsHeard, RestIsTodo
  <2> QED
    BY <2>2, <2>3, <2>4, <2>5
<1>6. ASSUME Sse!TurnsToRemoved \/ Sse!Rests \/ Sse!Leaves \/ UNCHANGED Sse!vars PROVE StreamInv'
  BY <1>6 DEF Sse!TurnsToRemoved, Sse!Rests, Sse!Leaves, Sse!vars, Sse!table, IdsUsedOnce,
              ToldIsHeard, RestIsTodo
<1>7. ASSUME NEW j \in Job, Sse!Enqueued(j) PROVE StreamInv'
  <2>1. [status |-> "pending", done |-> 0] \in Sse!Sig
    BY DEF Sse!Sig
  <2> QED
    BY <1>1, <1>7, <2>1 DEF Sse!Enqueued
<1>8. ASSUME NEW j \in Job, NEW sig \in Sse!Sig, Sse!Changed(j, sig) PROVE StreamInv'
  BY <1>1, <1>8 DEF Sse!Changed
<1>9. ASSUME NEW j \in Job, Sse!Deleted(j) PROVE StreamInv'
  BY <1>1, <1>9 DEF Sse!Deleted
<1> QED
  BY <1>2, <1>3, <1>4, <1>5, <1>6, <1>7, <1>8, <1>9 DEF Sse!Next

(* What a connection was sent adds up to what was listed last, and nothing  *)
(* is said of a job after its end was (handleEvents).                       *)
THEOREM StreamAddsUp == Sse!Spec => []HeardIsListed
<1>1. StreamInv => HeardIsListed
  BY GoneIsNoSig DEF StreamInv, StreamTyped, ToldIsHeard, RestIsTodo, HeardIsListed,
                     Sse!HeardIsListed
<1> QED
  BY InitStream, StepStream, <1>1, PTL DEF Sse!Spec

-----------------------------------------------------------------------------
(* Preflight, whatever is there and whatever is seen of it.                 *)
Looked == /\ place \in Pre!Place /\ disk \in Pre!Disk /\ access \in Pre!Access

LEMMA PreflightLooked == Pre!Spec => []Looked
<1>1. Pre!Init => Looked
  BY DEF Pre!Init, Looked, Pre!NoPlace, Pre!NoDisk, Pre!Blind, Pre!Place, Pre!Disk, Pre!Access
<1>2. Looked /\ [Pre!Next]_(Pre!vars) => Looked'
  BY DEF Looked, Pre!Next, Pre!Checks, Pre!vars
<1> QED
  BY <1>1, <1>2, PTL DEF Pre!Spec

(* A verdict of a row that looks at the disk, and what it rests on.         *)
LEMMA TableSeen ==
    ASSUME NEW d \in Pre!Disk, NEW a \in Pre!Access, NEW b \in Pre!Access, Pre!More(a, b),
           Pre!ProbeTable(d, a) = "gpt"
    PROVE  Pre!ProbeTable(d, b) = "gpt"
BY DEF Pre!Disk, Pre!Access, Pre!More, Pre!ProbeTable, Pre!Signed, Pre!HeaderSeen

TypeTold(d, a) == Pre!ProbeType(d, a) # ""

LEMMA TypeSeen ==
    ASSUME NEW d \in Pre!Disk, NEW a \in Pre!Access, NEW b \in Pre!Access, Pre!More(a, b),
           TypeTold(d, a)
    PROVE  Pre!ProbeTable(d, b) = "gpt" \/ Pre!ProbeType(d, b) = Pre!ProbeType(d, a)
<1>1. CASE d.layout = "mbr"
  BY <1>1 DEF TypeTold, Pre!More, Pre!ProbeType, Pre!Signed, Pre!EntryType
<1>2. CASE d.layout = "gpt"
  BY <1>2 DEF TypeTold, Pre!More, Pre!ProbeType, Pre!ProbeTable, Pre!Signed
<1>3. CASE d.layout = "hybrid"
  BY <1>3 DEF TypeTold, Pre!More, Pre!ProbeType, Pre!ProbeTable, Pre!Signed, Pre!EntryType
<1>4. CASE d.layout = "none"
  BY <1>4 DEF TypeTold, Pre!ProbeType, Pre!Signed
<1>5. d.layout \in {"mbr", "gpt", "hybrid", "none"}
  BY DEF Pre!Disk
<1> QED
  BY <1>1, <1>2, <1>3, <1>4, <1>5

LEMMA OffsetSeen ==
    ASSUME NEW d \in Pre!Disk, NEW a \in Pre!Access, NEW b \in Pre!Access, Pre!More(a, b),
           d.sector = 512, Pre!ProbeOffset(d, a) # -1
    PROVE  \/ Pre!ProbeTable(d, b) = "gpt"
           \/ Pre!ProbeOffset(d, b) = Pre!ProbeOffset(d, a)
<1>1. d.lba \in {63, 256, 2048}
  BY DEF Pre!Disk
<1>2. CASE d.layout = "gpt" /\ "offset" \notin a.udisks
  BY <1>2 DEF Pre!Disk, Pre!Access, Pre!More, Pre!ProbeTable, Pre!ProbeOffset, Pre!Signed
<1>3. CASE d.layout # "gpt"
  <2>1. Pre!EntryOffset(d) = Pre!Start(d) /\ Pre!Start(d) # -1
    BY <1>1, <1>3 DEF Pre!EntryOffset, Pre!EntryLBA, Pre!Start
  <2> QED
    BY <2>1 DEF Pre!More, Pre!ProbeOffset
<1>4. CASE "offset" \in a.udisks
  BY <1>4 DEF Pre!More, Pre!ProbeOffset
<1> QED
  BY <1>2, <1>3, <1>4

(* What is blocked stays blocked for one who sees more (Preflight).         *)
THEOREM FailsClosed == Pre!Spec => []SeeingMoreUnblocksNothing
<1>1. Looked => SeeingMoreUnblocksNothing
  <2> SUFFICES ASSUME Looked, disk.sector = 512, Pre!Blocked(place, disk, access),
                      NEW b \in Pre!Access, Pre!More(access, b)
               PROVE  Pre!Blocked(place, disk, b)
    BY DEF SeeingMoreUnblocksNothing, Pre!SeeingMoreUnblocksNothing
  <2>1. disk \in Pre!Disk /\ access \in Pre!Access
    BY DEF Looked
  <2>2. ASSUME Pre!ProbeTable(disk, b) = "gpt", place.kind # "folder"
        PROVE  Pre!Blocked(place, disk, b)
    BY <2>2 DEF Pre!Blocked, Pre!Rows, Pre!PartitionTable
  <2>3. CASE "fail" \in {Pre!Filesystem(place), Pre!FreeSpace(place), Pre!UlCfg(place)}
    BY <2>3 DEF Pre!Blocked, Pre!Rows
  <2>4. CASE Pre!PartitionTable(place, disk, access) = "fail"
    <3>1. place.kind # "folder" /\ Pre!ProbeTable(disk, access) = "gpt"
      BY <2>4 DEF Pre!PartitionTable
    <3> QED
      BY <2>1, <2>2, <3>1, TableSeen
  <2>5. CASE Pre!PartitionType(place, disk, access) = "fail"
    <3>1. place.kind # "folder" /\ TypeTold(disk, access)
      BY <2>5 DEF Pre!PartitionType, TypeTold
    <3>2. CASE Pre!ProbeType(disk, b) = Pre!ProbeType(disk, access)
      <4>1. Pre!PartitionType(place, disk, b) = "fail"
        BY <2>5, <3>2 DEF Pre!PartitionType
      <4> QED
        BY <4>1 DEF Pre!Blocked, Pre!Rows
    <3>3. Pre!ProbeTable(disk, b) = "gpt" \/ Pre!ProbeType(disk, b) = Pre!ProbeType(disk, access)
      BY <2>1, <3>1, TypeSeen
    <3> QED
      BY <2>2, <3>1, <3>2, <3>3
  <2>6. CASE Pre!Alignment(place, disk, access) = "fail"
    <3>1. place.kind # "folder" /\ Pre!ProbeOffset(disk, access) # -1
      BY <2>6 DEF Pre!Alignment
    <3>2. CASE Pre!ProbeOffset(disk, b) = Pre!ProbeOffset(disk, access)
      <4>1. Pre!Alignment(place, disk, b) = "fail"
        BY <2>6, <3>2 DEF Pre!Alignment
      <4> QED
        BY <4>1 DEF Pre!Blocked, Pre!Rows
    <3> QED
      BY <2>1, <2>2, <3>1, <3>2, OffsetSeen
  <2> QED
    BY <2>3, <2>4, <2>5, <2>6 DEF Pre!Blocked, Pre!Rows
<1> QED
  BY PreflightLooked, <1>1, PTL

(* A report without a warning is true of the disk, and a folder is refused  *)
(* for its contents only (Preflight).                                       *)
THEOREM PassesAreTrue == Pre!Spec => []AllPassMeansMountable
<1>1. ASSUME Looked, Pre!Rows(place, disk, access) = {"pass"}
      PROVE  /\ disk.layout = "mbr" \/ Pre!HybridUnseen(disk, access)
             /\ Pre!Start(disk) % Pre!MiB = 0
             /\ place.fstype \in {place.toggle, "unknown"}
  <2>1. /\ Pre!Filesystem(place) = "pass" /\ Pre!PartitionTable(place, disk, access) = "pass"
        /\ Pre!Alignment(place, disk, access) = "pass"
    BY <1>1 DEF Pre!Rows
  <2>2. place.fstype \in {place.toggle, "unknown"}
    BY <2>1 DEF Pre!Filesystem
  <2>3. Pre!ProbeTable(disk, access) = "dos"
    BY <2>1 DEF Pre!PartitionTable
  <2>4. disk.layout = "mbr" \/ Pre!HybridUnseen(disk, access)
    BY <1>1, <2>3 DEF Pre!HybridUnseen, Looked, Pre!Disk, Pre!ProbeTable, Pre!Signed, Pre!HeaderSeen
  <2>5. Pre!ProbeOffset(disk, access) \in {Pre!Start(disk), Pre!EntryOffset(disk)}
        /\ Pre!ProbeOffset(disk, access) % Pre!MiB = 0
    BY <2>1 DEF Pre!Alignment, Pre!ProbeOffset
  <2>6. Pre!EntryOffset(disk) = disk.lba * 512
    BY <2>4 DEF Pre!HybridUnseen, Pre!EntryOffset, Pre!EntryLBA
  <2>7. disk.lba \in {63, 256, 2048} /\ disk.sector \in {512, 4096}
    BY <1>1 DEF Looked, Pre!Disk
  <2>8. Pre!Start(disk) % Pre!MiB = 0
    BY <2>5, <2>6, <2>7 DEF Pre!Start, Pre!MiB
  <2> QED
    BY <2>2, <2>4, <2>8
<1>2. ASSUME place.kind = "folder", Pre!Blocked(place, disk, access)
      PROVE  place.content \in {"full", "ul.cfg corrupt"}
  BY <1>2 DEF Pre!Blocked, Pre!Rows, Pre!Filesystem, Pre!FreeSpace, Pre!UlCfg,
              Pre!PartitionTable, Pre!PartitionType, Pre!Alignment
<1>3. Looked => AllPassMeansMountable
  BY <1>1, <1>2 DEF AllPassMeansMountable, Pre!AllPassMeansMountable
<1> QED
  BY PreflightLooked, <1>3, PTL

-----------------------------------------------------------------------------
(* Migrate, for any processes, jobs, registries, deaths and looks that fail. *)
USE DEF Mig!Object, Mig!Jobs, Mig!Locks, Mig!data, Mig!luck, Mig!vars, Mig!Goes, Mig!Alters,
        Mig!Refused, Mig!HasJobs

Typed == pc \in [Proc -> Mig!At] /\ misread \in BOOLEAN

(* The steps of Open between the two halves of a look and what it was for.  *)
(* The registry never comes back, so one that was not there is not there.   *)
SettingsKept == \A p \in Proc : pc[p] \in {"seesPath", "path", "jobs", "drop"} => settings

Copied == \A j \in DOMAIN path \cap Registered : path[j]

PathsKept == \A p \in Proc : pc[p] = "drop" => Copied

RegistryGone == \A p \in Proc : pc[p] \in {"seesPath2", "path2", "seesId", "id"} =>
                                   "destinations" \notin schema

(* What NothingLost says when no look failed.                               *)
AllThere == /\ DOMAIN path # {} /\ "destinations" \notin schema => settings
            /\ {"destinations", "destination_id"} \subseteq schema \/ Copied

(* What a process that nobody has disturbed knows of the schema.            *)
Knows(p) ==
    /\ pc[p] # "create" /\ Mig!Opening(p) => Mig!HasJobs
    /\ pc[p] = "total" => "total_bytes" \notin schema
    /\ pc[p] = "attempts" => "attempt_count" \notin schema
    /\ pc[p] \in {"seesTotal", "total", "settings", "seesPath", "path", "jobs"} =>
          "destinations" \in schema
    /\ pc[p] \in {"path", "path2"} => "destination_path" \notin schema
    /\ pc[p] \in {"jobs", "drop", "seesId", "id", "index"} => "destination_path" \in schema
    /\ pc[p] = "id" => "destination_id" \in schema
    /\ pc[p] \in {"seesKey", "dropLocks"} => schema \cap Mig!Locks # {}

(* Ids go after the registry.                                               *)
IdsWithRegistry == "destinations" \in schema => "destination_id" \in schema

Undisturbed == \A p \in Proc : p \notin disturbed => pc[p] # "refused" /\ Knows(p)

Sound == /\ SettingsKept /\ PathsKept /\ RegistryGone /\ AllThere
         /\ IdsWithRegistry /\ Undisturbed

MigrateInv == Typed /\ (misread \/ Sound)

LEMMA InitMigrate == Mig!Init => MigrateInv
<1> SUFFICES ASSUME Mig!Init PROVE MigrateInv
  OBVIOUS
<1>1. Typed
  BY DEF Mig!Init, Typed, Mig!At
<1>2. SettingsKept /\ PathsKept /\ RegistryGone /\ Undisturbed
  BY DEF Mig!Init, SettingsKept, PathsKept, RegistryGone, Undisturbed, Knows, Mig!Opening
<1>3. AllThere /\ IdsWithRegistry
  BY DEF Mig!Init, AllThere, Copied, IdsWithRegistry, Mig!OldSchema
<1> QED
  BY <1>1, <1>2, <1>3 DEF MigrateInv, Sound

(* What a statement of p leaves true of the others: those it disturbs need  *)
(* not know anything.                                                       *)
LEMMA OthersKnow ==
    ASSUME Sound, NEW p \in Proc, Mig!Alters(p, schema'),
           \A q \in Proc \ {p} : pc'[q] = pc[q]
    PROVE  \A q \in Proc \ {p} : q \notin disturbed' => pc'[q] # "refused" /\ Knows(q)'
<1> SUFFICES ASSUME NEW q \in Proc \ {p}, q \notin disturbed'
             PROVE  pc'[q] # "refused" /\ Knows(q)'
  OBVIOUS
<1>1. CASE schema' = schema
  BY <1>1 DEF Sound, Undisturbed, Knows, Mig!Opening
<1>2. CASE schema' # schema
  <2>1. ~Mig!Opening(q) /\ q \notin disturbed
    BY <1>2
  <2>2. pc[q] \in {"closed", "open"}
    BY <2>1 DEF Mig!Opening, Sound, Undisturbed
  <2> QED
    BY <2>2 DEF Knows, Mig!Opening
<1> QED
  BY <1>1, <1>2

(* A step of p that leaves the schema alone.                                *)
LEMMA QuietStep ==
    ASSUME Sound, NEW p \in Proc, \A q \in Proc \ {p} : pc'[q] = pc[q],
           UNCHANGED <<schema, settings, path, disturbed>>,
           pc'[p] \in {"seesPath", "path", "jobs", "drop"} => settings,
           pc'[p] = "drop" => Copied,
           pc'[p] \in {"seesPath2", "path2", "seesId", "id"} => "destinations" \notin schema,
           p \notin disturbed => pc'[p] # "refused" /\ Knows(p)'
    PROVE  Sound'
<1>1. SettingsKept' /\ RegistryGone'
  BY DEF Sound, SettingsKept, RegistryGone, Typed
<1>2. PathsKept'
  BY DEF Sound, PathsKept, Copied, Typed
<1>3. AllThere' /\ IdsWithRegistry'
  BY DEF Sound, AllThere, Copied, IdsWithRegistry
<1>4. Undisturbed'
  BY DEF Sound, Undisturbed, Knows, Mig!Opening, Typed
<1> QED
  BY <1>1, <1>2, <1>3, <1>4 DEF Sound

LEMMA StepLook ==
    ASSUME MigrateInv, NEW p \in Proc,
           \/ Mig!LooksForRegistry(p) \/ Mig!LooksForDestinations(p) \/ Mig!LooksForPath(p)
           \/ Mig!LooksForPathOnly(p) \/ Mig!LooksForId(p) \/ Mig!LooksForLocks(p)
           \/ Mig!LooksForLocksKey(p)
    PROVE  MigrateInv'
<1> USE DEF MigrateInv, Mig!At, Mig!Looks
<1>0. Typed'
  BY ZenonT(30) DEF Mig!LooksForRegistry, Mig!LooksForDestinations, Mig!LooksForPath,
         Mig!LooksForPathOnly, Mig!LooksForId, Mig!LooksForLocks, Mig!LooksForLocksKey, Typed
<1> SUFFICES ASSUME ~misread' PROVE Sound'
  BY <1>0
<1>1. CASE Mig!LooksForRegistry(p)
  <2>1. /\ ~misread /\ pc[p] = "registry1"
        /\ UNCHANGED <<schema, settings, path, disturbed>>
        /\ \/ pc' = [pc EXCEPT ![p] = "seesTotal"] /\ "destinations" \in schema
           \/ pc' = [pc EXCEPT ![p] = "seesAttempts"] /\ ~("destinations" \in schema)
    BY <1>1 DEF Mig!LooksForRegistry
  <2>2. Sound /\ \A q \in Proc \ {p} : pc'[q] = pc[q]
    BY <2>1 DEF Typed
  <2>3. /\ pc'[p] \in {"seesPath", "path", "jobs", "drop"} => settings
        /\ pc'[p] # "drop"
        /\ pc'[p] \in {"seesPath2", "path2", "seesId", "id"} => "destinations" \notin schema
    BY <2>1, <2>2 DEF Typed, Sound, SettingsKept, RegistryGone
  <2>4. p \notin disturbed => pc'[p] # "refused" /\ Knows(p)'
    BY <2>1, <2>2 DEF Typed, Sound, Undisturbed, Knows, Mig!Opening
  <2> QED
    BY <2>1, <2>2, <2>3, <2>4, QuietStep
<1>2. CASE Mig!LooksForDestinations(p)
  <2>1. /\ ~misread /\ pc[p] = "registry2"
        /\ UNCHANGED <<schema, settings, path, disturbed>>
        /\ \/ pc' = [pc EXCEPT ![p] = "settings"] /\ "destinations" \in schema
           \/ pc' = [pc EXCEPT ![p] = "seesPath2"] /\ ~("destinations" \in schema)
    BY <1>2 DEF Mig!LooksForDestinations
  <2>2. Sound /\ \A q \in Proc \ {p} : pc'[q] = pc[q]
    BY <2>1 DEF Typed
  <2>3. /\ pc'[p] \in {"seesPath", "path", "jobs", "drop"} => settings
        /\ pc'[p] # "drop"
        /\ pc'[p] \in {"seesPath2", "path2", "seesId", "id"} => "destinations" \notin schema
    BY <2>1, <2>2 DEF Typed, Sound, SettingsKept, RegistryGone
  <2>4. p \notin disturbed => pc'[p] # "refused" /\ Knows(p)'
    BY <2>1, <2>2 DEF Typed, Sound, Undisturbed, Knows, Mig!Opening
  <2> QED
    BY <2>1, <2>2, <2>3, <2>4, QuietStep
<1>3. CASE Mig!LooksForPath(p)
  <2>1. /\ ~misread /\ pc[p] = "seesPath"
        /\ UNCHANGED <<schema, settings, path, disturbed>>
        /\ \/ pc' = [pc EXCEPT ![p] = "jobs"] /\ "destination_path" \in schema
           \/ pc' = [pc EXCEPT ![p] = "path"] /\ ~("destination_path" \in schema)
    BY <1>3 DEF Mig!LooksForPath
  <2>2. Sound /\ \A q \in Proc \ {p} : pc'[q] = pc[q]
    BY <2>1 DEF Typed
  <2>3. /\ pc'[p] \in {"seesPath", "path", "jobs", "drop"} => settings
        /\ pc'[p] # "drop"
        /\ pc'[p] \in {"seesPath2", "path2", "seesId", "id"} => "destinations" \notin schema
    BY <2>1, <2>2 DEF Typed, Sound, SettingsKept, RegistryGone
  <2>4. p \notin disturbed => pc'[p] # "refused" /\ Knows(p)'
    BY <2>1, <2>2 DEF Typed, Sound, Undisturbed, Knows, Mig!Opening
  <2> QED
    BY <2>1, <2>2, <2>3, <2>4, QuietStep
<1>4. CASE Mig!LooksForPathOnly(p)
  <2>1. /\ ~misread /\ pc[p] = "seesPath2"
        /\ UNCHANGED <<schema, settings, path, disturbed>>
        /\ \/ pc' = [pc EXCEPT ![p] = "seesId"] /\ "destination_path" \in schema
           \/ pc' = [pc EXCEPT ![p] = "path2"] /\ ~("destination_path" \in schema)
    BY <1>4 DEF Mig!LooksForPathOnly
  <2>2. Sound /\ \A q \in Proc \ {p} : pc'[q] = pc[q]
    BY <2>1 DEF Typed
  <2>3. /\ pc'[p] \in {"seesPath", "path", "jobs", "drop"} => settings
        /\ pc'[p] # "drop"
        /\ pc'[p] \in {"seesPath2", "path2", "seesId", "id"} => "destinations" \notin schema
    BY <2>1, <2>2 DEF Typed, Sound, SettingsKept, RegistryGone
  <2>4. p \notin disturbed => pc'[p] # "refused" /\ Knows(p)'
    BY <2>1, <2>2 DEF Typed, Sound, Undisturbed, Knows, Mig!Opening
  <2> QED
    BY <2>1, <2>2, <2>3, <2>4, QuietStep
<1>5. CASE Mig!LooksForId(p)
  <2>1. /\ ~misread /\ pc[p] = "seesId"
        /\ UNCHANGED <<schema, settings, path, disturbed>>
        /\ \/ pc' = [pc EXCEPT ![p] = "id"] /\ "destination_id" \in schema
           \/ pc' = [pc EXCEPT ![p] = "index"] /\ ~("destination_id" \in schema)
    BY <1>5 DEF Mig!LooksForId
  <2>2. Sound /\ \A q \in Proc \ {p} : pc'[q] = pc[q]
    BY <2>1 DEF Typed
  <2>3. /\ pc'[p] \in {"seesPath", "path", "jobs", "drop"} => settings
        /\ pc'[p] # "drop"
        /\ pc'[p] \in {"seesPath2", "path2", "seesId", "id"} => "destinations" \notin schema
    BY <2>1, <2>2 DEF Typed, Sound, SettingsKept, RegistryGone
  <2>4. p \notin disturbed => pc'[p] # "refused" /\ Knows(p)'
    BY <2>1, <2>2 DEF Typed, Sound, Undisturbed, Knows, Mig!Opening
  <2> QED
    BY <2>1, <2>2, <2>3, <2>4, QuietStep
<1>6. CASE Mig!LooksForLocks(p)
  <2>1. /\ ~misread /\ pc[p] = "seesLocks"
        /\ UNCHANGED <<schema, settings, path, disturbed>>
        /\ \/ pc' = [pc EXCEPT ![p] = "seesKey"] /\ schema \cap Mig!Locks # {}
           \/ pc' = [pc EXCEPT ![p] = "makeLocks"] /\ ~(schema \cap Mig!Locks # {})
    BY <1>6 DEF Mig!LooksForLocks
  <2>2. Sound /\ \A q \in Proc \ {p} : pc'[q] = pc[q]
    BY <2>1 DEF Typed
  <2>3. /\ pc'[p] \in {"seesPath", "path", "jobs", "drop"} => settings
        /\ pc'[p] # "drop"
        /\ pc'[p] \in {"seesPath2", "path2", "seesId", "id"} => "destinations" \notin schema
    BY <2>1, <2>2 DEF Typed, Sound, SettingsKept, RegistryGone
  <2>4. p \notin disturbed => pc'[p] # "refused" /\ Knows(p)'
    BY <2>1, <2>2 DEF Typed, Sound, Undisturbed, Knows, Mig!Opening
  <2> QED
    BY <2>1, <2>2, <2>3, <2>4, QuietStep
<1>7. CASE Mig!LooksForLocksKey(p)
  <2>1. /\ ~misread /\ pc[p] = "seesKey"
        /\ UNCHANGED <<schema, settings, path, disturbed>>
        /\ \/ pc' = [pc EXCEPT ![p] = "makeLocks"] /\ "locks_by_path" \in schema
           \/ pc' = [pc EXCEPT ![p] = "dropLocks"] /\ ~("locks_by_path" \in schema)
    BY <1>7 DEF Mig!LooksForLocksKey
  <2>2. Sound /\ \A q \in Proc \ {p} : pc'[q] = pc[q]
    BY <2>1 DEF Typed
  <2>3. /\ pc'[p] \in {"seesPath", "path", "jobs", "drop"} => settings
        /\ pc'[p] # "drop"
        /\ pc'[p] \in {"seesPath2", "path2", "seesId", "id"} => "destinations" \notin schema
    BY <2>1, <2>2 DEF Typed, Sound, SettingsKept, RegistryGone
  <2>4. p \notin disturbed => pc'[p] # "refused" /\ Knows(p)'
    BY <2>1, <2>2 DEF Typed, Sound, Undisturbed, Knows, Mig!Opening
  <2> QED
    BY <2>1, <2>2, <2>3, <2>4, QuietStep
<1> QED
  BY <1>1, <1>2, <1>3, <1>4, <1>5, <1>6, <1>7

(* A statement of p: the registry does not come back, paths and settings    *)
(* that were copied stay.                                                   *)
LEMMA StatementStep ==
    ASSUME Sound, NEW p \in Proc, \A q \in Proc \ {p} : pc'[q] = pc[q],
           Mig!Alters(p, schema'), "destinations" \in schema' => "destinations" \in schema,
           settings => settings', Copied => Copied',
           pc'[p] \in {"seesPath", "path", "jobs", "drop"} => settings',
           pc'[p] = "drop" => Copied',
           pc'[p] \in {"seesPath2", "path2", "seesId", "id"} => "destinations" \notin schema',
           AllThere', IdsWithRegistry',
           p \notin disturbed' => pc'[p] # "refused" /\ Knows(p)'
    PROVE  Sound'
<1>1. SettingsKept' /\ PathsKept' /\ RegistryGone'
  BY DEF Sound, SettingsKept, PathsKept, RegistryGone
<1>2. Undisturbed'
  BY OthersKnow DEF Undisturbed
<1> QED
  BY <1>1, <1>2 DEF Sound

(* A column more, or a statement refused: p knew that it would not be.      *)
LEMMA StepAdds ==
    ASSUME Typed, Sound, NEW p \in Proc,
           \/ Mig!Creates(p) \/ Mig!AddsTotal(p) \/ Mig!AddsAttempts(p) \/ Mig!AddsPath(p)
           \/ Mig!AddsPathOnly(p) \/ Mig!MakesLocks(p)
    PROVE  Sound'
<1> USE DEF Mig!Adds
<1>1. /\ \A q \in Proc \ {p} : pc'[q] = pc[q]
      /\ UNCHANGED <<settings, path>> /\ Mig!Alters(p, schema')
      /\ "destinations" \in schema' <=> "destinations" \in schema
      /\ "destination_id" \in schema' <=> "destination_id" \in schema
      /\ schema \subseteq schema'
  BY DEF Mig!Creates, Mig!AddsTotal, Mig!AddsAttempts, Mig!AddsPath, Mig!AddsPathOnly,
         Mig!MakesLocks, Typed
<1>2. Copied' <=> Copied
  BY <1>1 DEF Copied
<1>3. AllThere' /\ IdsWithRegistry'
  BY <1>1, <1>2 DEF Sound, AllThere, IdsWithRegistry
<1>4. /\ pc'[p] \in {"seesPath", "path", "jobs", "drop"} => settings'
      /\ pc'[p] # "drop"
      /\ pc'[p] \in {"seesPath2", "path2", "seesId", "id"} => "destinations" \notin schema'
  BY DEF Mig!Creates, Mig!AddsTotal, Mig!AddsAttempts, Mig!AddsPath, Mig!AddsPathOnly,
         Mig!MakesLocks, Typed,
         Sound, SettingsKept, RegistryGone
<1>5. p \notin disturbed' => pc'[p] # "refused" /\ Knows(p)'
  <2> USE DEF Typed, Sound, Undisturbed, Knows, Mig!Opening, Mig!At
  <2>1. CASE Mig!Creates(p)
    BY <2>1 DEF Mig!Creates
  <2>2. CASE Mig!AddsTotal(p) \/ Mig!AddsAttempts(p)
    BY <2>2 DEF Mig!AddsTotal, Mig!AddsAttempts
  <2>3. CASE Mig!AddsPath(p)
    BY <2>3 DEF Mig!AddsPath
  <2>4. CASE Mig!AddsPathOnly(p)
    BY <2>4 DEF Mig!AddsPathOnly
  <2>5. CASE Mig!MakesLocks(p)
    BY <2>5 DEF Mig!MakesLocks
  <2> QED
    BY <2>1, <2>2, <2>3, <2>4, <2>5
<1> QED
  BY <1>1, <1>2, <1>3, <1>4, <1>5, StatementStep

LEMMA StepCopies ==
    ASSUME Typed, Sound, NEW p \in Proc, Mig!BackfillsSettings(p) \/ Mig!BackfillsPaths(p)
    PROVE  Sound'
<1>1. /\ \A q \in Proc \ {p} : pc'[q] = pc[q]
      /\ UNCHANGED <<schema, disturbed>> /\ Mig!Alters(p, schema')
  BY DEF Mig!BackfillsSettings, Mig!BackfillsPaths, Typed
<1>2. settings => settings'
  BY DEF Mig!BackfillsSettings, Mig!BackfillsPaths
<1>3. DOMAIN path' = DOMAIN path /\ (Copied => Copied')
  <2>1. CASE path' = path
    BY <2>1 DEF Copied
  <2>2. CASE path' = [j \in DOMAIN path |-> path[j] \/ j \in Registered]
    BY <2>2, Zenon DEF Copied
  <2> QED
    BY <2>1, <2>2 DEF Mig!BackfillsSettings, Mig!BackfillsPaths
<1>4. AllThere' /\ IdsWithRegistry'
  BY <1>1, <1>2, <1>3 DEF Sound, AllThere, IdsWithRegistry
<1>5. pc'[p] \in {"seesPath", "path", "jobs", "drop"} => settings'
  BY DEF Mig!BackfillsSettings, Mig!BackfillsPaths, Typed, Sound, SettingsKept
<1>6. pc'[p] = "drop" => Copied'
  <2>1. pc'[p] = "drop" => path' = [j \in DOMAIN path |-> path[j] \/ j \in Registered]
    BY DEF Mig!BackfillsSettings, Mig!BackfillsPaths, Typed
  <2> QED
    BY <2>1, Zenon DEF Copied
<1>7. pc'[p] \in {"seesPath", "drop", "refused"}
  BY DEF Mig!BackfillsSettings, Mig!BackfillsPaths, Typed
<1>8. p \notin disturbed' => pc'[p] # "refused" /\ Knows(p)'
  <2> USE DEF Typed, Sound, Undisturbed, Knows, Mig!Opening, Mig!At
  <2>1. CASE Mig!BackfillsSettings(p)
    BY <2>1 DEF Mig!BackfillsSettings
  <2>2. CASE Mig!BackfillsPaths(p)
    BY <2>2 DEF Mig!BackfillsPaths, IdsWithRegistry
  <2> QED
    BY <2>1, <2>2
<1> QED
  BY <1>1, <1>2, <1>3, <1>4, <1>5, <1>6, <1>7, <1>8, StatementStep

LEMMA StepDrops ==
    ASSUME Typed, Sound, NEW p \in Proc,
       Mig!DropsRegistry(p) \/ Mig!DropsId(p) \/ Mig!DropsLocks(p)
    PROVE  Sound'
<1>1. /\ \A q \in Proc \ {p} : pc'[q] = pc[q]
      /\ UNCHANGED <<settings, path>> /\ Mig!Alters(p, schema') /\ schema' \subseteq schema
  BY DEF Mig!DropsRegistry, Mig!DropsId, Mig!DropsLocks, Typed
<1>2. Copied' <=> Copied
  BY <1>1 DEF Copied
<1>3. AllThere' /\ IdsWithRegistry'
  <2>1. CASE Mig!DropsRegistry(p)
    BY <1>1, <1>2, <2>1 DEF Mig!DropsRegistry, Sound, SettingsKept, PathsKept, AllThere,
                            IdsWithRegistry
  <2>2. CASE Mig!DropsId(p)
    BY <1>1, <1>2, <2>2 DEF Mig!DropsId, Sound, RegistryGone, AllThere, IdsWithRegistry
  <2>3. CASE Mig!DropsLocks(p)
    BY <1>1, <1>2, <2>3 DEF Mig!DropsLocks, Sound, AllThere, IdsWithRegistry
  <2> QED
    BY <2>1, <2>2, <2>3
<1>4. /\ pc'[p] \in {"seesId", "index", "makeLocks", "refused"}
      /\ pc'[p] = "seesId" => "destinations" \notin schema'
  BY DEF Mig!DropsRegistry, Mig!DropsId, Mig!DropsLocks, Typed
<1>5. p \notin disturbed' => pc'[p] # "refused" /\ Knows(p)'
  <2> USE DEF Typed, Sound, Undisturbed, Knows, Mig!Opening, Mig!At
  <2>1. CASE Mig!DropsRegistry(p)
    BY <2>1 DEF Mig!DropsRegistry
  <2>2. CASE Mig!DropsId(p)
    BY <2>2 DEF Mig!DropsId
  <2>3. CASE Mig!DropsLocks(p)
    BY <2>3 DEF Mig!DropsLocks
  <2> QED
    BY <2>1, <2>2, <2>3
<1> QED
  BY <1>1, <1>2, <1>3, <1>4, <1>5, StatementStep

LEMMA StepOther ==
    ASSUME Typed, Sound, NEW p \in Proc,
           \/ Mig!LooksForTotal(p) \/ Mig!LooksForAttempts(p) \/ Mig!Indexes(p) \/ Mig!Starts(p)
           \/ Mig!Stops(p) \/ Mig!Leases(p)
    PROVE  Sound'
<1>1. /\ \A q \in Proc \ {p} : pc'[q] = pc[q]
      /\ UNCHANGED <<schema, settings, path>>
  BY DEF Mig!LooksForTotal, Mig!LooksForAttempts, Mig!Indexes, Mig!Starts, Mig!Stops,
         Mig!Leases, Typed
<1>2. AllThere' /\ IdsWithRegistry' /\ (Copied' <=> Copied)
  BY <1>1 DEF Sound, AllThere, IdsWithRegistry, Copied
<1>3. pc'[p] = pc[p] \/ pc'[p] \notin {"seesPath", "path", "jobs", "drop", "seesPath2",
                                     "path2", "seesId", "id"}
  BY DEF Mig!LooksForTotal, Mig!LooksForAttempts, Mig!Indexes, Mig!Starts, Mig!Stops,
         Mig!Leases, Typed
<1>4. SettingsKept' /\ PathsKept' /\ RegistryGone'
  BY <1>1, <1>2, <1>3 DEF Sound, SettingsKept, PathsKept, RegistryGone
<1>5. Undisturbed'
  <2>1. \A q \in Proc \ {p} : q \in disturbed' <=> q \in disturbed
    BY DEF Mig!LooksForTotal, Mig!LooksForAttempts, Mig!Indexes, Mig!Starts, Mig!Stops,
           Mig!Leases
  <2>2. \A q \in Proc \ {p} : q \notin disturbed' => pc'[q] # "refused" /\ Knows(q)'
    BY <1>1, <2>1 DEF Sound, Undisturbed, Knows, Mig!Opening
  <2>3. p \notin disturbed' => pc'[p] # "refused" /\ Knows(p)'
    <3> USE DEF Typed, Sound, Undisturbed, Knows, Mig!Opening, Mig!At
    <3>1. CASE Mig!LooksForTotal(p) \/ Mig!LooksForAttempts(p)
      BY <3>1 DEF Mig!LooksForTotal, Mig!LooksForAttempts
    <3>2. CASE Mig!Indexes(p)
      BY <3>2 DEF Mig!Indexes
    <3>3. CASE Mig!Starts(p) \/ Mig!Stops(p) \/ Mig!Leases(p)
      BY <3>3 DEF Mig!Starts, Mig!Stops, Mig!Leases
    <3> QED
      BY <3>1, <3>2, <3>3
  <2> QED
    BY <2>2, <2>3 DEF Undisturbed
<1> QED
  BY <1>2, <1>4, <1>5 DEF Sound

LEMMA StepMigrate == MigrateInv /\ [Mig!Next]_(Mig!vars) => MigrateInv'
<1> SUFFICES ASSUME MigrateInv, [Mig!Next]_(Mig!vars) PROVE MigrateInv'
  OBVIOUS
<1>1. ASSUME NEW p \in Proc,
             \/ Mig!LooksForRegistry(p) \/ Mig!LooksForDestinations(p) \/ Mig!LooksForPath(p)
             \/ Mig!LooksForPathOnly(p) \/ Mig!LooksForId(p) \/ Mig!LooksForLocks(p)
             \/ Mig!LooksForLocksKey(p)
      PROVE  MigrateInv'
  BY <1>1, StepLook
<1>2. ASSUME NEW p \in Proc,
             \/ Mig!Creates(p) \/ Mig!AddsTotal(p) \/ Mig!AddsAttempts(p) \/ Mig!AddsPath(p)
             \/ Mig!AddsPathOnly(p) \/ Mig!MakesLocks(p)
      PROVE  MigrateInv'
  <2>1. Typed' /\ misread' = misread
    BY <1>2 DEF Mig!Creates, Mig!AddsTotal, Mig!AddsAttempts, Mig!AddsPath, Mig!AddsPathOnly,
                Mig!MakesLocks,
                Mig!Adds, MigrateInv, Typed, Mig!At
  <2> QED
    BY <1>2, <2>1, StepAdds DEF MigrateInv
<1>3. ASSUME NEW p \in Proc, Mig!BackfillsSettings(p) \/ Mig!BackfillsPaths(p) PROVE MigrateInv'
  <2>1. Typed' /\ misread' = misread
    BY <1>3 DEF Mig!BackfillsSettings, Mig!BackfillsPaths, MigrateInv, Typed, Mig!At
  <2> QED
    BY <1>3, <2>1, StepCopies DEF MigrateInv
<1>4. ASSUME NEW p \in Proc, Mig!DropsRegistry(p) \/ Mig!DropsId(p) \/ Mig!DropsLocks(p)
      PROVE  MigrateInv'
  <2>1. Typed' /\ misread' = misread
    BY <1>4 DEF Mig!DropsRegistry, Mig!DropsId, Mig!DropsLocks, MigrateInv, Typed, Mig!At
  <2> QED
    BY <1>4, <2>1, StepDrops DEF MigrateInv
<1>5. ASSUME NEW p \in Proc,
             \/ Mig!LooksForTotal(p) \/ Mig!LooksForAttempts(p) \/ Mig!Indexes(p)
             \/ Mig!Starts(p) \/ Mig!Stops(p) \/ Mig!Leases(p)
      PROVE  MigrateInv'
  <2>1. Typed' /\ misread' = misread
    BY <1>5 DEF Mig!LooksForTotal, Mig!LooksForAttempts, Mig!Indexes, Mig!Starts, Mig!Stops,
                Mig!Leases,
                MigrateInv, Typed, Mig!At
  <2> QED
    BY <1>5, <2>1, StepOther DEF MigrateInv
<1>6. CASE UNCHANGED Mig!vars
  BY <1>6 DEF MigrateInv, Typed, Sound, SettingsKept, PathsKept, RegistryGone, AllThere,
              Copied, IdsWithRegistry, Undisturbed, Knows, Mig!Opening
<1> QED
  BY <1>1, <1>2, <1>3, <1>4, <1>5, <1>6 DEF Mig!Next, Mig!OpenStep

LEMMA MigrateInductive == Mig!Spec => []MigrateInv
BY InitMigrate, StepMigrate, PTL DEF Mig!Spec

(* Whatever dies between two statements, and however many open at once:     *)
(* what the registry knew is copied before it is dropped, and jobs have     *)
(* their paths before their ids go, unless a look failed.                   *)
THEOREM MigrationLosesNothing == Mig!Spec => []NothingLost
<1>1. MigrateInv => NothingLost
  BY DEF MigrateInv, Sound, AllThere, Copied, NothingLost, Mig!NothingLost
<1> QED
  BY MigrateInductive, <1>1, PTL

(* Open finishes what a dead process began: it is refused only if another   *)
(* process changed the schema meanwhile, or a look failed.                  *)
THEOREM MigrationResumes == Mig!Spec => []RefusedOnlyIfDisturbed
<1>1. MigrateInv => RefusedOnlyIfDisturbed
  BY DEF MigrateInv, Sound, Undisturbed, RefusedOnlyIfDisturbed, Mig!RefusedOnlyIfDisturbed
<1> QED
  BY MigrateInductive, <1>1, PTL
-----------------------------------------------------------------------------
(* Progress, for files of any number and size, any tries and operations.    *)

(* Every kind sets "Verifying" last, and only after it has moved a file.    *)
LEMMA VerifiesWhatItMoved ==
    ASSUME NEW w \in Prg!Kind
    PROVE  /\ Len(Prg!Work(w)) \in Nat \ {0}
           /\ Prg!Work(w)[Len(Prg!Work(w))] = "Verifying"
           /\ Prg!Work(w)[1] \notin {"bytes", "Verifying"}
           /\ \A k \in 2 .. Len(Prg!Work(w)) :
                 Prg!Work(w)[k] = "Verifying" => Prg!Work(w)[k - 1] = "bytes"
<1>1. CASE w = "copy"
  BY <1>1 DEF Prg!Work
<1>2. CASE w = "convert"
  BY <1>2 DEF Prg!Work
<1>3. CASE w = "split"
  BY <1>3 DEF Prg!Work
<1>4. CASE w = "ember"
  <2> DEFINE Steps == [k \in 1 .. 2 * Files + 1 |->
                         IF k = 1 THEN "Copying"
                         ELSE IF k % 2 = 0 THEN "bytes" ELSE "Verifying"]
  <2>1. Prg!Work(w) = Steps
    BY <1>4 DEF Prg!Work
  <2>2. Files \in Nat \ {0} /\ Len(Steps) = 2 * Files + 1
    BY SizeAssumption
  <2>3. (2 * Files + 1) % 2 = 1 /\ 2 * Files + 1 # 1
    BY <2>2
  <2>4. ASSUME NEW k \in 2 .. 2 * Files + 1, k % 2 # 0
        PROVE  k - 1 # 1 /\ (k - 1) % 2 = 0 /\ k - 1 \in 1 .. 2 * Files + 1
    BY <2>2, <2>4
  <2> HIDE DEF Steps
  <2>5. \A k \in 1 .. 2 * Files + 1 : Steps[k] =
           IF k = 1 THEN "Copying" ELSE IF k % 2 = 0 THEN "bytes" ELSE "Verifying"
    BY DEF Steps
  <2> QED
    BY <2>1, <2>2, <2>3, <2>4, <2>5
<1> QED
  BY <1>1, <1>2, <1>3, <1>4 DEF Prg!Kind

Steps == Len(Prg!Work(kind))

ProgressTyped ==
    /\ kind \in Prg!Kind
    /\ status \in {"new", "pending", "running", "paused", "error", "done", "gone"}
    /\ try \in 0 .. MaxTries
    /\ runner \in {"idle", "work", "stop", "settle"}
    /\ step \in 1 .. Steps + 1
    /\ moved \in [Prg!Try -> Int]

(* Before the insert nothing has run; a runner works on a row that is its   *)
(* own or deleted; a pause ends what a requeue began.                       *)
RowStands ==
    /\ status = "new" => /\ bytes = 0 /\ runner = "idle" /\ step = 1
                         /\ \A t \in Prg!Try : ticker[t] = "none"
    /\ runner # "idle" => status \in {"running", "gone"} /\ try \in Prg!Try
    /\ status = "paused" => ~cleared

(* A file is verified when it has been moved; past the last step the row    *)
(* has its size, and a try passes there only.                               *)
TryCounts ==
    runner # "idle" =>
        /\ step # Steps + 1 /\ Prg!Work(kind)[step] = "Verifying" => moved[try] = Size
        /\ step = Steps + 1 => /\ moved[try] = Size
                               /\ ~stale /\ status = "running" => bytes = Size
        /\ passed => step = Steps + 1

RowRests == ~stale => /\ status = "done" => bytes = Size
                      /\ cleared /\ status = "pending" => bytes = 0
                      /\ status \in {"done", "error"} => phase = "none"

ProgressInv == ProgressTyped /\ RowStands /\ TryCounts /\ RowRests

LEMMA InitProgress == Prg!Init => ProgressInv
<1> SUFFICES ASSUME Prg!Init PROVE ProgressInv
  OBVIOUS
<1>1. kind \in Prg!Kind
  BY DEF Prg!Init, Prg!Kind
<1>2. Steps \in Nat \ {0}
  BY <1>1, VerifiesWhatItMoved DEF Steps
<1> QED
  BY <1>1, <1>2, SizeAssumption
     DEF Prg!Init, Prg!Try, ProgressInv, ProgressTyped, RowStands, TryCounts, RowRests

LEMMA StepRunner ==
    ASSUME ProgressInv, Prg!Claims \/ Prg!RunnerStep
    PROVE  ProgressInv'
<1> USE DEF ProgressInv, ProgressTyped, RowStands, TryCounts, RowRests,
            Prg!row, Prg!runner, Prg!timer, Prg!notes, Prg!Try
<1>1. /\ Steps \in Nat \ {0} /\ Prg!Work(kind)[Steps] = "Verifying"
      /\ Prg!Work(kind)[1] \notin {"bytes", "Verifying"}
      /\ \A k \in 2 .. Steps : Prg!Work(kind)[k] = "Verifying" => Prg!Work(kind)[k - 1] = "bytes"
  BY VerifiesWhatItMoved DEF Steps
<1>2. kind' = kind => Steps' = Steps /\ Prg!Work(kind)' = Prg!Work(kind)
  BY DEF Steps, Prg!Work
<1>3. CASE Prg!Claims
  BY <1>1, <1>2, <1>3, SizeAssumption DEF Prg!Claims
<1>4. CASE Prg!SetsPhase
  <2>1. ProgressTyped' /\ RowStands' /\ RowRests'
    BY <1>1, <1>2, <1>4 DEF Prg!SetsPhase, Prg!Doing, Prg!Checkpoint, Steps
  <2>2. TryCounts'
    BY <1>1, <1>2, <1>4 DEF Prg!SetsPhase, Prg!Doing, Prg!Checkpoint, Steps
  <2> QED
    BY <2>1, <2>2
<1>5. CASE Prg!StartsTicker
  <2>1. ProgressTyped'
    BY <1>1, <1>2, <1>5 DEF Prg!StartsTicker, Prg!Doing, Steps
  <2>3. RowStands' /\ RowRests'
    BY <1>1, <1>2, <1>5 DEF Prg!StartsTicker, Prg!Doing, Steps
  <2>2. TryCounts'
    BY SMTT(30), <1>1, <1>2, <1>5 DEF Prg!StartsTicker, Prg!Doing, Steps
  <2> QED
    BY <2>1, <2>2, <2>3
<1>6. CASE Prg!Moves
  <2>1. ProgressTyped'
    BY <1>1, <1>2, <1>6, SizeAssumption DEF Prg!Moves, Prg!Doing, Prg!Checkpoint, Steps
  <2>2. RowStands' /\ RowRests'
    BY <1>1, <1>2, <1>6, SizeAssumption DEF Prg!Moves, Prg!Doing, Prg!Checkpoint, Steps
  <2>3. TryCounts'
    BY <1>1, <1>2, <1>6, SizeAssumption DEF Prg!Moves, Prg!Doing, Prg!Checkpoint, Steps
  <2> QED
    BY <2>1, <2>2, <2>3
<1>7. CASE Prg!Stops
  BY <1>1, <1>2, <1>7 DEF Prg!Stops
<1>8. CASE Prg!Settles
  BY <1>1, <1>2, <1>8 DEF Prg!Settles, Prg!Finish, Prg!RequeueJob
<1>9. ASSUME NEW ok \in BOOLEAN, Prg!Returns(ok) PROVE ProgressInv'
  BY <1>1, <1>2, <1>9 DEF Prg!Returns, Steps
<1> QED
  BY <1>3, <1>4, <1>5, <1>6, <1>7, <1>8, <1>9 DEF Prg!RunnerStep

LEMMA StepProgress == ProgressInv /\ [Prg!Next]_(Prg!vars) => ProgressInv'
<1> SUFFICES ASSUME ProgressInv, [Prg!Next]_(Prg!vars) PROVE ProgressInv'
  OBVIOUS
<1> USE DEF ProgressInv, ProgressTyped, RowStands, TryCounts, RowRests,
            Prg!row, Prg!runner, Prg!timer, Prg!notes, Prg!Try
<1>1. Steps \in Nat \ {0}
  BY VerifiesWhatItMoved DEF Steps
<1>2. kind' = kind => Steps' = Steps /\ Prg!Work(kind)' = Prg!Work(kind)
  BY DEF Steps, Prg!Work
<1>3. ASSUME NEW k \in Prg!Kind, Prg!Enqueue(k) PROVE ProgressInv'
  <2>1. step' = 1
    BY <1>3 DEF Prg!Enqueue
  <2>2. \A n \in Nat \ {0} : 1 \in 1 .. n + 1
    OBVIOUS
  <2>3. step' \in 1 .. Steps' + 1
    BY <1>3, <2>1, <2>2, VerifiesWhatItMoved, Zenon DEF Steps, Prg!Enqueue
  <2> QED
    BY <1>3, <2>3 DEF Prg!Enqueue
<1>4. CASE Prg!Cancelled
  BY <1>2, <1>4 DEF Prg!Cancelled
<1>5. CASE Prg!Dies
  BY <1>1, <1>2, <1>5 DEF Prg!Dies, Prg!Op
<1>6. CASE Prg!Recovers
  BY <1>2, <1>6 DEF Prg!Recovers, Prg!RequeueJob
<1>7. ASSUME NEW t \in Prg!Try, Prg!Ticks(t) \/ Prg!Takes(t) \/ Prg!Ends(t)
      PROVE  ProgressInv'
  <2>1. CASE Prg!Ticks(t)
    BY <1>2, <2>1 DEF Prg!Ticks
  <2>2. CASE Prg!Takes(t)
    BY <1>2, <2>2 DEF Prg!Takes
  <2>3. CASE Prg!Ends(t)
    BY <1>2, <2>3 DEF Prg!Ends
  <2> QED
    BY <1>7, <2>1, <2>2, <2>3
<1>8. ASSUME NEW t \in Prg!Try, Prg!Saves(t) PROVE ProgressInv'
  BY <1>2, <1>8 DEF Prg!Saves, Prg!Checkpoint
<1>9. CASE Prg!PauseJob \/ Prg!ResumeJob \/ Prg!RetryJob \/ Prg!Deletes
  <2> USE DEF Prg!User, Prg!Op
  <2>1. CASE Prg!PauseJob
    BY <1>2, <2>1 DEF Prg!PauseJob
  <2>2. CASE Prg!ResumeJob
    BY <1>2, <2>2 DEF Prg!ResumeJob
  <2>3. CASE Prg!RetryJob
    BY <1>2, <2>3 DEF Prg!RetryJob
  <2>4. CASE Prg!Deletes
    BY <1>2, <2>4 DEF Prg!Deletes
  <2> QED
    BY <1>9, <2>1, <2>2, <2>3, <2>4
<1>10. CASE UNCHANGED Prg!vars
  BY <1>2, <1>10 DEF Prg!vars
<1> QED
  BY StepRunner, <1>3, <1>4, <1>5, <1>6, <1>7, <1>8, <1>9, <1>10 DEF Prg!Next

(* A resting row shows no phase, and the bytes that are there, unless a     *)
(* ticker saved late: whatever tries, failures, deaths and requests there   *)
(* were (Checkpoint, FinishJob, RequeueJob, RetryJob).                      *)
THEOREM RowsTellTheTruth == Prg!Spec => []RestsWithItsBytes
<1>1. ProgressInv => RestsWithItsBytes
  BY DEF ProgressInv, RowRests, RestsWithItsBytes, Prg!RestsWithItsBytes
<1> QED
  BY InitProgress, StepProgress, <1>1, PTL DEF Prg!Spec
-----------------------------------------------------------------------------
(* CueMerge, for any BINs, any number of directives and any timestamps.     *)

(* Every set of numbers has a least one.                                    *)
LEMMA LeastExists ==
  ASSUME NEW T \in SUBSET Nat, T # {}
  PROVE  \E x \in T : \A y \in T : x <= y
<1> DEFINE Less == {p \in Nat \X Nat : p[1] < p[2]}
<1>1. IsWellFoundedOn(Less, Nat)
  BY NatLessThanWellFounded DEF OpToRel
<1> HIDE DEF Less
<1>2. PICK x \in T : \A y \in T : ~ (<<y, x>> \in Less)
  BY <1>1, WFMin
<1>3. \A y \in Nat : y < x => <<y, x>> \in Less
  BY DEF Less
<1>4. \A y \in T : ~ (y < x)
  BY <1>2, <1>3, Zenon
<1>5. \A y \in T : x <= y
  BY <1>4
<1> QED
  BY <1>5

(* A set of positions of a sheet has a last one, the one Max chooses.       *)
LEMMA LastExists ==
  ASSUME NEW n \in Nat, NEW S \in SUBSET (1 .. n), S # {}
  PROVE  Cue!Max(S) \in S /\ \A y \in S : y <= Cue!Max(S)
<1> DEFINE T == {n - x : x \in S}
<1>1. \A x \in S : x \in Nat /\ n - x \in Nat
  OBVIOUS
<1>2. \E x \in S : n - x \in T
  OBVIOUS
<1>3. T \in SUBSET Nat
  BY <1>1
<1>4. PICK d \in T : \A e \in T : d <= e
  BY <1>2, <1>3, LeastExists
<1>5. PICK x \in S : d = n - x
  BY <1>4
<1>6. \A y \in S : n - x <= n - y
  BY <1>4, <1>5
<1>7. \A y \in S : x >= y
  BY <1>1, <1>6
<1>8. Cue!Max(S) \in S /\ \A z \in S : Cue!Max(S) >= z
  BY <1>7, Zenon DEF Cue!Max
<1> QED
  BY <1>1, <1>8

(* What is read is a sheet of tracks; the sizes stay those of the plan.     *)
SheetTyped ==
    /\ sheet \in Seq(Cue!Track)
    /\ sizes \in [File -> -1 .. MaxFrame]

(* A plan being written has no track that BuildPlan would refuse, and a     *)
(* refused sheet has one.                                                   *)
CueInv ==
    /\ SheetTyped
    /\ file \in File \cup {None}
    /\ inTrack \in BOOLEAN
    /\ inTrack => sheet # <<>>
    /\ cueAt = "write" => \A i \in DOMAIN sheet : Cue!Accepts(sheet, sizes, i)
    /\ cueAt = "refused" => \E i \in DOMAIN sheet : ~Cue!Accepts(sheet, sizes, i)

LEMMA InitCue == Cue!Init => CueInv
<1> SUFFICES ASSUME Cue!Init PROVE CueInv
  OBVIOUS
<1>1. <<>> \in Seq(Cue!Track)
  OBVIOUS
<1>2. [f \in File |-> 0] \in [File -> -1 .. MaxFrame]
  BY FrameAssumption
<1> QED
  BY <1>1, <1>2 DEF Cue!Init, CueInv, SheetTyped

(* A directive of a track leaves a sheet of tracks.                         *)
LEMMA InLastTyped ==
  ASSUME CueInv, inTrack, NEW t \in Cue!Track, Cue!InLastTrack(t), UNCHANGED sizes,
         cueAt = "parse"
  PROVE  CueInv'
<1>1. Len(sheet) \in DOMAIN sheet /\ sheet' \in Seq(Cue!Track) /\ sheet' # <<>>
  BY DEF CueInv, SheetTyped, Cue!InLastTrack
<1> QED
  BY <1>1 DEF CueInv, SheetTyped, Cue!InLastTrack

LEMMA LastIsTrack ==
  ASSUME CueInv, inTrack
  PROVE  Cue!Last(sheet) \in Cue!Track
BY DEF CueInv, SheetTyped, Cue!Last

LEMMA StepCue == CueInv /\ [Cue!Next]_(Cue!vars) => CueInv'
<1> SUFFICES ASSUME CueInv, [Cue!Next]_(Cue!vars) PROVE CueInv'
  OBVIOUS
<1> USE DEF Cue!rest
<1>1. ASSUME NEW f \in File, Cue!FileLine(f) PROVE CueInv'
  BY <1>1 DEF CueInv, SheetTyped, Cue!FileLine, Cue!Line
<1>2. ASSUME NEW f \in File, Cue!Shrinks(f) PROVE CueInv'
  BY <1>2 DEF CueInv, SheetTyped, Cue!Shrinks
<1>3. ASSUME NEW n \in BOOLEAN, Cue!TrackLine(n) PROVE CueInv'
  <2>1. CASE file = None
    BY <1>3, <2>1 DEF CueInv, SheetTyped, Cue!TrackLine, Cue!Line, Cue!Refuse
  <2>2. CASE file # None
    <3> DEFINE t == [file |-> file, native |-> n, index |-> [m \in {0, 1} |-> -1],
                     pregap |-> 0, postgap |-> 0]
    <3>1. t \in Cue!Track
      BY <2>2, FrameAssumption DEF CueInv, Cue!Track
    <3>2. sheet' = Append(sheet, t) /\ inTrack' = TRUE /\ UNCHANGED <<cueAt, file, sizes>>
          /\ cueAt = "parse"
      BY <1>3, <2>2 DEF Cue!TrackLine, Cue!Line
    <3> HIDE DEF t
    <3>3. sheet' \in Seq(Cue!Track) /\ sheet' # <<>>
      BY <3>1, <3>2 DEF CueInv, SheetTyped
    <3> QED
      BY <3>2, <3>3 DEF CueInv, SheetTyped
  <2> QED
    BY <2>1, <2>2
<1>4. ASSUME NEW n \in {0, 1}, NEW frame \in 0 .. MaxFrame, Cue!IndexLine(n, frame)
      PROVE  CueInv'
  <2>1. CASE ~inTrack
    BY <1>4, <2>1 DEF CueInv, SheetTyped, Cue!IndexLine, Cue!Line, Cue!Refuse
  <2>2. CASE inTrack
    <3>1. PICK t \in Cue!Track : t = Cue!Last(sheet)
      BY <2>2, LastIsTrack
    <3> DEFINE u == IF t.index[n] = -1 THEN [t EXCEPT !.index[n] = frame] ELSE t
    <3>2. u \in Cue!Track
      BY <1>4, FrameAssumption DEF Cue!Track
    <3>3. Cue!InLastTrack(u) /\ UNCHANGED sizes /\ cueAt = "parse"
      BY <1>4, <2>2, <3>1 DEF Cue!IndexLine, Cue!Line
    <3> HIDE DEF u
    <3> QED
      BY <2>2, <3>2, <3>3, InLastTyped
  <2> QED
    BY <2>1, <2>2 DEF CueInv
<1>5. ASSUME NEW b \in BOOLEAN, NEW a \in BOOLEAN, Cue!GapLine(b, a) PROVE CueInv'
  <2>1. CASE ~inTrack
    BY <1>5, <2>1 DEF CueInv, SheetTyped, Cue!GapLine, Cue!Line, Cue!Refuse
  <2>2. CASE inTrack
    <3>1. PICK t \in Cue!Track : t = Cue!Last(sheet)
      BY <2>2, LastIsTrack
    <3> DEFINE u == [t EXCEPT !.pregap = IF b THEN 1 ELSE @,
                              !.postgap = IF a THEN 1 ELSE @]
           v == [t EXCEPT !.pregap = IF b THEN 1 ELSE @]
    <3>2. v \in Cue!Track
      BY DEF Cue!Track
    <3>3. u = [v EXCEPT !.postgap = IF a THEN 1 ELSE @]
      OBVIOUS
    <3>4. Cue!InLastTrack(u) /\ UNCHANGED sizes /\ cueAt = "parse"
      BY <1>5, <2>2, <3>1 DEF Cue!GapLine, Cue!Line
    <3> HIDE DEF u, v
    <3>5. u \in Cue!Track
      BY <3>2, <3>3 DEF Cue!Track
    <3> QED
      BY <2>2, <3>4, <3>5, InLastTyped
  <2> QED
    BY <2>1, <2>2 DEF CueInv
<1>6. CASE Cue!EndOfSheet
  BY <1>6 DEF CueInv, SheetTyped, Cue!EndOfSheet
<1>7. CASE Cue!BuildPlan
  <2>1. PICK sz \in [File -> -1 .. MaxFrame] :
           /\ sizes' = sz
           /\ IF \A i \in DOMAIN sheet : Cue!Accepts(sheet, sz, i)
                THEN cueAt' = "write" ELSE cueAt' = "refused"
    BY <1>7 DEF Cue!BuildPlan
  <2>2. UNCHANGED <<file, inTrack, sheet>>
    BY <1>7 DEF Cue!BuildPlan
  <2>3. \A i : Cue!Accepts(sheet, sz, i)' <=> Cue!Accepts(sheet, sizes, i)'
    BY <2>1
  <2> QED
    BY <2>1, <2>2 DEF CueInv, SheetTyped
<1>8. CASE Cue!WriteOp \/ Cue!WriteFails \/ Cue!WriteEnds
  BY <1>8 DEF CueInv, SheetTyped, Cue!WriteOp, Cue!WriteFails, Cue!WriteEnds
<1>9. CASE UNCHANGED Cue!vars
  BY <1>9 DEF CueInv, SheetTyped, Cue!vars
<1> QED
  BY <1>1, <1>2, <1>3, <1>4, <1>5, <1>6, <1>7, <1>8, <1>9 DEF Cue!Next

(* The tracks of a group lie next to each other: a track between two of      *)
(* them is one of them, and so is a neighbour that shares their BIN.        *)
LEMMA GroupIs ==
  ASSUME sheet \in Seq(Cue!Track), NEW i \in DOMAIN sheet
  PROVE  /\ Cue!Group(i) \in SUBSET (1 .. Len(sheet)) /\ i \in Cue!Group(i)
         /\ \A k \in Cue!Group(i) : sheet[k].file = sheet[i].file
         /\ \A k, l \in Cue!Group(i) : \A m \in k .. l : m \in Cue!Group(i)
         /\ \A k \in Cue!Group(i) : k >= i /\ k + 1 \in DOMAIN sheet
               /\ sheet[k + 1].file = sheet[i].file => k + 1 \in Cue!Group(i)
<1>1. DOMAIN sheet = 1 .. Len(sheet) /\ Len(sheet) \in Nat
  OBVIOUS
<1>2. \A k \in Cue!Group(i) :
         /\ k \in 1 .. Len(sheet)
         /\ \A l \in (k .. i) \cup (i .. k) : sheet[l].file = sheet[i].file
  BY <1>1 DEF Cue!Group
<1>3. \A k \in 1 .. Len(sheet) :
         (\A l \in (k .. i) \cup (i .. k) : sheet[l].file = sheet[i].file)
            => k \in Cue!Group(i)
  BY <1>1 DEF Cue!Group
<1>4. \A k \in Cue!Group(i) : k \in (k .. i) \cup (i .. k)
  BY <1>1, <1>2
<1>5. i \in Cue!Group(i)
  BY <1>1, <1>3
<1>6. ASSUME NEW k \in Cue!Group(i), NEW l \in Cue!Group(i), NEW m \in k .. l
      PROVE  m \in Cue!Group(i)
  <2>1. /\ k \in 1 .. Len(sheet) /\ l \in 1 .. Len(sheet) /\ i \in 1 .. Len(sheet)
        /\ m \in 1 .. Len(sheet)
    BY <1>1, <1>2
  <2>2. \A x \in (m .. i) \cup (i .. m) : x \in (k .. i) \cup (i .. l)
    BY <2>1
  <2>3. \A x \in (m .. i) \cup (i .. m) : sheet[x].file = sheet[i].file
    BY <1>2, <2>2
  <2> QED
    BY <1>3, <2>1, <2>3
<1>7. ASSUME NEW k \in Cue!Group(i), k >= i, k + 1 \in DOMAIN sheet,
             sheet[k + 1].file = sheet[i].file
      PROVE  k + 1 \in Cue!Group(i)
  <2>1. k \in 1 .. Len(sheet) /\ i \in 1 .. Len(sheet) /\ k + 1 \in 1 .. Len(sheet)
    BY <1>1, <1>2, <1>7
  <2>2. \A x \in ((k + 1) .. i) \cup (i .. (k + 1)) : x = k + 1 \/ x \in i .. k
    BY <1>7, <2>1
  <2>3. \A x \in ((k + 1) .. i) \cup (i .. (k + 1)) : sheet[x].file = sheet[i].file
    BY <1>2, <1>7, <2>2
  <2> QED
    BY <1>3, <2>1, <2>3
<1> QED
  BY <1>2, <1>4, <1>5, <1>6, <1>7

(* What one track of a sheet with every INDEX 01 must be, to be accepted.   *)
LEMMA AcceptsIs ==
  ASSUME SheetTyped, NEW i \in DOMAIN sheet,
         \A k \in DOMAIN sheet : sheet[k].index[1] # -1
  PROVE  /\ sheet[i].index[1] \in Int /\ Cue!FirstMark(sheet[i]) \in Int
         /\ sizes[sheet[i].file] \in Int
         /\ Cue!Accepts(sheet, sizes, i) <=>
              /\ sheet[i].native /\ sizes[sheet[i].file] # -1
              /\ Cue!FirstMark(sheet[i]) <= sheet[i].index[1]
              /\ IF i < Len(sheet) /\ sheet[i + 1].file = sheet[i].file
                   THEN sheet[i].index[1] <= Cue!FirstMark(sheet[i + 1])
                   ELSE sheet[i].index[1] <= sizes[sheet[i].file]
<1>1. \A k \in DOMAIN sheet : sheet[k] \in Cue!Track
  BY DEF SheetTyped
<1>2. \A t \in Cue!Track : t.file \in File /\ t.index[0] \in Int /\ t.index[1] \in Int
                           /\ t.index[1] >= -1
  BY FrameAssumption DEF Cue!Track
<1>3. sheet[i].index[1] \in Int /\ sheet[i].index[0] \in Int /\ sheet[i].index[1] >= -1
      /\ sheet[i].file \in File
  BY <1>1, <1>2
<1>4. sizes[sheet[i].file] \in Int
  BY <1>3, FrameAssumption DEF SheetTyped
<1>5. Cue!FirstMark(sheet[i]) \in Int
      /\ (Cue!FirstMark(sheet[i]) <= sheet[i].index[1]
            <=> sheet[i].index[0] <= sheet[i].index[1])
  BY <1>3 DEF Cue!FirstMark
<1>6. ASSUME i < Len(sheet)
      PROVE  Cue!NextStartFrame(sheet[i + 1]) = Cue!FirstMark(sheet[i + 1])
  <2>1. i + 1 \in DOMAIN sheet
    BY <1>6 DEF SheetTyped
  <2> QED
    BY <2>1 DEF Cue!NextStartFrame, Cue!FirstMark
<1>7. Cue!EndFrame(sheet, sizes, i) =
        IF i < Len(sheet) /\ sheet[i + 1].file = sheet[i].file
        THEN Cue!FirstMark(sheet[i + 1]) ELSE sizes[sheet[i].file]
  BY <1>6 DEF Cue!EndFrame
<1> QED
  BY <1>3, <1>4, <1>5, <1>7 DEF Cue!Accepts

(* The tracks BuildPlan accepts have their marks in order across each BIN.  *)
LEMMA AcceptedInOrder ==
  ASSUME SheetTyped, \A k \in DOMAIN sheet : Cue!Accepts(sheet, sizes, k),
         NEW i \in DOMAIN sheet,
         NEW k \in Cue!Group(i), NEW l \in Cue!Group(i), k < l
  PROVE  sheet[k].index[1] <= Cue!FirstMark(sheet[l])
<1> DEFINE M(x) == sheet[x].index[1]
           F(x) == Cue!FirstMark(sheet[x])
           G    == Cue!Group(i)
           Bad  == {x \in Nat : x \in G /\ k < x /\ ~ (M(k) <= F(x))}
<1>1. DOMAIN sheet = 1 .. Len(sheet) /\ Len(sheet) \in Nat /\ sheet \in Seq(Cue!Track)
  BY DEF SheetTyped
<1>2. \A x \in DOMAIN sheet : sheet[x].index[1] # -1
  BY DEF Cue!Accepts
<1>3. \A x \in DOMAIN sheet :
         /\ M(x) \in Int /\ F(x) \in Int /\ F(x) <= M(x)
         /\ x < Len(sheet) /\ sheet[x + 1].file = sheet[x].file => M(x) <= F(x + 1)
  BY <1>2, AcceptsIs
<1>4. /\ \A x \in G : x \in 1 .. Len(sheet) /\ sheet[x].file = sheet[i].file
      /\ \A x, y \in G : \A z \in x .. y : z \in G
  BY <1>1, GroupIs
<1> HIDE DEF M, F, G
<1>5. ASSUME NEW x \in Bad PROVE FALSE
  <2>1. PICK y \in Bad : \A z \in Bad : y <= z
    <3>1. Bad \in SUBSET Nat /\ Bad # {}
      BY <1>5
    <3> HIDE DEF Bad
    <3> QED
      BY <3>1, LeastExists
  <2>2. y \in G /\ k < y /\ ~ (M(k) <= F(y)) /\ y \in 1 .. Len(sheet)
    BY <1>4
  <2>3. k \in G /\ k \in 1 .. Len(sheet)
    BY <1>4 DEF G
  <2>4. y - 1 \in k .. y /\ y - 1 \in 1 .. Len(sheet) /\ y - 1 < Len(sheet)
    BY <1>1, <2>2, <2>3
  <2>5. y - 1 \in G /\ sheet[y - 1].file = sheet[y].file
    BY <1>4, <2>2, <2>3, <2>4
  <2>6. M(y - 1) <= F(y)
    <3>1. (y - 1) + 1 = y
      BY <2>4
    <3> QED
      BY <1>1, <1>3, <2>4, <2>5, <3>1
  <2>7. y - 1 # k
    BY <2>2, <2>6
  <2>8. y - 1 \in Nat /\ ~ (y - 1 \in Bad)
    BY <2>1, <2>2, <2>4
  <2>9. M(k) <= F(y - 1)
    BY <2>3, <2>4, <2>5, <2>7, <2>8
  <2>10. /\ M(k) \in Int /\ F(y - 1) \in Int /\ M(y - 1) \in Int /\ F(y) \in Int
         /\ F(y - 1) <= M(y - 1)
    BY <1>1, <1>3, <2>2, <2>3, <2>4
  <2> QED
    BY <2>2, <2>6, <2>9, <2>10
<1>6. l \in Nat /\ l \in G
  BY <1>1, <1>4 DEF G
<1>7. M(k) <= F(l)
  BY <1>5, <1>6
<1> QED
  BY <1>7 DEF M, F

(* The sheets of which BuildPlan accepts every track are the valid ones.    *)
LEMMA AcceptsTheValid ==
  ASSUME SheetTyped
  PROVE  (\A i \in DOMAIN sheet : Cue!Accepts(sheet, sizes, i)) <=> Cue!ValidSheet
<1>1. DOMAIN sheet = 1 .. Len(sheet) /\ Len(sheet) \in Nat /\ sheet \in Seq(Cue!Track)
  BY DEF SheetTyped
<1> DEFINE M(x) == sheet[x].index[1]
           F(x) == Cue!FirstMark(sheet[x])
           Marks(i) == /\ \A k \in Cue!Group(i) : F(k) <= M(k)
                       /\ \A k, l \in Cue!Group(i) : k < l => M(k) <= F(l)
                       /\ M(Cue!Max(Cue!Group(i))) <= sizes[sheet[i].file]
<1>2. \A i \in DOMAIN sheet : Cue!Max(Cue!Group(i)) \in Cue!Group(i)
                              /\ \A k \in Cue!Group(i) : k <= Cue!Max(Cue!Group(i))
  BY <1>1, GroupIs, LastExists
<1>3. Cue!ValidSheet <=>
        \A i \in DOMAIN sheet : /\ sheet[i].native /\ sizes[sheet[i].file] # -1
                                /\ M(i) # -1 /\ Marks(i)
  <2>1. ASSUME NEW i \in DOMAIN sheet
        PROVE  (LET marks == [k \in Cue!Group(i) |->
                                <<Cue!FirstMark(sheet[k]), sheet[k].index[1]>>] IN
                /\ \A k \in Cue!Group(i) : marks[k][1] <= marks[k][2]
                /\ \A k, l \in Cue!Group(i) : k < l => marks[k][2] <= marks[l][1]
                /\ marks[Cue!Max(Cue!Group(i))][2] <= sizes[sheet[i].file])
                <=> Marks(i)
    BY <1>2
  <2> QED
    BY <2>1 DEF Cue!ValidSheet
<1>4. ASSUME \A i \in DOMAIN sheet : Cue!Accepts(sheet, sizes, i), NEW i \in DOMAIN sheet
      PROVE  sheet[i].native /\ sizes[sheet[i].file] # -1 /\ M(i) # -1 /\ Marks(i)
  <2>1. \A x \in DOMAIN sheet : sheet[x].index[1] # -1
    BY <1>4 DEF Cue!Accepts
  <2>2. sheet[i].native /\ sizes[sheet[i].file] # -1
    BY <1>4 DEF Cue!Accepts
  <2>3. \A k \in Cue!Group(i) : F(k) <= M(k)
    BY <1>1, <1>4, <2>1, GroupIs, AcceptsIs
  <2>4. \A k, l \in Cue!Group(i) : k < l => M(k) <= F(l)
    BY <1>4, AcceptedInOrder
  <2>5. M(Cue!Max(Cue!Group(i))) <= sizes[sheet[i].file]
    <3>1. PICK m \in Cue!Group(i) : m = Cue!Max(Cue!Group(i)) /\ \A k \in Cue!Group(i) : k <= m
      BY <1>2
    <3>2. m \in DOMAIN sheet /\ sheet[m].file = sheet[i].file /\ m >= i
      BY <1>1, <3>1, GroupIs
    <3>3. ~ (m + 1 \in Cue!Group(i))
      BY <1>1, <3>1, <3>2
    <3>4. ~ (m < Len(sheet) /\ sheet[m + 1].file = sheet[m].file)
      BY <1>1, <3>1, <3>2, <3>3, GroupIs
    <3>5. M(m) <= sizes[sheet[m].file]
      BY <1>4, <2>1, <3>2, <3>4, AcceptsIs
    <3> QED
      BY <3>1, <3>2, <3>5
  <2> QED
    BY <2>1, <2>2, <2>3, <2>4, <2>5
<1>5. ASSUME \A i \in DOMAIN sheet : /\ sheet[i].native /\ sizes[sheet[i].file] # -1
                                     /\ M(i) # -1 /\ Marks(i),
             NEW i \in DOMAIN sheet
      PROVE  Cue!Accepts(sheet, sizes, i)
  <2>1. i \in Cue!Group(i) /\ F(i) <= M(i)
    BY <1>1, <1>5, GroupIs
  <2>2. ASSUME i < Len(sheet), sheet[i + 1].file = sheet[i].file
        PROVE  M(i) <= F(i + 1)
    <3>1. i + 1 \in Cue!Group(i)
      BY <1>1, <2>1, <2>2, GroupIs
    <3> QED
      BY <1>1, <1>5, <2>1, <3>1
  <2>3. ASSUME ~ (i < Len(sheet) /\ sheet[i + 1].file = sheet[i].file)
        PROVE  M(i) <= sizes[sheet[i].file]
    <3>1. PICK m \in Cue!Group(i) : m = Cue!Max(Cue!Group(i)) /\ \A k \in Cue!Group(i) : k <= m
      BY <1>2
    <3>2. m \in 1 .. Len(sheet) /\ i <= m
      BY <1>1, <2>1, <3>1, GroupIs
    <3>3. ASSUME i # m PROVE FALSE
      <4>1. i + 1 \in i .. m /\ i < Len(sheet)
        BY <1>1, <3>2, <3>3
      <4>2. i + 1 \in Cue!Group(i)
        BY <1>1, <2>1, <3>1, <4>1, GroupIs
      <4> QED
        BY <1>1, <2>3, <4>1, <4>2, GroupIs
    <3> QED
      BY <1>5, <3>1, <3>3
  <2> QED
    BY <1>5, <2>1, <2>2, <2>3, AcceptsIs
<1> QED
  BY <1>3, <1>4, <1>5

LEMMA CueInductive == Cue!Spec => []CueInv
<1> QED
  BY InitCue, StepCue, PTL DEF Cue!Spec

(* The sheets that BuildPlan refuses are exactly those whose marks are not  *)
(* in order in each BIN, for any BINs, sizes and directives.                *)
THEOREM OrderDecides == Cue!Spec => []RefusesExactlyInvalid
<1>1. CueInv => RefusesExactlyInvalid
  BY AcceptsTheValid DEF CueInv, RefusesExactlyInvalid, Cue!RefusesExactlyInvalid
<1> QED
  BY <1>1, CueInductive, PTL
-----------------------------------------------------------------------------
(* CueMerge: what the plan of an accepted sheet writes.                     *)

(* What an operation of a plan writes.                                      *)
Cell   == {"zero"} \cup (File \X Nat)
PlanOp == [zeros : Nat] \cup [file : File, from : Nat, frames : Nat]

Puts(x) == IF "zeros" \in DOMAIN x THEN [i \in 1 .. x.zeros |-> "zero"]
            ELSE [i \in 1 .. x.frames |-> <<x.file, x.from + i - 1>>]

(* g[n] is what the first n operations write.                               *)
Laid(s, g) == /\ g \in [0 .. Len(s) -> Seq(Cell)]
                /\ g[0] = <<>>
                /\ \A n \in 1 .. Len(s) : g[n] = g[n - 1] \o Puts(s[n])

Lays(s, w) == s \in Seq(PlanOp) /\ \E g : Laid(s, g) /\ w = g[Len(s)]

Silence(n)         == [k \in 1 .. n |-> "zero"]
Frames(f, from, n) == [k \in 1 .. n |-> <<f, from + k - 1>>]

LEMMA RunsAreCells ==
  /\ \A n \in Nat : Silence(n) \in Seq(Cell) /\ Len(Silence(n)) = n
  /\ \A f \in File, from \in Nat, n \in Nat :
        Frames(f, from, n) \in Seq(Cell) /\ Len(Frames(f, from, n)) = n
<1>1. ASSUME NEW n \in Nat PROVE Silence(n) \in Seq(Cell) /\ Len(Silence(n)) = n
  BY DEF Silence, Cell
<1>2. ASSUME NEW f \in File, NEW from \in Nat, NEW n \in Nat
      PROVE  Frames(f, from, n) \in Seq(Cell) /\ Len(Frames(f, from, n)) = n
  <2>1. \A k \in 1 .. n : <<f, from + k - 1>> \in Cell
    BY DEF Cell
  <2> QED
    BY <2>1 DEF Frames
<1> QED
  BY <1>1, <1>2

LEMMA PutsCells ==
  ASSUME NEW x \in PlanOp
  PROVE  Puts(x) \in Seq(Cell) /\ Len(Puts(x)) = Cue!OpFrames(x)
<1>1. CASE x \in [zeros : Nat]
  <2>1. "zeros" \in DOMAIN x /\ x.zeros \in Nat
    BY <1>1
  <2>2. PICK n \in Nat : n = x.zeros
    BY <2>1
  <2>3. Puts(x) = Silence(n) /\ Cue!OpFrames(x) = n
    BY <2>1, <2>2 DEF Puts, Silence, Cue!OpFrames
  <2> QED
    BY <2>3, RunsAreCells
<1>2. CASE x \in [file : File, from : Nat, frames : Nat]
  <2>1. ~ ("zeros" \in DOMAIN x) /\ x.file \in File /\ x.from \in Nat /\ x.frames \in Nat
    BY <1>2
  <2>2. PICK n \in Nat, m \in Nat, f \in File : n = x.frames /\ m = x.from /\ f = x.file
    BY <2>1
  <2>3. Puts(x) = Frames(f, m, n) /\ Cue!OpFrames(x) = n
    BY <2>1, <2>2 DEF Puts, Frames, Cue!OpFrames
  <2> QED
    BY <2>3, RunsAreCells
<1> QED
  BY <1>1, <1>2 DEF PlanOp

LEMMA LaysNothing == Lays(<<>>, <<>>)
<1> DEFINE g == [n \in 0 .. 0 |-> <<>>]
<1>1. <<>> \in Seq(PlanOp) /\ <<>> \in Seq(Cell) /\ Len(<<>>) = 0
  OBVIOUS
<1>2. g \in [0 .. 0 -> Seq(Cell)] /\ g[0] = <<>>
  BY <1>1
<1> HIDE DEF g
<1>3. Laid(<<>>, g)
  BY <1>1, <1>2 DEF Laid
<1> QED
  BY <1>1, <1>2, <1>3 DEF Lays

LEMMA LaysOne ==
  ASSUME NEW s, NEW w, Lays(s, w), NEW x \in PlanOp
  PROVE  Lays(s \o <<x>>, w \o Puts(x)) /\ w \in Seq(Cell)
<1>1. s \in Seq(PlanOp) /\ Len(s) \in Nat
  BY DEF Lays
<1>2. PICK n \in Nat : n = Len(s)
  BY <1>1
<1>3. PICK g : Laid(s, g) /\ w = g[n]
  BY <1>2 DEF Lays
<1>4. /\ g \in [0 .. n -> Seq(Cell)] /\ g[0] = <<>>
      /\ \A k \in 1 .. n : g[k] = g[k - 1] \o Puts(s[k])
  BY <1>2, <1>3 DEF Laid
<1>5. PICK r : r = s \o <<x>>
  OBVIOUS
<1>6. r \in Seq(PlanOp) /\ Len(r) = n + 1 /\ r[n + 1] = x /\ \A k \in 1 .. n : r[k] = s[k]
  BY <1>1, <1>2, <1>5
<1>7. PICK v : v = w \o Puts(x)
  OBVIOUS
<1>8. w \in Seq(Cell)
  BY <1>3, <1>4
<1>9. v \in Seq(Cell)
  BY <1>7, <1>8, PutsCells, ConcatProperties
<1> DEFINE h == [k \in 0 .. n + 1 |-> IF k = n + 1 THEN v ELSE g[k]]
<1>10. \A k \in 0 .. n + 1 : k = n + 1 \/ k \in 0 .. n
  OBVIOUS
<1>11. h \in [0 .. n + 1 -> Seq(Cell)]
  BY <1>4, <1>9, <1>10
<1>12. h[n + 1] = v /\ \A k \in 0 .. n : h[k] = g[k]
  OBVIOUS
<1> HIDE DEF h
<1>13. ASSUME NEW k \in 1 .. n + 1 PROVE h[k] = h[k - 1] \o Puts(r[k])
  <2>1. CASE k = n + 1
    <3>1. h[k - 1] = w /\ r[k] = x /\ h[k] = v
      BY <1>3, <1>6, <1>12, <2>1
    <3> QED
      BY <1>7, <3>1
  <2>2. CASE k # n + 1
    <3>1. k \in 1 .. n /\ k \in 0 .. n /\ k - 1 \in 0 .. n
      BY <2>2
    <3>2. h[k] = g[k] /\ h[k - 1] = g[k - 1] /\ r[k] = s[k]
      BY <1>6, <1>12, <3>1
    <3> QED
      BY <1>4, <3>1, <3>2
  <2> QED
    BY <2>1, <2>2
<1>14. Laid(r, h)
  <2>1. h \in [0 .. Len(r) -> Seq(Cell)] /\ h[0] = <<>>
    BY <1>4, <1>6, <1>11, <1>12
  <2>2. \A k \in 1 .. Len(r) : h[k] = h[k - 1] \o Puts(r[k])
    BY <1>6, <1>13
  <2> QED
    BY <2>1, <2>2, Zenon DEF Laid
<1>15. Lays(r, v)
  BY <1>6, <1>12, <1>14 DEF Lays
<1> QED
  BY <1>5, <1>7, <1>8, <1>15

LEMMA LaysZeros ==
  ASSUME NEW s, NEW w, Lays(s, w), NEW n \in Nat
  PROVE  Lays(s \o Cue!Zeros(n), w \o Silence(n))
<1>1. CASE n = 0
  <2>1. s \o <<>> = s /\ w \o <<>> = w
    <3>1. [zeros |-> 0] \in PlanOp
      BY DEF PlanOp
    <3>2. s \in Seq(PlanOp) /\ w \in Seq(Cell)
      BY <3>1, LaysOne DEF Lays
    <3> QED
      BY <3>2, ConcatEmptySeq
  <2>2. Silence(n) = <<>> /\ Cue!Zeros(n) = <<>>
    BY <1>1 DEF Silence, Cue!Zeros
  <2> QED
    BY <2>1, <2>2
<1>2. CASE n # 0
  <2>1. PICK x : x = [zeros |-> n]
    OBVIOUS
  <2>2. x \in PlanOp /\ Puts(x) = Silence(n) /\ Cue!Zeros(n) = <<x>>
    BY <1>2, <2>1 DEF PlanOp, Puts, Silence, Cue!Zeros
  <2> QED
    BY <2>2, LaysOne
<1> QED
  BY <1>1, <1>2

LEMMA LaysFrames ==
  ASSUME NEW s, NEW w, Lays(s, w), NEW f \in File, NEW from \in Nat, NEW n \in Nat
  PROVE  Lays(s \o Cue!Copies(f, from, n), w \o Frames(f, from, n))
<1>1. CASE n = 0
  <2>1. s \o <<>> = s /\ w \o <<>> = w
    <3>1. [zeros |-> 0] \in PlanOp
      BY DEF PlanOp
    <3>2. s \in Seq(PlanOp) /\ w \in Seq(Cell)
      BY <3>1, LaysOne DEF Lays
    <3> QED
      BY <3>2, ConcatEmptySeq
  <2>2. Frames(f, from, n) = <<>> /\ Cue!Copies(f, from, n) = <<>>
    BY <1>1 DEF Frames, Cue!Copies
  <2> QED
    BY <2>1, <2>2
<1>2. CASE n # 0
  <2>1. PICK x : x = [file |-> f, from |-> from, frames |-> n]
    OBVIOUS
  <2>2. ~ ("zeros" \in DOMAIN x)
    BY <2>1
  <2>3. x \in PlanOp /\ Puts(x) = Frames(f, from, n) /\ Cue!Copies(f, from, n) = <<x>>
    BY <1>2, <2>1, <2>2 DEF PlanOp, Puts, Frames, Cue!Copies
  <2> QED
    BY <2>3, LaysOne
<1> QED
  BY <1>1, <1>2

Accepted == \A i \in DOMAIN sheet : Cue!Accepts(sheet, sizes, i)

(* What BuildPlan computes for a track it accepts.                          *)
First(i)  == Cue!FirstMark(sheet[i])
Start(i)  == sheet[i].index[1]
End(i)    == Cue!EndFrame(sheet, sizes, i)

(* They are numbers, in order, and what is silent is what its gaps say.     *)
LEMMA TrackNumbers ==
  ASSUME SheetTyped, Accepted, NEW i \in DOMAIN sheet
  PROVE  /\ sheet[i].file \in File
         /\ sheet[i].pregap \in Nat /\ sheet[i].postgap \in Nat
         /\ First(i) \in Nat /\ Start(i) \in Nat /\ End(i) \in Nat
         /\ First(i) <= Start(i) /\ Start(i) <= End(i)
         /\ sizes[sheet[i].file] \in Nat
         /\ End(i) = IF i < Len(sheet) /\ sheet[i + 1].file = sheet[i].file
                     THEN First(i + 1) ELSE sizes[sheet[i].file]
         /\ Cue!GapFrames(sheet[i]) = sheet[i].pregap + (Start(i) - First(i))
<1>1. \A k \in DOMAIN sheet : sheet[k] \in Cue!Track /\ sheet[k].index[1] # -1
  BY DEF SheetTyped, Accepted, Cue!Accepts
<1>2. \A t \in Cue!Track : /\ t.file \in File /\ t.pregap \in Nat /\ t.postgap \in Nat
                           /\ t.index[0] \in Int /\ t.index[1] \in Int
                           /\ t.index[0] >= -1 /\ t.index[1] >= -1
  BY FrameAssumption DEF Cue!Track
<1>3. /\ sheet[i].file \in File /\ sheet[i].pregap \in Nat /\ sheet[i].postgap \in Nat
      /\ sheet[i].index[0] \in Int /\ Start(i) \in Nat /\ sheet[i].index[0] >= -1
      /\ Start(i) # -1
  BY <1>1, <1>2 DEF Start
<1>4. First(i) \in Nat /\ (First(i) = IF sheet[i].index[0] # -1 THEN sheet[i].index[0] ELSE Start(i))
  BY <1>3 DEF First, Start, Cue!FirstMark
<1>5. ASSUME i < Len(sheet)
      PROVE  Cue!NextStartFrame(sheet[i + 1]) = First(i + 1)
  <2>1. i + 1 \in DOMAIN sheet
    BY <1>5 DEF SheetTyped
  <2> QED
    BY <1>1, <2>1 DEF Cue!NextStartFrame, Cue!FirstMark, First
<1>6. End(i) = IF i < Len(sheet) /\ sheet[i + 1].file = sheet[i].file
               THEN First(i + 1) ELSE sizes[sheet[i].file]
  BY <1>5 DEF Cue!EndFrame, End
<1>7. sizes[sheet[i].file] \in Nat
  <2>1. sizes[sheet[i].file] # -1
    BY DEF Accepted, Cue!Accepts
  <2>2. sizes[sheet[i].file] \in -1 .. MaxFrame
    BY <1>3 DEF SheetTyped
  <2> QED
    BY <2>1, <2>2, FrameAssumption
<1>8. First(i) <= Start(i) /\ Start(i) <= End(i)
  <2>1. sheet[i].index[0] <= Start(i) /\ Start(i) <= End(i)
    BY DEF Accepted, Cue!Accepts, Start, End
  <2> QED
    BY <1>3, <1>4, <2>1
<1>9. End(i) \in Nat
  <2>1. CASE i < Len(sheet) /\ sheet[i + 1].file = sheet[i].file
    <3>1. i + 1 \in DOMAIN sheet
      BY <2>1 DEF SheetTyped
    <3>2. First(i + 1) \in Nat
      BY <1>1, <1>2, <3>1 DEF First, Cue!FirstMark
    <3> QED
      BY <1>6, <2>1, <3>2
  <2> QED
    BY <1>6, <1>7, <2>1
<1>10. Cue!GapFrames(sheet[i]) = sheet[i].pregap + (Start(i) - First(i))
  BY <1>3, <1>4 DEF Cue!GapFrames, Start
<1> QED
  BY <1>3, <1>4, <1>6, <1>7, <1>8, <1>9, <1>10

LEMMA TrackRuns ==
  ASSUME SheetTyped, Accepted, NEW i \in DOMAIN sheet
  PROVE  /\ sheet[i].pregap + (Start(i) - First(i)) \in Nat /\ End(i) - Start(i) \in Nat
         /\ sheet[i].postgap \in Nat /\ Start(i) \in Nat /\ sheet[i].file \in File
<1>1. PICK p \in Nat, g \in Nat, m \in Nat, e \in Nat :
         p = sheet[i].pregap /\ g = First(i) /\ m = Start(i) /\ e = End(i) /\ g <= m /\ m <= e
  BY TrackNumbers
<1>2. p + (m - g) \in Nat /\ e - m \in Nat
  BY <1>1
<1>3. sheet[i].postgap \in Nat /\ sheet[i].file \in File
  BY TrackNumbers
<1> QED
  BY <1>1, <1>2, <1>3

(* What the operations of a track write.                                    *)
Playing(i) == Silence(sheet[i].pregap + (Start(i) - First(i)))
                \o Frames(sheet[i].file, Start(i), End(i) - Start(i))
                \o Silence(sheet[i].postgap)

(* So an accepted track's operations write Playing(i).                      *)
LEMMA LaysTrack ==
  ASSUME SheetTyped, Accepted, NEW i \in DOMAIN sheet, NEW s, NEW w, Lays(s, w)
  PROVE  /\ Lays(s \o Cue!TrackOps(sheet, sizes, i), w \o Playing(i)) /\ w \in Seq(Cell)
         /\ Cue!TrackOps(sheet, sizes, i) \in Seq(PlanOp)
<1>1. PICK gap \in Nat, n \in Nat, after \in Nat, from \in Nat, f \in File :
         /\ gap = sheet[i].pregap + (Start(i) - First(i)) /\ n = End(i) - Start(i)
         /\ after = sheet[i].postgap /\ from = Start(i) /\ f = sheet[i].file
  BY TrackRuns
<1>2. PICK a, b, c : a = Cue!Zeros(gap) /\ b = Cue!Copies(f, from, n) /\ c = Cue!Zeros(after)
  OBVIOUS
<1>3. PICK p, q, r : p = Silence(gap) /\ q = Frames(f, from, n) /\ r = Silence(after)
  OBVIOUS
<1>4. Lays(((s \o a) \o b) \o c, ((w \o p) \o q) \o r)
  <2>1. Lays(s \o a, w \o p)
    BY <1>2, <1>3, LaysZeros
  <2>2. Lays((s \o a) \o b, (w \o p) \o q)
    BY <1>2, <1>3, <2>1, LaysFrames
  <2> QED
    BY <1>2, <1>3, <2>2, LaysZeros
<1>5. /\ s \in Seq(PlanOp) /\ a \in Seq(PlanOp) /\ b \in Seq(PlanOp) /\ c \in Seq(PlanOp)
      /\ w \in Seq(Cell) /\ p \in Seq(Cell) /\ q \in Seq(Cell) /\ r \in Seq(Cell)
  <2>1. [zeros |-> 0] \in PlanOp
    BY DEF PlanOp
  <2>2. a \in Seq(PlanOp) /\ b \in Seq(PlanOp) /\ c \in Seq(PlanOp)
    <3>1. ASSUME NEW k \in Nat PROVE Cue!Zeros(k) \in Seq(PlanOp)
      <4>1. PICK x \in PlanOp : x = [zeros |-> k]
        BY DEF PlanOp
      <4> QED
        BY <4>1 DEF Cue!Zeros
    <3>2. Cue!Copies(f, from, n) \in Seq(PlanOp)
      <4>1. PICK x \in PlanOp : x = [file |-> f, from |-> from, frames |-> n]
        BY DEF PlanOp
      <4> QED
        BY <4>1 DEF Cue!Copies
    <3> QED
      BY <1>2, <3>1, <3>2
  <2> QED
    BY <1>3, <2>1, <2>2, RunsAreCells, LaysOne DEF Lays
<1>6. /\ ((s \o a) \o b) \o c = s \o ((a \o b) \o c)
      /\ ((w \o p) \o q) \o r = w \o ((p \o q) \o r)
  <2>1. ((s \o a) \o b) \o c = s \o ((a \o b) \o c)
    <3>1. s \in Seq(PlanOp) /\ a \in Seq(PlanOp) /\ b \in Seq(PlanOp)
      BY <1>5
    <3>2. (s \o a) \o b = s \o (a \o b)
      BY <3>1
    <3>3. PICK e \in Seq(PlanOp) : e = a \o b
      BY <3>1, ConcatProperties
    <3>4. s \in Seq(PlanOp) /\ c \in Seq(PlanOp)
      BY <1>5
    <3>5. (s \o e) \o c = s \o (e \o c)
      BY <3>4
    <3> QED
      BY <3>2, <3>3, <3>5
  <2>2. ((w \o p) \o q) \o r = w \o ((p \o q) \o r)
    <3>1. w \in Seq(Cell) /\ p \in Seq(Cell) /\ q \in Seq(Cell)
      BY <1>5
    <3>2. (w \o p) \o q = w \o (p \o q)
      BY <3>1
    <3>3. PICK e \in Seq(Cell) : e = p \o q
      BY <3>1, ConcatProperties
    <3>4. w \in Seq(Cell) /\ r \in Seq(Cell)
      BY <1>5
    <3>5. (w \o e) \o r = w \o (e \o r)
      BY <3>4
    <3> QED
      BY <3>2, <3>3, <3>5
  <2> QED
    BY <2>1, <2>2
<1>7. Cue!TrackOps(sheet, sizes, i) = (a \o b) \o c
  BY <1>1, <1>2, TrackNumbers DEF Cue!TrackOps, Start, End
<1>8. Playing(i) = (p \o q) \o r
  BY <1>1, <1>3 DEF Playing
<1>9. (a \o b) \o c \in Seq(PlanOp)
  BY <1>5, ConcatProperties
<1> QED
  BY <1>4, <1>5, <1>6, <1>7, <1>8, <1>9

(* A run of sectors of one kind of a track.                                 *)
Stretch(i, a, l, u) == {<<i, a, n>> : n \in l .. u}

LEMMA StretchCount ==
  ASSUME NEW i, NEW a, NEW l \in Int, NEW u \in Int, l <= u + 1
  PROVE  /\ IsFiniteSet(Stretch(i, a, l, u)) /\ Cardinality(Stretch(i, a, l, u)) = u - l + 1
         /\ Cardinality(Stretch(i, a, l, u)) \in Nat
<1>1. IsFiniteSet(l .. u) /\ Cardinality(l .. u) = u - l + 1
  BY FS_Interval
<1> DEFINE f == [n \in l .. u |-> <<i, a, n>>]
<1>2. f \in Bijection(l .. u, Stretch(i, a, l, u))
  <2>1. f \in [l .. u -> Stretch(i, a, l, u)]
    BY DEF Stretch
  <2>2. \A m, n \in l .. u : f[m] = f[n] => m = n
    OBVIOUS
  <2>3. \A x \in Stretch(i, a, l, u) : \E n \in l .. u : f[n] = x
    BY DEF Stretch
  <2> QED
    BY <2>1, <2>2, <2>3 DEF Bijection, Injection, Surjection, IsInjective
<1>3. ExistsBijection(l .. u, Stretch(i, a, l, u))
  BY <1>2 DEF ExistsBijection
<1> QED
  BY <1>1, <1>3, FS_Bijection, FS_CardinalityType

LEMMA Apart ==
  ASSUME NEW S, NEW T, IsFiniteSet(S), IsFiniteSet(T), S \cap T = {}
  PROVE  /\ IsFiniteSet(S \cup T) /\ Cardinality(S \cup T) = Cardinality(S) + Cardinality(T)
         /\ Cardinality(S) \in Nat /\ Cardinality(T) \in Nat
BY SMTT(30), FS_Union, FS_EmptySet, FS_CardinalityType

LEMMA ThreeStretches ==
  ASSUME NEW i, NEW p \in Nat, NEW q \in Nat, NEW l \in Int, NEW u \in Int, l <= u + 1
  PROVE  /\ IsFiniteSet(Stretch(i, 0, 1, p) \cup Stretch(i, 1, l, u) \cup Stretch(i, 2, 1, q))
         /\ Cardinality(Stretch(i, 0, 1, p) \cup Stretch(i, 1, l, u) \cup Stretch(i, 2, 1, q))
              = p + (u - l + 1) + q
<1>1. PICK A, B, C : A = Stretch(i, 0, 1, p) /\ B = Stretch(i, 1, l, u) /\ C = Stretch(i, 2, 1, q)
  OBVIOUS
<1>2. /\ IsFiniteSet(A) /\ Cardinality(A) = p /\ IsFiniteSet(B) /\ Cardinality(B) = u - l + 1
      /\ IsFiniteSet(C) /\ Cardinality(C) = q
  BY <1>1, StretchCount
<1>3. A \cap B = {} /\ (A \cup B) \cap C = {}
  BY <1>1 DEF Stretch
<1>4. IsFiniteSet(A \cup B) /\ Cardinality(A \cup B) = p + (u - l + 1)
  BY <1>2, <1>3, Apart
<1>5. IsFiniteSet((A \cup B) \cup C) /\ Cardinality((A \cup B) \cup C) = p + (u - l + 1) + q
  BY <1>2, <1>3, <1>4, Apart
<1> QED
  BY <1>1, <1>5

(* The frames of a track of an accepted sheet reach to where BuildPlan ends *)
(* it.                                                                      *)
LEMMA FramesAre ==
  ASSUME SheetTyped, Accepted, NEW i \in DOMAIN sheet
  PROVE  Cue!FramesOf(i) = First(i) .. End(i) - 1
<1>1. DOMAIN sheet = 1 .. Len(sheet) /\ Len(sheet) \in Nat /\ sheet \in Seq(Cue!Track)
  BY DEF SheetTyped
<1>2. PICK n \in Nat, f \in Nat, e \in Nat : n = sizes[sheet[i].file] /\ f = First(i) /\ e = End(i)
  BY TrackNumbers
<1>3. /\ Cue!Group(i) \in SUBSET (1 .. Len(sheet)) /\ i \in Cue!Group(i)
      /\ \A k \in Cue!Group(i) : sheet[k].file = sheet[i].file
      /\ \A k, l \in Cue!Group(i) : \A m \in k .. l : m \in Cue!Group(i)
  BY <1>1, GroupIs
<1>4. CASE i < Len(sheet) /\ sheet[i + 1].file = sheet[i].file
  <2>1. i + 1 \in Cue!Group(i) /\ i + 1 \in DOMAIN sheet /\ i + 1 > i
    BY <1>1, <1>3, <1>4, GroupIs
  <2>2. e = First(i + 1)
    BY <1>2, <1>4, TrackNumbers
  <2>3. ASSUME NEW k \in Cue!Group(i), k > i
        PROVE  First(k) \in Nat /\ e <= First(k)
    <3>1. k \in 1 .. Len(sheet) /\ k \in DOMAIN sheet
      BY <1>1, <1>3
    <3>2. CASE k = i + 1
      BY <1>2, <2>2, <3>2
    <3>3. CASE k # i + 1
      <4>1. i + 1 < k
        BY <1>1, <2>3, <3>1, <3>3
      <4>2. sheet[i + 1].index[1] <= First(k)
        BY <2>1, <4>1, AcceptedInOrder DEF Accepted, First
      <4>3. First(i + 1) <= Start(i + 1) /\ Start(i + 1) \in Nat /\ First(k) \in Nat
        BY <2>1, <3>1, TrackNumbers
      <4> QED
        BY <1>2, <2>2, <4>2, <4>3 DEF Start
    <3> QED
      BY <3>2, <3>3
  <2>4. e <= n
    <3>1. PICK m \in Cue!Group(i) : /\ m = Cue!Max(Cue!Group(i))
                                    /\ \A k \in Cue!Group(i) : k <= m
      BY <1>1, <1>3, LastExists
    <3>2. m \in DOMAIN sheet /\ m > i
      BY <1>1, <1>3, <2>1, <3>1
    <3>3. Cue!ValidSheet
      BY AcceptsTheValid DEF Accepted
    <3>4. Start(m) <= n
      BY <1>2, <3>1, <3>3 DEF Cue!ValidSheet, Start
    <3>5. e <= First(m) /\ First(m) <= Start(m) /\ First(m) \in Nat /\ Start(m) \in Nat
      BY <2>3, <3>2, TrackNumbers
    <3> QED
      BY <1>2, <3>4, <3>5
  <2>5. Cue!FramesOf(i) = {x \in f .. n - 1 : \A k \in Cue!Group(i) : k > i => x < First(k)}
    BY <1>2 DEF Cue!FramesOf, First
  <2>6. ASSUME NEW x \in f .. n - 1
        PROVE  (\A k \in Cue!Group(i) : k > i => x < First(k)) <=> x < e
    BY <1>2, <2>1, <2>2, <2>3
  <2>7. Cue!FramesOf(i) = {x \in f .. n - 1 : x < e}
    BY <2>5, <2>6
  <2>8. {x \in f .. n - 1 : x < e} = f .. e - 1
    BY <2>4
  <2> QED
    BY <1>2, <2>7, <2>8
<1>5. CASE ~ (i < Len(sheet) /\ sheet[i + 1].file = sheet[i].file)
  <2>1. ASSUME NEW k \in Cue!Group(i), k > i PROVE FALSE
    <3>1. i + 1 \in i .. k /\ i < Len(sheet)
      BY <1>1, <1>3, <2>1
    <3>2. i + 1 \in Cue!Group(i)
      BY <1>3, <3>1
    <3> QED
      BY <1>3, <1>5, <3>1, <3>2
  <2>2. Cue!FramesOf(i) = First(i) .. n - 1
    BY <1>2, <2>1 DEF Cue!FramesOf, First
  <2>3. e = n
    BY <1>2, <1>5, TrackNumbers
  <2> QED
    BY <1>2, <2>2, <2>3
<1> QED
  BY <1>4, <1>5

LEMMA SectorsAre ==
  ASSUME SheetTyped, Accepted, NEW i \in DOMAIN sheet
  PROVE  Cue!SectorsOf(i) = Stretch(i, 0, 1, sheet[i].pregap)
                              \cup Stretch(i, 1, First(i), End(i) - 1)
                              \cup Stretch(i, 2, 1, sheet[i].postgap)
BY FramesAre DEF Cue!SectorsOf, Stretch

(* What of its own track precedes a sector.                                 *)
Offset(i, x) == IF x[2] = 0 THEN x[3] - 1
                ELSE IF x[2] = 1 THEN sheet[i].pregap + (x[3] - First(i))
                ELSE sheet[i].pregap + (End(i) - First(i)) + (x[3] - 1)

LEMMA SectorCases ==
  ASSUME SheetTyped, Accepted, NEW i \in DOMAIN sheet, NEW x
  PROVE  x \in Cue!SectorsOf(i) <=>
           \/ \E n \in 1 .. sheet[i].pregap : x = <<i, 0, n>>
           \/ \E n \in First(i) .. End(i) - 1 : x = <<i, 1, n>>
           \/ \E n \in 1 .. sheet[i].postgap : x = <<i, 2, n>>
BY SectorsAre DEF Stretch

LEMMA SectorTrack ==
  ASSUME SheetTyped, Accepted, NEW i \in DOMAIN sheet, NEW x \in Cue!SectorsOf(i)
  PROVE  x[1] = i /\ x[2] \in 0 .. 2 /\ x[3] \in Int
BY SectorCases, TrackNumbers

(* Offset counts it.                                                        *)
LEMMA OffsetCounts ==
  ASSUME SheetTyped, Accepted, NEW i \in DOMAIN sheet, NEW x \in Cue!SectorsOf(i)
  PROVE  LET S == {y \in Cue!SectorsOf(i) : Cue!Precedes(y, x)} IN
         IsFiniteSet(S) /\ Cardinality(S) = Offset(i, x)
<1> DEFINE S == {y \in Cue!SectorsOf(i) : Cue!Precedes(y, x)}
<1>1. PICK p \in Nat, q \in Nat, f \in Nat, e \in Nat :
         /\ p = sheet[i].pregap /\ q = sheet[i].postgap /\ f = First(i) /\ e = End(i) /\ f <= e
  BY TrackNumbers
<1>2. \A y : y \in Cue!SectorsOf(i) <=>
           \/ \E n \in 1 .. p : y = <<i, 0, n>>
           \/ \E n \in f .. e - 1 : y = <<i, 1, n>>
           \/ \E n \in 1 .. q : y = <<i, 2, n>>
  BY <1>1, SectorCases
<1>3. \A a, b, m, n \in Int : Cue!Precedes(<<i, a, m>>, <<i, b, n>>) <=> a < b \/ (a = b /\ m < n)
  <2>1. i \in Int
    BY DEF SheetTyped
  <2> QED
    BY <2>1 DEF Cue!Precedes
<1>4. CASE \E n \in 1 .. p : x = <<i, 0, n>>
  <2>1. PICK n \in 1 .. p : x = <<i, 0, n>>
    BY <1>4
  <2>2. S = Stretch(i, 0, 1, n - 1) \cup Stretch(i, 1, f, f - 1) \cup Stretch(i, 2, 1, 0)
    <3>1. ASSUME NEW y \in S PROVE y \in Stretch(i, 0, 1, n - 1)
      <4>1. CASE \E m \in 1 .. p : y = <<i, 0, m>>
        BY <1>3, <2>1, <3>1, <4>1 DEF Stretch
      <4>2. CASE ~ \E m \in 1 .. p : y = <<i, 0, m>>
        BY <1>2, <1>3, <2>1, <3>1, <4>2
      <4> QED
        BY <4>1, <4>2
    <3>2. ASSUME NEW m \in 1 .. n - 1 PROVE <<i, 0, m>> \in S
      BY <1>2, <1>3, <2>1
    <3> QED
      BY <3>1, <3>2 DEF Stretch
  <2>3. n - 1 \in Nat /\ f - 1 \in Int /\ f <= (f - 1) + 1 /\ 0 \in Nat
    OBVIOUS
  <2>4. IsFiniteSet(S) /\ Cardinality(S) = (n - 1) + ((f - 1) - f + 1) + 0
    BY SMTT(30), <2>2, <2>3, ThreeStretches
  <2>5. Offset(i, x) = n - 1
    BY <2>1 DEF Offset
  <2> QED
    BY <2>3, <2>4, <2>5
<1>5. CASE \E n \in f .. e - 1 : x = <<i, 1, n>>
  <2>1. PICK n \in f .. e - 1 : x = <<i, 1, n>>
    BY <1>5
  <2>2. S = Stretch(i, 0, 1, p) \cup Stretch(i, 1, f, n - 1) \cup Stretch(i, 2, 1, 0)
    <3>1. ASSUME NEW y \in S
          PROVE  y \in Stretch(i, 0, 1, p) \cup Stretch(i, 1, f, n - 1)
      <4>1. CASE \E m \in 1 .. p : y = <<i, 0, m>>
        BY <4>1 DEF Stretch
      <4>2. CASE \E m \in f .. e - 1 : y = <<i, 1, m>>
        BY <1>3, <2>1, <3>1, <4>2 DEF Stretch
      <4>3. CASE \E m \in 1 .. q : y = <<i, 2, m>>
        BY <1>3, <2>1, <3>1, <4>3
      <4> QED
        BY <1>2, <3>1, <4>1, <4>2, <4>3
    <3>2. ASSUME NEW m \in 1 .. p PROVE <<i, 0, m>> \in S
      BY <1>2, <1>3, <2>1
    <3>3. ASSUME NEW m \in f .. n - 1 PROVE <<i, 1, m>> \in S
      <4>1. m \in f .. e - 1
        BY <1>1, <2>1
      <4> QED
        BY <1>2, <1>3, <2>1, <4>1
    <3> QED
      BY <3>1, <3>2, <3>3 DEF Stretch
  <2>3. n - 1 \in Int /\ f <= (n - 1) + 1 /\ 0 \in Nat /\ n \in Int
    BY <2>1
  <2>4. IsFiniteSet(S) /\ Cardinality(S) = p + ((n - 1) - f + 1) + 0
    BY SMTT(30), <2>2, <2>3, ThreeStretches
  <2>5. Offset(i, x) = p + (n - f)
    BY <1>1, <2>1 DEF Offset
  <2> QED
    BY <2>3, <2>4, <2>5
<1>6. CASE \E n \in 1 .. q : x = <<i, 2, n>>
  <2>1. PICK n \in 1 .. q : x = <<i, 2, n>>
    BY <1>6
  <2>2. S = Stretch(i, 0, 1, p) \cup Stretch(i, 1, f, e - 1) \cup Stretch(i, 2, 1, n - 1)
    <3>1. ASSUME NEW y \in S
          PROVE  y \in Stretch(i, 0, 1, p) \cup Stretch(i, 1, f, e - 1) \cup Stretch(i, 2, 1, n - 1)
      <4>1. CASE \E m \in 1 .. p : y = <<i, 0, m>>
        BY <4>1 DEF Stretch
      <4>2. CASE \E m \in f .. e - 1 : y = <<i, 1, m>>
        BY <4>2 DEF Stretch
      <4>3. CASE \E m \in 1 .. q : y = <<i, 2, m>>
        BY <1>3, <2>1, <3>1, <4>3 DEF Stretch
      <4> QED
        BY <1>2, <3>1, <4>1, <4>2, <4>3
    <3>2. ASSUME NEW m \in 1 .. p PROVE <<i, 0, m>> \in S
      BY <1>2, <1>3, <2>1
    <3>3. ASSUME NEW m \in f .. e - 1 PROVE <<i, 1, m>> \in S
      BY <1>2, <1>3, <2>1
    <3>4. ASSUME NEW m \in 1 .. n - 1 PROVE <<i, 2, m>> \in S
      BY <1>2, <1>3, <2>1
    <3> QED
      BY <3>1, <3>2, <3>3, <3>4 DEF Stretch
  <2>3. n - 1 \in Nat /\ f <= (e - 1) + 1 /\ e - 1 \in Int
    BY <1>1, <2>1
  <2>4. IsFiniteSet(S) /\ Cardinality(S) = p + ((e - 1) - f + 1) + (n - 1)
    BY SMTT(30), <2>2, <2>3, ThreeStretches
  <2>5. Offset(i, x) = p + (e - f) + (n - 1)
    BY <1>1, <2>1 DEF Offset
  <2> QED
    BY <2>3, <2>4, <2>5
<1> QED
  BY <1>2, <1>4, <1>5, <1>6

(* What a track's operations write, sector by sector.                       *)
LEMMA PlayingIs ==
  ASSUME SheetTyped, Accepted, NEW i \in DOMAIN sheet
  PROVE  /\ Playing(i) \in Seq(Cell)
         /\ Len(Playing(i)) = sheet[i].pregap + (End(i) - First(i)) + sheet[i].postgap
         /\ \A k \in 1 .. Len(Playing(i)) :
               LET gap == sheet[i].pregap + (Start(i) - First(i)) IN
               Playing(i)[k] = IF k > gap /\ k <= gap + (End(i) - Start(i))
                               THEN <<sheet[i].file, Start(i) + (k - gap) - 1>> ELSE "zero"
<1>1. PICK gap \in Nat, n \in Nat, after \in Nat, from \in Nat, f \in File :
         /\ gap = sheet[i].pregap + (Start(i) - First(i)) /\ n = End(i) - Start(i)
         /\ after = sheet[i].postgap /\ from = Start(i) /\ f = sheet[i].file
  BY TrackRuns
<1>2. PICK a, b, c : a = Silence(gap) /\ b = Frames(f, from, n) /\ c = Silence(after)
  OBVIOUS
<1>3. /\ a \in Seq(Cell) /\ Len(a) = gap /\ b \in Seq(Cell) /\ Len(b) = n
      /\ c \in Seq(Cell) /\ Len(c) = after
  BY <1>2, RunsAreCells
<1>4. /\ \A k \in 1 .. gap : a[k] = "zero"
      /\ \A k \in 1 .. n : b[k] = <<f, from + k - 1>>
      /\ \A k \in 1 .. after : c[k] = "zero"
  BY <1>2 DEF Silence, Frames
<1>5. PICK ab : ab = a \o b
  OBVIOUS
<1>6. ab \in Seq(Cell) /\ Len(ab) = gap + n
      /\ \A k \in 1 .. gap + n : ab[k] = IF k <= gap THEN a[k] ELSE b[k - gap]
  <2>1. a \in Seq(Cell) /\ Len(a) = gap /\ b \in Seq(Cell) /\ Len(b) = n
    BY <1>3
  <2>2. a \o b \in Seq(Cell) /\ Len(a \o b) = gap + n
    BY <2>1
  <2>3. \A k \in 1 .. gap + n : (a \o b)[k] = IF k <= gap THEN a[k] ELSE b[k - gap]
    BY <2>1
  <2> QED
    BY <1>5, <2>2, <2>3
<1>7. PICK v : v = ab \o c
  OBVIOUS
<1>8. v \in Seq(Cell) /\ Len(v) = gap + n + after
      /\ \A k \in 1 .. gap + n + after : v[k] = IF k <= gap + n THEN ab[k] ELSE c[k - (gap + n)]
  <2>1. PICK l \in Nat : l = gap + n
    OBVIOUS
  <2>2. ab \in Seq(Cell) /\ Len(ab) = l /\ c \in Seq(Cell) /\ Len(c) = after
    BY <1>3, <1>6, <2>1
  <2>3. ab \o c \in Seq(Cell) /\ Len(ab \o c) = l + after
    BY <2>2
  <2>4. \A k \in 1 .. l + after : (ab \o c)[k] = IF k <= l THEN ab[k] ELSE c[k - l]
    BY <2>2
  <2> QED
    BY <1>7, <2>1, <2>3, <2>4
<1>9. ASSUME NEW k \in 1 .. gap + n + after
      PROVE  v[k] = IF k > gap /\ k <= gap + n THEN <<f, from + (k - gap) - 1>> ELSE "zero"
  <2>1. CASE k <= gap
    <3>1. k \in 1 .. gap /\ k \in 1 .. gap + n
      BY <2>1
    <3> QED
      BY <1>4, <1>6, <1>8, <2>1, <3>1
  <2>2. CASE k > gap /\ k <= gap + n
    <3>1. k - gap \in 1 .. n /\ k \in 1 .. gap + n
      BY <2>2
    <3>2. v[k] = b[k - gap]
      BY <1>6, <1>8, <2>2, <3>1
    <3>3. b[k - gap] = <<f, from + (k - gap) - 1>>
      BY <1>4, <3>1
    <3> QED
      BY <2>2, <3>2, <3>3
  <2>3. CASE k > gap + n
    <3>1. k - (gap + n) \in 1 .. after
      BY <2>3
    <3> QED
      BY <1>4, <1>8, <2>3, <3>1
  <2> QED
    BY <2>1, <2>2, <2>3
<1>10. Playing(i) = v
  BY <1>1, <1>2, <1>5, <1>7 DEF Playing
<1>11. Len(v) = sheet[i].pregap + (End(i) - First(i)) + sheet[i].postgap
  <2>1. PICK p \in Nat, g \in Nat, e \in Nat : p = sheet[i].pregap /\ g = First(i) /\ e = End(i)
    BY TrackNumbers
  <2>2. gap = p + (from - g) /\ n = e - from
    BY <1>1, <2>1
  <2>3. gap + n + after = p + (e - g) + after
    BY <2>2
  <2> QED
    BY <1>1, <1>8, <2>1, <2>3
<1> QED
  BY <1>1, <1>8, <1>9, <1>10, <1>11

(* A track's operations write each of its sectors at its offset.            *)
LEMMA PlaysSector ==
  ASSUME SheetTyped, Accepted, NEW i \in DOMAIN sheet, NEW x \in Cue!SectorsOf(i)
  PROVE  /\ Offset(i, x) \in Nat /\ Offset(i, x) < Len(Playing(i))
         /\ Playing(i)[Offset(i, x) + 1] = Cue!SectorAt(x)
<1>1. PICK p \in Nat, q \in Nat, f \in Nat, m \in Nat, e \in Nat :
         /\ p = sheet[i].pregap /\ q = sheet[i].postgap /\ f = First(i) /\ m = Start(i)
         /\ e = End(i) /\ f <= m /\ m <= e
  BY TrackNumbers
<1>2. Len(Playing(i)) = p + (e - f) + q
      /\ \A k \in 1 .. p + (e - f) + q :
            Playing(i)[k] = IF k > p + (m - f) /\ k <= p + (m - f) + (e - m)
                            THEN <<sheet[i].file, m + (k - (p + (m - f))) - 1>> ELSE "zero"
  BY <1>1, PlayingIs
<1>3. Cue!SectorAt(x) = IF x[2] = 1 /\ x[3] >= sheet[x[1]].index[1]
                        THEN <<sheet[x[1]].file, x[3]>> ELSE "zero"
  BY DEF Cue!SectorAt
<1>4. CASE \E n \in 1 .. p : x = <<i, 0, n>>
  <2>1. PICK n \in 1 .. p : x = <<i, 0, n>>
    BY <1>4
  <2>2. Offset(i, x) = n - 1 /\ Cue!SectorAt(x) = "zero"
    BY <1>3, <2>1 DEF Offset
  <2>3. n \in 1 .. p + (e - f) + q /\ ~ (n > p + (m - f)) /\ n - 1 + 1 = n
    BY <1>1, <2>1
  <2>4. Playing(i)[n] = "zero"
    BY <1>2, <2>3
  <2>5. n - 1 \in Nat /\ n - 1 < p + (e - f) + q
    BY <1>1, <2>1
  <2> QED
    BY <1>2, <2>2, <2>3, <2>4, <2>5
<1>5. CASE \E n \in f .. e - 1 : x = <<i, 1, n>>
  <2>1. PICK n \in f .. e - 1 : x = <<i, 1, n>>
    BY <1>5
  <2>2. Offset(i, x) = p + (n - f)
    BY <1>1, <2>1 DEF Offset
  <2>3. Cue!SectorAt(x) = IF n >= m THEN <<sheet[i].file, n>> ELSE "zero"
    BY <1>1, <1>3, <2>1 DEF Start
  <2>4. PICK k \in 1 .. p + (e - f) + q : k = p + (n - f) + 1
    BY <1>1, <2>1
  <2>5. k > p + (m - f) <=> n >= m
    BY <1>1, <2>1, <2>4
  <2>6. k <= p + (m - f) + (e - m) /\ m + (k - (p + (m - f))) - 1 = n
    BY <1>1, <2>1, <2>4
  <2>7. Playing(i)[k] = IF n >= m THEN <<sheet[i].file, n>> ELSE "zero"
    <3>1. k > p + (m - f) /\ k <= p + (m - f) + (e - m) <=> n >= m
      BY <2>5, <2>6
    <3>2. Playing(i)[k] = IF n >= m THEN <<sheet[i].file, m + (k - (p + (m - f))) - 1>> ELSE "zero"
      BY <1>2, <2>4, <3>1
    <3> QED
      BY <2>6, <3>2
  <2>8. k - 1 \in Nat /\ k - 1 < p + (e - f) + q /\ Offset(i, x) = k - 1 /\ k - 1 + 1 = k
    BY <1>1, <2>1, <2>2, <2>4
  <2> QED
    BY <1>2, <2>3, <2>7, <2>8
<1>6. CASE \E n \in 1 .. q : x = <<i, 2, n>>
  <2>1. PICK n \in 1 .. q : x = <<i, 2, n>>
    BY <1>6
  <2>2. Offset(i, x) = p + (e - f) + (n - 1) /\ Cue!SectorAt(x) = "zero"
    BY <1>1, <1>3, <2>1 DEF Offset
  <2>3. PICK k \in 1 .. p + (e - f) + q : k = p + (e - f) + (n - 1) + 1
    BY <1>1, <2>1
  <2>4. ~ (k <= p + (m - f) + (e - m))
    BY <1>1, <2>1, <2>3
  <2>5. Playing(i)[k] = "zero"
    BY <1>2, <2>3, <2>4
  <2>6. k - 1 \in Nat /\ k - 1 < p + (e - f) + q /\ Offset(i, x) = k - 1 /\ k - 1 + 1 = k
    BY <1>1, <2>1, <2>2, <2>3
  <2> QED
    BY <1>2, <2>2, <2>5, <2>6
<1> QED
  BY <1>1, <1>4, <1>5, <1>6, SectorCases

LEMMA TrackCounts ==
  ASSUME SheetTyped, Accepted, NEW i \in DOMAIN sheet
  PROVE  /\ IsFiniteSet(Cue!SectorsOf(i)) /\ Cardinality(Cue!SectorsOf(i)) = Len(Playing(i))
         /\ Len(Playing(i)) \in Nat
<1>1. PICK p \in Nat, q \in Nat, f \in Nat, e \in Nat :
         /\ p = sheet[i].pregap /\ q = sheet[i].postgap /\ f = First(i) /\ e = End(i) /\ f <= e
  BY TrackNumbers
<1>2. PICK u \in Int : u = e - 1 /\ f <= u + 1
  BY <1>1
<1>3. Cue!SectorsOf(i) = Stretch(i, 0, 1, p) \cup Stretch(i, 1, f, u) \cup Stretch(i, 2, 1, q)
  <2>1. First(i) = f /\ End(i) - 1 = u
    BY <1>1, <1>2
  <2>2. Cue!SectorsOf(i) = Stretch(i, 0, 1, sheet[i].pregap)
                             \cup Stretch(i, 1, First(i), End(i) - 1)
                             \cup Stretch(i, 2, 1, sheet[i].postgap)
    BY SectorsAre, Zenon
  <2> QED
    BY SMTT(30), <1>1, <2>1, <2>2
<1>4. IsFiniteSet(Cue!SectorsOf(i)) /\ Cardinality(Cue!SectorsOf(i)) = p + (u - f + 1) + q
  <2>1. PICK A, B, C : A = Stretch(i, 0, 1, p) /\ B = Stretch(i, 1, f, u) /\ C = Stretch(i, 2, 1, q)
    OBVIOUS
  <2>2. /\ IsFiniteSet(A \cup B \cup C)
        /\ Cardinality(A \cup B \cup C) = p + (u - f + 1) + q
    BY SMTT(30), <1>2, <2>1, ThreeStretches
  <2> QED
    BY <1>3, <2>1, <2>2
<1>5. Len(Playing(i)) = p + (e - f) + q
  BY <1>1, PlayingIs
<1> QED
  BY <1>1, <1>2, <1>4, <1>5

(* The sectors of the first i tracks.                                       *)
SectorsTo(i) == UNION {Cue!SectorsOf(k) : k \in 1 .. i}

LEMMA SectorsToIs ==
  ASSUME SheetTyped, Accepted
  PROVE  /\ SectorsTo(0) = {} /\ SectorsTo(Len(sheet)) = Cue!Sectors
         /\ \A i \in DOMAIN sheet : /\ SectorsTo(i) = SectorsTo(i - 1) \cup Cue!SectorsOf(i)
                                    /\ SectorsTo(i - 1) \cap Cue!SectorsOf(i) = {}
<1>1. DOMAIN sheet = 1 .. Len(sheet) /\ Len(sheet) \in Nat
  BY DEF SheetTyped
<1>2. SectorsTo(0) = {}
  BY DEF SectorsTo
<1>3. SectorsTo(Len(sheet)) = Cue!Sectors
  BY <1>1, Zenon DEF SectorsTo, Cue!Sectors
<1>4. ASSUME NEW i \in DOMAIN sheet
      PROVE  SectorsTo(i) = SectorsTo(i - 1) \cup Cue!SectorsOf(i)
  <2>1. 1 .. i = (1 .. i - 1) \cup {i}
    BY <1>1
  <2> QED
    BY <2>1, Zenon DEF SectorsTo
<1>5. ASSUME NEW i \in DOMAIN sheet, NEW y \in SectorsTo(i - 1), y \in Cue!SectorsOf(i)
      PROVE  FALSE
  <2>1. PICK k \in 1 .. i - 1 : y \in Cue!SectorsOf(k)
    BY DEF SectorsTo
  <2>2. k \in DOMAIN sheet /\ k # i
    BY <1>1
  <2> QED
    BY <1>5, <2>1, <2>2, SectorTrack
<1> QED
  BY <1>2, <1>3, <1>4, <1>5

LEMMA CueCounts == \A S : Cue!Cardinality(S) = Cardinality(S)
BY DEF Cue!Cardinality, Cardinality, Cue!IsFiniteSet, IsFiniteSet

(* What precedes a sector: the tracks before its own, and its own track's   *)
(* part before it.                                                          *)
LEMMA PlaceIs ==
  ASSUME SheetTyped, Accepted, NEW i \in DOMAIN sheet, NEW x \in Cue!SectorsOf(i),
         IsFiniteSet(SectorsTo(i - 1))
  PROVE  Cue!PlaceOf(x) = Cardinality(SectorsTo(i - 1)) + Offset(i, x) + 1
<1> DEFINE A == SectorsTo(i - 1)
           B == {y \in Cue!SectorsOf(i) : Cue!Precedes(y, x)}
<1>1. DOMAIN sheet = 1 .. Len(sheet) /\ Len(sheet) \in Nat
  BY DEF SheetTyped
<1>2. ASSUME NEW k \in DOMAIN sheet, NEW y \in Cue!SectorsOf(k)
      PROVE  /\ k < i => Cue!Precedes(y, x)
             /\ Cue!Precedes(y, x) => k <= i
  <2>1. y[1] = k /\ x[1] = i
    BY <1>2, SectorTrack
  <2> QED
    BY <1>1, <2>1 DEF Cue!Precedes
<1>3. {y \in Cue!Sectors : Cue!Precedes(y, x)} = A \cup B
  <2>1. ASSUME NEW y \in Cue!Sectors, Cue!Precedes(y, x) PROVE y \in A \cup B
    <3>1. PICK k \in DOMAIN sheet : y \in Cue!SectorsOf(k)
      BY DEF Cue!Sectors
    <3>2. k <= i
      BY <1>2, <2>1, <3>1
    <3>3. CASE k = i
      BY <2>1, <3>1, <3>3
    <3>4. CASE k # i
      <4>1. k \in 1 .. i - 1
        BY <1>1, <3>2, <3>4
      <4> QED
        BY <3>1, <4>1 DEF SectorsTo
    <3> QED
      BY <3>3, <3>4
  <2>2. ASSUME NEW y \in A PROVE y \in Cue!Sectors /\ Cue!Precedes(y, x)
    <3>1. PICK k \in 1 .. i - 1 : y \in Cue!SectorsOf(k)
      BY DEF SectorsTo
    <3>2. k \in DOMAIN sheet /\ k < i
      BY <1>1
    <3> QED
      BY <1>2, <3>1, <3>2 DEF Cue!Sectors
  <2>3. ASSUME NEW y \in B PROVE y \in Cue!Sectors /\ Cue!Precedes(y, x)
    BY DEF Cue!Sectors
  <2> QED
    BY <2>1, <2>2, <2>3
<1>4. IsFiniteSet(B) /\ Cardinality(B) = Offset(i, x)
  BY OffsetCounts
<1>5. A \cap B = {}
  BY SectorsToIs
<1> HIDE DEF A, B
<1>6. Cardinality(A \cup B) = Cardinality(A) + Cardinality(B)
  <2>1. IsFiniteSet(A)
    BY DEF A
  <2> QED
    BY <1>4, <1>5, <2>1, Apart
<1>7. Cue!PlaceOf(x) = Cardinality(A \cup B) + 1
  BY <1>3, CueCounts DEF Cue!PlaceOf
<1> QED
  BY <1>4, <1>6, <1>7 DEF A

(* The operations s write w: the first i tracks, every sector in its place. *)
Fits(i, s, w) ==
    /\ Lays(s, w) /\ w \in Seq(Cell)
    /\ IsFiniteSet(SectorsTo(i)) /\ Len(w) = Cardinality(SectorsTo(i))
    /\ \A k \in 1 .. i : \A x \in Cue!SectorsOf(k) :
          Cue!PlaceOf(x) \in 1 .. Len(w) /\ w[Cue!PlaceOf(x)] = Cue!SectorAt(x)

LEMMA FitsNone == ASSUME SheetTyped, Accepted PROVE Fits(0, <<>>, <<>>)
<1>1. IsFiniteSet({}) /\ Cardinality({}) = 0 /\ <<>> \in Seq(Cell) /\ Len(<<>>) = 0
  BY FS_EmptySet
<1>2. \A k \in 1 .. 0 : FALSE
  OBVIOUS
<1>3. SectorsTo(0) = {}
  BY SectorsToIs
<1> QED
  BY <1>1, <1>2, <1>3, LaysNothing, Zenon DEF Fits

LEMMA FitsNext ==
  ASSUME SheetTyped, Accepted, NEW i \in DOMAIN sheet, NEW s, NEW w, Fits(i - 1, s, w)
  PROVE  Fits(i, s \o Cue!TrackOps(sheet, sizes, i), w \o Playing(i))
<1>1. i \in Nat /\ i - 1 \in Nat
  BY DEF SheetTyped
<1>2. PICK p \in Seq(Cell) : p = Playing(i)
  BY PlayingIs
<1>3. PICK r : r = w \o p
  OBVIOUS
<1>4. w \in Seq(Cell) /\ Lays(s, w) /\ Lays(s \o Cue!TrackOps(sheet, sizes, i), r)
  BY <1>2, <1>3, LaysTrack DEF Fits
<1>5. /\ r \in Seq(Cell) /\ Len(r) = Len(w) + Len(p)
      /\ \A n \in 1 .. Len(r) : r[n] = IF n <= Len(w) THEN w[n] ELSE p[n - Len(w)]
  BY <1>3, <1>4, ConcatProperties
<1>6. PICK A, B : A = SectorsTo(i - 1) /\ B = Cue!SectorsOf(i)
  OBVIOUS
<1>7. IsFiniteSet(A) /\ Len(w) = Cardinality(A) /\ IsFiniteSet(B) /\ Cardinality(B) = Len(p)
  BY <1>2, <1>6, TrackCounts DEF Fits
<1>8. SectorsTo(i) = A \cup B /\ A \cap B = {}
  BY <1>6, SectorsToIs
<1>9. IsFiniteSet(A \cup B) /\ Cardinality(A \cup B) = Cardinality(A) + Cardinality(B)
  BY <1>7, <1>8, Apart
<1>10. ASSUME NEW k \in 1 .. i, NEW x \in Cue!SectorsOf(k)
       PROVE  Cue!PlaceOf(x) \in 1 .. Len(r) /\ r[Cue!PlaceOf(x)] = Cue!SectorAt(x)
  <2>1. CASE k = i
    <3>1. PICK o \in Nat : o = Offset(i, x) /\ o < Len(p) /\ p[o + 1] = Cue!SectorAt(x)
      BY <1>2, <2>1, PlaysSector
    <3>2. Cue!PlaceOf(x) = Len(w) + o + 1
      BY <1>6, <1>7, <2>1, <3>1, PlaceIs
    <3>3. PICK n \in Nat, m \in Nat : n = Len(w) /\ m = Len(p)
      BY <1>2, <1>4
    <3>4. n + o + 1 \in 1 .. Len(r) /\ ~ (n + o + 1 <= n) /\ (n + o + 1) - n = o + 1
      BY <1>5, <3>1, <3>3
    <3>5. r[n + o + 1] = p[o + 1]
      BY <1>5, <3>3, <3>4
    <3> QED
      BY <3>1, <3>2, <3>3, <3>4, <3>5
  <2>2. CASE k # i
    <3>1. k \in 1 .. i - 1
      BY <1>1, <2>2
    <3>2. Cue!PlaceOf(x) \in 1 .. Len(w) /\ w[Cue!PlaceOf(x)] = Cue!SectorAt(x)
      BY <3>1 DEF Fits
    <3>3. PICK z \in 1 .. Len(w) : z = Cue!PlaceOf(x)
      BY <3>2
    <3>4. Len(w) \in Nat /\ Len(p) \in Nat
      BY <1>2, <1>4
    <3>5. z \in 1 .. Len(r) /\ z <= Len(w)
      BY <1>5, <3>4
    <3>6. r[z] = w[z]
      BY <1>5, <3>5
    <3> QED
      BY <3>2, <3>3, <3>5, <3>6
  <2> QED
    BY <2>1, <2>2
<1>11. IsFiniteSet(SectorsTo(i)) /\ Len(r) = Cardinality(SectorsTo(i))
  BY <1>5, <1>7, <1>8, <1>9
<1>12. Fits(i, s \o Cue!TrackOps(sheet, sizes, i), r)
  BY <1>4, <1>5, <1>10, <1>11 DEF Fits
<1> QED
  BY <1>2, <1>3, <1>12

(* FlattenSeq: f[i] is what the first i tracks compile to.                  *)
Flat(t, f) == f = [i \in 1 .. Len(t) |-> IF i = 1 THEN t[i] ELSE f[i - 1] \o t[i]]

Joined(t, n, f) == /\ DOMAIN f = 1 .. n
                   /\ \A i \in 1 .. n : f[i] = IF i = 1 THEN t[i] ELSE f[i - 1] \o t[i]

LEMMA JoinedExists ==
  ASSUME NEW t, NEW n \in Nat
  PROVE  \E f : Joined(t, n, f)
<1> DEFINE T == {m \in Nat : ~ \E f : Joined(t, m, f)}
<1>1. SUFFICES ASSUME T # {} PROVE FALSE
  OBVIOUS
<1>2. T \in SUBSET Nat
  OBVIOUS
<1>3. PICK m \in T : \A k \in T : m <= k
  BY <1>1, <1>2, LeastExists
<1>4. m \in Nat /\ ~ \E f : Joined(t, m, f)
  OBVIOUS
<1>5. CASE m = 0
  <2>1. Joined(t, 0, [i \in 1 .. 0 |-> t])
    BY DEF Joined
  <2> QED
    BY <1>4, <1>5, <2>1
<1>6. CASE m # 0
  <2>1. m - 1 \in Nat /\ ~ (m - 1 \in T)
    BY <1>3, <1>4, <1>6
  <2>2. PICK f : Joined(t, m - 1, f)
    BY <2>1
  <2>3. PICK top : top = IF m = 1 THEN t[m] ELSE f[m - 1] \o t[m]
    OBVIOUS
  <2> DEFINE h == [i \in 1 .. m |-> IF i = m THEN top ELSE f[i]]
  <2>4. DOMAIN h = 1 .. m /\ h[m] = top /\ \A i \in 1 .. m - 1 : h[i] = f[i]
    BY <1>4, <1>6
  <2> HIDE DEF h
  <2>5. ASSUME NEW i \in 1 .. m
        PROVE  h[i] = IF i = 1 THEN t[i] ELSE h[i - 1] \o t[i]
    <3>1. CASE i = m /\ m = 1
      BY <2>3, <2>4, <3>1
    <3>2. CASE i = m /\ m # 1
      <4>1. m - 1 \in 1 .. m - 1
        BY <1>4, <1>6, <3>2
      <4>2. h[m - 1] = f[m - 1]
        BY <2>4, <4>1
      <4> QED
        BY <2>3, <2>4, <3>2, <4>2, Zenon
    <3>3. CASE i # m
      <4>1. i \in 1 .. m - 1 /\ (i # 1 => i - 1 \in 1 .. m - 1)
        BY <1>4, <3>3
      <4>2. f[i] = IF i = 1 THEN t[i] ELSE f[i - 1] \o t[i]
        BY <2>2, <4>1, Zenon DEF Joined
      <4>3. h[i] = f[i] /\ (i # 1 => h[i - 1] = f[i - 1])
        BY <2>4, <4>1
      <4> QED
        BY <4>2, <4>3
    <3> QED
      BY <3>1, <3>2, <3>3
  <2>6. Joined(t, m, h)
    BY <2>4, <2>5, Zenon DEF Joined
  <2> QED
    BY <1>4, <2>6
<1> QED
  BY <1>5, <1>6

LEMMA FlattenIs ==
  ASSUME NEW t, Len(t) \in Nat \ {0}
  PROVE  \E f : Joined(t, Len(t), f) /\ Cue!FlattenSeq(t) = f[Len(t)]
<1>1. PICK n \in Nat \ {0} : n = Len(t)
  OBVIOUS
<1>2. PICK f : Joined(t, n, f)
  BY JoinedExists
<1>3. PICK h : h = [i \in 1 .. n |-> IF i = 1 THEN t[i] ELSE f[i - 1] \o t[i]]
  OBVIOUS
<1>4. Flat(t, h)
  <2>1. DOMAIN h = 1 .. n /\ \A i \in 1 .. n : h[i] = f[i]
    BY <1>2, <1>3, Zenon DEF Joined
  <2>2. \A i \in 1 .. n : i # 1 => i - 1 \in 1 .. n
    OBVIOUS
  <2>3. \A i \in 1 .. n : (IF i = 1 THEN t[i] ELSE f[i - 1] \o t[i])
                           = (IF i = 1 THEN t[i] ELSE h[i - 1] \o t[i])
    BY <2>1, <2>2
  <2> QED
    BY <1>1, <1>3, <2>3 DEF Flat
<1>5. Flat(t, CHOOSE g : Flat(t, g))
  BY <1>4, Zenon
<1>6. PICK g : g = (CHOOSE z : Flat(t, z))
  OBVIOUS
<1>7. g = [i \in 1 .. n |-> IF i = 1 THEN t[i] ELSE g[i - 1] \o t[i]]
  <2>1. Flat(t, g)
    BY <1>5, <1>6, Zenon
  <2> QED
    BY <1>1, <2>1, Zenon DEF Flat
<1>8. Joined(t, n, g)
  BY <1>7, Zenon DEF Joined
<1>9. Cue!FlattenSeq(t) = g[n]
  BY <1>1, <1>6, Zenon DEF Cue!FlattenSeq, Flat
<1> QED
  BY <1>1, <1>8, <1>9

(* Plan.TotalBytes: what is announced is what the operations write.         *)
Sums(s, u) == u = [n \in 0 .. Len(s) |->
                     IF n = 0 THEN 0 ELSE u[n - 1] + Cue!OpFrames(s[n])]

LEMMA TotalIs ==
  ASSUME NEW s, NEW w, Lays(s, w)
  PROVE  Cue!TotalFrames(s) = Len(w)
<1>1. PICK l \in Nat : l = Len(s)
  BY DEF Lays
<1>2. PICK g : Laid(s, g) /\ w = g[l]
  BY <1>1 DEF Lays
<1>3. PICK v : v = [n \in 0 .. l |-> Len(g[n])]
  OBVIOUS
<1>4. /\ \A n \in 0 .. l : g[n] \in Seq(Cell) /\ v[n] = Len(g[n]) /\ v[n] \in Nat
      /\ v[0] = 0
  <2>1. g \in [0 .. l -> Seq(Cell)] /\ g[0] = <<>>
    BY <1>1, <1>2 DEF Laid
  <2>2. 0 \in 0 .. l /\ Len(<<>>) = 0
    OBVIOUS
  <2>3. \A n \in 0 .. l : g[n] \in Seq(Cell)
    BY <2>1
  <2>4. v[0] = 0
    BY <1>3, <2>1, <2>2
  <2> QED
    BY <1>3, <2>3, <2>4
<1>5. ASSUME NEW n \in 1 .. l PROVE v[n] = v[n - 1] + Cue!OpFrames(s[n])
  <2>1. s[n] \in PlanOp
    BY <1>1 DEF Lays
  <2>2. n \in 0 .. l /\ n - 1 \in 0 .. l
    OBVIOUS
  <2>3. g[n] = g[n - 1] \o Puts(s[n])
    BY <1>1, <1>2 DEF Laid
  <2>4. Puts(s[n]) \in Seq(Cell) /\ Len(Puts(s[n])) = Cue!OpFrames(s[n])
    BY <2>1, PutsCells
  <2>5. Len(g[n]) = Len(g[n - 1]) + Cue!OpFrames(s[n])
    <3>1. PICK a \in Seq(Cell), b \in Seq(Cell) : a = g[n - 1] /\ b = Puts(s[n])
      BY <1>4, <2>2, <2>4
    <3>2. Len(a \o b) = Len(a) + Len(b)
      BY ConcatProperties
    <3> QED
      BY <2>3, <2>4, <3>1, <3>2
  <2> QED
    BY <1>4, <2>2, <2>5
<1>6. Sums(s, v)
  <2>1. ASSUME NEW n \in 0 .. l
        PROVE  Len(g[n]) = IF n = 0 THEN 0 ELSE v[n - 1] + Cue!OpFrames(s[n])
    <3>1. n = 0 \/ n \in 1 .. l
      OBVIOUS
    <3> QED
      BY <1>4, <1>5, <3>1
  <2> QED
    BY <1>1, <1>3, <2>1 DEF Sums
<1>7. PICK u : u = (CHOOSE z : Sums(s, z))
  OBVIOUS
<1>8. Sums(s, u)
  BY <1>6, <1>7, Zenon
<1>9. \A n \in 0 .. l : u[n] = IF n = 0 THEN 0 ELSE u[n - 1] + Cue!OpFrames(s[n])
  BY <1>1, <1>8, Zenon DEF Sums
<1> DEFINE T == {n \in 0 .. l : u[n] # v[n]}
<1>10. T = {}
  <2>1. SUFFICES ASSUME T # {} PROVE FALSE
    OBVIOUS
  <2>2. T \in SUBSET Nat
    OBVIOUS
  <2>3. PICK n \in T : \A k \in T : n <= k
    BY <2>1, <2>2, LeastExists
  <2>4. n \in 0 .. l /\ u[n] # v[n]
    OBVIOUS
  <2>5. CASE n = 0
    BY <1>4, <1>9, <2>4, <2>5
  <2>6. CASE n # 0
    <3>1. n \in 1 .. l /\ n - 1 \in 0 .. l /\ ~ (n <= n - 1)
      BY <2>4, <2>6
    <3>2. u[n - 1] = v[n - 1]
      BY <2>3, <3>1
    <3> QED
      BY <1>5, <1>9, <2>4, <2>6, <3>1, <3>2
  <2> QED
    BY <2>5, <2>6
<1>11. Cue!TotalFrames(s) = u[l]
  BY <1>1, <1>7, Zenon DEF Cue!TotalFrames, Sums
<1>12. l \in 0 .. l
  OBVIOUS
<1> QED
  BY <1>2, <1>4, <1>10, <1>11, <1>12

(* The plan of an accepted sheet writes the sheet's image.                  *)
PlanPlays == \E w : /\ Lays(Cue!PlanOps(sheet, sizes), w) /\ Cue!IsImage(w)
                    /\ Cue!TotalFrames(Cue!PlanOps(sheet, sizes)) = Cardinality(Cue!Sectors)

LEMMA PlanIsImage == SheetTyped /\ Accepted /\ sheet # <<>> => PlanPlays
<1> SUFFICES ASSUME SheetTyped, Accepted, sheet # <<>> PROVE PlanPlays
  OBVIOUS
<1>1. PICK l \in Nat \ {0} : l = Len(sheet) /\ DOMAIN sheet = 1 .. l
  BY DEF SheetTyped
<1>2. PICK t : t = [i \in 1 .. l |-> Cue!TrackOps(sheet, sizes, i)]
  OBVIOUS
<1>3. Cue!PlanOps(sheet, sizes) = Cue!FlattenSeq(t)
  BY <1>1, <1>2, Zenon DEF Cue!PlanOps
<1>4. Len(t) = l /\ \A i \in 1 .. l : t[i] = Cue!TrackOps(sheet, sizes, i)
  BY <1>2
<1>5. PICK f : Joined(t, l, f) /\ Cue!FlattenSeq(t) = f[l]
  BY <1>4, FlattenIs
<1> DEFINE T == {i \in 1 .. l : ~ \E w : Fits(i, f[i], w)}
<1>6. T = {}
  <2>1. SUFFICES ASSUME T # {} PROVE FALSE
    OBVIOUS
  <2>2. T \in SUBSET Nat
    OBVIOUS
  <2>3. PICK i \in T : \A k \in T : i <= k
    BY <2>1, <2>2, LeastExists
  <2>4. i \in 1 .. l /\ i \in DOMAIN sheet /\ ~ \E w : Fits(i, f[i], w)
    BY <1>1
  <2>5. f[i] = IF i = 1 THEN t[i] ELSE f[i - 1] \o t[i]
    BY <1>5, <2>4, Zenon DEF Joined
  <2>6. CASE i = 1
    <3>1. Fits(1 - 1, <<>>, <<>>)
      BY FitsNone
    <3>2. Fits(i, <<>> \o Cue!TrackOps(sheet, sizes, i), <<>> \o Playing(i))
      BY <2>4, <2>6, <3>1, FitsNext
    <3>3. Cue!TrackOps(sheet, sizes, i) \in Seq(PlanOp)
      BY <2>4, LaysNothing, LaysTrack
    <3>4. <<>> \o Cue!TrackOps(sheet, sizes, i) = f[i]
      BY <1>4, <2>4, <2>5, <2>6, <3>3, ConcatEmptySeq
    <3> QED
      BY <2>4, <3>2, <3>4
  <2>7. CASE i # 1
    <3>1. i - 1 \in 1 .. l /\ ~ (i <= i - 1)
      BY <2>4, <2>7
    <3>2. PICK w : Fits(i - 1, f[i - 1], w)
      BY <2>3, <3>1
    <3>3. Fits(i, f[i - 1] \o Cue!TrackOps(sheet, sizes, i), w \o Playing(i))
      BY <2>4, <3>2, FitsNext
    <3>4. f[i] = f[i - 1] \o Cue!TrackOps(sheet, sizes, i)
      BY <1>4, <2>4, <2>5, <2>7
    <3> QED
      BY <2>4, <3>3, <3>4
  <2> QED
    BY <2>6, <2>7
<1>7. PICK w : Fits(l, f[l], w)
  BY <1>6
<1>8. SectorsTo(l) = Cue!Sectors
  BY <1>1, SectorsToIs
<1>9. Len(w) = Cardinality(Cue!Sectors) /\ Lays(Cue!PlanOps(sheet, sizes), w)
  BY <1>3, <1>5, <1>7, <1>8 DEF Fits
<1>10. Cue!IsImage(w)
  <2>1. ASSUME NEW x \in Cue!Sectors PROVE w[Cue!PlaceOf(x)] = Cue!SectorAt(x)
    <3>1. PICK k \in 1 .. l : x \in Cue!SectorsOf(k)
      BY <1>1 DEF Cue!Sectors
    <3> QED
      BY <1>7, <3>1 DEF Fits
  <2> QED
    BY <1>9, <2>1, CueCounts, Zenon DEF Cue!IsImage
<1>11. Cue!TotalFrames(Cue!PlanOps(sheet, sizes)) = Len(w)
  BY <1>9, TotalIs
<1> QED
  BY <1>9, <1>10, <1>11 DEF PlanPlays

(* The image depends on the sheet and the sizes of the plan alone.          *)
LEMMA SameImage ==
  ASSUME UNCHANGED <<sheet, sizes>>
  PROVE  /\ Cue!Sectors' = Cue!Sectors
         /\ \A v : Cue!IsImage(v)' <=> Cue!IsImage(v)
<1>1. \A t : Cue!FirstMark(t)' = Cue!FirstMark(t)
  BY DEF Cue!FirstMark
<1>2. \A i : Cue!Group(i)' = Cue!Group(i)
  BY DEF Cue!Group
<1>3. \A i : Cue!FramesOf(i)' = Cue!FramesOf(i)
  BY <1>2 DEF Cue!FramesOf
<1>4. \A i : Cue!SectorsOf(i)' = Cue!SectorsOf(i)
  BY <1>3 DEF Cue!SectorsOf
<1>5. Cue!Sectors' = Cue!Sectors
  BY <1>4 DEF Cue!Sectors
<1>6. \A x : Cue!PlaceOf(x)' = Cue!PlaceOf(x) /\ Cue!SectorAt(x)' = Cue!SectorAt(x)
  BY <1>5 DEF Cue!PlaceOf, Cue!SectorAt
<1>7. \A v : Cue!IsImage(v)' <=> Cue!IsImage(v)
  BY <1>5, <1>6 DEF Cue!IsImage
<1> QED
  BY <1>5, <1>7

(* What the operations still to come will make of what is written.          *)
WritesImage ==
    \E P, g, m : /\ P \in Seq(PlanOp) /\ Laid(P, g) /\ m \in 0 .. Len(P)
                 /\ out = g[m] /\ plan = SubSeq(P, m + 1, Len(P))
                 /\ Cue!IsImage(g[Len(P)])

PlayInv ==
    /\ cueAt \in {"parse", "stat"} => out = <<>>
    /\ cueAt = "stat" => sheet # <<>>
    /\ cueAt = "write" => WritesImage
    /\ cueAt = "done" => Cue!IsImage(out)
    /\ cueAt \in {"write", "done"} => total = Cardinality(Cue!Sectors)

LEMMA InitPlay == Cue!Init => PlayInv
BY DEF Cue!Init, PlayInv

LEMMA ParsePlay ==
  ASSUME PlayInv, cueAt = "parse", UNCHANGED Cue!rest,
         cueAt' \in {"parse", "bad sheet"} \/ (cueAt' = "stat" /\ sheet' # <<>>)
  PROVE  PlayInv'
BY DEF PlayInv, Cue!rest

LEMMA BuildPlay ==
  ASSUME CueInv, CueInv', PlayInv, Cue!BuildPlan,
         (SheetTyped /\ Accepted /\ sheet # <<>> => PlanPlays)'
  PROVE  PlayInv'
<1>1. out = <<>> /\ sheet # <<>> /\ sheet' = sheet /\ out' = out
  BY DEF Cue!BuildPlan, PlayInv
<1>2. CASE cueAt' = "refused"
  BY <1>2 DEF PlayInv
<1>3. CASE cueAt' = "write"
  <2>1. SheetTyped' /\ Accepted'
    BY <1>3 DEF CueInv, Accepted
  <2>2. PlanPlays'
    BY <1>1, <2>1
  <2>3. plan' = Cue!PlanOps(sheet', sizes') /\ total' = Cue!TotalFrames(plan')
    BY <1>3 DEF Cue!BuildPlan
  <2>4. PICK P : P = plan'
    OBVIOUS
  <2>5. PICK w : Lays(P, w) /\ Cue!IsImage(w)' /\ Cue!TotalFrames(P) = Cardinality(Cue!Sectors')
    BY <2>2, <2>3, <2>4 DEF PlanPlays
  <2>6. P \in Seq(PlanOp) /\ Len(P) \in Nat
    BY <2>5 DEF Lays
  <2>7. PICK g : Laid(P, g) /\ w = g[Len(P)]
    BY <2>5 DEF Lays
  <2>8. SubSeq(P, 0 + 1, Len(P)) = P /\ 0 \in 0 .. Len(P)
    BY <2>6
  <2>9. g[0] = <<>>
    BY <2>7 DEF Laid
  <2>10. Cue!IsImage(g[Len(P)])'
    BY <2>5, <2>7
  <2>11. WritesImage'
    BY <1>1, <2>4, <2>6, <2>7, <2>8, <2>9, <2>10 DEF WritesImage
  <2> QED
    BY <1>3, <2>3, <2>4, <2>5, <2>11 DEF PlayInv
<1> QED
  BY <1>2, <1>3 DEF Cue!BuildPlan

LEMMA WritePlay ==
  ASSUME PlayInv, Cue!WriteOp
  PROVE  PlayInv'
<1>1. cueAt = "write" /\ cueAt' = "write" /\ UNCHANGED <<sheet, sizes, total>> /\ plan # <<>>
      /\ plan' = Tail(plan) /\ out' = Cue!Written(Head(plan))
  BY DEF Cue!WriteOp
<1>2. PICK P, g, m : /\ P \in Seq(PlanOp) /\ Laid(P, g) /\ m \in 0 .. Len(P)
                     /\ out = g[m] /\ plan = SubSeq(P, m + 1, Len(P))
                     /\ Cue!IsImage(g[Len(P)])
  BY <1>1 DEF PlayInv, WritesImage
<1>3. PICK l \in Nat : l = Len(P)
  BY <1>2
<1>4. m \in Nat /\ m < l /\ Head(plan) = P[m + 1] /\ Tail(plan) = SubSeq(P, m + 2, l)
  BY <1>1, <1>2, <1>3
<1>5. m + 1 \in 1 .. l /\ m + 1 - 1 = m /\ m + 1 + 1 = m + 2 /\ m + 1 \in 0 .. l
  BY <1>3, <1>4
<1>6. g[m + 1] = g[m] \o Puts(P[m + 1])
  <2>1. \A k \in 1 .. l : g[k] = g[k - 1] \o Puts(P[k])
    BY <1>2, <1>3 DEF Laid
  <2>2. PICK k \in 1 .. l : k = m + 1 /\ k - 1 = m
    BY <1>4, <1>5
  <2> QED
    BY <2>1, <2>2
<1>7. Cue!Written(P[m + 1]) = out \o Puts(P[m + 1])
  BY DEF Cue!Written, Puts
<1>8. out' = g[m + 1]
  BY <1>1, <1>2, <1>4, <1>6, <1>7
<1>9. Cue!IsImage(g[l])' /\ Cue!Sectors' = Cue!Sectors
  BY <1>1, <1>2, <1>3, SameImage
<1>10. PICK n : n = m + 1
  OBVIOUS
<1>11. n \in 0 .. Len(P) /\ out' = g[n] /\ plan' = SubSeq(P, n + 1, Len(P)) /\ Cue!IsImage(g[Len(P)])'
  BY <1>1, <1>3, <1>4, <1>5, <1>8, <1>9, <1>10
<1>12. WritesImage'
  BY <1>2, <1>11 DEF WritesImage
<1> QED
  BY <1>1, <1>9, <1>12 DEF PlayInv

LEMMA EndPlay ==
  ASSUME PlayInv, Cue!WriteEnds
  PROVE  PlayInv'
<1>1. cueAt = "write" /\ cueAt' = "done" /\ UNCHANGED <<sheet, sizes, total, out>> /\ plan = <<>>
  BY DEF Cue!WriteEnds, Cue!rest
<1>2. PICK P, g, m : /\ P \in Seq(PlanOp) /\ m \in 0 .. Len(P)
                     /\ out = g[m] /\ plan = SubSeq(P, m + 1, Len(P))
                     /\ Cue!IsImage(g[Len(P)])
  BY <1>1 DEF PlayInv, WritesImage
<1>3. m = Len(P)
  <2>1. PICK l \in Nat : l = Len(P)
    BY <1>2
  <2>2. m \in 0 .. l /\ SubSeq(P, m + 1, l) = <<>>
    BY <1>1, <1>2, <2>1
  <2>3. Len(SubSeq(P, m + 1, l)) = IF m + 1 <= l THEN l - (m + 1) + 1 ELSE 0
    BY <1>2, <2>1, <2>2, SubSeqProperties
  <2>4. Len(SubSeq(P, m + 1, l)) = 0
    <3>1. Len(<<>>) = 0
      OBVIOUS
    <3> QED
      BY <2>2, <3>1, Zenon
  <2>5. m + 1 > l
    BY <2>2, <2>3, <2>4
  <2> QED
    BY <2>1, <2>2, <2>5
<1>4. Cue!IsImage(out)' /\ Cue!Sectors' = Cue!Sectors
  BY <1>1, <1>2, <1>3, SameImage
<1> QED
  BY <1>1, <1>4 DEF PlayInv

LEMMA ShrinkPlay ==
  ASSUME PlayInv, UNCHANGED <<cueAt, sheet, sizes, plan, total, out>>
  PROVE  PlayInv'
<1>1. ASSUME WritesImage PROVE WritesImage'
  BY <1>1, SameImage DEF WritesImage
<1>2. Cue!IsImage(out)' <=> Cue!IsImage(out)
  BY SameImage
<1> QED
  BY <1>1, <1>2, SameImage DEF PlayInv

LEMMA StepPlay ==
  ASSUME CueInv, CueInv', PlayInv, [Cue!Next]_(Cue!vars),
         (SheetTyped /\ Accepted /\ sheet # <<>> => PlanPlays)'
  PROVE  PlayInv'
<1>1. ASSUME NEW f \in File, Cue!FileLine(f) PROVE PlayInv'
  <2>1. cueAt = "parse" /\ UNCHANGED Cue!rest /\ cueAt' = "parse"
    BY <1>1 DEF Cue!FileLine, Cue!Line
  <2> QED
    BY <2>1, ParsePlay
<1>2. ASSUME NEW f \in File, Cue!Shrinks(f) PROVE PlayInv'
  BY <1>2, ShrinkPlay DEF Cue!Shrinks
<1>3. ASSUME NEW n \in BOOLEAN, Cue!TrackLine(n) PROVE PlayInv'
  <2>1. cueAt = "parse" /\ UNCHANGED Cue!rest /\ cueAt' \in {"parse", "bad sheet"}
    BY <1>3 DEF Cue!TrackLine, Cue!Line, Cue!Refuse
  <2> QED
    BY <2>1, ParsePlay
<1>4. ASSUME NEW n \in {0, 1}, NEW frame \in 0 .. MaxFrame, Cue!IndexLine(n, frame)
      PROVE  PlayInv'
  <2>1. cueAt = "parse" /\ UNCHANGED Cue!rest /\ cueAt' \in {"parse", "bad sheet"}
    BY <1>4 DEF Cue!IndexLine, Cue!Line, Cue!Refuse, Cue!InLastTrack
  <2> QED
    BY <2>1, ParsePlay
<1>5. ASSUME NEW b \in BOOLEAN, NEW a \in BOOLEAN, Cue!GapLine(b, a) PROVE PlayInv'
  <2>1. cueAt = "parse" /\ UNCHANGED Cue!rest /\ cueAt' \in {"parse", "bad sheet"}
    BY <1>5 DEF Cue!GapLine, Cue!Line, Cue!Refuse, Cue!InLastTrack
  <2> QED
    BY <2>1, ParsePlay
<1>6. CASE Cue!EndOfSheet
  <2>1. cueAt = "parse" /\ UNCHANGED Cue!rest
        /\ (cueAt' = "bad sheet" \/ (cueAt' = "stat" /\ sheet' # <<>>))
    BY <1>6 DEF Cue!EndOfSheet
  <2> QED
    BY <2>1, ParsePlay
<1>7. CASE Cue!BuildPlan
  BY <1>7, BuildPlay
<1>8. CASE Cue!WriteFails
  BY <1>8 DEF Cue!WriteFails, PlayInv
<1>9. CASE Cue!WriteOp \/ Cue!WriteEnds
  BY <1>9, WritePlay, EndPlay
<1>10. CASE UNCHANGED Cue!vars
  BY <1>10, ShrinkPlay DEF Cue!vars
<1> QED
  BY <1>1, <1>2, <1>3, <1>4, <1>5, <1>6, <1>7, <1>8, <1>9, <1>10 DEF Cue!Next

(* A finished VCD is the image of its sheet, every sector in its place,     *)
(* whatever its tracks, gaps and BINs, and as large as was announced        *)
(* (BuildPlan, WriteVCD, Plan.TotalBytes).                                  *)
THEOREM VcdIsImage == Cue!Spec => []DoneIsImage
<1>1. Cue!Init => PlayInv
  BY InitPlay
<1>2. CueInv /\ CueInv' /\ PlayInv /\ [Cue!Next]_(Cue!vars)
      /\ (SheetTyped /\ Accepted /\ sheet # <<>> => PlanPlays)' => PlayInv'
  BY StepPlay
<1>3. PlayInv => DoneIsImage
  BY CueCounts DEF PlayInv, DoneIsImage, Cue!DoneIsImage
<1> QED
  BY <1>1, <1>2, <1>3, CueInductive, PlanIsImage, PTL DEF Cue!Spec

-----------------------------------------------------------------------------
(* LogRotate, for any number of older files, days, lines, faults and deaths. *)
Byte == Nat \X Nat

Held(c) == IF c = Missing THEN <<>> ELSE c

(* A day's files, each with its content or Missing.                         *)
IsDir(f) == DOMAIN f = 0 .. Keep /\ \A s \in 0 .. Keep : Held(f[s]) \in Seq(Byte)

(* g[s] is what the files from s down to the current one hold, in order.    *)
Tower(f, g) == g = [s \in 0 .. Keep |-> Held(f[s]) \o (IF s = 0 THEN <<>> ELSE g[s - 1])]

UpTo(f) == CHOOSE g : Tower(f, g)

Glue(f) == UpTo(f)[Keep]

LEMMA OnDiskIs ==
  ASSUME NEW d
  PROVE  Log!OnDisk(d) = IF files[d] = Log!NoFiles THEN <<>> ELSE Glue(files[d])
BY DEF Log!OnDisk, Log!Bytes, Log!Slot, Glue, UpTo, Tower, Held

(* The part of a tower below a file.                                        *)
Base(f, n, g) == /\ g \in [0 .. n -> Seq(Byte)]
                 /\ g[0] = Held(f[0]) \o <<>>
                 /\ \A s \in 1 .. n : g[s] = Held(f[s]) \o g[s - 1]

LEMMA BaseExists ==
  ASSUME NEW f, IsDir(f), NEW n \in 0 .. Keep
  PROVE  \E g : Base(f, n, g)
<1> DEFINE T == {m \in 0 .. Keep : ~ \E g : Base(f, m, g)}
<1>1. Keep \in Nat
  BY KeepAssumption
<1>2. SUFFICES ASSUME T # {} PROVE FALSE
  OBVIOUS
<1>3. T \in SUBSET Nat
  BY <1>1
<1>4. PICK m \in T : \A k \in T : m <= k
  BY <1>2, <1>3, LeastExists
<1>5. m \in 0 .. Keep /\ ~ \E g : Base(f, m, g)
  OBVIOUS
<1>6. CASE m = 0
  <2> DEFINE b == [s \in 0 .. 0 |-> Held(f[0]) \o <<>>]
  <2>1. Held(f[0]) \in Seq(Byte)
    BY <1>1 DEF IsDir
  <2>2. Held(f[0]) \o <<>> = Held(f[0])
    BY <2>1, ConcatEmptySeq
  <2>3. Base(f, 0, b)
    BY <2>1, <2>2 DEF Base
  <2> QED
    BY <1>5, <1>6, <2>3
<1>7. CASE m # 0
  <2>1. m - 1 \in 0 .. Keep /\ m \in 1 .. Keep /\ m \in Nat
    BY <1>1, <1>5, <1>7
  <2>2. ~ (m - 1 \in T)
    BY <1>4, <2>1
  <2>3. PICK g : Base(f, m - 1, g)
    BY <2>1, <2>2
  <2>0. PICK top : top = Held(f[m]) \o g[m - 1]
    OBVIOUS
  <2> DEFINE h == [s \in 0 .. m |-> IF s = m THEN top ELSE g[s]]
  <2>4. Held(f[m]) \in Seq(Byte) /\ g[m - 1] \in Seq(Byte)
    BY <1>5, <2>1, <2>3 DEF IsDir, Base
  <2>5. top \in Seq(Byte)
    BY <2>0, <2>4, ConcatProperties
  <2>6. \A s \in 0 .. m - 1 : g[s] \in Seq(Byte) /\ h[s] = g[s]
    BY <2>1, <2>3 DEF Base
  <2>7. h[m] = top
    BY <2>1
  <2>8. h \in [0 .. m -> Seq(Byte)]
    <3>1. \A s \in 0 .. m : s = m \/ s \in 0 .. m - 1
      BY <2>1
    <3>2. \A s \in 0 .. m : h[s] \in Seq(Byte)
      BY <2>5, <2>6, <2>7, <3>1
    <3> QED
      BY <3>2
  <2> HIDE DEF h
  <2>9. h[0] = Held(f[0]) \o <<>>
    BY <2>1, <2>3, <2>6 DEF Base
  <2>10. ASSUME NEW s \in 1 .. m PROVE h[s] = Held(f[s]) \o h[s - 1]
    <3>1. CASE s = m
      <4>1. m - 1 \in 0 .. m - 1
        BY <2>1
      <4>2. h[m - 1] = g[m - 1]
        BY <2>6, <4>1
      <4> QED
        BY <2>0, <2>7, <3>1, <4>2, Zenon
    <3>2. CASE s # m
      <4>1. s \in 1 .. m - 1 /\ s \in 0 .. m - 1 /\ s - 1 \in 0 .. m - 1
        BY <2>1, <3>2
      <4>2. g[s] = Held(f[s]) \o g[s - 1]
        BY <2>3, <4>1 DEF Base
      <4> QED
        BY <2>6, <4>1, <4>2
    <3> QED
      BY <3>1, <3>2
  <2>11. Base(f, m, h)
    BY <2>8, <2>9, <2>10 DEF Base
  <2> QED
    BY <1>5, <2>11
<1> QED
  BY <1>6, <1>7

LEMMA UpToIs ==
  ASSUME NEW f, IsDir(f)
  PROVE  Base(f, Keep, UpTo(f))
<1>1. Keep \in Nat /\ Keep \in 0 .. Keep
  BY KeepAssumption
<1>2. PICK g : Base(f, Keep, g)
  BY <1>1, BaseExists
<1>3. Tower(f, g)
  <2> DEFINE h == [s \in 0 .. Keep |-> Held(f[s]) \o (IF s = 0 THEN <<>> ELSE g[s - 1])]
  <2>1. ASSUME NEW s \in 0 .. Keep PROVE g[s] = h[s]
    <3>1. CASE s = 0
      BY <1>2, <3>1 DEF Base
    <3>2. CASE s # 0
      <4>1. s \in 1 .. Keep
        BY <1>1, <3>2
      <4> QED
        BY <1>2, <3>2, <4>1 DEF Base
    <3> QED
      BY <3>1, <3>2
  <2>2. DOMAIN g = 0 .. Keep /\ g = [s \in 0 .. Keep |-> g[s]]
    BY <1>2 DEF Base
  <2> HIDE DEF h
  <2>3. g = [s \in 0 .. Keep |-> h[s]]
    BY <2>1, <2>2
  <2> QED
    BY <2>3 DEF h, Tower
<1>4. PICK t : t = UpTo(f) /\ Tower(f, t)
  BY <1>3 DEF UpTo
<1>5. \A s \in 0 .. Keep : t[s] = Held(f[s]) \o (IF s = 0 THEN <<>> ELSE t[s - 1])
  BY <1>4 DEF Tower
<1>6. DOMAIN t = 0 .. Keep /\ t = [s \in 0 .. Keep |-> t[s]]
  BY <1>4 DEF Tower
<1>7. t[0] = Held(f[0]) \o <<>>
  <2>1. 0 \in 0 .. Keep
    BY <1>1
  <2> QED
    BY <1>5, <2>1, Zenon
<1>8. ASSUME NEW s \in 1 .. Keep PROVE t[s] = Held(f[s]) \o t[s - 1]
  <2>1. s \in 0 .. Keep /\ s # 0
    BY <1>1
  <2> QED
    BY <1>5, <2>1, Zenon
<1>9. \A s \in 0 .. Keep : t[s] \in Seq(Byte)
  <2> DEFINE T == {m \in 0 .. Keep : t[m] \notin Seq(Byte)}
  <2>1. SUFFICES ASSUME T # {} PROVE FALSE
    OBVIOUS
  <2>2. T \in SUBSET Nat
    BY <1>1
  <2>3. PICK m \in T : \A k \in T : m <= k
    BY <2>1, <2>2, LeastExists
  <2>4. m \in 0 .. Keep /\ t[m] \notin Seq(Byte) /\ Held(f[m]) \in Seq(Byte)
    BY DEF IsDir
  <2>5. CASE m = 0
    BY <1>7, <2>4, <2>5, ConcatEmptySeq
  <2>6. CASE m # 0
    <3>1. m \in 1 .. Keep /\ m - 1 \in 0 .. Keep /\ ~ (m <= m - 1)
      BY <1>1, <2>4, <2>6
    <3>2. t[m - 1] \in Seq(Byte)
      BY <2>3, <3>1
    <3>3. t[m] = Held(f[m]) \o t[m - 1]
      BY <1>8, <3>1
    <3> QED
      BY <2>4, <3>2, <3>3, ConcatProperties
  <2> QED
    BY <2>5, <2>6
<1> QED
  BY <1>4, <1>6, <1>7, <1>8, <1>9 DEF Base

Longer(f, h, n, w) == UpTo(h)[n] = UpTo(f)[n] \o w

SameIn(f, h, m, n) == \A s \in m .. n : Held(h[s]) = Held(f[s])

(* From a file on, towers of the same contents differ by what they differ   *)
(* by at that file.                                                         *)
LEMMA Lengthens ==
  ASSUME NEW f, NEW h, IsDir(f), IsDir(h), NEW w \in Seq(Byte),
         NEW m \in 0 .. Keep, NEW n \in m .. Keep, Longer(f, h, m, w), SameIn(f, h, m + 1, n)
  PROVE  Longer(f, h, n, w)
<1> DEFINE T == {k \in m .. n : ~ Longer(f, h, k, w)}
<1>1. Keep \in Nat /\ m \in Nat /\ n \in Nat /\ m <= n /\ n <= Keep /\ n \in m .. n
  BY KeepAssumption
<1>2. SUFFICES ASSUME T # {} PROVE FALSE
  BY <1>1
<1>3. T \in SUBSET Nat
  BY <1>1
<1>4. PICK k \in T : \A l \in T : k <= l
  BY <1>2, <1>3, LeastExists
<1>5. k \in m .. n /\ ~ Longer(f, h, k, w)
  OBVIOUS
<1>6. k # m
  BY <1>5
<1>7. /\ k \in m + 1 .. n /\ k \in 1 .. Keep
      /\ k - 1 \in m .. n /\ k - 1 \in 0 .. Keep /\ ~ (k <= k - 1)
  BY <1>1, <1>5, <1>6
<1>8. ~ (k - 1 \in T)
  BY <1>4, <1>7
<1>9. Longer(f, h, k - 1, w)
  BY <1>7, <1>8
<1> HIDE DEF T
<1>10. PICK a, b, c : a = Held(f[k]) /\ b = UpTo(f)[k - 1] /\ c = UpTo(h)[k - 1]
  OBVIOUS
<1>11. a \in Seq(Byte) /\ b \in Seq(Byte) /\ c \in Seq(Byte)
  <2>1. Base(f, Keep, UpTo(f)) /\ Base(h, Keep, UpTo(h))
    BY UpToIs
  <2>2. k \in 0 .. Keep
    BY <1>1, <1>7
  <2> QED
    BY <1>7, <1>10, <2>1, <2>2 DEF Base, IsDir
<1>12. UpTo(f)[k] = a \o b /\ UpTo(h)[k] = a \o c
  <2>1. Base(f, Keep, UpTo(f)) /\ Base(h, Keep, UpTo(h))
    BY UpToIs
  <2>2. Held(h[k]) = a
    BY <1>7, <1>10 DEF SameIn
  <2> QED
    BY <1>7, <1>10, <2>1, <2>2 DEF Base
<1>13. c = b \o w
  BY <1>9, <1>10 DEF Longer
<1>14. a \o c = (a \o b) \o w
  <2>1. (a \o b) \o w = a \o (b \o w)
    BY SMTT(30), <1>11
  <2> QED
    BY <1>13, <2>1
<1> QED
  BY <1>5, <1>12, <1>14 DEF Longer

(* What is added to the current file is added to the log.                   *)
LEMMA GlueGrows ==
  ASSUME NEW f, NEW h, IsDir(f), IsDir(h), NEW w \in Seq(Byte),
         NEW c, c = Held(h[0]), c = Held(f[0]) \o w, SameIn(f, h, 1, Keep)
  PROVE  Glue(f) \in Seq(Byte) /\ Glue(h) = Glue(f) \o w
<1>1. Keep \in Nat /\ 0 \in 0 .. Keep /\ Keep \in 0 .. Keep /\ 0 + 1 = 1
  BY KeepAssumption
<1>2. Base(f, Keep, UpTo(f)) /\ Base(h, Keep, UpTo(h))
  BY UpToIs
<1>3. Held(f[0]) \in Seq(Byte) /\ Held(h[0]) \in Seq(Byte)
  BY <1>1 DEF IsDir
<1>4. UpTo(f)[0] = Held(f[0]) /\ UpTo(h)[0] = Held(h[0])
  BY <1>2, <1>3, ConcatEmptySeq DEF Base
<1>5. Longer(f, h, 0, w)
  BY <1>4 DEF Longer
<1>6. Longer(f, h, Keep, w)
  BY <1>1, <1>5, Lengthens
<1>7. UpTo(f)[Keep] \in Seq(Byte)
  BY <1>1, <1>2 DEF Base
<1> QED
  BY <1>6, <1>7 DEF Longer, Glue

(* Files that hold the same make the same log.                              *)
LEMMA GlueSame ==
  ASSUME NEW f, NEW h, IsDir(f), IsDir(h), SameIn(f, h, 0, Keep)
  PROVE  Glue(h) = Glue(f)
<1>1. Keep \in Nat /\ 0 \in 0 .. Keep /\ \A s \in 1 .. Keep : s \in 0 .. Keep
  BY KeepAssumption
<1>2. Held(f[0]) \in Seq(Byte) /\ Held(h[0]) = Held(f[0])
  BY <1>1 DEF IsDir, SameIn
<1>3. Held(f[0]) = Held(f[0]) \o <<>>
  BY <1>2, ConcatEmptySeq
<1>4. SameIn(f, h, 1, Keep)
  BY <1>1 DEF SameIn
<1>5. <<>> \in Seq(Byte)
  OBVIOUS
<1>6. Glue(f) \in Seq(Byte) /\ Glue(h) = Glue(f) \o <<>>
  BY <1>2, <1>3, <1>4, <1>5, GlueGrows
<1> QED
  BY <1>6, ConcatEmptySeq

(* Without files there is no log.                                           *)
LEMMA GlueNothing ==
  ASSUME NEW f, IsDir(f), \A s \in 0 .. Keep : Held(f[s]) = <<>>
  PROVE  Glue(f) = <<>>
<1> DEFINE T == {k \in 0 .. Keep : UpTo(f)[k] # <<>>}
<1>1. Keep \in Nat /\ Keep \in 0 .. Keep /\ 0 \in 0 .. Keep
  BY KeepAssumption
<1>2. Base(f, Keep, UpTo(f))
  BY UpToIs
<1>3. \A s \in 0 .. Keep : UpTo(f)[s] \in Seq(Byte)
  BY <1>2 DEF Base
<1>4. SUFFICES ASSUME T # {} PROVE FALSE
  BY <1>1 DEF Glue
<1>5. T \in SUBSET Nat
  BY <1>1
<1>6. PICK k \in T : \A l \in T : k <= l
  BY <1>4, <1>5, LeastExists
<1>7. k \in 0 .. Keep /\ UpTo(f)[k] # <<>> /\ Held(f[k]) = <<>>
  OBVIOUS
<1>8. CASE k = 0
  BY <1>1, <1>2, <1>7, <1>8, ConcatEmptySeq DEF Base
<1>9. CASE k # 0
  <2>1. k \in 1 .. Keep /\ k - 1 \in 0 .. Keep /\ ~ (k <= k - 1)
    BY <1>1, <1>7, <1>9
  <2>2. UpTo(f)[k - 1] = <<>>
    BY <1>6, <2>1
  <2>3. UpTo(f)[k] = Held(f[k]) \o UpTo(f)[k - 1]
    BY <1>2, <2>1 DEF Base
  <2>4. UpTo(f)[k] = <<>> \o <<>>
    BY <1>7, <2>2, <2>3
  <2>5. <<>> \in Seq(Byte)
    OBVIOUS
  <2> QED
    BY <1>7, <2>4, <2>5, ConcatEmptySeq
<1> QED
  BY <1>8, <1>9

(* Without its oldest file a log has lost its beginning.                    *)
LEMMA GlueDrops ==
  ASSUME NEW f, NEW h, IsDir(f), IsDir(h), SameIn(f, h, 0, Keep - 1), h[Keep] = Missing
  PROVE  Glue(h) \in Seq(Byte) /\ Held(f[Keep]) \in Seq(Byte) /\ Glue(f) = Held(f[Keep]) \o Glue(h)
<1>1. /\ Keep \in Nat /\ Keep \in 1 .. Keep /\ Keep \in 0 .. Keep /\ 0 \in 0 .. Keep
      /\ Keep - 1 \in 0 .. Keep /\ 0 + 1 = 1 /\ 0 \in 0 .. Keep - 1
      /\ \A s \in 1 .. Keep - 1 : s \in 0 .. Keep - 1
  BY KeepAssumption
<1>2. Base(f, Keep, UpTo(f)) /\ Base(h, Keep, UpTo(h))
  BY UpToIs
<1>3. Held(f[0]) \in Seq(Byte) /\ Held(h[0]) = Held(f[0]) /\ Held(f[Keep]) \in Seq(Byte)
  BY <1>1 DEF IsDir, SameIn
<1>4. UpTo(f)[0] = Held(f[0]) /\ UpTo(h)[0] = Held(f[0])
  BY <1>2, <1>3, ConcatEmptySeq DEF Base
<1>5. Longer(f, h, 0, <<>>)
  BY <1>3, <1>4, ConcatEmptySeq DEF Longer
<1>6. SameIn(f, h, 0 + 1, Keep - 1) /\ <<>> \in Seq(Byte)
  BY <1>1 DEF SameIn
<1>7. Longer(f, h, Keep - 1, <<>>)
  BY <1>1, <1>5, <1>6, Lengthens
<1>8. UpTo(f)[Keep - 1] \in Seq(Byte) /\ UpTo(h)[Keep - 1] \in Seq(Byte)
  BY <1>1, <1>2 DEF Base
<1>9. UpTo(h)[Keep - 1] = UpTo(f)[Keep - 1]
  BY <1>7, <1>8, ConcatEmptySeq DEF Longer
<1>10. Glue(f) = Held(f[Keep]) \o UpTo(f)[Keep - 1] /\ Glue(h) = Held(h[Keep]) \o UpTo(h)[Keep - 1]
  BY <1>1, <1>2 DEF Base, Glue
<1>11. Held(h[Keep]) = <<>>
  BY DEF Held
<1>12. Glue(h) = UpTo(f)[Keep - 1]
  BY <1>8, <1>9, <1>10, <1>11, ConcatEmptySeq
<1> QED
  BY <1>3, <1>8, <1>10, <1>12

(* A file moved up into a gap leaves the log as it was.                     *)
LEMMA GlueMoved ==
  ASSUME NEW f, NEW h, IsDir(f), IsDir(h), NEW k \in 0 .. Keep - 1, f[k + 1] = Missing,
         h[k + 1] = f[k], h[k] = Missing, \A s \in 0 .. Keep : s # k /\ s # k + 1 => h[s] = f[s]
  PROVE  Glue(h) = Glue(f)
<1>1. /\ Keep \in Nat /\ k \in Nat /\ k \in 0 .. Keep /\ k + 1 \in 1 .. Keep /\ k + 1 \in 0 .. Keep
      /\ (k + 1) - 1 = k /\ Keep \in k + 1 .. Keep /\ 0 \in 0 .. Keep /\ 0 + 1 = 1
      /\ \A s \in (k + 1) + 1 .. Keep : s \in 0 .. Keep /\ s # k /\ s # k + 1
      /\ k # 0 => k \in 1 .. Keep /\ k - 1 \in 0 .. Keep /\ 0 \in 0 .. k - 1 /\ k - 1 \in 0 .. Keep
      /\ \A s \in 0 .. k - 1 : s \in 0 .. Keep /\ s # k /\ s # k + 1
  BY KeepAssumption
<1>2. Base(f, Keep, UpTo(f)) /\ Base(h, Keep, UpTo(h))
  BY UpToIs
<1>3. Held(f[k + 1]) = <<>> /\ Held(h[k]) = <<>> /\ Held(h[k + 1]) = Held(f[k])
  BY DEF Held
<1>4. /\ \A s \in 0 .. Keep : UpTo(f)[s] \in Seq(Byte) /\ UpTo(h)[s] \in Seq(Byte)
      /\ \A s \in 0 .. Keep : Held(f[s]) \in Seq(Byte)
  BY <1>2 DEF Base, IsDir
<1>5. /\ UpTo(f)[k + 1] = <<>> \o UpTo(f)[k]
      /\ UpTo(h)[k + 1] = Held(f[k]) \o UpTo(h)[k]
  BY <1>1, <1>2, <1>3 DEF Base
<1>6. UpTo(f)[k + 1] = UpTo(f)[k]
  BY <1>1, <1>4, <1>5, ConcatEmptySeq
<1>7. UpTo(h)[k + 1] = UpTo(f)[k]
  <2>1. CASE k = 0
    <3>1. UpTo(h)[k] = <<>> \o <<>> /\ UpTo(f)[k] = Held(f[k]) \o <<>>
      BY <1>2, <1>3, <2>1 DEF Base
    <3>2. <<>> \in Seq(Byte)
      OBVIOUS
    <3>3. UpTo(h)[k] = <<>>
      BY <3>1, <3>2, ConcatEmptySeq
    <3> QED
      BY <1>5, <3>1, <3>3
  <2>2. CASE k # 0
    <3>1. UpTo(h)[0] = Held(h[0]) \o <<>> /\ UpTo(f)[0] = Held(f[0]) \o <<>>
      BY <1>2 DEF Base
    <3>2. h[0] = f[0]
      BY <1>1, <2>2
    <3>3. UpTo(h)[0] = UpTo(f)[0]
      BY <3>1, <3>2
    <3>4. Longer(f, h, 0, <<>>)
      BY <1>1, <1>4, <3>3, ConcatEmptySeq DEF Longer
    <3>5. SameIn(f, h, 0 + 1, k - 1)
      <4>1. \A s \in 0 + 1 .. k - 1 : s \in 0 .. k - 1
        BY <1>1
      <4> QED
        BY <1>1, <4>1 DEF SameIn
    <3>6. <<>> \in Seq(Byte)
      OBVIOUS
    <3>7. Longer(f, h, k - 1, <<>>)
      BY <1>1, <2>2, <3>4, <3>5, <3>6, Lengthens
    <3>8. UpTo(h)[k - 1] = UpTo(f)[k - 1]
      BY <1>1, <1>4, <2>2, <3>7, ConcatEmptySeq DEF Longer
    <3>9. UpTo(h)[k] = <<>> \o UpTo(h)[k - 1] /\ UpTo(f)[k] = Held(f[k]) \o UpTo(f)[k - 1]
      BY <1>1, <1>2, <1>3, <2>2 DEF Base
    <3>10. UpTo(h)[k] = UpTo(f)[k - 1]
      BY <1>1, <1>4, <2>2, <3>8, <3>9, ConcatEmptySeq
    <3> QED
      BY <1>5, <3>9, <3>10
  <2> QED
    BY <2>1, <2>2
<1>8. Longer(f, h, k + 1, <<>>)
  BY <1>1, <1>4, <1>6, <1>7, ConcatEmptySeq DEF Longer
<1>9. SameIn(f, h, (k + 1) + 1, Keep) /\ <<>> \in Seq(Byte)
  BY <1>1 DEF SameIn
<1>10. Longer(f, h, Keep, <<>>)
  BY <1>1, <1>8, <1>9, Lengthens
<1> QED
  BY <1>1, <1>4, <1>10, ConcatEmptySeq DEF Longer, Glue

Content == Seq(Byte) \cup {Missing}

LogTyped ==
    /\ files \in [Log!Day -> [Log!Slot -> Content]]
    /\ clock \in Log!Day /\ date \in Log!Day
    /\ logged \in Nat /\ line \in Nat
    /\ botched \in [Log!Day -> Nat]

(* An open file is there. While files are renamed none is open, and the     *)
(* one above the next to be renamed has gone.                               *)
OpenIsThere ==
    /\ open => files[date][0] # Missing
    /\ logPc \in {"remove", "rename", "reopen"} => ~open
    /\ logPc = "rename" => slot \in 0 .. Keep - 1 /\ files[date][slot + 1] = Missing
    /\ logPc = "reopen" => files[date][0] = Missing

LogInv == LogTyped /\ OpenIsThere

LEMMA LogConstants ==
  /\ Keep \in Nat /\ Days \in Nat /\ MaxLine \in Nat
  /\ 0 \in Log!Slot /\ Keep \in Log!Slot /\ Keep - 1 \in 0 .. Keep - 1
  /\ 1 \in Log!Day
  /\ \A s \in 0 .. Keep - 1 : s \in Log!Slot /\ s + 1 \in Log!Slot /\ s + 1 # s
  /\ \A s \in 0 .. Keep - 1 : s # 0 => s - 1 \in 0 .. Keep - 1 /\ (s - 1) + 1 = s
  /\ <<>> \in Content /\ <<>> # Missing /\ (Keep - 1) + 1 = Keep
<1>1. <<>> \in Content /\ <<>> # Missing
  <2>1. <<>> \in Seq(Nat \X Nat)
    OBVIOUS
  <2>2. <<>> # Missing
    BY <2>1, MissingAssumption
  <2> QED
    BY <2>1, <2>2 DEF Content, Byte
<1>2. Keep \in Nat \ {0} /\ Days \in Nat \ {0} /\ MaxLine \in Nat
  BY KeepAssumption
<1>3. 0 \in 0 .. Keep /\ Keep \in 0 .. Keep /\ Keep - 1 \in 0 .. Keep - 1 /\ 1 \in 1 .. Days
  BY <1>2
<1>4. /\ \A s \in 0 .. Keep - 1 : s \in 0 .. Keep /\ s + 1 \in 0 .. Keep /\ s + 1 # s
      /\ \A s \in 0 .. Keep - 1 : s # 0 => s - 1 \in 0 .. Keep - 1 /\ (s - 1) + 1 = s
      /\ (Keep - 1) + 1 = Keep
  BY <1>2
<1> QED
  BY <1>1, <1>2, <1>3, <1>4 DEF Log!Slot, Log!Day

LEMMA LogInit == Log!Init => LogInv
BY LogConstants DEF Log!Init, Log!NoFiles, LogInv, LogTyped, OpenIsThere, Content

(* Creating a file puts nothing into the log.                               *)
LEMMA CreatedIs ==
  ASSUME LogTyped, NEW e \in Log!Day
  PROVE  /\ Log!Created(e) \in [Log!Day -> [Log!Slot -> Content]]
         /\ Log!Created(e)[e][0] # Missing
         /\ \A d \in Log!Day, s \in Log!Slot :
               /\ Log!Created(e)[d][s] # files[d][s]
                     => d = e /\ s = 0 /\ files[d][s] = Missing /\ Log!Created(e)[d][s] = <<>>
               /\ files[d][s] # Missing => Log!Created(e)[d][s] = files[d][s]
<1> USE LogConstants
<1> DEFINE c == IF files[e][0] = Missing THEN <<>> ELSE files[e][0]
<1>1. c \in Content /\ c # Missing /\ (c # files[e][0] => files[e][0] = Missing /\ c = <<>>)
  BY DEF LogTyped, Content
<1>2. Log!Created(e) = [files EXCEPT ![e][0] = c]
  BY DEF Log!Created
<1> HIDE DEF c
<1>3. files \in [Log!Day -> [Log!Slot -> Content]]
  BY DEF LogTyped
<1> HIDE LogConstants
<1>4. 0 \in Log!Slot
  BY LogConstants
<1>5. [files EXCEPT ![e][0] = c] \in [Log!Day -> [Log!Slot -> Content]]
  BY <1>1, <1>3, <1>4
<1>6. \A d \in Log!Day, s \in Log!Slot :
         [files EXCEPT ![e][0] = c][d][s] = IF d = e /\ s = 0 THEN c ELSE files[d][s]
  BY <1>3, <1>4
<1> QED
  BY <1>1, <1>2, <1>4, <1>5, <1>6

LEMMA LogStarts == ASSUME LogInv, Log!Starts PROVE LogInv'
<1> USE DEF LogInv
<1>1. /\ files' = Log!Created(clock) /\ date' = clock /\ logPc' = "idle"
      /\ UNCHANGED <<clock, logged, line, botched>>
  BY DEF Log!Starts, Log!Goes, Log!OpensFile, Log!run
<1> QED
  BY <1>1, CreatedIs DEF LogTyped, OpenIsThere

LEMMA LogWrites == ASSUME LogInv, NEW n \in 1 .. MaxLine, Log!Write(n) PROVE LogInv'
<1>1. n \in Nat
  BY LogConstants
<1> QED
  BY <1>1 DEF Log!Write, Log!Goes, Log!run, LogInv, LogTyped, OpenIsThere

LEMMA LogDates == ASSUME LogInv, Log!Dates PROVE LogInv'
<1> USE DEF LogInv
<1>1. /\ logPc = "date" /\ logPc' \in {"size", "idle"}
      /\ UNCHANGED <<clock, logged, line, botched>>
      /\ \/ UNCHANGED <<files, date, open>>
         \/ files' = Log!Created(clock) /\ date' = clock
         \/ files' = Log!Created(clock) /\ UNCHANGED <<date, open>>
  BY DEF Log!Dates, Log!Goes, Log!OpensFile, Log!OpenFails, Log!run
<1> QED
  BY <1>1, LogConstants, CreatedIs DEF LogTyped, OpenIsThere

LEMMA LogMeasures == ASSUME LogInv, Log!Measures \/ Log!Closes PROVE LogInv'
<1> USE DEF LogInv
<1>1. CASE Log!Measures
  BY <1>1 DEF Log!Measures, Log!Goes, Log!run, Log!disk, LogTyped, OpenIsThere
<1>2. CASE Log!Closes
  BY <1>2 DEF Log!Closes, Log!Goes, Log!Botched, Log!run, Log!disk, LogTyped, OpenIsThere
<1> QED
  BY <1>1, <1>2

LEMMA LogGivesUp ==
  ASSUME LogInv, Log!GivesUp, logPc \in {"remove", "rename"},
         UNCHANGED <<clock, date, logged, line>>
  PROVE  LogInv'
<1> USE DEF LogInv
<1>1. /\ logPc' = "idle" /\ files' \in {files, Log!Created(date)}
      /\ open' => files' = Log!Created(date) \/ open
      /\ botched' = [botched EXCEPT ![date] = @ + 1]
  BY DEF Log!GivesUp, Log!Botched, Log!OpensFile
<1> QED
  BY SMTT(30), <1>1, LogConstants, CreatedIs DEF LogTyped, OpenIsThere

LEMMA LogRemoves == ASSUME LogInv, Log!Removes PROVE LogInv'
<1> USE DEF LogInv
<1>1. CASE Log!GivesUp
  BY <1>1, LogGivesUp DEF Log!Removes, Log!run
<1>2. CASE ~ Log!GivesUp
  <2>1. /\ logPc = "remove" /\ logPc' = "rename" /\ files' = [files EXCEPT ![date][Keep] = Missing]
        /\ slot' = Keep - 1 /\ UNCHANGED <<open, botched, clock, date, logged, line>>
    BY <1>2 DEF Log!Removes, Log!run
  <2>2. Missing \in Content
    BY DEF Content
  <2> QED
    BY <2>1, <2>2, LogConstants DEF LogTyped, OpenIsThere
<1> QED
  BY <1>1, <1>2

LEMMA LogRenames == ASSUME LogInv, Log!Renames PROVE LogInv'
<1> USE DEF LogInv
<1>1. CASE Log!GivesUp
  BY <1>1, LogGivesUp DEF Log!Renames, Log!run
<1>2. CASE ~ Log!GivesUp
  <2>1. /\ logPc = "rename" /\ logPc' = IF slot = 0 THEN "reopen" ELSE "rename"
        /\ files' = IF files[date][slot] = Missing THEN files
                    ELSE [files EXCEPT ![date][slot + 1] = files[date][slot],
                                       ![date][slot] = Missing]
        /\ slot' = IF slot = 0 THEN 0 ELSE slot - 1
        /\ UNCHANGED <<open, botched, clock, date, logged, line>>
    BY <1>2 DEF Log!Renames, Log!run
  <2>2. Missing \in Content /\ slot \in 0 .. Keep - 1 /\ slot \in Log!Slot /\ slot + 1 \in Log!Slot
    BY <2>1, LogConstants DEF Content, OpenIsThere
  <2>3. files' \in [Log!Day -> [Log!Slot -> Content]] /\ files'[date][slot] = Missing
    BY <2>1, <2>2 DEF LogTyped
  <2>4. LogTyped'
    BY <2>1, <2>3 DEF LogTyped
  <2>5. logPc' = "rename" => slot' \in 0 .. Keep - 1 /\ slot' + 1 = slot
    BY <2>1, <2>2, LogConstants
  <2>6. OpenIsThere'
    BY <2>1, <2>3, <2>5 DEF OpenIsThere
  <2> QED
    BY <2>4, <2>6
<1> QED
  BY <1>1, <1>2

LEMMA LogReopens == ASSUME LogInv, Log!Reopens PROVE LogInv'
<1> USE DEF LogInv
<1>1. /\ logPc = "reopen" /\ logPc' \in {"append", "idle"}
      /\ UNCHANGED <<clock, date, logged, line>>
      /\ botched' \in {botched, [botched EXCEPT ![date] = @ + 1]}
      /\ files' \in {files, Log!Created(date)}
      /\ open' => files' = Log!Created(date) \/ open
  BY DEF Log!Reopens, Log!Goes, Log!OpensFile, Log!OpenFails, Log!Botched, Log!run
<1> QED
  BY <1>1, LogConstants, CreatedIs DEF LogTyped, OpenIsThere

(* What an append writes, and what the file holds then.                     *)
LEMMA AppendIs ==
  ASSUME LogInv, NEW n \in 0 .. line, open
  PROVE  LET w == [k \in 1 .. n |-> <<logged, k>>]
         IN  /\ w \in Seq(Byte) /\ files[date][0] \in Seq(Byte)
             /\ files[date][0] \o w \in Seq(Byte) /\ files[date][0] \o w # Missing
<1> DEFINE w == [k \in 1 .. n |-> <<logged, k>>]
<1>1. n \in Nat /\ logged \in Nat
  BY DEF LogInv, LogTyped
<1>2. w \in Seq(Byte)
  <2>1. \A k \in 1 .. n : <<logged, k>> \in Byte
    BY <1>1 DEF Byte
  <2>2. w \in [1 .. n -> Byte]
    BY <2>1
  <2> HIDE DEF w
  <2> QED
    BY <1>1, <2>2
<1> HIDE DEF w
<1>3. files[date][0] \in Seq(Byte)
  BY LogConstants DEF LogInv, LogTyped, OpenIsThere, Content
<1>4. files[date][0] \o w \in Seq(Byte)
  BY <1>2, <1>3, ConcatProperties
<1>5. files[date][0] \o w # Missing
  BY <1>4, MissingAssumption DEF Byte
<1> QED
  BY <1>2, <1>3, <1>4, <1>5 DEF w

LEMMA LogAppends == ASSUME LogInv, Log!Appends PROVE LogInv'
<1> USE DEF LogInv
<1>1. /\ logPc = "append" /\ logPc' = "idle"
      /\ UNCHANGED <<logged, clock, date, open, line, slot, botched>>
  BY DEF Log!Appends, Log!Goes, Log!run
<1>2. CASE open
  <2>1. PICK n \in 0 .. line :
          files' = [files EXCEPT ![date][0] = @ \o [k \in 1 .. n |-> <<logged, k>>]]
    BY <1>2 DEF Log!Appends
  <2>2. PICK w : w = [k \in 1 .. n |-> <<logged, k>>]
    OBVIOUS
  <2>3. PICK c : c = files[date][0] \o w
    OBVIOUS
  <2>4. c \in Content /\ c # Missing
    BY <1>2, <2>2, <2>3, AppendIs DEF Content
  <2>5. files' = [files EXCEPT ![date][0] = c]
    BY <2>1, <2>2, <2>3
  <2>6. files' \in [Log!Day -> [Log!Slot -> Content]] /\ files'[date][0] = c
    BY <2>4, <2>5, LogConstants DEF LogTyped
  <2> QED
    BY <1>1, <2>4, <2>6 DEF LogTyped, OpenIsThere
<1>3. CASE ~open
  BY <1>1, <1>3 DEF Log!Appends, LogTyped, OpenIsThere
<1> QED
  BY <1>2, <1>3

LEMMA LogOthers == ASSUME LogInv, Log!Midnight \/ Log!Dies PROVE LogInv'
<1> USE DEF LogInv
<1>1. CASE Log!Midnight
  <2>1. clock + 1 \in Log!Day
    BY <1>1, LogConstants DEF Log!Midnight, Log!Day, LogTyped
  <2> QED
    BY <1>1, <2>1 DEF Log!Midnight, Log!disk, LogTyped, OpenIsThere
<1>2. CASE Log!Dies
  <2>1. /\ logPc' = "down" /\ open' = FALSE /\ line' = 0
        /\ botched' \in {botched, [botched EXCEPT ![date] = @ + 1]}
        /\ UNCHANGED <<files, logged, clock, date>>
    BY <1>2 DEF Log!Dies, Log!Botched, Log!disk
  <2> QED
    BY <2>1 DEF LogTyped, OpenIsThere
<1> QED
  BY <1>1, <1>2

LEMMA LogStep == LogInv /\ [Log!Next]_(Log!vars) => LogInv'
<1> SUFFICES ASSUME LogInv, [Log!Next]_(Log!vars) PROVE LogInv'
  OBVIOUS
<1>1. CASE UNCHANGED Log!vars
  BY <1>1 DEF Log!vars, LogInv, LogTyped, OpenIsThere
<1> QED
  BY <1>1, LogStarts, LogWrites, LogDates, LogMeasures, LogRemoves, LogRenames, LogReopens,
     LogAppends, LogOthers DEF Log!Next

LEMMA LogInductive == Log!Spec => []LogInv
BY LogInit, LogStep, PTL DEF Log!Spec

LEMMA DirIs ==
  ASSUME NEW f \in [Log!Slot -> Content]
  PROVE  IsDir(f)
BY DEF IsDir, Log!Slot, Content, Held

(* Days without files have an empty log like all others.                    *)
LEMMA GlueIs ==
  ASSUME NEW f \in [Log!Slot -> Content]
  PROVE  (IF f = Log!NoFiles THEN <<>> ELSE Glue(f)) = Glue(f)
<1>1. IsDir(f)
  BY DirIs
<1>2. CASE f = Log!NoFiles
  <2>1. \A s \in 0 .. Keep : Held(f[s]) = <<>>
    BY <1>2 DEF Log!NoFiles, Log!Slot, Held
  <2> QED
    BY <1>1, <1>2, <2>1, GlueNothing
<1> QED
  BY <1>2

LEMMA OnDiskBoth ==
  ASSUME LogInv, LogInv', NEW d \in Log!Day
  PROVE  /\ Log!OnDisk(d) = Glue(files[d]) /\ Log!OnDisk(d)' = Glue(files'[d])
         /\ IsDir(files[d]) /\ IsDir(files'[d])
<1>1. files[d] \in [Log!Slot -> Content] /\ files'[d] \in [Log!Slot -> Content]
  BY DEF LogInv, LogTyped
<1>2. Log!OnDisk(d)' = IF files'[d] = Log!NoFiles THEN <<>> ELSE Glue(files'[d])
  BY DEF Log!OnDisk, Log!Bytes, Log!Slot, Glue, UpTo, Tower, Held
<1> QED
  BY <1>1, <1>2, OnDiskIs, GlueIs, DirIs

SameLog(d) == Log!OnDisk(d)' = Log!OnDisk(d)

Added(d)   == \E w \in Seq(Byte) : Log!OnDisk(d)' = Log!OnDisk(d) \o w
Dropped(d) == \E v \in Seq(Byte) : Log!OnDisk(d) = v \o Log!OnDisk(d)'

(* What a step does to the logs.                                            *)
LogMoves ==
    \/ \A d \in Log!Day : SameLog(d)
    \/ \E e \in Log!Day :
          /\ \/ Added(e)
             \/ Dropped(e) /\ e = date /\ logPc = "remove" /\ files[e][Keep] # Missing
          /\ \A d \in Log!Day : d # e => SameLog(d)

LEMMA FilesSame ==
  ASSUME LogInv, LogInv', NEW d \in Log!Day,
         \A s \in Log!Slot : Held(files'[d][s]) = Held(files[d][s])
  PROVE  SameLog(d)
<1>1. SameIn(files[d], files'[d], 0, Keep)
  BY DEF SameIn, Log!Slot
<1> QED
  BY <1>1, OnDiskBoth, GlueSame DEF SameLog

LEMMA CreatedSame ==
  ASSUME LogInv, LogInv', NEW e \in Log!Day, files' \in {files, Log!Created(e)}, NEW d \in Log!Day
  PROVE  SameLog(d)
<1>1. LogTyped
  BY DEF LogInv
<1>2. ASSUME NEW s \in Log!Slot PROVE Held(files'[d][s]) = Held(files[d][s])
  BY <1>1, CreatedIs DEF Held
<1> QED
  BY <1>2, FilesSame

LEMMA RemovesMoves == ASSUME LogInv, LogInv', Log!Removes PROVE LogMoves
<1>1. date \in Log!Day /\ files \in [Log!Day -> [Log!Slot -> Content]]
  BY DEF LogInv, LogTyped
<1>2. CASE Log!GivesUp
  <2>1. files' \in {files, Log!Created(date)}
    BY <1>2 DEF Log!GivesUp, Log!OpensFile
  <2> QED
    BY <1>1, <2>1, CreatedSame DEF LogMoves
<1>3. CASE ~ Log!GivesUp
  <2>0. PICK e \in Log!Day : e = date
    BY <1>1
  <2> USE <2>0
  <2>1. logPc = "remove" /\ files' = [files EXCEPT ![e][Keep] = Missing]
    BY <1>3 DEF Log!Removes
  <2>2. /\ \A d \in Log!Day : d # e => files'[d] = files[d]
        /\ files'[e][Keep] = Missing
        /\ \A s \in Log!Slot : s # Keep => files'[e][s] = files[e][s]
    BY <1>1, <2>1, LogConstants
  <2>3. \A d \in Log!Day : d # e => SameLog(d)
    BY <2>2, FilesSame
  <2>4. CASE files[e][Keep] = Missing
    <3>1. \A s \in Log!Slot : Held(files'[e][s]) = Held(files[e][s])
      BY <2>2, <2>4
    <3> QED
      BY <1>1, <2>3, <3>1, FilesSame DEF LogMoves
  <2>5. CASE files[e][Keep] # Missing
    <3>1. \A s \in 0 .. Keep - 1 : s \in Log!Slot /\ s # Keep
      BY LogConstants
    <3>2. SameIn(files[e], files'[e], 0, Keep - 1)
      BY <2>2, <3>1 DEF SameIn
    <3>3. PICK f, h : f = files[e] /\ h = files'[e]
      OBVIOUS
    <3>4. /\ IsDir(f) /\ IsDir(h) /\ SameIn(f, h, 0, Keep - 1) /\ h[Keep] = Missing
          /\ Log!OnDisk(e) = Glue(f) /\ Log!OnDisk(e)' = Glue(h)
      BY <1>1, <2>2, <3>2, <3>3, OnDiskBoth
    <3>6. Glue(f) = Held(f[Keep]) \o Glue(h) /\ Held(f[Keep]) \in Seq(Byte)
      BY <3>4, GlueDrops
    <3>5. Dropped(e)
      BY <3>4, <3>6 DEF Dropped
    <3> QED
      BY <2>1, <2>3, <2>5, <3>5 DEF LogMoves
  <2> QED
    BY <2>4, <2>5
<1> QED
  BY <1>2, <1>3

LEMMA RenamesMoves == ASSUME LogInv, LogInv', Log!Renames PROVE LogMoves
<1>1. date \in Log!Day /\ files \in [Log!Day -> [Log!Slot -> Content]]
  BY DEF LogInv, LogTyped
<1>2. CASE Log!GivesUp
  <2>1. files' \in {files, Log!Created(date)}
    BY <1>2 DEF Log!GivesUp, Log!OpensFile
  <2> QED
    BY <1>1, <2>1, CreatedSame DEF LogMoves
<1>3. CASE ~ Log!GivesUp
  <2>0. PICK e \in Log!Day : e = date
    BY <1>1
  <2> USE <2>0
  <2>1. /\ logPc = "rename"
        /\ files' = IF files[e][slot] = Missing THEN files
                    ELSE [files EXCEPT ![e][slot + 1] = files[e][slot],
                                       ![e][slot] = Missing]
    BY <1>3 DEF Log!Renames
  <2>2. slot \in 0 .. Keep - 1 /\ files[e][slot + 1] = Missing
    BY <2>1 DEF LogInv, OpenIsThere
  <2>3. CASE files[e][slot] = Missing
    BY <1>1, <2>1, <2>3, CreatedSame DEF LogMoves
  <2>4. CASE files[e][slot] # Missing
    <3>1. slot \in Log!Slot /\ slot + 1 \in Log!Slot /\ slot + 1 # slot
      BY <2>2, LogConstants
    <3>2. /\ \A d \in Log!Day : d # e => files'[d] = files[d]
          /\ files'[e][slot + 1] = files[e][slot]
          /\ files'[e][slot] = Missing
          /\ \A s \in Log!Slot : s # slot /\ s # slot + 1 => files'[e][s] = files[e][s]
      BY <1>1, <2>1, <2>4, <3>1
    <3>3. \A d \in Log!Day : d # e => SameLog(d)
      BY <3>2, FilesSame
    <3>4. \A s \in 0 .. Keep : s # slot /\ s # slot + 1 => files'[e][s] = files[e][s]
      BY <3>2 DEF Log!Slot
    <3>5. PICK f, h : f = files[e] /\ h = files'[e]
      OBVIOUS
    <3>7. /\ IsDir(f) /\ IsDir(h) /\ f[slot + 1] = Missing /\ h[slot + 1] = f[slot]
          /\ h[slot] = Missing /\ \A s \in 0 .. Keep : s # slot /\ s # slot + 1 => h[s] = f[s]
          /\ Log!OnDisk(e) = Glue(f) /\ Log!OnDisk(e)' = Glue(h)
      BY <1>1, <2>2, <3>2, <3>4, <3>5, OnDiskBoth
    <3>8. Glue(h) = Glue(f)
      BY <2>2, <3>7, GlueMoved
    <3>6. SameLog(e)
      BY <3>7, <3>8 DEF SameLog
    <3> QED
      BY <3>3, <3>6 DEF LogMoves
  <2> QED
    BY <2>3, <2>4
<1> QED
  BY <1>2, <1>3

LEMMA AppendsMoves == ASSUME LogInv, LogInv', Log!Appends PROVE LogMoves
<1>1. date \in Log!Day /\ files \in [Log!Day -> [Log!Slot -> Content]]
  BY DEF LogInv, LogTyped
<1>2. CASE ~open
  <2>1. files' = files
    BY <1>2 DEF Log!Appends
  <2> QED
    BY <1>1, <2>1, CreatedSame DEF LogMoves
<1>3. CASE open
  <2>0. PICK e \in Log!Day : e = date
    BY <1>1
  <2> USE <2>0
  <2>1. PICK n \in 0 .. line :
          files' = [files EXCEPT ![e][0] = @ \o [k \in 1 .. n |-> <<logged, k>>]]
    BY <1>3 DEF Log!Appends
  <2>2. PICK w : w = [k \in 1 .. n |-> <<logged, k>>]
    OBVIOUS
  <2>3. PICK c : c = files[e][0] \o w
    OBVIOUS
  <2>4. /\ w \in Seq(Byte) /\ c \in Seq(Byte) /\ c # Missing /\ files[e][0] # Missing
    BY <1>3, <2>2, <2>3, AppendIs DEF LogInv, OpenIsThere
  <2>5. files' = [files EXCEPT ![e][0] = c]
    BY <2>1, <2>2, <2>3
  <2>6. /\ \A d \in Log!Day : d # e => files'[d] = files[d]
        /\ files'[e][0] = c
        /\ \A s \in Log!Slot : s # 0 => files'[e][s] = files[e][s]
    BY <1>1, <2>5, LogConstants
  <2>7. \A d \in Log!Day : d # e => SameLog(d)
    BY <2>6, FilesSame
  <2>8. c = Held(files'[e][0]) /\ c = Held(files[e][0]) \o w
    BY <2>3, <2>4, <2>6 DEF Held
  <2>9. SameIn(files[e], files'[e], 1, Keep)
    <3>1. \A s \in 1 .. Keep : s \in Log!Slot /\ s # 0
      BY LogConstants DEF Log!Slot
    <3> QED
      BY <2>6, <3>1 DEF SameIn
  <2>10. PICK f, h : f = files[e] /\ h = files'[e]
    OBVIOUS
  <2>11. /\ IsDir(f) /\ IsDir(h) /\ c = Held(h[0]) /\ c = Held(f[0]) \o w
         /\ SameIn(f, h, 1, Keep)
         /\ Log!OnDisk(e) = Glue(f) /\ Log!OnDisk(e)' = Glue(h)
    BY <1>1, <2>8, <2>9, <2>10, OnDiskBoth
  <2>13. Glue(h) = Glue(f) \o w
    BY <2>4, <2>11, GlueGrows
  <2>12. Added(e)
    BY <2>4, <2>11, <2>13 DEF Added
  <2> QED
    BY <2>7, <2>12 DEF LogMoves
<1> QED
  BY <1>2, <1>3

LEMMA StepLogMoves == LogInv /\ LogInv' /\ [Log!Next]_(Log!vars) => LogMoves
<1> SUFFICES ASSUME LogInv, LogInv', [Log!Next]_(Log!vars) PROVE LogMoves
  OBVIOUS
<1>1. clock \in Log!Day /\ date \in Log!Day
  BY DEF LogInv, LogTyped
<1>2. CASE \/ Log!Starts \/ Log!Dates \/ Log!Measures \/ Log!Closes \/ Log!Reopens
           \/ Log!Midnight \/ Log!Dies \/ UNCHANGED Log!vars
           \/ \E n \in 1 .. MaxLine : Log!Write(n)
  <2>1. files' \in {files, Log!Created(clock)} \/ files' \in {files, Log!Created(date)}
    BY <1>2 DEF Log!Starts, Log!Dates, Log!Measures, Log!Closes, Log!Reopens, Log!Midnight,
       Log!Dies, Log!Write, Log!OpensFile, Log!OpenFails, Log!disk, Log!vars
  <2> QED
    BY <1>1, <2>1, CreatedSame DEF LogMoves
<1> QED
  BY <1>2, RemovesMoves, RenamesMoves, AppendsMoves DEF Log!Next

(* Two ways to say what the reader finds.                                   *)
LEMMA LogsAre ==
  /\ DOMAIN Log!logs = Log!Day /\ DOMAIN Log!logs' = Log!Day
  /\ Log!logs = [d \in Log!Day |-> Log!logs[d]] /\ Log!logs' = [d \in Log!Day |-> Log!logs'[d]]
  /\ \A d \in Log!Day : Log!logs[d] = Log!OnDisk(d) /\ Log!logs'[d] = Log!OnDisk(d)'
BY DEF Log!logs

LEMMA PrefixOf ==
  ASSUME NEW s \in Seq(Byte), NEW w \in Seq(Byte)
  PROVE  Log!Kept!IsPrefix(s, s \o w)
BY DEF Log!Kept!IsPrefix

LEMMA SuffixOf ==
  ASSUME NEW t \in Seq(Byte), NEW v \in Seq(Byte)
  PROVE  Log!Kept!IsSuffix(t, v \o t)
<1> DEFINE r == Log!Kept!Reverse(t)
           q == Log!Kept!Reverse(v \o t)
<1>1. /\ Len(v \o t) = Len(v) + Len(t) /\ Len(v) \in Nat /\ Len(t) \in Nat /\ v \o t \in Seq(Byte)
      /\ \A i \in 1 .. Len(t) : (v \o t)[Len(v) + i] = t[i]
  OBVIOUS
<1>2. /\ Len(r) = Len(t) /\ \A i \in 1 .. Len(t) : r[i] = t[(Len(t) - i) + 1]
      /\ Len(q) = Len(v) + Len(t)
      /\ \A i \in 1 .. Len(v) + Len(t) : q[i] = (v \o t)[(Len(v) + Len(t) - i) + 1]
  BY <1>1 DEF Log!Kept!Reverse
<1>3. \A i \in 1 .. Len(t) : q[i] = r[i]
  <2> TAKE i \in 1 .. Len(t)
  <2>1. (Len(t) - i) + 1 \in 1 .. Len(t) /\ i \in 1 .. Len(v) + Len(t)
        /\ (Len(v) + Len(t) - i) + 1 = Len(v) + ((Len(t) - i) + 1)
    BY <1>1
  <2> QED
    BY <1>1, <1>2, <2>1
<1> HIDE DEF r, q
<1>4. SubSeq(r, 1, Len(r)) = SubSeq(q, 1, Len(r)) /\ Len(r) <= Len(q)
  BY <1>1, <1>2, <1>3
<1> QED
  BY <1>4 DEF Log!Kept!IsSuffix, Log!Kept!IsPrefix, r, q

LEMMA OnDiskTyped ==
  ASSUME LogInv, LogInv', NEW d \in Log!Day
  PROVE  Log!OnDisk(d) \in Seq(Byte) /\ Log!OnDisk(d)' \in Seq(Byte)
<1>1. ASSUME NEW f, IsDir(f) PROVE Glue(f) \in Seq(Byte)
  <2>1. Keep \in 0 .. Keep
    BY LogConstants DEF Log!Slot
  <2> QED
    BY <1>1, <2>1, UpToIs DEF Base, Glue
<1> QED
  BY <1>1, OnDiskBoth

LEMMA LogMovesKept ==
  ASSUME LogInv, LogInv', LogMoves
  PROVE  [\E d \in Log!Day : Log!Kept!Writes(d) \/ Log!Kept!Drops(d)]_(Log!logs)
<1>1. CASE \A d \in Log!Day : SameLog(d)
  BY <1>1, LogsAre DEF SameLog
<1>2. ASSUME NEW e \in Log!Day, Added(e) \/ Dropped(e), \A d \in Log!Day : d # e => SameLog(d),
             Log!logs' # Log!logs
      PROVE  Log!Kept!Writes(e) \/ Log!Kept!Drops(e)
  <2>1. PICK l, t : l = Log!OnDisk(e) /\ t = Log!OnDisk(e)'
    OBVIOUS
  <2>2. l \in Seq(Byte) /\ t \in Seq(Byte) /\ l = Log!logs[e] /\ t = Log!logs'[e]
    BY <2>1, OnDiskTyped, LogsAre
  <2>3. \A d \in Log!Day : d # e => Log!logs'[d] = Log!logs[d]
    BY <1>2, LogsAre DEF SameLog
  <2>4. t # l
    BY <1>2, <2>2, <2>3, LogsAre
  <2>5. Log!logs' = [Log!logs EXCEPT ![e] = t]
    BY <2>2, <2>3, LogsAre
  <2>6. CASE Added(e)
    <3>1. PICK w \in Seq(Byte) : t = l \o w
      BY <2>1, <2>6 DEF Added
    <3>2. Log!Kept!IsPrefix(l, t)
      BY <2>2, <3>1, PrefixOf
    <3> QED
      BY <2>2, <2>4, <2>5, <3>2 DEF Log!Kept!Writes, Log!Kept!Becomes
  <2>7. CASE Dropped(e)
    <3>1. PICK v \in Seq(Byte) : l = v \o t
      BY <2>1, <2>7 DEF Dropped
    <3>2. Log!Kept!IsSuffix(t, l)
      BY <2>2, <3>1, SuffixOf
    <3> QED
      BY <2>2, <2>4, <2>5, <3>2 DEF Log!Kept!Drops, Log!Kept!Becomes
  <2> QED
    BY <1>2, <2>6, <2>7
<1> QED
  BY <1>1, <1>2 DEF LogMoves

LEMMA KeptInit == Log!Init => Log!Kept!Init
<1> SUFFICES ASSUME Log!Init PROVE Log!logs = [d \in Log!Day |-> <<>>]
  BY DEF Log!Kept!Init
<1>1. ASSUME NEW d \in Log!Day PROVE Log!logs[d] = <<>>
  <2>1. files[d] = Log!NoFiles
    BY DEF Log!Init
  <2> QED
    BY <2>1, LogsAre, OnDiskIs
<1> QED
  BY <1>1, LogsAre

(* The log implements KeptLog: whatever fails, whenever the process dies, a *)
(* step of the writer appends to the log of one day, drops from its front,  *)
(* or leaves all the logs as they are.                                      *)
THEOREM LogKeepsOrder == Log!Spec => KeepsItsOrder
<1>1. LogInv /\ LogInv' /\ [Log!Next]_(Log!vars)
      => [\E d \in Log!Day : Log!Kept!Writes(d) \/ Log!Kept!Drops(d)]_(Log!logs)
  BY StepLogMoves, LogMovesKept
<1> QED
  BY KeptInit, LogInductive, <1>1, PTL
  DEF Log!Spec, KeepsItsOrder, Log!KeepsItsOrder, Log!Kept!Spec

(* A file that is gone below one that is there; while files are renamed the *)
(* one that was renamed last is gone for a reason.                          *)
Gaps(f)   == {s \in Log!Slot : f[s] = Missing /\ \E t \in Log!Slot : t > s /\ f[t] # Missing}
Moving(d) == IF d = date /\ logPc = "rename" THEN slot + 1
             ELSE IF d = date /\ logPc = "reopen" THEN 0 ELSE Keep

GapsAreBotched == \A d \in Log!Day : Cardinality(Gaps(files[d]) \ {Moving(d)}) <= botched[d]

LEMMA GapsFinite ==
  ASSUME NEW S, NEW T, S \subseteq T, T \subseteq Log!Slot
  PROVE  /\ IsFiniteSet(S) /\ IsFiniteSet(T) /\ Cardinality(S) \in Nat /\ Cardinality(T) \in Nat
         /\ Cardinality(S) <= Cardinality(T)
<1>1. IsFiniteSet(Log!Slot)
  BY LogConstants, FS_Interval DEF Log!Slot
<1>2. IsFiniteSet(T)
  BY <1>1, FS_Subset
<1> QED
  BY <1>2, FS_Subset, FS_CardinalityType

LEMMA OneOff ==
  ASSUME NEW T \in SUBSET Log!Slot, NEW x
  PROVE  /\ Cardinality(T) \in Nat /\ Cardinality(T \ {x}) \in Nat
         /\ Cardinality(T \ {x}) = Cardinality(T) - (IF x \in T THEN 1 ELSE 0)
<1>1. IsFiniteSet(T) /\ Cardinality(T) \in Nat /\ Cardinality(T \ {x}) \in Nat
  <2>1. T \ {x} \subseteq T
    OBVIOUS
  <2> QED
    BY <2>1, GapsFinite
<1> QED
  BY <1>1, FS_RemoveElement

LEMMA LastIsNoGap == ASSUME NEW f PROVE Keep \notin Gaps(f) /\ Gaps(f) \subseteq Log!Slot
BY LogConstants DEF Gaps, Log!Slot

(* Creating the current file and removing the oldest one leave no new gaps. *)
LEMMA GapsShrink ==
  ASSUME NEW f, NEW h, \A s \in Log!Slot : s # Keep /\ f[s] # Missing => h[s] # Missing,
                       \A s \in Log!Slot : s # 0 /\ h[s] # Missing => f[s] # Missing
  PROVE  Gaps(h) \subseteq Gaps(f)
<1> SUFFICES ASSUME NEW s \in Gaps(h) PROVE s \in Gaps(f)
  OBVIOUS
<1>1. PICK t \in Log!Slot : t > s /\ h[t] # Missing
  BY DEF Gaps
<1>2. s \in Log!Slot /\ h[s] = Missing /\ s # Keep /\ t # 0
  BY <1>1, LogConstants DEF Gaps, Log!Slot
<1> QED
  BY <1>1, <1>2 DEF Gaps

(* The renaming of a file moves its gap along with it.                      *)
LEMMA GapMoves ==
  ASSUME NEW f, NEW h, NEW k \in 0 .. Keep - 1, f[k + 1] = Missing,
         \/ h = f /\ f[k] = Missing
         \/ /\ f[k] # Missing /\ h[k + 1] # Missing /\ h[k] = Missing
            /\ \A s \in Log!Slot : s # k /\ s # k + 1 => h[s] = f[s]
  PROVE  Cardinality(Gaps(h) \ {k}) <= Cardinality(Gaps(f) \ {k + 1})
<1>1. k \in Log!Slot /\ k + 1 \in Log!Slot /\ k \in Nat /\ k + 1 > k
      /\ \A s \in Log!Slot : s \in Nat
  BY LogConstants DEF Log!Slot
<1>2. CASE h = f /\ f[k] = Missing
  <2>1. k + 1 \in Gaps(f) => k \in Gaps(f)
    BY <1>1, <1>2 DEF Gaps
  <2>2. PICK G \in SUBSET Log!Slot : G = Gaps(f)
    BY LastIsNoGap
  <2>3. /\ Cardinality(G) \in Nat
        /\ Cardinality(G \ {k}) = Cardinality(G) - (IF k \in G THEN 1 ELSE 0)
        /\ Cardinality(G \ {k + 1}) = Cardinality(G) - (IF k + 1 \in G THEN 1 ELSE 0)
    BY OneOff
  <2> QED
    BY <1>2, <2>1, <2>2, <2>3
<1>3. CASE ~ (h = f /\ f[k] = Missing)
  <2>1. ASSUME NEW s \in Gaps(h) \ {k} PROVE s \in Gaps(f) \ {k + 1}
    <3>1. s \in Log!Slot /\ h[s] = Missing /\ s # k /\ s # k + 1 /\ f[s] = Missing
      BY <1>3, <2>1 DEF Gaps
    <3>2. PICK t \in Log!Slot : t > s /\ h[t] # Missing
      BY <2>1 DEF Gaps
    <3>3. CASE t = k + 1
      <4>1. k > s /\ f[k] # Missing
        BY <1>1, <1>3, <3>1, <3>2, <3>3
      <4> QED
        BY <1>1, <3>1, <4>1 DEF Gaps
    <3>4. CASE t # k + 1
      <4>1. f[t] # Missing
        BY <1>3, <3>2, <3>4
      <4> QED
        BY <3>1, <3>2, <4>1 DEF Gaps
    <3> QED
      BY <3>3, <3>4
  <2>2. Gaps(h) \ {k} \subseteq Gaps(f) \ {k + 1} /\ Gaps(f) \ {k + 1} \subseteq Log!Slot
    BY <2>1, LastIsNoGap
  <2> QED
    BY <2>2, GapsFinite
<1> QED
  BY <1>2, <1>3

(* A step that is no rename, and that leaves a rotation only as botched.    *)
LEMMA GapsKept ==
  ASSUME LogInv, LogInv', GapsAreBotched,
         \A d \in Log!Day : Gaps(files'[d]) \subseteq Gaps(files[d]),
         \A d \in Log!Day : \/ Moving(d)' = Moving(d) \/ Moving(d) = Keep
                            \/ Moving(d) \notin Gaps(files'[d])
                            \/ botched'[d] = botched[d] + 1,
         \A d \in Log!Day : botched'[d] \in {botched[d], botched[d] + 1}
  PROVE  GapsAreBotched'
<1> SUFFICES ASSUME NEW d \in Log!Day
             PROVE  Cardinality(Gaps(files'[d]) \ {Moving(d)'}) <= botched'[d]
  BY DEF GapsAreBotched
<1>1. PICK F, G, m, n : /\ F = Gaps(files[d]) /\ G = Gaps(files'[d])
                       /\ m = Moving(d) /\ n = Moving(d)'
                       /\ F \in SUBSET Log!Slot /\ G \in SUBSET Log!Slot
  BY LastIsNoGap
<1>2. G \subseteq F /\ Cardinality(F \ {m}) <= botched[d] /\ Keep \notin F
  BY <1>1, LastIsNoGap DEF GapsAreBotched
<1>3. /\ Cardinality(F) \in Nat
      /\ Cardinality(F \ {m}) = Cardinality(F) - (IF m \in F THEN 1 ELSE 0)
      /\ Cardinality(G) \in Nat
      /\ Cardinality(G \ {m}) = Cardinality(G) - (IF m \in G THEN 1 ELSE 0)
      /\ Cardinality(G \ {n}) = Cardinality(G) - (IF n \in G THEN 1 ELSE 0)
  BY <1>1, OneOff
<1>4. Cardinality(G) <= Cardinality(F) /\ Cardinality(G \ {m}) <= Cardinality(F \ {m})
  <2>1. G \ {m} \subseteq F \ {m} /\ F \ {m} \subseteq Log!Slot /\ F \subseteq Log!Slot
    BY <1>1, <1>2
  <2> QED
    BY <1>2, <2>1, GapsFinite
<1>5. botched[d] \in Nat /\ botched'[d] \in {botched[d], botched[d] + 1}
  BY DEF LogInv, LogTyped
<1>6. n = m \/ m = Keep \/ m \notin G \/ botched'[d] = botched[d] + 1
  BY <1>1
<1>7. Cardinality(G \ {n}) <= botched'[d]
  <2>1. CASE n = m
    BY <1>2, <1>4, <1>5, <1>3, <2>1
  <2>2. CASE m = Keep \/ m \notin G
    <3>1. m \notin G
      BY <1>2, <2>2
    <3> QED
      BY <1>2, <1>3, <1>4, <1>5, <3>1
  <2>3. CASE botched'[d] = botched[d] + 1
    BY <1>2, <1>3, <1>4, <1>5, <2>3
  <2> QED
    BY <1>6, <2>1, <2>2, <2>3
<1> QED
  BY <1>1, <1>7

(* Only a rename and the removal of the oldest file open gaps.              *)
LEMMA CreatedShrinks ==
  ASSUME LogInv, NEW e \in Log!Day, files' \in {files, Log!Created(e)}
  PROVE  \A d \in Log!Day : Gaps(files'[d]) \subseteq Gaps(files[d])
<1> TAKE d \in Log!Day
<1>1. \A s \in Log!Slot : /\ files[d][s] # Missing => files'[d][s] # Missing
                          /\ s # 0 /\ files'[d][s] # Missing => files[d][s] # Missing
  BY CreatedIs DEF LogInv
<1> QED
  BY <1>1, GapsShrink

LEMMA GapsGiveUp == ASSUME LogInv, LogInv', GapsAreBotched, Log!GivesUp, date' = date
                    PROVE  GapsAreBotched'
<1>1. date \in Log!Day /\ botched \in [Log!Day -> Nat]
  BY DEF LogInv, LogTyped
<1>2. \A d \in Log!Day : Gaps(files'[d]) \subseteq Gaps(files[d])
  <2>1. files' \in {files, Log!Created(date)}
    BY DEF Log!GivesUp, Log!OpensFile
  <2> QED
    BY <1>1, <2>1, CreatedShrinks
<1>3. ASSUME NEW d \in Log!Day
      PROVE  /\ Moving(d) = Keep \/ botched'[d] = botched[d] + 1
             /\ botched'[d] \in {botched[d], botched[d] + 1}
  BY <1>1 DEF Log!GivesUp, Log!Botched, Moving
<1> QED
  BY <1>2, <1>3, GapsKept

LEMMA GapsRemove == ASSUME LogInv, LogInv', GapsAreBotched, Log!Removes
                    PROVE  GapsAreBotched'
<1>1. date \in Log!Day /\ files \in [Log!Day -> [Log!Slot -> Content]] /\ date' = date
      /\ logPc = "remove"
  BY DEF LogInv, LogTyped, Log!Removes
<1>2. CASE Log!GivesUp
  BY <1>1, <1>2, GapsGiveUp
<1>3. CASE ~ Log!GivesUp
  <2>1. files' = [files EXCEPT ![date][Keep] = Missing] /\ botched' = botched
    BY <1>3 DEF Log!Removes
  <2>2. ASSUME NEW d \in Log!Day PROVE Gaps(files'[d]) \subseteq Gaps(files[d])
    <3>1. \A s \in Log!Slot : /\ s # Keep => files'[d][s] = files[d][s]
                              /\ files'[d][s] # Missing => files[d][s] # Missing
      BY <1>1, <2>1, LogConstants
    <3> QED
      BY <3>1, GapsShrink
  <2>3. \A d \in Log!Day : Moving(d) = Keep
    BY <1>1 DEF Moving
  <2> QED
    BY <2>1, <2>2, <2>3, GapsKept
<1> QED
  BY <1>2, <1>3

LEMMA GapsRename == ASSUME LogInv, LogInv', GapsAreBotched, Log!Renames
                    PROVE  GapsAreBotched'
<1>1. date \in Log!Day /\ files \in [Log!Day -> [Log!Slot -> Content]] /\ date' = date
      /\ logPc = "rename" /\ botched \in [Log!Day -> Nat]
  BY DEF LogInv, LogTyped, Log!Renames
<1>2. CASE Log!GivesUp
  BY <1>1, <1>2, GapsGiveUp
<1>3. CASE ~ Log!GivesUp
  <2>1. /\ files' = IF files[date][slot] = Missing THEN files
                    ELSE [files EXCEPT ![date][slot + 1] = files[date][slot],
                                       ![date][slot] = Missing]
        /\ slot' = (IF slot = 0 THEN 0 ELSE slot - 1)
        /\ logPc' = (IF slot = 0 THEN "reopen" ELSE "rename")
        /\ botched' = botched
    BY <1>3 DEF Log!Renames
  <2>2. slot \in 0 .. Keep - 1 /\ files[date][slot + 1] = Missing
    BY <1>1 DEF LogInv, OpenIsThere
  <2>3. slot \in Log!Slot /\ slot + 1 \in Log!Slot /\ slot + 1 # slot
    BY <2>2, LogConstants
  <2>4. Moving(date) = slot + 1
    BY <1>1 DEF Moving
  <2>5. Moving(date)' = slot
    <3>1. CASE slot = 0
      BY <2>1, <3>1 DEF Moving
    <3>2. CASE slot # 0
      BY <1>1, <2>1, <2>2, <3>2, LogConstants DEF Moving
    <3> QED
      BY <3>1, <3>2
  <2>6. PICK f, h : f = files[date] /\ h = files'[date]
    OBVIOUS
  <2>7. \/ h = f /\ f[slot] = Missing
        \/ /\ f[slot] # Missing /\ h[slot + 1] # Missing /\ h[slot] = Missing
           /\ \A s \in Log!Slot : s # slot /\ s # slot + 1 => h[s] = f[s]
    BY <1>1, <2>1, <2>3, <2>6
  <2>8. Cardinality(Gaps(h) \ {slot}) <= Cardinality(Gaps(f) \ {slot + 1})
    BY <2>2, <2>6, <2>7, GapMoves
  <2>9. ASSUME NEW d \in Log!Day
        PROVE  Cardinality(Gaps(files'[d]) \ {Moving(d)'}) <= botched'[d]
    <3>1. CASE d = date
      <4>1. /\ Cardinality(Gaps(f) \ {slot + 1}) <= botched[d] /\ botched[d] \in Nat
            /\ Cardinality(Gaps(h) \ {slot}) \in Nat /\ Cardinality(Gaps(f) \ {slot + 1}) \in Nat
        BY <1>1, <2>4, <2>6, <3>1, LastIsNoGap, OneOff DEF GapsAreBotched
      <4> QED
        BY <1>1, <2>1, <2>5, <2>6, <2>8, <3>1, <4>1
    <3>2. CASE d # date
      <4>1. files'[d] = files[d] /\ Moving(d)' = Moving(d)
        BY <1>1, <2>1, <3>2 DEF Moving
      <4> QED
        BY <2>1, <4>1 DEF GapsAreBotched
    <3> QED
      BY <3>1, <3>2
  <2> QED
    BY <2>9 DEF GapsAreBotched
<1> QED
  BY <1>2, <1>3

LEMMA GapsReopen == ASSUME LogInv, LogInv', GapsAreBotched, Log!Reopens
                    PROVE  GapsAreBotched'
<1>1. date \in Log!Day /\ botched \in [Log!Day -> Nat] /\ logPc = "reopen"
  BY DEF LogInv, LogTyped, Log!Reopens, Log!Goes
<1>2. files' \in {files, Log!Created(date)}
  BY DEF Log!Reopens, Log!OpensFile, Log!OpenFails
<1>3. \A d \in Log!Day : Gaps(files'[d]) \subseteq Gaps(files[d])
  BY <1>1, <1>2, CreatedShrinks
<1>4. ASSUME NEW d \in Log!Day
      PROVE  /\ Moving(d) = Keep \/ Moving(d) \notin Gaps(files'[d]) \/ botched'[d] = botched[d] + 1
             /\ botched'[d] \in {botched[d], botched[d] + 1}
  <2>1. CASE botched' = botched
    <3>1. files' = Log!Created(date)
      <4>1. ~ Log!Botched
        BY <1>1, <2>1 DEF Log!Botched
      <4> QED
        BY <4>1 DEF Log!Reopens, Log!OpensFile
    <3>2. files'[date][0] # Missing
      BY <1>1, <3>1, CreatedIs DEF LogInv
    <3>3. d = date => Moving(d) = 0 /\ 0 \notin Gaps(files'[d])
      BY <1>1, <3>2 DEF Moving, Gaps
    <3>4. d # date => Moving(d) = Keep
      BY DEF Moving
    <3> QED
      BY <2>1, <3>3, <3>4
  <2>2. CASE botched' # botched
    BY <1>1, <2>2 DEF Log!Reopens, Log!Botched, Moving
  <2> QED
    BY <2>1, <2>2
<1> QED
  BY <1>3, <1>4, GapsKept

LEMMA GapsAppend == ASSUME LogInv, LogInv', GapsAreBotched, Log!Appends
                    PROVE  GapsAreBotched'
<1>1. date \in Log!Day /\ files \in [Log!Day -> [Log!Slot -> Content]]
      /\ logPc = "append" /\ botched' = botched
  BY DEF LogInv, LogTyped, Log!Appends, Log!Goes
<1>2. ASSUME NEW d \in Log!Day PROVE Gaps(files'[d]) \subseteq Gaps(files[d])
  <2>1. CASE ~ open
    BY <2>1 DEF Log!Appends
  <2>2. CASE open
    <3>1. PICK c : files' = [files EXCEPT ![date][0] = c]
      BY <2>2 DEF Log!Appends
    <3>2. files[date][0] # Missing /\ files' \in [Log!Day -> [Log!Slot -> Content]]
      BY <2>2 DEF LogInv, LogTyped, OpenIsThere
    <3>3. open'  /\ date' = date
      BY <2>2 DEF Log!Appends
    <3>4. files'[date][0] # Missing
      BY <3>3 DEF LogInv, OpenIsThere
    <3>5. \A s \in Log!Slot : /\ files[d][s] # Missing => files'[d][s] # Missing
                              /\ s # 0 => files'[d][s] = files[d][s]
      BY <1>1, <3>1, <3>4, LogConstants
    <3> QED
      BY <3>5, GapsShrink
  <2> QED
    BY <2>1, <2>2
<1>3. \A d \in Log!Day : Moving(d) = Keep
  BY <1>1 DEF Moving
<1> QED
  BY <1>1, <1>2, <1>3, GapsKept

LEMMA GapsStep ==
  LogInv /\ LogInv' /\ GapsAreBotched /\ [Log!Next]_(Log!vars) => GapsAreBotched'
<1> SUFFICES ASSUME LogInv, LogInv', GapsAreBotched, [Log!Next]_(Log!vars)
             PROVE  GapsAreBotched'
  OBVIOUS
<1>1. clock \in Log!Day /\ date \in Log!Day /\ botched \in [Log!Day -> Nat]
  BY DEF LogInv, LogTyped
<1>2. CASE \/ Log!Starts \/ Log!Dates \/ Log!Measures \/ Log!Closes
           \/ \E n \in 1 .. MaxLine : Log!Write(n)
  <2>1. /\ files' \in {files, Log!Created(clock)}
        /\ logPc \notin {"rename", "reopen"}
    BY <1>2 DEF Log!Starts, Log!Dates, Log!Measures, Log!Closes, Log!Write, Log!OpensFile,
       Log!OpenFails, Log!disk, Log!Goes
  <2>2. botched' = botched \/ Log!Botched
    BY <1>2 DEF Log!Starts, Log!Dates, Log!Measures, Log!Closes, Log!Write
  <2>3. ASSUME NEW d \in Log!Day
        PROVE  Moving(d) = Keep /\ botched'[d] \in {botched[d], botched[d] + 1}
    BY <1>1, <2>1, <2>2 DEF Moving, Log!Botched
  <2>4. \A d \in Log!Day : Gaps(files'[d]) \subseteq Gaps(files[d])
    BY <1>1, <2>1, CreatedShrinks
  <2> QED
    BY <2>3, <2>4, GapsKept
<1>3. CASE Log!Midnight \/ UNCHANGED Log!vars
  <2>1. UNCHANGED <<files, botched, date, logPc, slot>>
    BY <1>3 DEF Log!Midnight, Log!vars, Log!disk
  <2> QED
    BY <2>1 DEF GapsAreBotched, Moving
<1>4. CASE Log!Dies
  <2>1. files' = files
    BY <1>4 DEF Log!Dies, Log!disk
  <2>2. ASSUME NEW d \in Log!Day
        PROVE  /\ Moving(d) = Keep \/ botched'[d] = botched[d] + 1
               /\ botched'[d] \in {botched[d], botched[d] + 1}
    BY <1>1, <1>4 DEF Log!Dies, Log!Botched, Moving
  <2> QED
    BY <2>1, <2>2, GapsKept
<1> QED
  BY <1>2, <1>3, <1>4, GapsRemove, GapsRename, GapsReopen, GapsAppend DEF Log!Next

LEMMA GapsInit == Log!Init => GapsAreBotched
<1> SUFFICES ASSUME Log!Init, NEW d \in Log!Day
             PROVE  Cardinality(Gaps(files[d]) \ {Moving(d)}) <= botched[d]
  BY DEF GapsAreBotched
<1>1. Gaps(files[d]) \ {Moving(d)} = {} /\ botched[d] = 0
  BY DEF Log!Init, Log!NoFiles, Gaps
<1> QED
  BY <1>1, FS_EmptySet

(* What a step takes from the log of a day it takes when all the files of   *)
(* the day are there but the gaps.                                          *)
LEMMA StepKeeps ==
  ASSUME LogInv, LogInv', GapsAreBotched, LogMoves, NEW d \in Log!Day,
         files'[d] # files[d], Len(Log!OnDisk(d)') < Len(Log!OnDisk(d))
  PROVE  Cardinality({s \in Log!Slot : files[d][s] = Missing}) <= botched[d]
<1>1. PICK l, t : l = Log!OnDisk(d) /\ t = Log!OnDisk(d)'
  OBVIOUS
<1>2. l \in Seq(Byte) /\ t \in Seq(Byte) /\ Len(l) \in Nat /\ Len(t) \in Nat /\ Len(t) < Len(l)
  BY <1>1, OnDiskTyped
<1>3. t # l
  BY <1>2
<1>4. \A w \in Seq(Byte) : t # l \o w
  BY <1>2
<1>5. d = date /\ logPc = "remove" /\ files[d][Keep] # Missing
  BY <1>1, <1>3, <1>4 DEF LogMoves, SameLog, Added
<1>6. {s \in Log!Slot : files[d][s] = Missing} \subseteq Gaps(files[d]) \ {Moving(d)}
  BY <1>5, LogConstants DEF Gaps, Moving, Log!Slot
<1>7. /\ Gaps(files[d]) \ {Moving(d)} \subseteq Log!Slot
      /\ Cardinality(Gaps(files[d]) \ {Moving(d)}) <= botched[d] /\ botched[d] \in Nat
  BY LastIsNoGap DEF GapsAreBotched, LogInv, LogTyped
<1>8. PICK S, T : /\ S = {s \in Log!Slot : files[d][s] = Missing}
                  /\ T = Gaps(files[d]) \ {Moving(d)}
  OBVIOUS
<1> QED
  BY <1>6, <1>7, <1>8, GapsFinite

(* LogRotate counts as FiniteSets does.                                     *)
LEMMA CountsAlike == \A S : Log!Cardinality(S) = Cardinality(S)
BY DEF Log!Cardinality, Cardinality, Log!IsFiniteSet, IsFiniteSet

(* A line of a day goes only when the current file and all the older ones   *)
(* are there, but for one for each of its rotations that did not end well.  *)
THEOREM LogKeepsTheLast == Log!Spec => KeepsTheLast
<1>1. LogInv /\ LogInv' /\ GapsAreBotched /\ [Log!Next]_(Log!vars)
      => [\A d \in Log!Day : files'[d] # files[d] /\ Len(Log!OnDisk(d)') < Len(Log!OnDisk(d))
            => Log!Cardinality({s \in Log!Slot : files[d][s] = Missing}) <= botched[d]]_(Log!vars)
  BY StepLogMoves, StepKeeps, CountsAlike
<1>2. Log!Spec => []GapsAreBotched
  BY GapsInit, GapsStep, LogInductive, PTL DEF Log!Spec
<1> QED
  BY <1>1, <1>2, LogInductive, PTL DEF Log!Spec, KeepsTheLast, Log!KeepsTheLast
=============================================================================
