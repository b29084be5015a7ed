----------------------------- MODULE Ps1Outputs -----------------------------
(***************************************************************************)
(* What the PS1 jobs of one destination put on it: conversions to VCD with *)
(* the manifests of multi-disc sets, and Ember copies.  An item may have   *)
(* any number of jobs.  A plan is computed from the library row of the     *)
(* item and then from the rows of its group, in two reads, possibly while  *)
(* an earlier job writes; the user edits the library at any time.  Names   *)
(* are records: a VCD's serial, the clean stem of its title and the number *)
(* of its "(Disc N)" tail (0: none).                                       *)
(***************************************************************************)
EXTENDS Naturals, Sequences, FiniteSets, SequencesExt

CONSTANTS Items,       \* library ids, numbers
          Stems,       \* titles without their disc tail
          LongStems,   \* stems that fill a file name: a tail is cut off
          Clean,       \* [Stems -> Stems]: forbidden characters replaced
          Groups,      \* multi-disc group ids
          NoGroup,     \* a NULL group
          Boot,        \* [Items -> ...]: the BOOT entry in the disc's SYSTEM.CNF
          Serials,     \* well-formed serials
          NoSerial,
          EmberFiles,  \* [Items -> sequence of file names: CUE and BINs]
          MaxDiscs,    \* discs POPSTARTER can swap
          EditTitles,  \* titles the user may choose
          Jobs,        \* the rows of the queue
          NoJob,
          Item, Kind,  \* of each: library_item_id, "convert" or "ember"
          Libraries,   \* libraries to start from
          MaxJobs, MaxEdits,
          MaxTroubles  \* failed writes and crashes together

ASSUME ItemAssumption ==
    Items \subseteq Nat \ {0} /\ IsFiniteSet(Items) /\ NoGroup \notin Groups
ASSUME BoundAssumption ==
    {MaxDiscs, MaxJobs, MaxEdits, MaxTroubles} \subseteq Nat
ASSUME NameAssumption == /\ LongStems \subseteq Stems
                         /\ Clean \in [Stems -> Stems]
                         /\ NoSerial \notin Serials
ASSUME EmberAssumption == EmberFiles \in [Items -> Seq(STRING)]

Titles == [stem : Stems, disc : Nat]
Row == [group : Groups \cup {NoGroup}, title : Titles, index : Nat]
ASSUME LibraryAssumption == Libraries \subseteq [Items -> Row] /\ EditTitles \subseteq Titles
ASSUME JobAssumption == /\ NoJob \notin Jobs
                        /\ Item \in [Jobs -> Items]
                        /\ Kind \in [Jobs -> {"convert", "ember"}]

VARIABLES lib,       \* library_items: group, title and disc index
          job,       \* "none", "pending", "running", "done", "error"
          prep,      \* plans: the row read, the outputs, when they were read;
                     \* a finished job's is kept as history
          pc, cur,   \* the runner: "idle", "plan", "write", "verify"
          ahead,     \* the job whose plan is made ahead
          n,         \* outputs of the current plan that are committed
          device,    \* files at their final paths
          unchecked, \* history: images there that were not read back yet
          left,      \* history: VCDs there whose removal failed
          touched,   \* history: <<item, path>> ever committed or removed
          doubt,     \* history: <<item, path>> of images written by a job of
                     \* the item and read back by none since
          stale,     \* history: something was written from an outdated plan
          edits, jobs, fails, crashes

vars == <<lib, job, prep, pc, cur, ahead, n, device, unchecked, left,
          touched, doubt, stale, edits, jobs, fails, crashes>>
runner == <<pc, cur, ahead, n>>
files == <<device, unchecked, left, touched, doubt, stale>>
counters == <<jobs, fails, crashes>>
-----------------------------------------------------------------------------
(* Names. *)

\* ExtractSerial: the BOOT entry's serial, when the disc has a valid one.
ExtractSerial(i) == IF Boot[i] \in Serials THEN Boot[i] ELSE NoSerial

\* VCDFileName and SanitizeTitle: the tail of a title is the first to be cut.
VCDFileName(serial, stem, disc) ==
    [serial |-> serial, stem |-> Clean[stem],
     disc |-> IF stem \in LongStems THEN 0 ELSE disc]

\* groupedVCDName: a title that ends in a disc marker keeps it.
GroupedVCDName(i, row, position) ==
    VCDFileName(ExtractSerial(i), row.title.stem,
        IF row.group = NoGroup \/ row.title.disc # 0 THEN row.title.disc
        ELSE IF row.index = 0 THEN position ELSE row.index)

Vcd(name)   == <<"POPS", name, "VCD">>
Discs(name) == <<"POPS", name, "DISCS.TXT">>
Vmc(name)   == <<"POPS", name, "VMCDIR.TXT">>

Image(i, sound) == [item |-> i, sound |-> sound]
Output(path, content) == [path |-> path, content |-> content]
-----------------------------------------------------------------------------
(* Plans: the files a job will write, in order; none when it is refused. *)

Members(rows, g) == {i \in Items : rows[i].group = g}

\* Mutant: a sort that forgets the disc index.
ById(rows, set) == SetToSortSeq(set, LAMBDA a, b : a < b)

\* sortByDiscIndex
Before(rows, a, b) == \/ rows[a].index < rows[b].index
                      \/ rows[a].index = rows[b].index /\ a < b

ByDiscIndex(rows, set) ==
    CHOOSE order \in [1 .. Cardinality(set) -> set] :
        \A p, q \in 1 .. Cardinality(set) : p < q => Before(rows, order[p], order[q])

\* validateVCDs: two to MaxDiscs entries, all different.
ValidSet(names) == Len(names) \in 2 .. MaxDiscs /\ IsInjective(names)

\* The files of a multi-disc set besides the VCDs: the same in every folder.
Manifests(names) ==
    [k \in 1 .. 2 * Len(names) |->
        LET name == names[(k + 1) \div 2]
        IN  IF k % 2 = 1 THEN Output(Discs(name), names)
            ELSE Output(Vmc(name), names[1])]

\* planConvert: row is the item's as it was read first, rows are the
\* group's as they were listed later.  An item that is not among them keeps
\* the name it has as the first disc.
PlanConvert(i, row, rows) ==
    LET order == ByDiscIndex(rows, Members(rows, row.group))
        names == [p \in 1 .. Len(order) |-> GroupedVCDName(order[p], rows[order[p]], p)]
        own   == {p \in 1 .. Len(order) : order[p] = i}
        name  == IF own = {} THEN GroupedVCDName(i, row, 1) ELSE names[CHOOSE p \in own : TRUE]
        image == <<Output(Vcd(name), Image(i, TRUE))>>
    IN  IF row.group = NoGroup THEN <<Output(Vcd(GroupedVCDName(i, row, 1)), Image(i, TRUE))>>
        ELSE IF ValidSet(names) THEN image \o Manifests(names) ELSE <<>>

\* planEmber: the folder is named after the title, whatever the group is.
PlanEmber(i, row) ==
    LET folder == VCDFileName(NoSerial, row.title.stem, row.title.disc)
    IN  [k \in 1 .. Len(EmberFiles[i]) |->
            Output(<<"EMBER", folder, EmberFiles[i][k]>>, Image(i, TRUE))]

Plan(i, k, row, rows) ==
    IF k = "convert" THEN PlanConvert(i, row, rows) ELSE PlanEmber(i, row)
-----------------------------------------------------------------------------
NoRow == [group |-> NoGroup, title |-> [stem |-> CHOOSE s \in Stems : TRUE, disc |-> 0],
          index |-> 0]
NoPrep == [stage |-> "none", row |-> NoRow, outputs |-> <<>>, version |-> 0, torn |-> FALSE]

Init ==
    /\ lib \in Libraries
    /\ job = [j \in Jobs |-> "none"] /\ prep = [j \in Jobs |-> NoPrep]
    /\ pc = "idle" /\ cur = NoJob /\ ahead = NoJob /\ n = 0
    /\ device = <<>> /\ unchecked = {} /\ left = {}
    /\ touched = {} /\ doubt = {} /\ stale = FALSE
    /\ edits = 0 /\ jobs = 0 /\ fails = 0 /\ crashes = 0

Pending == {j \in Jobs : job[j] = "pending"}

\* enqueueItems: Estimate must be able to plan the job; the item's other
\* jobs do not matter.
Enqueue(j) ==
    /\ job[j] = "none" /\ jobs < MaxJobs
    /\ Plan(Item[j], Kind[j], lib[Item[j]], lib) # <<>>
    /\ job' = [job EXCEPT ![j] = "pending"] /\ jobs' = jobs + 1
    /\ UNCHANGED <<lib, prep, runner, files, edits, fails, crashes>>

\* RetryJob asks nothing of the library.
RetryJob(j) ==
    /\ job[j] = "error" /\ jobs < MaxJobs
    /\ job' = [job EXCEPT ![j] = "pending"] /\ jobs' = jobs + 1
    /\ UNCHANGED <<lib, prep, runner, files, edits, fails, crashes>>

\* NextPending, and awaitPrep when this is the job prepared ahead; the plan
\* of any other job is thrown away.
Claims(j) ==
    /\ pc = "idle" /\ j \in Pending
    /\ job' = [job EXCEPT ![j] = "running"]
    /\ prep' = IF ahead \in {NoJob, j} THEN prep ELSE [prep EXCEPT ![ahead] = NoPrep]
    /\ pc' = "plan" /\ cur' = j /\ ahead' = NoJob
    /\ UNCHANGED <<lib, n, files, edits, counters>>

Planned(j) == (pc = "plan" /\ cur = j) \/ ahead = j

\* prepare: lib.Get reads the item.
GetsItem(j) ==
    /\ Planned(j) /\ prep[j].stage = "none"
    /\ prep' = [prep EXCEPT ![j] =
                   [@ EXCEPT !.stage = "row", !.row = lib[Item[j]], !.version = edits]]
    /\ UNCHANGED <<lib, job, runner, files, edits, counters>>

\* planConvert and planEmber: the sheet is parsed and the group listed; a
\* source file, or the BIOS an Ember copy wants, may not be there any more.
ListsSiblings(j, found) ==
    /\ Planned(j) /\ prep[j].stage = "row"
    /\ found \/ fails + crashes < MaxTroubles
    /\ prep' = [prep EXCEPT ![j] =
                   [@ EXCEPT !.stage = "made", !.torn = edits # prep[j].version,
                             !.outputs = IF found THEN Plan(Item[j], Kind[j], prep[j].row, lib)
                                         ELSE <<>>]]
    /\ UNCHANGED <<lib, job, runner, files, edits, counters>>

Outputs == prep[cur].outputs
Target == Outputs[1].path

\* RunDestination: the next plan is begun, then a refused job is parked and
\* any other is written.
Begins(next) ==
    /\ pc = "plan" /\ prep[cur].stage = "made"
    /\ IF Pending = {} THEN next = NoJob ELSE next \in Pending
    /\ ahead' = next /\ n' = 0
    /\ IF Outputs = <<>>
       THEN /\ job' = [job EXCEPT ![cur] = "error"] /\ pc' = "idle"
            /\ prep' = [prep EXCEPT ![cur] = NoPrep] /\ cur' = NoJob
       ELSE pc' = "write" /\ UNCHANGED <<job, cur, prep>>
    /\ UNCHANGED <<lib, files, edits, counters>>

Put(path, content) ==
    [p \in DOMAIN device \cup {path} |-> IF p = path THEN content ELSE device[p]]

\* StageFile and Commit of the image, CopyToDest of every other file; the
\* device may have kept something else than what it was given.
Commits(sound) ==
    /\ pc = "write"
    /\ LET o == Outputs[n + 1]
           image == IF Kind[cur] = "ember" \/ n = 0 THEN {o.path} ELSE {}
       IN  /\ sound \/ (image # {} /\ fails + crashes < MaxTroubles)
           /\ device' = Put(o.path, IF sound THEN o.content ELSE Image(Item[cur], FALSE))
           /\ unchecked' = unchecked \cup image
           /\ left' = left \ image
           /\ touched' = touched \cup {<<Item[cur], o.path>>}
           /\ doubt' = doubt \cup ({Item[cur]} \X image)
    /\ stale' = (stale \/ prep[cur].version # edits \/ prep[cur].torn)
    /\ n' = n + 1
    /\ pc' = IF Kind[cur] = "ember" \/ n + 1 = Len(Outputs) THEN "verify" ELSE "write"
    /\ UNCHANGED <<lib, job, prep, cur, ahead, edits, counters>>

\* What is read back: the file just copied, or the converted image.
Verified == IF Kind[cur] = "ember" THEN Outputs[n] ELSE Outputs[1]

\* verifyFile and runConvert's hashFile agree with what was written.
VerifyPasses ==
    /\ pc = "verify" /\ device[Verified.path] = Verified.content
    /\ unchecked' = unchecked \ {Verified.path}
    /\ doubt' = doubt \ {<<Item[cur], Verified.path>>}
    /\ IF n < Len(Outputs)
       THEN pc' = "write" /\ UNCHANGED <<job, cur>>
       ELSE pc' = "idle" /\ cur' = NoJob /\ job' = [job EXCEPT ![cur] = "done"]
    /\ UNCHANGED <<lib, prep, ahead, n, device, left, touched, stale, edits, counters>>

\* Mutant: everything the job wrote is taken back.
TakenBackAll == IF Kind[cur] = "convert" THEN {Outputs[k].path : k \in 1 .. n} ELSE {}

\* Mutant: nothing is.
TakenBackNot == {}

\* What a failing conversion takes back: its VCD once it was committed, and
\* never the manifests it shares with its siblings' jobs.
TakenBack == IF Kind[cur] = "convert" /\ n > 0 THEN {Target} ELSE {}

\* An error, a cancel or a shutdown before the next file, or a read-back
\* that fails: the job waits for another try or is parked.  Where the removal
\* fails too (the drive went away), its error is ignored.
Fails(status, gone) ==
    /\ pc \in {"write", "verify"}
    /\ fails + crashes < MaxTroubles \/ (pc = "verify" /\ device[Verified.path] # Verified.content)
    /\ IF gone THEN /\ device' = Restrict(device, DOMAIN device \ TakenBack)
                    /\ unchecked' = unchecked \ TakenBack
                    /\ UNCHANGED left
       ELSE left' = left \cup TakenBack /\ UNCHANGED <<device, unchecked>>
    /\ status \in {"pending", "error"} /\ job' = [job EXCEPT ![cur] = status]
    /\ prep' = [prep EXCEPT ![cur] = NoPrep] /\ pc' = "idle" /\ cur' = NoJob
    /\ fails' = IF fails + crashes < MaxTroubles THEN fails + 1 ELSE fails
    /\ UNCHANGED <<lib, ahead, n, touched, doubt, stale, edits, jobs, crashes>>

\* The process dies; the next one requeues the running job.
Crash ==
    /\ fails + crashes < MaxTroubles /\ pc # "idle"
    /\ crashes' = crashes + 1
    /\ job' = [j \in Jobs |-> IF job[j] = "running" THEN "pending" ELSE job[j]]
    /\ prep' = [j \in Jobs |-> IF job[j] = "done" THEN prep[j] ELSE NoPrep]
    /\ pc' = "idle" /\ cur' = NoJob /\ ahead' = NoJob /\ n' = 0
    /\ UNCHANGED <<lib, files, edits, jobs, fails>>

\* handleLibraryPatch: SetGroup and UpdateTitle.
SetGroup(i, g) ==
    /\ edits < MaxEdits /\ lib[i].group # g
    /\ lib' = [lib EXCEPT ![i].group = g] /\ edits' = edits + 1
    /\ UNCHANGED <<job, prep, runner, files, counters>>

UpdateTitle(i, title) ==
    /\ edits < MaxEdits /\ lib[i].title # title
    /\ lib' = [lib EXCEPT ![i].title = title] /\ edits' = edits + 1
    /\ UNCHANGED <<job, prep, runner, files, counters>>

Next ==
    \/ \E j \in Jobs : Enqueue(j) \/ RetryJob(j) \/ Claims(j) \/ GetsItem(j)
    \/ \E j \in Jobs, found \in BOOLEAN : ListsSiblings(j, found)
    \/ \E next \in Jobs \cup {NoJob} : Begins(next)
    \/ \E sound \in BOOLEAN : Commits(sound)
    \/ VerifyPasses
    \/ \E status \in {"pending", "error"}, gone \in BOOLEAN : Fails(status, gone)
    \/ Crash
    \/ \E i \in Items, g \in Groups \cup {NoGroup} : SetGroup(i, g)
    \/ \E i \in Items, title \in EditTitles : UpdateTitle(i, title)

Spec == Init /\ [][Next]_vars
-----------------------------------------------------------------------------
(* Properties. *)

Names == [serial : Serials \cup {NoSerial}, stem : Stems, disc : Nat]
Path(p) == \/ p[1] = "POPS" /\ p[2] \in Names /\ p[3] \in {"VCD", "DISCS.TXT", "VMCDIR.TXT"}
           \/ p[1] = "EMBER" /\ p[2] \in Names /\ \E i \in Items : p[3] \in ToSet(EmberFiles[i])

\* Types; a runner that works has a running job, which is the only one, and
\* a plan for it; nothing is committed beyond the plan's end.
TypeOK ==
    /\ lib \in [Items -> Row]
    /\ job \in [Jobs -> {"none", "pending", "running", "done", "error"}]
    /\ pc \in {"idle", "plan", "write", "verify"}
    /\ ahead \in Pending \cup {NoJob}
    /\ {j \in Jobs : job[j] = "running"} = IF pc = "idle" THEN {} ELSE {cur}
    /\ pc \in {"write", "verify"} => prep[cur].stage = "made" /\ n <= Len(Outputs)
    /\ pc = "write" => n < Len(Outputs)
    /\ \A p \in DOMAIN device : Path(p) /\ \E i \in Items : <<i, p>> \in touched

\* A finished job whose plan is still what the library says.
Current(j) == /\ job[j] = "done" /\ prep[j].version = edits /\ ~prep[j].torn

\* The items that write what job j writes: its whole set, or its own item.
Team(j) == IF Kind[j] = "convert" /\ lib[Item[j]].group # NoGroup
           THEN Members(lib, lib[Item[j]].group) ELSE {Item[j]}

\* No item outside j's team has ever written or removed the file.
Undisturbed(j, path) == \A i \in Items : <<i, path>> \in touched => i \in Team(j)

\* Everything a finished job wrote stays as it wrote it, whatever the jobs
\* of its set do after it, retries, failures and crashes included: no
\* sibling replaces its VCD or takes back a manifest they share.  An image
\* is in doubt from the time another job of the same item writes it again
\* until one has read it back: when that job fails, it may be gone or
\* damaged beside a row that reads done.  Nothing is said when something was
\* written from an outdated plan, or by an item of another set whose names
\* clash.
DoneStands ==
    \A j \in Jobs : Current(j) /\ ~stale =>
        \A k \in 1 .. Len(prep[j].outputs) :
            LET o == prep[j].outputs[k]
            IN  Undisturbed(j, o.path) /\ <<Item[j], o.path>> \notin doubt =>
                    o.path \in DOMAIN device /\ device[o.path] = o.content

\* What the console finds of item i under a name: its VCD, a list of discs
\* each of which is there, and the folder of the saves.
Listed(i, name) ==
    /\ Vcd(name) \in DOMAIN device /\ device[Vcd(name)] = Image(i, TRUE)
    /\ {Discs(name), Vmc(name)} \subseteq DOMAIN device

Converted(i) == \E j \in Jobs : Item[j] = i /\ Kind[j] = "convert" /\ Current(j)

\* No item outside the set touched a file of theirs, and none is in doubt.
Unspoilt(set) ==
    \A t \in touched : t[1] \in set =>
        t \notin doubt /\ \A i \in Items : <<i, t[2]>> \in touched => i \in set

\* A set of which every disc was converted can be played from any of its
\* discs: each has a VCD with its own image, all their folders hold the same
\* list, it names the discs in playing order and nothing else, and all share
\* one folder of saves.  The jobs may have run in any order and more than
\* once for a disc, with plans made ahead, failures and retries between.
SetPlays ==
    \A g \in Groups :
        LET set == Members(lib, g)
        IN  set # {} /\ ~stale /\ Unspoilt(set) /\ (\A i \in set : Converted(i))
            => \E names \in [set -> {p[2] : p \in DOMAIN device}] :
                /\ \A i \in set : Listed(i, names[i])
                /\ \A i, k \in set :
                    /\ device[Discs(names[i])] = device[Discs(names[k])]
                    /\ device[Vmc(names[i])] = device[Vmc(names[k])]
                    /\ Len(device[Discs(names[i])]) = Cardinality(set)
                    /\ \E p \in 1 .. Cardinality(set) :
                        /\ device[Discs(names[k])][p] = names[i]
                        /\ lib[i].index < lib[k].index =>
                             \E q \in 1 .. Cardinality(set) :
                                 p < q /\ device[Discs(names[k])][q] = names[k]

\* A VCD that was not read back is never left on the device by a process
\* that goes on, unless it could not be removed: it belongs to the conversion
\* that is being written.  A process that dies may leave one, and an Ember
\* copy does (its files are not taken back).
NoUnverifiedVcd ==
    crashes = 0 => \A p \in unchecked \ left :
        p[1] = "POPS" => pc \in {"write", "verify"} /\ p = Target

=============================================================================
