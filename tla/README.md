# TinyPS2Manager: a formal model

TinyPS2Manager (`oplbm`) imports PS1 and PS2 disc images into a library, and copies,
converts or splits them onto drives in the layout that Open PS2 Loader reads. This
directory models the parts of it where ordering, concurrency, partial failure or
arithmetic decide correctness, checks them with TLC on small instances, and proves the
most important results for every value of the constants with TLAPS.

To check a component: `tlc -config X.cfg MCy.tla`. To check its proofs: `tlapm Y_proofs.tla`.

## 1. The system

| component | state it keeps | operations | who calls it |
|---|---|---|---|
| job store (`internal/queue/store.go`) | SQLite tables `jobs`, `queue_state`, `dest_locks`, `destination_settings` | Open (migrations), UpsertSettings, DeleteSettings, Enqueue, NextPending, Checkpoint, FinishJob, RequeueJob, RetryJob, Pause/Resume/Cancel/DeleteJob, Reorder, InFlightBytes, SetPaused, AcquireLock, Heartbeat, ReleaseLock | executor, HTTP handlers, command line |
| executor (`exec.go`, `destinations.go`) | the runners Run has spawned and those that cool down, one goroutine per destination, the cancel function of each running job, plans made ahead | Run (supervisor), LivePaths, RunDestination, waitForPath, recover, prepareAhead, executeJob, fail, the four job kinds, verifyFile | started by `serve`; CancelDestination by the cancel handler |
| lease (`store.go`, `exec.go`) | a `dest_locks` row per destination | acquire, heartbeat every 20 s, release, take over after 60 s | every process that serves a destination |
| write gate, temp files (`gate.go`, `transfer/disk.go`) | a mutex per destination; `.oplbm.*` files on the device | LockDestination, StageFile, Commit, Abort, CopyToDest, SweepStaleTemps | job writes, enrich and prepare handlers, runner start |
| USBExtreme writer (`usbextreme/split.go`) | chunk files and `ul.cfg` at the device root | Write, removeStaleChunks, upsertRecord, List, Open | `runSplit`, the `split` command |
| admission and order (`api/queue.go`, `store.go`) | `jobs."order"`, `bytes_done`, the free space of the device | enqueueItems, Enqueue, Reorder, InFlightBytes, Checkpoint | HTTP handlers, the runner |
| library (`internal/library`) | SQLite table `library_items` | ImportDir (scan, upsert, regroup, detect), SetDiscOverride, SetGroup, UpdateTitle | import and edit handlers, `import` command |
| CUE/BIN conversion (`internal/cuebin`) | none between calls | Parse, BuildPlan, WriteVCD, file names, serial | `runConvert`, `convert` command |
| planners, OPL tree (`queue/plan.go`, `oplfs`) | none | Estimate, plan and preview of each kind, multi-disc manifests | enqueueItems, preparation |
| preflight (`queue/preflight.go`) | none (reads the device) | Preflight | HTTP handler, command |
| enrichment (`art`, `cheats`, `riptopl`, `api/enrich*.go`, `api/prepare.go`) | files on the device, a pinned release | fetch, match, stage | HTTP handlers, commands |
| event stream (`api/events.go`) | last sample of each job, per connection | a polling loop that emits what changed | the web interface |
| logging (`internal/logging`) | the current log file of a day and rotated ones, per process | open, Write (change of day, rotation by size), Close | everything |
| probes, configuration, shells, web interface | none that matters here | | |

How they interact: the HTTP handlers and the executor share the SQLite tables and nothing
else, except the map of cancel functions and the destination gates, which are shared
memory of one process. No statement sequence of the store is a transaction: whatever needs
two statements can be interrupted between them by another handler, by the runner, by
another process (the command line opens the same database) or by a crash. The runner
prepares (plans) in a background goroutine while the previous job writes. The device is
shared by the queue, by the enrich and prepare handlers and, after a crash, with
whatever the dead process left on it.

What is hard, and what makes each component correct:

* **queue and executor**: user operations, cancels, retries, shutdown and crashes in any
  order. One running row per destination; no running row without somebody responsible for
  it; done only with a verified output; no partial output left behind; a parked error
  stops the queue; failing jobs and lost claims do not wedge it; a shutdown ends.
* **supervisor and lease**: check-then-act across processes, and runners that come and go
  with a drive while the probes that look for it may fail. One holder; a dead holder is
  replaced; no runner escapes; a running row is being written; a pending job is taken up;
  a shutdown returns.
* **migrations**: a sequence of separate commits, by any number of processes, each of which
  may die. Nothing is dropped before it was copied; whoever opens next can finish.
* **gate and temp files**: writes by goroutines that do not know each other. Gated writes
  exclude each other, the gate is given back on every way out, temp files do not
  accumulate, and what the user or another request put there is not overwritten.
* **USBExtreme**: many files and an index with no atomic commit over them. Success means
  exactly the new chunks and a record that names them; a record never names a damaged set
  unless a rewrite of that very game is to blame.
* **admission and order**: free space read, bytes summed and rows inserted in separate
  steps while the runner moves bytes from one column to the other. What is taken fits;
  first come, first served; a reorder does what it says.
* **planners and outputs**: a plan is made from the library at one time and carried out at
  another, by one job per disc of a set, and may fail between any two of its files. What
  the finished jobs left stands and plays as one set; no VCD stays that nobody verified.
* **library**: concurrent imports with table-wide temporary ids, and a user who edits
  meanwhile. The user's disc type stands; sets are grouped as scanned and stay apart.
* **conversion**: off-by-one in frames, input that changes between plan and write. Every
  sector in its place or no output; refusals are exactly the invalid sheets.
* **logging**: a rotation is many renames. Lines are neither lost out of turn nor doubled.
* **events**: a client hears of differences between listings. They add up to the listing.
* **preflight**: one disk, seen through UDisks2, through its boot sector or not at all. Who
  sees less is not told "fine" about what the others refuse.

## 2. Modules

| module | models | extends / instance |
|---|---|---|
| `JobLifecycle` | abstract: the legal moves of a job's status, one running job per destination | |
| `Executor` | job rows, the runner, cancel requests, user operations, shutdown, crash | implements `JobLifecycle` (`Lifecycle == INSTANCE`) |
| `Admission` | enqueue requests, order numbers, reorder, bytes of each job and of the device | |
| `Progress` | the phase and bytes of a job's row: tracker, a split's ticker goroutine, the statements that reset them | |
| `DestLease` | the lease row and the processes that contend for it | |
| `Supervisor` | Run, its runners, other processes on the same destination, the drive, the settings and the job | extends `DestLease` and implements it |
| `Staging` | writers of one destination (jobs, enrich, prepare): gate, temp files, sweep, which content is staged and recorded | |
| `UlSplit` | `usbextreme.Write` over chunk files and `ul.cfg` | |
| `Ps1Outputs` | PS1 conversions and Ember copies: plans, names, sets, the files of each job, failures | |
| `Library` | scan, library rows, imports, user edits | |
| `CueMerge` | CUE parser, plan, execution of the plan | |
| `KeptLog` | abstract: what a log promises its reader | |
| `LogRotate` | the rotating writer, system call by system call | implements `KeptLog` (`Kept == INSTANCE KeptLog WITH log <- ...`) |
| `Events` | the event stream and the rows it samples | |
| `Migrate` | Open's migrations, statement by statement | |
| `Preflight` | the rows of the report, as operators over a disk and a view of it | |
| `MCParts` | `UlSplit` and instances of `CueMerge`, `LogRotate`, `Events`, `Migrate`, `Preflight`, `Progress` | |
| other `MC*` | instances for TLC: model values, small inputs, symmetry | each its module |
| `*_proofs` | inductive invariants, lemmas, theorems | each its module and TLAPS |

### Executor

One action is one SQL statement or one visible step of a goroutine. `status`, `attempts`
and `err` are the columns of a row (`"new"` before the insert, `"gone"` after the
delete), `paused` the flag in `queue_state`, `pc`/`cur`/`ahead`/`token`/`why` the local
state of `RunDestination` and `executeJob` (`token` is the entry in `Executor.cancels`),
`rpc`/`rjob` that of `cancelJob`, `temp`/`final` what a job has put on the device,
`stopping` the process context.

| code | actions |
|---|---|
| supervisor spawns a runner, `recover`, first sweep | `Spawn`, `RecoverRow`, `Recovered` |
| loop top, `NextPending` (SELECT, guarded UPDATE, reload) | `Poll`, `Select`, `ClaimRow`, `ClaimLost` |
| `awaitPrep`, `prepare`, `prepareAhead` | `Prepared`, `PrepareFails` |
| `runCopy`, `runConvert`, `runSplit`, `runEmber`, `verifyFile` | `WriteStops`, `WriteCommits`, `VerifyPasses`, `VerifyFails` |
| `executeJob`'s end: FinishJob, RequeueJob, `fail` | `Finish`, `RequeueCancelled`, `CountAttempt`, `RequeueFailed`, `ParkFailed`, `AutoPause`, `Release` |
| `cancelJob` | `CancelReads`, `CancelSignals`, `CancelSeesStop`, `CancelTimesOut`, `CancelDeletes`, `CancelDrops` |
| PATCH pause, resume, retry, skip; POST queue; pause flag | `PauseJob`, `ResumeJob`, `RetryJob`, `SkipJob`, `Enqueue`, `SetPaused` |
| shutdown; end of the process at any moment, and restart | `Shutdown`, `Die` |
| a statement or a removal that fails | `RowDropped`, `RetryDropped`, `PauseDropped`, `TempKept`, `RunnerReturns` |

Abstractions: the order of jobs (any pending row may be the first; `Admission` has the
order), the job kinds (one output that is committed and verified; `Split` are the jobs that
write it in place, chunk by chunk, all others use a temp file), times. Each job has a
final path of its own; jobs that share one are `Ps1Outputs`'s and `UlSplit`'s.

Failing statements: the code drops the errors of `FinishJob`, `RequeueJob` and `SetPaused`
that end a job (`exec.go:360`, `:361`, `:372`, `:373`, `:414`, `:418`, `:424`). `RowDropped`
leaves the row running and lets the runner go on; `stuck` remembers such rows.
`RetryDropped` is a failure of the statements whose error is looked at (`IncrementAttempts`
and the retry's requeue), which parks the job. `PauseDropped` parks a job and lets the queue
go on. `RunnerReturns` is an error of `recover`, the sweep, `Paused` or `NextPending`, which
ends the runner until the supervisor spawns it again. `temp` holds the kinds of partial
output (`Partial`): a temp file that is being written, one whose removal failed, and the
chunk of a split, which neither `split.go:142` nor the sweep removes.

### Admission

`Resolves`, `Admits`, `ReadsMax`, `Inserts` and `Returns` are the statements of
`enqueueItems` and `Enqueue`: the free bytes are read by `ResolveDestination` before the
bytes in flight are summed (`Unknown` when the probe cannot tell, and then nothing is
checked, `queue.go:128`), and rows are inserted one by one. `temp` and `kept` are the
bytes a job has on the device, `done` its `bytes_done` column, which `Checkpoints`
writes some time after the bytes were (`tracker` throttles). The runner is the part of
`Executor` that touches bytes and order: `Selects` and `Claims` are the two statements of
`NextPending`, between which a job may be paused, resumed, retried or deleted, and `Drops` is
a last statement that failed. `Bytes` sums a column over jobs, as the number of bytes that
are there; `Free` is what the device has left of them, `Unwritten` what an admitted job has
yet to write, by its `bytes_done`. A reorder is `MoverReads` (ListJobs) and one
`MoverWrites` per row; `Returns` and `MoverReturns` also stand for a database error that
leaves the rest undone. `earlier`, `waiting` (what was pending when
the runner chose), `goal`, `moved` and `excused` are history variables
that the properties speak of.

### Progress

One job of any kind. `Work(kind)` is what `runCopy`, `runConvert`, `runSplit` and `runEmber`
do that the row shows: the phases they set and the bytes they move, in order. `SetsPhase` and
`Moves` are the tracker, which saves when it sets a phase and otherwise from time to time
(the throttle is a free choice). `StartsTicker`, `Ticks`, `Takes`, `Saves` and `Ends` are the
goroutine of `runSplit`, of which each try has one: `select` may take a tick although the
channel that ends it is closed, and what it took is saved one step later. `Returns` closes
that channel, `Stops` stops the ticker, `Settles` is the rest of `executeJob`. Which outcomes
follow each other, and how often, is `Executor`'s.

### DestLease and Supervisor

`DestLease` counts time in heartbeat intervals. `SeesNoRow`/`SeesStaleRow` are the SELECT
of `AcquireLock`, `Inserts`/`TakesOver` its INSERT and UPDATE. `PromptBeats` is the
assumption that a live owner's heartbeat is not a minute late.

`Supervisor` extends it: a process of `DestLease` is one call of `RunDestination`, either a
goroutine of this `Run` (`Runner`) or another process with the same database.

| code | actions |
|---|---|
| a tick of `Run`: `LivePaths` (volumes, settings, jobs) | `ScanVolumes`, `ScanSettings`, `ScanJobs` |
| the runners map and the cooled map | `Reap`, `Forgets`, `Spawns`, `Rests`, `Cools` |
| `ctx.Done` in `Run` | `CancelsAll`, `Returns` |
| `ResolveDestination`, `waitForPath` | `Resolves`, `Waits` |
| `AcquireLock`, the heartbeat, `ReleaseLock` | `Locks`, `Refused`, `Heartbeats`, `Leaves` |
| `recover`; the loop; `executeJob` as one step, whose last statement may fail (row "stuck") | `Recovers`, `Checks`, `Polls`, `WriteEnds` |
| another `serve` starts, is interrupted, is killed | `OtherStarts`, `OtherStops`, `OtherDies` |
| the drive, the queue and settings handlers, the end of `serve` | `Plugs`, `Enqueues`, `EditsJob`, `Upserts`, `DeleteCounts`, `Deletes`, `Shutdown` |

`Executor` has what this module leaves out (retries, pause, cancels, plans, temp files);
`Supervisor` has what that one takes for granted: that there is one runner, and who it is.

### Staging

One writer per goroutine that writes to the destination: the runner, enrich requests, and
prepare requests. `Gated` are those that call `LockDestination`: `executePrepare` and
`stageLoader` do not.

| code | actions |
|---|---|
| a job is claimed and about to write | `JobStarts` |
| `handleEnrich*` takes up an item; `stageLoader` | `RequestStarts` |
| `art` fetch or generated cover; `cheats.Fetch` and its three sources; `riptopl` Resolve and Download | `FetchCover`, `FetchCheats`, `FetchLoader`, `FetchFails` |
| `LockDestination`, and its unlock | `TakesGate`, `Unlocks` |
| `art.Stage`, `cheats.Stage`, `riptopl.Stage`, `StageFile`, `CopyToDest` | `FindsFile`, `CreatesTemp`, `Aborts`, `Commits` |
| `SetState("loader.<path>")` | `Records` |
| runner start, `SweepStaleTemps`, runner end | `SweepStarts`, `SweepsOne`, `SweepEnds`, `RunnerStops` |
| the user's own files; the end of the process | `PutsByHand`, `Crash` |

The content of a file is abstracted to what the checks of the code tell apart: made by
this program and valid, cheats without exactly one master code ("bad"), a build of the
loader, put there by hand.

### Ps1Outputs

The runner of one destination and the user's edits of the library. `lib` is the part of
`library_items` a plan reads; `device` the files of `POPS` (one VCD per name, manifests and
games folders), `unchecked` the images written but not yet read back. A job is a row of the queue
with its item and kind (`Item`, `Kind`); an item may have several, since `enqueueItems` does
not look for others. `Claims`, `GetsItem` and
`ListsSiblings` are NextPending and the two reads of the planner (`lib.Get`,
`ListByGroupID`), which also run for the next job while one writes (`ahead`); `Begins`
starts on the plan, `Commits` puts its n-th file in place, `VerifyPasses` and `Fails` end
the job, `Fails` with what `runConvert` takes back (`TakenBack`), if the removal works:
its error is ignored. `Crash` ends the process
anywhere; recovery requeues. `PlanConvert` and `PlanEmber` are the planners, `VCDFileName`,
`GroupedVCDName`, `ByDiscIndex`, `ValidSet` and `Manifests` the functions they call.
`ByDiscIndex` is the one order of the discs that agrees with `sortByDiscIndex`'s comparison
(`Before`). Names
are tuples of serial, title and disc marker, as far as the code composes them so.
`touched`, `doubt`, `left`, `stale` and `edits` are history: a job is outdated when the user
edited an item of its set after its plan read it; an image is in doubt from the time a job
of its item writes it until one has read it back; `left` are the VCDs that could not be
taken back.

### UlSplit

`Begin` reads `ul.cfg` and computes the entry, `CreateChunk` truncates or creates a chunk
file, `StreamChunk` completes it, `RemoveStale` is `removeStaleChunks`, `WriteRecord`
`upsertRecord`, which rewrites `ul.cfg` in place. `WriteFails`, `SourceEnds`,
`RecordFails` are its error returns. Removals, of old chunks and after a failure, may fail
unnoticed (`kept`: old chunks that stayed). `Crash` may come anywhere, and in the middle of the
in-place rewrite (`IndexInterrupted`).

### Library

`ScanDir` computes what a scan finds from the files of a directory (copies of an image
count once, under their least key; two candidates under one key make a set). `Scans` ..
`Records` are the statements of `ImportDir` in order, for any number of concurrent
imports; `SetDiscOverride` and `SetGroup` the user's edits. The files of a directory
(`Files`: a content hash, and the directory and stripped title as a number) and what an
image says of itself (`Evidence`) are constants. 0 stands for a NULL group. Titles, disc
numbers, serials and the item's status are left out.

### CueMerge

The sheet is built by one action per directive, in any order, legal or not
(`FileLine`, `TrackLine`, `IndexLine`, `GapLine`, `EndOfSheet`), then `BuildPlan` stats
the BIN files and accepts or refuses, then `WriteOp` executes the plan while `Shrinks`
truncates a BIN. Lengths count 2352-byte sectors; a BIN that ends inside a sector has
size -1. The image a sheet stands for is defined independently of the plan (`IsImage`): by
the sectors it is made of (`Sectors`: a track's PREGAP, the frames of its BIN from its
first mark to the next track's or the BIN's end, its POSTGAP) and the place each one has
among them, not by the order operations append them.

### LogRotate and KeptLog

`Write` is a call of the logger, `Dates` is `switchDate`, `Measures` the size test,
`Closes`, `Removes`, `Renames` (once per file) and `Reopens` the steps of `rotate`,
`GivesUp` its `fail`, `Appends` the write itself, of which a full disk may take a part.
`Dies` ends the process between any two of them, `Midnight` is the clock. A file is the
sequence of its bytes, so that a lost, doubled or swapped line is seen. `KeptLog` allows
two things only: to append to a day's log and to drop from its front.

### Events

`Connects` and `Ticks` are a snapshot's `ListJobs`, `Looks` the comparison of one job with
`last` and the event it makes, `TurnsToRemoved` and `Removes` the pass over `seen`. Between
any two of them the rows change (`Enqueued`, `Changed`, `Deleted`), and any event may find
the connection broken. `heard` is what the client can know. `Sig` is the code's `jobSig`,
which has no error text: an error that changes under an equal status, phase and count
(`events.go:65`, `:77`, `:82`) is never sent, and the module has no such text.

### Migrate

One action per statement of `Open` and per look at the schema (`hasTable`, `hasColumn`).
A look that fails says "no", as in the code. `Init` is an empty database or one of the
releases before destinations were read live. `disturbed` and `misread` are history: another
process changed the schema during this Open; a look failed.

### Preflight

The rows that can block, as functions of what is so (`Place`, `Disk`) and of what can be
seen of it (`Access`: which fields UDisks2 fills in, which sectors read). `Checks` is one
call, for every combination. The header of a GPT is looked for at byte 512
(`HeaderSeen`), which on sectors of 4096 bytes is inside the first one.

## 3. Runs

| run | instance | states | shows |
|---|---|---|---|
| `exec_safety` | 1 destination, a copy and a split, 1 cancel, 1 try, 1 user operation (and the resume of what it paused), 1 failed statement or removal, 1 process death | 3.78 M | safety invariants of the queue, a parked error halts it, and it implements `JobLifecycle` |
| `exec_live` | 2 jobs, 1 cancel, 2 tries, 1 failed statement, no death, under fairness | 318 k | jobs settle, shutdown completes |
| `supervisor` | 2 goroutines of Run and 1 other process, stale after 1 interval, 1 death, 1 fault, 1 operation of a user or the hardware or start of the other process, under fairness | 415 k | the lease is exclusive but for a race over a dead owner's row, no runner goes unwatched, running rows are written, pending jobs are served, Run returns |
| `staging` | the runner, 2 enrich and 1 prepare request, 2 runner starts, 1 crash, 1 file put by hand | 1.5 M | gated writes exclude each other and give the gate back, temp files have a writer, existing covers and cheats stand |
| `ps1_outputs` | 3 items (1 of them only to be edited), sets of 2 discs, 4 jobs (2 of one disc, 1 Ember copy) of which 3 run or are retried, 1 edit, 1 failure or crash | 2.56 M | finished outputs stand, sets play, no VCD is left that was not verified |
| `library` | 4 items, 2 overlapping directories, 2 imports, 1 edit | 2.5 M | overrides stick, temporary ids are replaced, sets grouped as scanned and apart |
| `admission` | 2 requests of 2 and 1 jobs, capacity 2, 1 reorder, 2 failures or user operations | 4.9 M | what is admitted fits, first come first served, reorders land |
| `parts` | the parts below, one of them moving in a behaviour | 3.6 M | |
| - `UlSplit` | 2 serials, 2 names, up to 2 chunks, 3 writes | | success is intact, the old set is removed, records name intact sets |
| - `CueMerge` | 2 BINs, frames up to 3, sheets of up to 7 directives | | images exact, refusals exact |
| - `LogRotate` | 2 older files kept, 2 days, files of 2 bytes, 4 lines of up to 3, 1 failed call, 1 death | | it implements `KeptLog`; a line goes only when all the files of its day are there |
| - `Events` | 2 jobs, 5 changes, 2 connections | | what a connection said adds up to the last listing |
| - `Migrate` | 2 processes, 2 jobs of which 1 has a known destination, 1 failed look, 2 deaths | | nothing is lost; an Open is refused only when disturbed |
| - `Preflight` | every place, disk and view (constants of the module) | | seeing more unblocks nothing; a report without a warning is true |
| - `Progress` | 1 job of any kind, 2 tries, 2 files of 2 blocks, 2 user operations or deaths | | a resting row shows no phase, and the bytes that are there, unless a ticker saved late |

The parts of `parts` share no state. `PartsNext` lets one leave its initial state only
while all the others are in theirs: the states add up instead of multiplying, and no
behaviour of a part is lost.

Four runs expect a violation: the code does something else than a comment or document of
the repository says of it (`findings` in `PROJECT.json` quotes the lines).

| run | what happens |
|---|---|
| `exec_cancel_ok` | the cancel handler polls the status column; the aborted job is requeued, claimed again, and deleted while it is being written: the answer is "deleted" and the write goes on |
| `exec_shutdown_parks` | a shutdown while the runner waits for a plan made ahead parks the job in error and pauses the queue instead of returning it to pending |
| `split_phases` | the ticker goroutine lives until `runSplit` returns: while the set is read back, it puts the phase back to "Splitting" each second |
| `migrate_misreads` | a look at the schema fails and reads as "no such table": the column of destination ids is dropped before the jobs' paths were filled in, and the registry stays behind |

### Bounds, and why they are enough

* Destinations share only the pause flag and the process, so one destination with two
  jobs has the races between a runner, its next job and a request; more destinations and
  jobs are covered by the proofs, which fix no size. `exec_live` has two tries, which
  distinguish "retried" from "parked"; `exec_safety` has one, so that a failure parks at
  once, and spends its states on one of each kind of trouble: a user operation, a failed
  statement or removal, a death, a cancel and a shutdown. One of its jobs is a split.
* One process death reaches every crash point and the recovery after it, and one fault every
  dropped error and what the rest of the queue makes of it; the proofs of the same
  invariants allow any number of either.
* Three processes are needed for a lease race over a dead owner. Two goroutines of Run are
  a runner that was forgotten in the middle of a write and its successor; with the other
  process they can race for a dead owner's row. One fault is a failed probe, a failed
  statement or a write to be retried; one operation plugs or unplugs the drive, queues or
  edits the job, or edits the settings, and every initial state of the drive, the settings
  and the job is tried. What needs more than one of them is covered by the proofs, except
  liveness.
* Two serials and two names give: the same game rewritten, renamed, another game, another
  game under the same name. Two chunks distinguish the first from the last; three writes
  let a good write follow a failed rewrite of a good one.
* Two imports overlap; the two directories share items with different temporary groups,
  so that both their table-wide ids clash.
* Staging: two enrich requests of the same kind and one request without a gate give every
  pair of writers; two runner starts, or one and a crash, sweep beside them.
* Conversions: with `MaxDiscs` 2 (4 in the code) three grouped items are one too many, so
  both valid and refused sets occur (the edit may group the third). Two jobs of one disc and
  one of its sibling let a disc be converted again, or fail, after the set was complete; the
  two are interchangeable (symmetry). One edit and one failure or crash may come at any step
  between. The sibling may also be copied for Ember, which shares no files with the
  conversions. The discs are in the other order than their ids, and one has no number.
* Capacity 2 with three one-unit jobs has room for all but one; a reorder of three jobs
  reaches first, middle and last; two events allow a failure followed by a retry or pause.
* Seven directives are two tracks with both marks each and a gap, in one BIN or two; they
  do not reach a sheet that comes back to an earlier BIN after another one.
* Progress: two tries let a goroutine of the first outlive the second's claim; two blocks
  give a count that is old; two files make an Ember copy set its phase between them.
* Log: a line of 3 is longer than a file, two of 1 fit into one; with two older files there
  is a first, a middle and a last rename; four lines fill all the files and push one out.
* Events: five changes enqueue, change and delete both jobs, or one of them between any two
  snapshots; the second connection starts with rows the first was told of.
* Migrate: two deaths let a process die in a migration that finishes a broken one; the other
  process may run the same migration at any step.
* Symmetry is used for interchangeable things, in runs without liveness properties
  only: two jobs of one disc (`ps1_outputs`) and two requests (`staging`).
`CHECK_DEADLOCK FALSE` in every configuration: users stop making requests, bounded
counters run out, a conversion ends, and a process that is shut down does nothing more.

### Fairness

`exec_live`: weak fairness of each runner's step (a goroutine that can go on does), of the
spawning of a runner (the supervisor looks every two seconds), of each cancel handler's
step (it polls until its deadline). None for users, for `Shutdown` and for `Die`. A write
ends because I/O either progresses or fails; its outcome is not fair. `EveryJobSettles`
therefore holds although a job may fail every time it is tried, because tries are counted.
`supervisor`: weak fairness of Run's step (a ticker, and channels that are ready), of the
end of a cooldown, of the clock, and of each call's step (a goroutine that can go on does;
a write progresses or fails). None for faults, for the hardware, for users or for the other
processes' starts, stops and deaths. `PendingServed` therefore lets go when the drive is
unplugged, and it holds although a dead process may hold the lease, because time passes and
the row goes stale.
The other runs check safety and action properties and assume no fairness.

## 4. Proofs

All results are for any sets of jobs, destinations, processes, writers, items and so on,
and any bounds, from the assumptions named in the modules.

| theorem | states | by |
|---|---|---|
| `Executor_proofs!TypeCorrect` | `[]TypeOK` | `TypeInv`: `TypeOK` alone is not inductive, since `cur[d]` and `rjob[r]` index the columns; it adds that a runner past its SELECT and a request past its read have a job |
| `!OneRunning`, `!RunningOwned` | `[]OneRunningPerDest`, `[]RunningRowOwned` | `RowInv`: also that the row a runner works on is running, or was deleted under it, so that no user operation hands it to somebody else (`WorkedRow`), and that a row left by a failed statement is running (`StuckRuns`); one running row beside those then follows from one runner per destination |
| `!OutputsSafe`, `!TempsOwned` | `[]DoneIsVerified`, `[]NoOrphanTemp` | `DiskInv`: also that a runner about to finish has verified the output of the row it works on, and no chunk of it is partial (`FinishHoldsGood`) |
| `!Refinement` | `ImplementsLifecycle` | every step maps to a step of `JobLifecycle` (a failed last statement to `Abandon`) or leaves the rows alone; a step that claims needs `RowInv` to know that no other row of the destination is running |
| `!RunningRowsSurvive` | `OnlyCancelRemovesRunning` | from the same invariants |
| `!ErrorsHalt` | `ErrorHaltsQueue` | a destination with an alarm is about to pause the queue, or has paused it and looks for no job (`HaltInv`); a SetPaused that fails and a death between the two statements put the alarm out (section 5) |
| `Supervisor_proofs!LeaseExclusive` | `PromptBeats => (Spec => []ExclusiveUntilRace)` | a row belongs to a holder or a dead process, a live holder's row is fresh, and until a race only one process is taking over, with a dead owner's row |
| `!ServesByLease` | `SupSpec => Spec` | every step of `Supervisor` is a step of `DestLease` or leaves the lease alone; with it `ServedExclusively` carries the previous theorem over to the runners |
| `!Watched` | `[]NoneRunsUnwatched` | a call that ended or is free is on the map only as "ended", and a spawn takes a free goroutine |
| `!RunningWritten` | `PromptBeats => (SupSpec => []RunningIsWritten)` | until a race, only the lease's holder is past `AcquireLock` (`HeldWhereLeased`), and it has recovered before it polls; a row whose last statement failed reads stuck |
| `UlSplit_proofs!SplitCorrect`, `!RecordsIntact` | `[]SuccessIsIntact`, `[]IndexedIsIntact` | the chunks made so far are whole and the running call's, records are filed under their serial, the old record is the one `Begin` read |
| `!OldSetsGone` | `[]OldSetRemoved` | every chunk on the device is the record's, the running call's, left by a call that ended badly, or an old one whose removal failed (`Accounted`) |
| `Staging_proofs!GateSafe`, `!TempsSafe` | `[]GatedExclusive`, `[]NoTempLeak` | the gate names exactly the gated writer, and a job writes only after the sweep |
| `!CheatsSound` | `[]OneMasterStaged` | bad content never gets as far as a temp file |
| `!SmallFilesSafe` | `SmallFilesStand` | the gate keeps other requests away between the last look and the rename, so only the user can put a file there |
| `Ps1Outputs_proofs!VerifiedOrGone` | `[]NoUnverifiedVcd` | an Ember plan has paths of its own, a runner that writes keeps its plan, and every way out of a conversion after its first file takes the VCD back, fails to, or has verified it |
| `!FinishedStands` | `[]DoneStands` | every plan in use lists files of its own or files its set shares with the same content (`PlansTrue`: in a set each disc's name is its own, so two plans of one version agree on every path they share); what a done job planned was written by somebody of its team (`DoneMade`), and the running job's first n files are on the device, all sound but the one it still reads back (`SoFar`); a plan that was not overtaken by an edit is the plan of now (`Fresh`), so taking files back spares what a finished sibling needs; another job of the same disc writes the same image under the same name, so what it spoils is in doubt (`InDoubt`) |
| `!SetsPlay` | `[]SetPlays` | the same invariant: every disc's plan names the whole set in `ByDiscIndex` order (`SetShape`), all of it is on the device (`SetOnDevice`), and a choice of each disc's place gives the names |
| `Library_proofs!OverridesStick` | `[]OverrideSticks` | an override is never left by `Records`, and a verdict never changes a row whose method is override |
| `!TempsGo` | `[]TempsReplaced` | every temporary group is on the list of an import that has yet to replace it (`Watched`), whatever imports overlap |
| `!GroupsFollowTheScan`, `!SetsApart` | `[]GroupedAsScanned`, `[]SetsStayApart` | two images get one temporary id exactly when they have one key (`ScanGroups`); undisturbed imports come one after another, so the id `NextGroupID` gives is nobody's (`FreshIsNew`) and what an import saved stays grouped as scanned (`AsScanned`, `Apart`) |
| `Admission_proofs!FirstComeFirstServed` | `ClaimsInOrder` | until the user moves a job, orders agree with the order of arrival (`Sorted`), because what an inserting request knows as the maximum covers every row that must precede its own (`TopCovers`); the runner's choice has the lowest number of what waits |
| `!TakenFits` | `[]FitsIfCounted` | in a history the property does not excuse, the bytes on the device and those that admitted jobs have yet to write fit together (`ClaimsFit`), because a request admits against a free space no writer has shrunk uncounted, unless it did not know it (`SawFree`) |
| `!MovesLand` | `[]MoveLands` | a reorder's list is the queue it read with the moved job at its place, and the rows before its position have the numbers 0, 1, ... (`MoveInv`) |
| `Parts_proofs!StreamAddsUp` | `Sse!Spec => []HeardIsListed` | an id in the table, listed or seen is not given out again (`IdsUsedOnce`); the maps are what the client was told (`ToldIsHeard`); `todo` is what is between them and the listing (`RestIsTodo`) |
| `!FailsClosed`, `!PassesAreTrue` | `Pre!Spec => []SeeingMoreUnblocksNothing`, `... AllPassMeansMountable` | what a row of the report rests on is seen by whoever sees more, or the table row refuses (`TableSeen`, `TypeSeen`, `OffsetSeen`) |
| `!MigrationLosesNothing` | `Mig!Spec => []NothingLost` | without a failed look, whoever is about to drop has copied, and the registry does not come back (`Sound`) |
| `!RowsTellTheTruth` | `Prg!Spec => []RestsWithItsBytes` | a file is verified only when it has been moved, and past the last step an unspoilt row has its size (`TryCounts`); a row is a runner's own or deleted while it works (`RowStands`) |
| `!MigrationResumes` | `Mig!Spec => []RefusedOnlyIfDisturbed` | what an undisturbed process knows of the schema at each statement (`Knows`) is enough for that statement |
| `!OrderDecides` | `Cue!Spec => []RefusesExactlyInvalid` | `BuildPlan` compares a track with the next of its BIN, and the BIN's last with its size (`AcceptsIs`); if all neighbours are in order all pairs are (`AcceptedInOrder`), and every BIN has a last track (`LastExists`) |
| `!VcdIsImage` | `Cue!Spec => []DoneIsImage` | the operations of an accepted track write its sectors at their offsets (`PlaysSector`), as many as it has (`TrackCounts`); a sector's place is what the tracks before it hold and its offset (`PlaceIs`); so, track by track, the plan writes the image (`PlanIsImage`) and announces its length (`TotalIs`). While it is written, the output is what a prefix of that plan writes, and the rest of the plan is still to come (`WritesImage`), whichever BIN shrinks |
| `!LogKeepsOrder` | `Log!Spec => KeepsItsOrder` | `OnDisk` is a recursive function, so the lemmas first show that it has a solution (`BaseExists`) and how it changes with one file (`Lengthens`: from a file on, two logs differ by what they differ by there); with that an append adds at the end, a removal of the oldest file drops from the front, and a rename changes nothing, because the file above has gone (`OpenIsThere`) |
| `!LogKeepsTheLast` | `Log!Spec => KeepsTheLast` | a file that is gone below one that is there is the one the rotation is moving, or one that a botched rotation left (`GapsAreBotched`) |

The assumptions are on constants only: sets of items and requests are finite (a database
table and a list in a request are), sizes and bounds are natural numbers, names that stand
for nothing are no values (a missing log file has no content), a log keeps an older file (`open` refuses one that does not), and, where the row says so, that a live owner beats in time.
Counting uses the library's facts about cardinality. Where an argument goes by induction
(two marks in order because all neighbours between them are), it takes a least
counterexample (`LeastExists`, from the library's well-foundedness), which these provers
can use for one formula at a time.

`FlattenSeq` and `TotalFrames` are recursive functions too: `FlattenIs` and `TotalIs` show
that they have their solutions.

Only model-checked: liveness and everything under fairness, which this prover does not
reach (`EveryJobSettles`, `ShutdownCompletes`, `PendingServed`, `RunReturns`). Every other
property that a run passes has a theorem.

## 5. Known divergences and what the properties exclude

Beside the four findings above, the models contain these behaviours. No run checks them;
the properties are stated so that they say what holds in spite of them.

* A cancel looks its function up by destination: if its job ended meanwhile, the next job
  is aborted, requeued and run again (`CancelSignals`).
* A cancelled job that stopped and was claimed again between two polls is reported as "did
  not stop in time" (`CancelTimesOut`).
* A process that dies between FinishJob and SetPaused, or whose SetPaused fails unnoticed
  (`exec.go:361`, `:373`), leaves a failed job and a queue that goes on: "never skip
  silently" (`exec.go:354-355`) and `ErrorHaltsQueue` hold for the others.
* A FinishJob or RequeueJob whose error is dropped (`exec.go:360`, `:372`, `:414`, `:418`,
  `:424`) leaves a row running with nobody writing it, while its runner takes the next job.
  It stays so until the next runner of the destination recovers it; a cancel of it meets
  whatever job the destination runs, or is refused. `OneRunningPerDest`, `RunningRowOwned`,
  `EveryJobSettles`, `ShutdownCompletes` and `ImplementsLifecycle` except such rows by name
  (`stuck`), `RunningIsWritten` by the row's state, `FitsIfCounted` by `excused`.
  `Ps1Outputs`, whose properties speak of finished jobs only, has no such rows, and
  neither has `Progress`.
* A row deleted while it was written has no attempts to count: nothing is parked, and the
  whole queue is paused (`CountAttempt`, `ParkFailed`).
* A suspended process loses its lease while it is alive, and goes on writing, because the
  heartbeat's error is dropped (`PromptBeats` excludes the first).
* Two processes that both read a dead owner's lease both take it over and hold it, although
  `BUILD-PLAN.md:270` speaks of a single writer; `ExclusiveUntilRace` says that this is the
  only way to have two holders (`store.go:735`).
* `Run` waits for the runners on its map when it ends, not for one that it cancelled and
  forgot, although its comment says "shutdown waits for all runners" (`exec.go:62`;
  `ShutdownWaitsForAll` in `Supervisor` states it and is false).
* `DeleteSettings` "refuses while jobs still reference the path" (`store.go:311`), but counts
  them in a statement before the one that deletes (`DeleteRefuses`). A settings PATCH writes
  the row it merged even when it was deleted meanwhile.
* Two processes that open an old database together: the second can drop the lease table that
  the first has rebuilt and leased from (`RebuiltOnlyById`), and either can be refused by
  the other's ALTER (`RefusedOnlyIfDisturbed` says that only this, or a failed look, does).
* `BUILD-PLAN.md:427` speaks of keeping the last five logs; the five are per day, and no day
  is ever removed. A rotation whose reopen fails rotates again at the next line, and each
  attempt that gets as far as the removal drops one more old file (`botched`). When
  Close fails in a rotation that line is lost, and the next one that rotates or changes the
  day opens a file again. Two processes that log into one directory rename each other's files.
* Preflight's verdict is advice: nothing consults it when jobs are queued. Type 0x07 passes
  for FAT32 and 0x0c for exFAT (`TypeFollowsToggle`), and an aligned partition on sectors
  of 4096 bytes is refused when only its boot sector can be read (`AlignedIsNotBlocked`).
  On such a disk the header of a hybrid GPT is looked for inside the first sector
  (`preflight.go:406`), so that the disk is taken for MBR (`HybridUnseen`).
* Open checks "every chunk's presence and exact size" (`split.go:339`), but any last chunk
  between one byte and a full chunk passes: a set whose last chunk was cut short verifies.
* Prepare and `stageLoader` write without the gate, and a starting runner sweeps the temp
  file of such a write (`Staging`, ungated writers).
* `executePrepare` says "Validate everything before writing anything" (`prepare.go:239`),
  but enqueueItems' own refusals (no space left) come after the directories were made and
  the loader was staged and recorded.
* A staged loader's version is recorded after the gate was given back (`enrich.go:337`; the
  prepare request takes no gate), so two requests can record in the other order than they
  staged: `loader.<path>`, the "pinned version recorded in SQLite afterwards" of
  `BUILD-PLAN.md:461`, then names a build that is not on the device (`RecordNamesLoader` in
  `Staging` states otherwise and is false).
* A cover or cheats file that the user copies to the device between the last Stat and the
  rename is overwritten (`late` in `Staging`).
* A split that fails inside a chunk, or dies, leaves that partial chunk: it is not yet in the
  list that is cleaned up (`split.go:97` and `:142`), and the sweep takes `.oplbm.*` files
  only (`disk.go:104`; `NoOrphanTemp` says so). An old chunk whose removal fails stays beside
  a successful split (`split.go:199`; `kept` in `UlSplit`).
* A plan made ahead, or read from an item and its group across an edit, is carried out with
  the old names and manifests; a disc moved out of its group in between keeps its
  "(Disc 1)" name (`stale` in `Ps1Outputs`, which the properties exclude).
* Items of different sets with the same title and no serial overwrite each other's VCD, and
  Ember copies of the same title share a folder (the instance has distinct titles).
* A failed Ember copy leaves the files it had already put in place; a crash leaves a VCD
  that was not read back, until the job is run again, and so does a conversion that fails
  because the drive went away: the removal fails as well, unnoticed (`exec.go:547`, `:554`,
  `:558`, `:562`; `left` in `Ps1Outputs`).
* A disc may have several jobs (`enqueueItems` looks for none). One that fails takes back
  the VCD of an earlier one that still reads done (`doubt` in `Ps1Outputs`).
* A job resumed or retried between the SELECT and the UPDATE of `NextPending` waits while a
  later one starts (`waiting` in `Admission`).
* With a free size that is not known, requests are admitted unchecked (`queue.go:128`;
  `FitsIfCounted` excludes it).
* A copy of an image under an earlier key takes it out of its set (`KeyOf` in `Library`):
  the scan drops the copy in the set's own directory.
* `runSplit` tells its ticker goroutine to end but does not wait for it. A goroutine that
  has received a tick saves its phase and count after `RequeueJob`, "clearing error and
  progress" (`store.go:509`), has cleared both (`ClearedStaysClear` in `Progress` states
  otherwise and is false): the waiting job counts for less than it will write. After
  FinishJob it may leave a finished job in phase "Splitting" (`exec.go:589`). `Admission`
  has no late saves, and `RestsWithItsBytes` excludes them (`stale`). Phase "Done" is never
  set, an Ember copy's second file is copied in phase "Verifying", and its bytes start again
  at each file.
* Overlapping enqueue requests may both be admitted into the same room; a failed job that
  is brought back, or paused with a stale `bytes_done`, is counted wrongly
  (`FitsIfCounted` excludes both).
* Overlapping imports, or an import after one that failed half way, may merge sets
  (`GroupedAsScanned` excludes both); an import of a known item overwrites the group the
  user gave it.

## 6. Not modelled

* The four job kinds in `Executor`: one write, with a temp file or (a split) in place.
  Conversions,
  Ember copies and splits have modules of their own; a plain copy is `StageFile` and Commit.
* Preflight's rows that only warn (cluster size, device type, fragmentation) and its walk
  over `/proc/mounts`.
* Text formats (the 64-byte `ul.cfg` records, DISCS.TXT, file names, CUE lexing, cheat
  lists), hashing and serial extraction, network access and matching of art and cheats,
  operating-system probes, configuration, ISO inspection: pure functions or pure I/O, which
  the unit tests beside them cover.
* Handlers that only read, the previews, and the web interface, which keeps no state the
  server depends on.

## 7. Plan

Done: `Executor` with `JobLifecycle`, `DestLease` and `Supervisor`, `Staging`, `UlSplit`,
`Ps1Outputs`, `Library`, `Admission`, `CueMerge`, `LogRotate` with `KeptLog`, `Events`,
`Migrate`, `Preflight`, `Progress`, and the proofs above. What would add most next:

1. The lease together with the whole executor, instead of one write per job.
