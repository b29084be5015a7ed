------------------------------ MODULE Staging ------------------------------
(***************************************************************************)
(* Everything that writes files to one destination inside one process: the *)
(* queue's runner and the goroutines of the HTTP requests that stage       *)
(* covers, cheats and the loader. Each write streams into a .oplbm.* temp  *)
(* file that a rename puts in place; most of them hold the destination's   *)
(* write gate meanwhile. The runner sweeps temp files once, when it        *)
(* starts. A request that stages several files does one after the other.   *)
(***************************************************************************)
EXTENDS Naturals, FiniteSets

CONSTANTS Writer,      \* the goroutines that write
          Runner,      \* the one that runs jobs, and sweeps
          Enrich,      \* those that serve POST /api/enrich/{kind}; the others prepare
          Release,     \* builds of the loader a request may resolve
          MaxSweeps,   \* bound: starts of the runner
          MaxCrashes,  \* bound: process deaths
          MaxByHand,   \* bound: files the user puts on the device
          Free         \* nobody holds the gate

ASSUME StagingAssumption == /\ Runner \in Writer /\ Enrich \subseteq Writer \ {Runner}
                            /\ Free \notin Writer
                            /\ Release \cap {"none", "game", "made", "bad", "hand"} = {}
                            /\ MaxSweeps \in Nat /\ MaxCrashes \in Nat /\ MaxByHand \in Nat

VARIABLES gate,     \* who holds the destination's mutex
          at,       \* where each writer is
          kind,     \* what each of them writes
          body,     \* the content it has ready, or wrote
          temps,    \* writers whose temp file exists
          file,     \* what the device holds of each kind
          record,   \* the loader build that queue_state names
          late,     \* writers whose file was put there by hand after they looked
          orphan,   \* a dead process left a temp file
          runner,   \* "down", "sweep", "loop"
          sweeps, crashes, byHand

disk   == <<temps, file, record, late, orphan>>
bounds == <<sweeps, crashes, byHand>>
vars   == <<gate, at, kind, body, disk, runner, bounds>>

(* One game file, one cover ART/<key>, one CHT/<GameID>.cht, one            *)
(* APPS/<flavour>/RIPTOPL.ELF. Covers and cheats are never overwritten.     *)
Small == {"cover", "cheats"}
Kind  == Small \cup {"game", "loader"}
Body  == {"none", "game", "made", "bad", "hand"} \cup Release

(* Those that call LockDestination; executePrepare and stageLoader do not.  *)
Gated == Enrich \cup {Runner}

(* Places between taking the gate and giving it back.                       *)
Writing == {"stage", "stream", "unlock"}

Init == /\ gate = Free
        /\ at = [w \in Writer |-> "idle"]
        /\ kind = [w \in Writer |-> "game"] /\ body = [w \in Writer |-> "none"]
        /\ temps = {} /\ late = {}
        /\ file = [k \in Kind |-> "none"] /\ record = "none"
        /\ orphan = FALSE
        /\ runner = "down"
        /\ sweeps = 0 /\ crashes = 0 /\ byHand = 0

Go(w, from, to) == at[w] = from /\ at' = [at EXCEPT ![w] = to]

(* A writer that gives up has nothing ready any more.                       *)
Drops(w) == body' = [body EXCEPT ![w] = "none"] /\ late' = late \ {w}

(* Nor has one that comes to its end.                                       *)
Ends(w) == kind' = [kind EXCEPT ![w] = "game"] /\ body' = [body EXCEPT ![w] = "none"]

-----------------------------------------------------------------------------
(* What is to be written.                                                   *)

(* A job is claimed, and writes its plan's file under the gate.             *)
JobStarts == /\ runner = "loop"
             /\ Go(Runner, "idle", "gate")
             /\ kind' = [kind EXCEPT ![Runner] = "game"]
             /\ body' = [body EXCEPT ![Runner] = "game"]
             /\ UNCHANGED <<gate, disk, runner, bounds>>

(* A request arrives, or comes to its next item. A cover that is there      *)
(* already is skipped at once.                                              *)
RequestStarts(w, k) == /\ w # Runner
                       /\ w \in Enrich \/ k = "loader"
                       /\ k = "cover" => file[k] = "none"
                       /\ Go(w, "idle", "fetch")
                       /\ kind' = [kind EXCEPT ![w] = k]
                       /\ UNCHANGED <<gate, body, disk, runner, bounds>>

Ready(w, content) == /\ Go(w, "fetch", IF w \in Gated THEN "gate" ELSE "stage")
                     /\ body' = [body EXCEPT ![w] = content]
                     /\ UNCHANGED <<gate, kind, disk, runner, bounds>>

(* A fetched cover, normalised, or after the tries are spent one that is    *)
(* generated here: there is always something to stage.                      *)
FetchCover(w) == kind[w] = "cover" /\ Ready(w, "made")

(* What a source of cheats has for a game: nothing, cheats with exactly     *)
(* one master code, or something else.                                      *)
Source == {"hand", "widescreen", "database"}
Offers == {"absent", "made", "bad"}

(* What a source gives when it is asked. Hand files and database entries    *)
(* without one master code are refused; widescreen files are not looked at, *)
(* and an entry may lose its master code with the cheats beyond 250.        *)
Gives(s, offer) == IF offer # "bad" THEN {offer}
                   ELSE IF s = "hand" THEN {"absent"}
                   ELSE IF s = "widescreen" THEN {"bad"} ELSE {"absent", "bad"}

(* One source wins, the one the request names or the first that gives; the  *)
(* others may have nothing.                                                 *)
FetchCheats(w) ==
    /\ kind[w] = "cheats"
    /\ \E s \in Source, offer \in Offers : \E content \in Gives(s, offer) :
          content # "absent" /\ Ready(w, content)

(* The release is resolved and downloaded, and its digest agrees.           *)
FetchLoader(w) == kind[w] = "loader" /\ \E rel \in Release : Ready(w, rel)

(* No game ID, no source, a refused request, a release that does not        *)
(* resolve, a download that does not match.                                 *)
FetchFails(w) == /\ Go(w, "fetch", "idle")
                 /\ Ends(w)
                 /\ UNCHANGED <<gate, disk, runner, bounds>>

-----------------------------------------------------------------------------
(* Writing it.                                                              *)

(* Mutant: each caller locks a mutex of its own.                            *)
TakesOwnGate(w) == /\ Go(w, "gate", "stage")
                   /\ gate' = w
                   /\ UNCHANGED <<kind, body, disk, runner, bounds>>

TakesGate(w) == /\ gate = Free
                /\ Go(w, "gate", "stage")
                /\ gate' = w
                /\ UNCHANGED <<kind, body, disk, runner, bounds>>

(* Art and cheats look again, under the gate: what is there stays.          *)
FindsFile(w) == /\ kind[w] \in Small /\ file[kind[w]] # "none"
                /\ Go(w, "stage", "unlock")
                /\ Drops(w)
                /\ UNCHANGED <<gate, kind, temps, file, record, orphan, runner, bounds>>

(* Mutant: art and cheats look for the file before they take the gate only. *)
AcceptsUnseen(w) == body[w] # "bad"

(* What Stage lets through: cheats with one master code, and what is not    *)
(* there yet.                                                               *)
Accepts(w) == body[w] # "bad" /\ (kind[w] \in Small => file[kind[w]] = "none")

CreatesTemp(w) == /\ Accepts(w)
                  /\ Go(w, "stage", "stream")
                  /\ temps' = temps \cup {w}
                  /\ UNCHANGED <<gate, kind, body, file, record, late, orphan, runner, bounds>>

(* Mutant: the error path forgets the temp file.                            *)
AbortsLeaking(w) == /\ at[w] \in Writing \ {"unlock"}
                    /\ at' = [at EXCEPT ![w] = "unlock"]
                    /\ Drops(w)
                    /\ UNCHANGED <<gate, kind, temps, file, record, orphan, runner, bounds>>

(* Cheats without one master code or an uncertain ID that was not           *)
(* confirmed, a full device, a cancelled request or job, a rename that      *)
(* fails, or finds no temp file: nothing is put in place.                   *)
Aborts(w) == /\ at[w] \in Writing \ {"unlock"}
             /\ at' = [at EXCEPT ![w] = "unlock"]
             /\ temps' = temps \ {w}
             /\ Drops(w)
             /\ UNCHANGED <<gate, kind, file, record, orphan, runner, bounds>>

Commits(w) == /\ w \in temps
              /\ Go(w, "stream", "unlock")
              /\ temps' = temps \ {w}
              /\ file' = [file EXCEPT ![kind[w]] = body[w]]
              /\ late' = late \ {w}
              /\ UNCHANGED <<gate, kind, body, record, orphan, runner, bounds>>

(* A loader that was staged is recorded next, after the gate was given      *)
(* back: SetState("loader.<path>").                                         *)
Leaves(w) == IF kind[w] = "loader" /\ body[w] # "none"
             THEN Go(w, "unlock", "record") /\ UNCHANGED <<kind, body>>
             ELSE Go(w, "unlock", "idle") /\ Ends(w)

Unlocks(w) == /\ Leaves(w)
              /\ gate' = IF w \in Gated THEN Free ELSE gate
              /\ UNCHANGED <<disk, runner, bounds>>

Records(w) == /\ Go(w, "record", "idle")
              /\ record' = body[w]
              /\ Ends(w)
              /\ UNCHANGED <<gate, temps, file, late, orphan, runner, bounds>>

-----------------------------------------------------------------------------
(* The runner, the user, the process.                                       *)

(* The runner starts, once it has the lease: SweepStaleTemps removes the    *)
(* temp files it walks over, one at a time, without the gate.               *)
SweepStarts == /\ runner = "down" /\ sweeps < MaxSweeps
               /\ runner' = "sweep" /\ sweeps' = sweeps + 1
               /\ UNCHANGED <<gate, at, kind, body, disk, crashes, byHand>>

SweepsOne == /\ runner = "sweep"
             /\ \E w \in temps : temps' = temps \ {w}
             /\ UNCHANGED <<gate, at, kind, body, file, record, late, orphan, runner, bounds>>

SweepEnds == /\ runner = "sweep"
             /\ runner' = "loop"
             /\ orphan' = FALSE
             /\ UNCHANGED <<gate, at, kind, body, temps, file, record, late, bounds>>

(* A runner that failed or was cancelled; the supervisor starts another.    *)
RunnerStops == /\ runner = "loop" /\ at[Runner] = "idle"
               /\ runner' = "down"
               /\ UNCHANGED <<gate, at, kind, body, disk, bounds>>

(* The user copies a cover or cheats to the device, at any moment.          *)
PutsByHand(k) == /\ k \in Small /\ byHand < MaxByHand
                 /\ byHand' = byHand + 1
                 /\ file' = [file EXCEPT ![k] = "hand"]
                 /\ late' = late \cup {w \in Writer : kind[w] = k /\ at[w] = "stream"}
                 /\ UNCHANGED <<gate, at, kind, body, temps, record, orphan, runner,
                                sweeps, crashes>>

Crash == /\ crashes < MaxCrashes
         /\ crashes' = crashes + 1
         /\ gate' = Free
         /\ at' = [w \in Writer |-> "idle"]
         /\ kind' = [w \in Writer |-> "game"] /\ body' = [w \in Writer |-> "none"]
         /\ temps' = {} /\ late' = {}
         /\ orphan' = (orphan \/ temps # {})
         /\ runner' = "down"
         /\ UNCHANGED <<file, record, sweeps, byHand>>

Fetches(w) == FetchCover(w) \/ FetchCheats(w) \/ FetchLoader(w) \/ FetchFails(w)

WriterStep(w) == \/ Fetches(w) \/ FindsFile(w) \/ CreatesTemp(w)
                 \/ Aborts(w) \/ Commits(w) \/ Unlocks(w) \/ Records(w)

Next == \/ JobStarts
        \/ \E w \in Writer : \E k \in Kind \ {"game"} : RequestStarts(w, k)
        \/ \E w \in Writer : TakesGate(w) \/ WriterStep(w)
        \/ SweepStarts \/ SweepsOne \/ SweepEnds \/ RunnerStops
        \/ \E k \in Small : PutsByHand(k)
        \/ Crash

Spec == Init /\ [][Next]_vars

-----------------------------------------------------------------------------
TypeOK == /\ gate \in Writer \cup {Free}
          /\ at \in [Writer -> {"idle", "fetch", "gate", "record"} \cup Writing]
          /\ kind \in [Writer -> Kind] /\ body \in [Writer -> Body]
          /\ temps \in SUBSET Writer /\ late \in SUBSET Writer
          /\ file \in [Kind -> Body] /\ record \in Body
          /\ orphan \in BOOLEAN
          /\ runner \in {"down", "sweep", "loop"}
          /\ sweeps \in Nat /\ crashes \in Nat /\ byHand \in Nat

(* No two gated writes overlap: enrich output lands between jobs. And the   *)
(* gate is held by somebody who is writing: every way out of a write gives  *)
(* it back, or the destination would be blocked until the process ends      *)
(* (LockDestination).                                                       *)
GatedExclusive ==
    /\ \A v, w \in Gated : at[v] \in Writing /\ at[w] \in Writing => v = w
    /\ gate # Free => at[gate] \in Writing

(* Temp files belong to a write in progress, and no job writes before those *)
(* of a dead process are swept.                                             *)
NoTempLeak == /\ \A w \in temps : at[w] = "stream"
              /\ at[Runner] # "idle" => ~orphan

(* A cover or cheats on the device are never replaced, neither by the stock *)
(* cover of a request that fetched meanwhile nor over a hand file, except   *)
(* one that arrives between the last look and the rename (art.Stage,        *)
(* cheats.Stage).                                                           *)
SmallFilesStand ==
    [][\A w \in Writer : Commits(w) /\ kind[w] \in Small
                         => file[kind[w]] = "none" \/ w \in late]_vars

(* Cheats without exactly one master code are never written, whichever      *)
(* source they come from (cheats.Stage).                                    *)
OneMasterStaged == file["cheats"] # "bad"

(* Documented, and not so: the recorded build is the one on the device once *)
(* nobody is between the rename and the record. Two requests may record in  *)
(* the other order than they wrote.                                         *)
RecordNamesLoader ==
    (\A w \in Writer : kind[w] = "loader" => at[w] \notin {"unlock", "record"})
       => record = file["loader"]
=============================================================================
