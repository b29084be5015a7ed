------------------------------ MODULE MCParts -------------------------------
(***************************************************************************)
(* Instances, for one run of TLC, of the parts that share no state with one *)
(* another: the USBExtreme writer, the CUE merge, the log, the events, the *)
(* migration, the preflight and the progress of a job. In a behaviour at   *)
(* most one of them leaves its initial state, so that their states add up  *)
(* and do not multiply.                                                    *)
(***************************************************************************)
EXTENDS UlSplit, Sequences

CONSTANTS File, MaxFrame, MaxLines, None,
          Keep, MaxBytes, Days, MaxLine, MaxLogLines, MaxFaults, MaxCrashes, Missing,
          Job, MaxChanges, MaxConnects, Gone, Removed,
          Proc, Registered, Nobody, MaxMisreads, MaxStops,
          Files, Size, MaxTries, MaxOps

VARIABLES cueAt, lines, file, inTrack, sheet, size, sizes, plan, total, out,
          files, clock, date, open, logSize, logPc, line, slot, logged, botched,
          faults, crashes,
          rows, fresh, conn, listing, todo, told, seen, heard, late, changes, connects,
          schema, settings, path, lease, pc, disturbed, misread, misreads, stops,
          place, disk, access, done,
          kind, status, phase, bytes, try, runner, step, now, moved, pos, passed,
          cancelled, ticker, tick, held, cleared, stale, ops

Cue  == INSTANCE CueMerge WITH at <- cueAt
Log  == INSTANCE LogRotate WITH size <- logSize, pc <- logPc, lines <- logged,
                                MaxLines <- MaxLogLines
Sse  == INSTANCE Events WITH last <- told
Mig  == INSTANCE Migrate
Pre  == INSTANCE Preflight
Prg  == INSTANCE Progress WITH done <- bytes, at <- runner

(* Files have bytes, and a job is tried. *)
ASSUME SizeAssumption == {Files, Size} \subseteq Nat \ {0} /\ {MaxTries, MaxOps} \subseteq Nat

(* Timestamps and sizes are numbers. *)
ASSUME FrameAssumption == MaxFrame \in Nat

(* open refuses a log that keeps no older file. *)
ASSUME KeepAssumption == {Keep, Days} \subseteq Nat \ {0} /\ MaxLine \in Nat

(* A file that does not exist has no content. *)
ASSUME MissingAssumption == Missing \notin Seq(Nat \X Nat)

(* What stands for nothing is no value. *)
ASSUME GoneIsNoSig == Gone # Removed /\ Gone \notin Sse!Sig /\ Removed \notin Sse!Sig

cueVars == <<cueAt, lines, file, inTrack, sheet, size, sizes, plan, total, out>>
logVars == <<files, clock, date, open, logSize, logPc, line, slot, logged,
             botched, faults, crashes>>
sseVars == <<rows, fresh, conn, listing, todo, told, seen, heard, late,
             changes, connects>>
migVars == <<schema, settings, path, lease, pc, disturbed, misread, misreads, stops>>
preVars == <<place, disk, access, done>>
prgVars == <<kind, status, phase, bytes, try, runner, step, now, moved, pos,
             passed, cancelled, ticker, tick, held, cleared, stale, ops>>
allVars == <<vars, cueVars, logVars, sseVars, migVars, preVars, prgVars>>

(* The entry before the first write means nothing: one stands for all.      *)
PartsInit == Init /\ op = (CHOOSE e \in Entry : TRUE)
             /\ Cue!Init /\ Log!Init /\ Sse!Init /\ Mig!Init /\ Pre!Init /\ Prg!Init

(* What tells that a part has not moved yet. *)
SplitRests == writes = 0
CueRests   == lines = 0 /\ cueAt = "parse"
LogRests   == logPc = "down" /\ clock = 1 /\ crashes = 0
SseRests   == changes = 0 /\ connects = 0
MigRests   == schema = {} /\ stops = 0 /\ \A p \in Proc : pc[p] = "closed"
PreRests   == ~done
PrgRests   == status = "new"

PartsNext ==
    \/ /\ CueRests /\ LogRests /\ SseRests /\ MigRests /\ PreRests
       /\ PrgRests
       /\ Next
       /\ UNCHANGED <<cueVars, logVars, sseVars, migVars, preVars, prgVars>>
    \/ /\ SplitRests /\ LogRests /\ SseRests /\ MigRests /\ PreRests
       /\ PrgRests
       /\ Cue!Next
       /\ UNCHANGED <<vars, logVars, sseVars, migVars, preVars, prgVars>>
    \/ /\ SplitRests /\ CueRests /\ SseRests /\ MigRests /\ PreRests
       /\ PrgRests
       /\ Log!Next
       /\ UNCHANGED <<vars, cueVars, sseVars, migVars, preVars, prgVars>>
    \/ /\ SplitRests /\ CueRests /\ LogRests /\ MigRests /\ PreRests
       /\ PrgRests
       /\ Sse!Next
       /\ UNCHANGED <<vars, cueVars, logVars, migVars, preVars, prgVars>>
    \/ /\ SplitRests /\ CueRests /\ LogRests /\ SseRests /\ PreRests
       /\ PrgRests
       /\ Mig!Next
       /\ UNCHANGED <<vars, cueVars, logVars, sseVars, preVars, prgVars>>
    \/ /\ SplitRests /\ CueRests /\ LogRests /\ SseRests /\ MigRests
       /\ PrgRests
       /\ Pre!Next
       /\ UNCHANGED <<vars, cueVars, logVars, sseVars, migVars, prgVars>>
    \/ /\ SplitRests /\ CueRests /\ LogRests /\ SseRests /\ MigRests
       /\ PreRests
       /\ Prg!Next
       /\ UNCHANGED <<vars, cueVars, logVars, sseVars, migVars, preVars>>

PartsSpec == PartsInit /\ [][PartsNext]_allVars
-----------------------------------------------------------------------------
(* CueMerge: a finished VCD is the image of its sheet.                      *)
DoneIsImage == Cue!DoneIsImage

(* CueMerge: the sheets that are refused are the invalid ones.              *)
RefusesExactlyInvalid == Cue!RefusesExactlyInvalid

(* LogRotate: the logs implement KeptLog.                                   *)
KeepsItsOrder == Log!KeepsItsOrder

(* LogRotate: a line goes only when all the files of its day are there.     *)
KeepsTheLast == Log!KeepsTheLast

(* Events: what a connection says adds up to what was listed.               *)
HeardIsListed == Sse!HeardIsListed

(* Migrate: nothing of the old schema goes before it has been copied.       *)
NothingLost == Mig!NothingLost

(* Migrate: a store can be opened again, whoever died in the last Open.     *)
RefusedOnlyIfDisturbed == Mig!RefusedOnlyIfDisturbed

(* Preflight: the verdict fails closed.                                     *)
SeeingMoreUnblocksNothing == Pre!SeeingMoreUnblocksNothing

(* Preflight: a report without a warning is true of the disk.               *)
AllPassMeansMountable == Pre!AllPassMeansMountable

(* Progress: a resting row shows what was done, unless a ticker saved late. *)
RestsWithItsBytes == Prg!RestsWithItsBytes
=============================================================================
