----------------------------- MODULE LogRotate ------------------------------
(***************************************************************************)
(* The rotating log writer. Each day has a current file (0) and up to Keep *)
(* older ones, 1 the youngest. A write that would make the current file    *)
(* larger than MaxBytes first removes the oldest file and renames the      *)
(* others up. The mutex makes a write one call at a time; a system call in *)
(* it may fail, and the process may die between any two of them. A file is *)
(* the sequence of its bytes, each a line's number and a place in it.      *)
(***************************************************************************)
EXTENDS Integers, Sequences, FiniteSets

CONSTANTS Keep, MaxBytes,
          Days,       \* bound: midnights
          MaxLine,    \* bound: bytes of a line
          MaxLines,   \* bound: lines ever written
          MaxFaults,  \* bound: failed system calls
          MaxCrashes, \* bound: deaths of the process
          Missing     \* the content of a file that does not exist

Day  == 1 .. Days
Slot == 0 .. Keep

VARIABLES
    files,   \* [Day -> [Slot -> content]]
    clock,   \* today
    date,    \* w.date
    open,    \* w.file # nil
    size,    \* w.size
    pc,      \* where the process is; "down" while there is none
    line,    \* the length of the line being written
    slot,    \* the file rotate is about to rename
    lines,   \* lines ever written
    botched, \* [Day -> rotations that did not end well]
    faults, crashes

vars == <<files, clock, date, open, size, pc, line, slot, lines, botched,
          faults, crashes>>
disk == <<files, lines>>
run  == <<clock, crashes>>

At == {"down", "idle", "date", "size", "close", "remove", "rename", "reopen", "append"}

NoFiles == [s \in Slot |-> Missing]

Init == /\ files = [d \in Day |-> NoFiles]
        /\ clock = 1 /\ date = 1
        /\ open = FALSE /\ size = 0
        /\ pc = "down"
        /\ line = 0 /\ slot = 0
        /\ lines = 0
        /\ botched = [d \in Day |-> 0]
        /\ faults = 0 /\ crashes = 0

Goes(from, to) == pc = from /\ pc' = to
Fault          == faults < MaxFaults /\ faults' = faults + 1
Botched        == botched' = [botched EXCEPT ![date] = @ + 1]

Bytes(d, s)   == IF files[d][s] = Missing THEN <<>> ELSE files[d][s]
Created(d)    == [files EXCEPT ![d][0] = IF @ = Missing THEN <<>> ELSE @]

(* Mutant: the file is opened with O_TRUNC.                                 *)
Truncates(d) == /\ files' = [files EXCEPT ![d][0] = <<>>]
                /\ open' = TRUE
                /\ size' = 0

(* openFile: O_CREATE and O_APPEND, and the size that is found. *)
OpensFile(d) == /\ files' = Created(d)
                /\ open' = TRUE
                /\ size' = Len(Bytes(d, 0))

(* openFile fails: in Open, or in Stat when the file is there already.      *)
OpenFails(d) == files' \in {files, Created(d)} /\ Fault

-----------------------------------------------------------------------------
(* open: the process starts; without its log it does not start at all.      *)
Starts ==
    /\ Goes("down", "idle")
    /\ date' = clock
    /\ OpensFile(clock)
    /\ UNCHANGED <<run, line, slot, lines, botched, faults>>

(* A line is logged.                                                        *)
Write(n) ==
    /\ Goes("idle", "date")
    /\ line' = n
    /\ lines < MaxLines /\ lines' = lines + 1
    /\ UNCHANGED <<files, run, date, open, size, slot, botched, faults>>

(* switchDate. If the new file cannot be opened the old one stays, and the  *)
(* line is lost; if the old one does not close, the line is lost.           *)
Dates ==
    /\ \/ date = clock /\ Goes("date", "size") /\ UNCHANGED <<files, date, open, size, faults>>
       \/ /\ date # clock
          /\ OpensFile(clock) /\ date' = clock
          /\ \/ Goes("date", "size") /\ UNCHANGED faults
             \/ open /\ Goes("date", "idle") /\ Fault
       \/ /\ date # clock
          /\ OpenFails(clock) /\ Goes("date", "idle")
          /\ UNCHANGED <<date, open, size>>
    /\ UNCHANGED <<run, line, slot, lines, botched>>

Measures ==
    /\ Goes("size", IF size > 0 /\ size + line > MaxBytes THEN "close" ELSE "append")
    /\ UNCHANGED <<disk, run, date, open, size, line, slot, botched, faults>>

(* rotate: close the file, ...                                              *)
Closes ==
    /\ \/ Goes("close", "remove") /\ UNCHANGED <<botched, faults>>
       \/ Goes("close", "idle") /\ open /\ Fault /\ Botched
    /\ open' = FALSE
    /\ UNCHANGED <<disk, run, date, size, line, slot>>

(* fail: the current file is opened again if that is possible.              *)
GivesUp ==
    /\ pc' = "idle"
    /\ Botched
    /\ Fault
    /\ \/ OpensFile(date)
       \/ files' \in {files, Created(date)} /\ UNCHANGED <<open, size>>

(* Mutant: the renames start one file too low.                              *)
RemovesBelow ==
    /\ pc = "remove"
    /\ \/ /\ pc' = "rename"
          /\ files' = [files EXCEPT ![date][Keep] = Missing]
          /\ slot' = Keep - 2
          /\ UNCHANGED <<open, size, botched, faults>>
       \/ GivesUp /\ UNCHANGED slot
    /\ UNCHANGED <<run, date, line, lines>>

(* ... remove the oldest, ...                                               *)
Removes ==
    /\ pc = "remove"
    /\ \/ /\ pc' = "rename"
          /\ files' = [files EXCEPT ![date][Keep] = Missing]
          /\ slot' = Keep - 1
          /\ UNCHANGED <<open, size, botched, faults>>
       \/ GivesUp /\ UNCHANGED slot
    /\ UNCHANGED <<run, date, line, lines>>

(* ... rename the others from the oldest to the current one, ...            *)
Renames ==
    /\ pc = "rename"
    /\ \/ /\ files' = IF files[date][slot] = Missing THEN files
                      ELSE [files EXCEPT ![date][slot + 1] = files[date][slot],
                                         ![date][slot] = Missing]
          /\ slot' = IF slot = 0 THEN 0 ELSE slot - 1
          /\ pc' = IF slot = 0 THEN "reopen" ELSE "rename"
          /\ UNCHANGED <<open, size, botched, faults>>
       \/ GivesUp /\ UNCHANGED slot
    /\ UNCHANGED <<run, date, line, lines>>

(* ... and open a new one. If that fails there is no file and the size is   *)
(* still the old one's: the next line rotates again.                        *)
Reopens ==
    /\ pc = "reopen"
    /\ \/ Goes("reopen", "append") /\ OpensFile(date) /\ UNCHANGED <<botched, faults>>
       \/ Goes("reopen", "idle") /\ OpenFails(date) /\ Botched /\ UNCHANGED <<open, size>>
    /\ UNCHANGED <<run, date, line, slot, lines>>

(* The line goes to the end of the file; a full disk takes a part of it. A  *)
(* nil file refuses.                                                        *)
Appends ==
    /\ Goes("append", "idle")
    /\ \E n \in 0 .. line :
          /\ IF open THEN n = line \/ faults < MaxFaults ELSE n = 0
          /\ faults' = IF open /\ n < line THEN faults + 1 ELSE faults
          /\ files' = IF open
                      THEN [files EXCEPT ![date][0] = @ \o [k \in 1 .. n |-> <<lines, k>>]]
                      ELSE files
          /\ size' = size + n
    /\ UNCHANGED <<lines, run, date, open, line, slot, botched>>

Midnight == /\ clock < Days
            /\ clock' = clock + 1
            /\ UNCHANGED <<disk, date, open, size, pc, line, slot, botched, faults, crashes>>

(* The process ends: killed anywhere, or Close when nothing is written.   *)
Dies == /\ pc # "down" /\ crashes < MaxCrashes
        /\ crashes' = crashes + 1
        /\ pc' = "down"
        /\ open' = FALSE /\ size' = 0 /\ line' = 0 /\ slot' = 0
        /\ IF pc \in {"remove", "rename", "reopen"} THEN Botched ELSE UNCHANGED botched
        /\ UNCHANGED <<disk, clock, date, faults>>

Next == \/ Starts \/ \E n \in 1 .. MaxLine : Write(n)
        \/ Dates \/ Measures \/ Closes \/ Removes \/ Renames \/ Reopens \/ Appends
        \/ Midnight \/ Dies

Spec == Init /\ [][Next]_vars

-----------------------------------------------------------------------------
(* The log of a day as its reader finds it: the oldest file first.          *)
OnDisk(d) ==
    IF files[d] = NoFiles THEN <<>>
    ELSE LET upTo[s \in Slot] == Bytes(d, s) \o (IF s = 0 THEN <<>> ELSE upTo[s - 1])
         IN upTo[Keep]

logs == [d \in Day |-> OnDisk(d)]

Kept == INSTANCE KeptLog WITH log <- logs

(* Rotation, midnight, failures and restarts neither reorder, double nor    *)
(* lose anything but the oldest files of a day (rotate, switchDate).        *)
KeepsItsOrder == Kept!Spec

(* "keeping last 5": a line of a day goes only when the current file and    *)
(* all the older ones are there, but for one at most for each rotation of   *)
(* the day that failed or was interrupted before (rotate).                  *)
KeepsTheLast ==
    [][\A d \in Day : files'[d] # files[d] /\ Len(OnDisk(d)') < Len(OnDisk(d))
         => Cardinality({s \in Slot : files[d][s] = Missing}) <= botched[d]]_vars
=============================================================================
