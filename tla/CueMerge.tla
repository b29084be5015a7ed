------------------------------ MODULE CueMerge ------------------------------
(***************************************************************************)
(* Turning a CUE sheet and its BIN files into one VCD image: the parser,   *)
(* line by line, the plan it compiles to, and the plan's execution while   *)
(* the files may shrink. A length counts 2352-byte sectors; text, numbers  *)
(* and the metadata lines are abstracted to the directive they make.       *)
(***************************************************************************)
EXTENDS Integers, FiniteSets, SequencesExt

CONSTANTS File,      \* BIN names
          MaxFrame,  \* bound: timestamps and sizes
          MaxLines,  \* bound: directives of a sheet
          None

(* A track: whether it is BINARY and of 2352-byte sectors, its INDEX 00 and *)
(* INDEX 01 (-1 if missing), and its gaps.                                  *)
Track == [file : File, native : BOOLEAN, index : [{0, 1} -> -1 .. MaxFrame],
          pregap : 0 .. 1, postgap : 0 .. 1]

VARIABLES at,       \* where the conversion is
          lines,    \* directives read
          file,     \* curFile
          inTrack,  \* cur # nil: directives go to the last track
          sheet,    \* the tracks so far
          size,     \* sectors of each BIN now, -1 if it ends inside one
          sizes,    \* ... and when the plan was made
          plan,     \* the operations left to execute
          total,    \* Plan.TotalBytes
          out       \* the VCD so far, sector by sector

vars == <<at, lines, file, inTrack, sheet, size, sizes, plan, total, out>>
rest == <<size, sizes, plan, total, out>>

Init == /\ at = "parse"
        /\ lines = 0
        /\ file = None
        /\ inTrack = FALSE
        /\ sheet = <<>>
        /\ size = [f \in File |-> 0]
        /\ sizes = [f \in File |-> 0]
        /\ plan = <<>> /\ total = 0
        /\ out = <<>>

-----------------------------------------------------------------------------
(* Parse.                                                                   *)

Line == at = "parse" /\ lines < MaxLines /\ lines' = lines + 1

Refuse == /\ at' = "bad sheet"
          /\ UNCHANGED <<file, inTrack, sheet>>

FileLine(f) ==
    /\ Line
    /\ file' = f /\ inTrack' = FALSE
    /\ UNCHANGED <<at, sheet, rest>>

TrackLine(native) ==
    /\ Line
    /\ IF file = None THEN Refuse
       ELSE /\ sheet' = Append(sheet, [file |-> file, native |-> native,
                                       index |-> [n \in {0, 1} |-> -1],
                                       pregap |-> 0, postgap |-> 0])
            /\ inTrack' = TRUE
            /\ UNCHANGED <<at, file>>
    /\ UNCHANGED rest

InLastTrack(t) == /\ sheet' = [sheet EXCEPT ![Len(sheet)] = t]
                  /\ UNCHANGED <<at, file, inTrack>>

(* IndexPos finds the first INDEX of a number.                              *)
IndexLine(n, pos) ==
    /\ Line
    /\ IF ~inTrack THEN Refuse
       ELSE LET t == Last(sheet) IN
            InLastTrack(IF t.index[n] = -1 THEN [t EXCEPT !.index[n] = pos] ELSE t)
    /\ UNCHANGED rest

GapLine(before, after) ==
    /\ Line
    /\ IF ~inTrack THEN Refuse
       ELSE LET t == Last(sheet) IN
            InLastTrack([t EXCEPT !.pregap = IF before THEN 1 ELSE @,
                                  !.postgap = IF after THEN 1 ELSE @])
    /\ UNCHANGED rest

(* The end of the sheet: one track at least.                                *)
EndOfSheet ==
    /\ at = "parse"
    /\ at' = IF sheet = <<>> THEN "bad sheet" ELSE "stat"
    /\ UNCHANGED <<lines, file, inTrack, sheet, rest>>

-----------------------------------------------------------------------------
(* BuildPlan.                                                               *)

(* Mutant: a track runs to the INDEX 01 of the next one.                    *)
NextIndexFrame(t) == IF t.index[1] = -1 THEN 0 ELSE t.index[1]

NextStartFrame(t) == IF t.index[0] # -1 THEN t.index[0]
                     ELSE IF t.index[1] # -1 THEN t.index[1] ELSE 0

(* The next track's start in the same BIN, or the BIN's end.                *)
EndFrame(s, sz, i) ==
    IF i < Len(s) /\ s[i + 1].file = s[i].file THEN NextStartFrame(s[i + 1])
    ELSE sz[s[i].file]

(* Mutant: a pregap that ends before it starts is taken for none.           *)
AcceptsInverted(s, sz, i) ==
    /\ s[i].native /\ sz[s[i].file] # -1
    /\ s[i].index[1] # -1
    /\ s[i].index[1] <= EndFrame(s, sz, i)

Accepts(s, sz, i) ==
    /\ s[i].native /\ sz[s[i].file] # -1
    /\ s[i].index[1] # -1
    /\ s[i].index[0] <= s[i].index[1]
    /\ s[i].index[1] <= EndFrame(s, sz, i)

Zeros(n)           == IF n > 0 THEN <<[zeros |-> n]>> ELSE <<>>
Copies(f, from, n) == IF n > 0 THEN <<[file |-> f, from |-> from, frames |-> n]>>
                      ELSE <<>>

GapFrames(t) == t.pregap + (IF t.index[0] = -1 THEN 0 ELSE t.index[1] - t.index[0])

TrackOps(s, sz, i) ==
    LET t == s[i] IN
    Zeros(GapFrames(t))
      \o Copies(t.file, t.index[1], EndFrame(s, sz, i) - t.index[1])
      \o Zeros(t.postgap)

PlanOps(s, sz) == FlattenSeq([i \in DOMAIN s |-> TrackOps(s, sz, i)])

OpFrames(op) == IF "zeros" \in DOMAIN op THEN op.zeros ELSE op.frames

TotalFrames(ops) ==
    LET upTo[n \in 0 .. Len(ops)] == IF n = 0 THEN 0 ELSE upTo[n - 1] + OpFrames(ops[n])
    IN upTo[Len(ops)]

BuildPlan ==
    /\ at = "stat"
    /\ \E sz \in [File -> -1 .. MaxFrame] :
          /\ \A f \in File : (\A i \in DOMAIN sheet : sheet[i].file # f) => sz[f] = 0
          /\ size' = sz /\ sizes' = sz
          /\ IF \A i \in DOMAIN sheet : Accepts(sheet, sz, i)
               THEN /\ at' = "write"
                    /\ plan' = PlanOps(sheet, sz)
                    /\ total' = TotalFrames(plan')
               ELSE at' = "refused" /\ UNCHANGED <<plan, total>>
    /\ UNCHANGED <<lines, file, inTrack, sheet, out>>

-----------------------------------------------------------------------------
(* WriteVCD into the temp file, and runConvert's clean-up of it.            *)

Written(op) ==
    out \o (IF "zeros" \in DOMAIN op THEN [i \in 1 .. op.zeros |-> "zero"]
            ELSE [i \in 1 .. op.frames |-> <<op.file, op.from + i - 1>>])

AllThere(op) == "file" \in DOMAIN op => op.from + op.frames <= size[op.file]

WriteOp ==
    /\ at = "write" /\ plan # <<>>
    /\ AllThere(Head(plan))
    /\ out' = Written(Head(plan))
    /\ plan' = Tail(plan)
    /\ UNCHANGED <<at, lines, file, inTrack, sheet, size, sizes, total>>

(* A BIN ends too soon, or an operation fails: the partial output goes.     *)
WriteFails ==
    /\ at = "write" /\ plan # <<>>
    /\ at' = "failed"
    /\ out' = <<>>
    /\ plan' = <<>>
    /\ UNCHANGED <<lines, file, inTrack, sheet, size, sizes, total>>

WriteEnds ==
    /\ at = "write" /\ plan = <<>>
    /\ at' = "done"
    /\ UNCHANGED <<lines, file, inTrack, sheet, rest>>

(* Something else truncates a BIN between the plan and the end of the write. *)
Shrinks(f) ==
    /\ at = "write" /\ size[f] > 0
    /\ size' = [size EXCEPT ![f] = @ - 1]
    /\ UNCHANGED <<at, lines, file, inTrack, sheet, sizes, plan, total, out>>

Next == \/ \E f \in File : FileLine(f) \/ Shrinks(f)
        \/ \E n \in BOOLEAN : TrackLine(n)
        \/ \E n \in {0, 1}, pos \in 0 .. MaxFrame : IndexLine(n, pos)
        \/ GapLine(TRUE, FALSE) \/ GapLine(FALSE, TRUE)
        \/ EndOfSheet \/ BuildPlan
        \/ WriteOp \/ WriteFails \/ WriteEnds

Spec == Init /\ [][Next]_vars

-----------------------------------------------------------------------------
(* The image a sheet stands for, from the sectors it is made of and their   *)
(* order rather than from the operations that write it.                     *)

FirstMark(t) == IF t.index[0] # -1 THEN t.index[0] ELSE t.index[1]

(* The tracks that share track i's BIN, next to each other.                 *)
Group(i) == {k \in DOMAIN sheet :
               \A l \in (k .. i) \cup (i .. k) : sheet[l].file = sheet[i].file}

(* A BIN plays from its first mark to its end. A frame belongs to the last  *)
(* track whose marks it has reached.                                        *)
FramesOf(i) == {n \in FirstMark(sheet[i]) .. sizes[sheet[i].file] - 1 :
                  \A k \in Group(i) : k > i => n < FirstMark(sheet[k])}

(* A track's PREGAP (0), its frames (1) and its POSTGAP (2).                *)
SectorsOf(i) == {<<i, 0, n>> : n \in 1 .. sheet[i].pregap}
                  \cup {<<i, 1, n>> : n \in FramesOf(i)}
                  \cup {<<i, 2, n>> : n \in 1 .. sheet[i].postgap}

Sectors == UNION {SectorsOf(i) : i \in DOMAIN sheet}

Precedes(x, y) == \/ x[1] < y[1]
                  \/ x[1] = y[1] /\ x[2] < y[2]
                  \/ x[1] = y[1] /\ x[2] = y[2] /\ x[3] < y[3]

PlaceOf(x) == Cardinality({y \in Sectors : Precedes(y, x)}) + 1

(* What comes before a track's INDEX 01 is written as silence.              *)
SectorAt(x) == IF x[2] = 1 /\ x[3] >= sheet[x[1]].index[1]
               THEN <<sheet[x[1]].file, x[3]>> ELSE "zero"

IsImage(v) == /\ Len(v) = Cardinality(Sectors)
              /\ \A x \in Sectors : v[PlaceOf(x)] = SectorAt(x)

(* The marks of each BIN's tracks come in order and before its end.         *)
ValidSheet ==
    /\ \A i \in DOMAIN sheet :
          sheet[i].native /\ sizes[sheet[i].file] # -1 /\ sheet[i].index[1] # -1
    /\ \A i \in DOMAIN sheet :
          LET marks == [k \in Group(i) |-> <<FirstMark(sheet[k]), sheet[k].index[1]>>] IN
          /\ \A k \in Group(i) : marks[k][1] <= marks[k][2]
          /\ \A k, l \in Group(i) : k < l => marks[k][2] <= marks[l][1]
          /\ marks[Max(Group(i))][2] <= sizes[sheet[i].file]

-----------------------------------------------------------------------------
TypeOK ==
    /\ at \in {"parse", "bad sheet", "stat", "refused", "write", "failed", "done"}
    /\ lines \in 0 .. MaxLines
    /\ file \in File \cup {None}
    /\ inTrack \in BOOLEAN /\ (inTrack => sheet # <<>> /\ Last(sheet).file = file)
    /\ sheet \in Seq(Track)
    /\ size \in [File -> -1 .. MaxFrame]
    /\ sizes \in [File -> -1 .. MaxFrame]
    /\ \A i \in DOMAIN plan : OpFrames(plan[i]) \in Nat
    /\ total \in Nat

(* A finished VCD is the sheet's image, every sector in its place, none     *)
(* lost, doubled or shifted, even if a BIN was truncated meanwhile, and as  *)
(* large as was announced (BuildPlan, WriteVCD, Plan.TotalBytes).           *)
DoneIsImage == /\ at = "done" => IsImage(out)
               /\ at \in {"write", "done"} => total = Cardinality(Sectors)

(* Exactly the sheets whose marks are in order are converted (BuildPlan).   *)
RefusesExactlyInvalid ==
    /\ at = "refused" => ~ValidSheet
    /\ at = "write" => ValidSheet
=============================================================================
