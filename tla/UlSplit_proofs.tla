-------------------------- MODULE UlSplit_proofs ---------------------------
(* Proofs about UlSplit, for any serials, names, sizes and failures.        *)
EXTENDS UlSplit, TLAPS

USE SplitAssumption DEF Entry, Key, Chunk, NoChunk, index, call, past, vars,
                        KeyOf, KeysOf, Made

(* The running call: its progress, its chunks, and the record it found.     *)
Progress == /\ at \in {"create", "stream"} => made < op.chunks
            /\ at \in {"check", "stale", "record"} => made = op.chunks
            /\ at # "idle" => writes >= 1
            /\ at = "idle" <=> last # "running"

MadeWhole == at # "idle" =>
    \A i \in 0 .. made - 1 : chunk[KeyOf(op, i)] = [by |-> writes, whole |-> TRUE]

OldIsRecorded == at # "idle" => old = cfg[op.serial]

(* Records are filed under their own serial, so that writes for different   *)
(* serials share no chunk file.                                             *)
FiledBySerial == \A s \in Serial : cfg[s] # NoGame => cfg[s].serial = s

SplitInv == /\ TypeOK /\ Progress /\ MadeWhole /\ OldIsRecorded /\ FiledBySerial
            /\ SuccessIsIntact /\ IndexedIsIntact

LEMMA InitSplit == Init => SplitInv
<1> SUFFICES ASSUME Init PROVE SplitInv
  OBVIOUS
<1>1. TypeOK
  <2>1. torn \in BOOLEAN
    BY DEF Init
  <2>2. chunk \in [Key -> Chunk \cup {NoChunk}]
    BY DEF Init
  <2> QED
    BY <2>1, <2>2 DEF Init, TypeOK
<1>2. Progress /\ MadeWhole /\ OldIsRecorded /\ FiledBySerial
  BY DEF Init, Progress, MadeWhole, OldIsRecorded, FiledBySerial
<1>3. SuccessIsIntact /\ IndexedIsIntact
  BY DEF Init, SuccessIsIntact, IndexedIsIntact
<1> QED
  BY <1>1, <1>2, <1>3 DEF SplitInv

(* Whatever an interrupted rewrite leaves of ul.cfg, its records are old    *)
(* ones or the one being written.                                           *)
LEMMA Interrupted ==
    ASSUME TypeOK, IndexInterrupted
    PROVE  /\ torn' \in BOOLEAN
           /\ cfg' \in [Serial -> Entry \cup {NoGame}]
           /\ \A s \in Serial : cfg'[s] \in {NoGame, cfg[s]} \/ (s = op.serial /\ cfg'[s] = op)
<1>1. CASE UNCHANGED index
  BY <1>1 DEF TypeOK
<1>2. CASE torn' = TRUE /\ UNCHANGED cfg
  BY <1>2 DEF TypeOK
<1>3. ASSUME NEW S \in SUBSET Serial, UNCHANGED torn,
             cfg' = [s \in Serial |-> IF s \in S THEN [cfg EXCEPT ![op.serial] = op][s]
                                                 ELSE NoGame]
      PROVE  /\ torn' \in BOOLEAN
             /\ cfg' \in [Serial -> Entry \cup {NoGame}]
             /\ \A s \in Serial : cfg'[s] \in {NoGame, cfg[s]} \/ (s = op.serial /\ cfg'[s] = op)
  BY <1>3 DEF TypeOK
<1> QED
  BY <1>1, <1>2, <1>3 DEF IndexInterrupted

LEMMA TypeStep == SplitInv /\ [Next]_vars => TypeOK'
<1> SUFFICES ASSUME SplitInv, [Next]_vars PROVE TypeOK'
  OBVIOUS
<1> USE DEF SplitInv, TypeOK, Progress, OldIsRecorded
<1>1. ASSUME NEW e \in Entry, Begin(e) PROVE TypeOK'
  BY <1>1 DEF Begin
<1>2. CASE CreateChunk
  BY <1>2 DEF CreateChunk
<1>3. CASE StreamChunk
  BY <1>3 DEF StreamChunk
<1>4. CASE SourceEnds
  BY <1>4 DEF SourceEnds
<1>5. CASE WriteFails
  BY <1>5 DEF WriteFails, Fail, InDoubt, Without
<1>6. CASE RemoveStale
  BY <1>6 DEF RemoveStale, Without, StaleKeys
<1>7. CASE WriteRecord
  BY <1>7 DEF WriteRecord
<1>8. CASE RecordFails
  BY <1>8, Interrupted DEF RecordFails, Fail, InDoubt, Without
<1>9. CASE Crash
  <2>1. torn' \in BOOLEAN /\ cfg' \in [Serial -> Entry \cup {NoGame}]
    BY <1>9, Interrupted DEF Crash
  <2> QED
    BY <1>9, <2>1 DEF Crash, InDoubt
<1>10. CASE UNCHANGED vars
  BY <1>10
<1> QED
  BY <1>1, <1>2, <1>3, <1>4, <1>5, <1>6, <1>7, <1>8, <1>9, <1>10 DEF Next

LEMMA KeyFacts ==
    ASSUME NEW e \in Entry, NEW i \in 0 .. e.chunks - 1
    PROVE  /\ KeyOf(e, i) \in Key /\ KeyOf(e, i)[2] = e.serial
           /\ \A k \in 0 .. e.chunks - 1 : KeyOf(e, i) = KeyOf(e, k) => i = k
OBVIOUS

LEMMA CallStep ==
    SplitInv /\ [Next]_vars => Progress' /\ MadeWhole' /\ OldIsRecorded' /\ FiledBySerial'
<1> DEFINE G == Progress' /\ MadeWhole' /\ OldIsRecorded' /\ FiledBySerial'
<1> SUFFICES ASSUME SplitInv, [Next]_vars PROVE G
  OBVIOUS
<1> USE DEF SplitInv, TypeOK, Progress, MadeWhole, OldIsRecorded, FiledBySerial
<1>1. ASSUME NEW e \in Entry, Begin(e) PROVE G
  BY <1>1 DEF Begin
<1>2. CASE CreateChunk
  <2>1. MadeWhole'
    <3> SUFFICES ASSUME NEW i \in 0 .. made - 1
                 PROVE  chunk'[KeyOf(op, i)] = [by |-> writes, whole |-> TRUE]
      BY <1>2 DEF CreateChunk
    <3>1. KeyOf(op, i) # KeyOf(op, made) /\ KeyOf(op, i) \in Key
      BY <1>2, KeyFacts DEF CreateChunk
    <3> HIDE DEF KeyOf
    <3> QED
      BY <1>2, <3>1 DEF CreateChunk
  <2>2. Progress' /\ OldIsRecorded' /\ FiledBySerial'
    BY <1>2 DEF CreateChunk
  <2> QED
    BY <2>1, <2>2
<1>3. CASE StreamChunk
  <2>1. ASSUME NEW i \in 0 .. made
        PROVE  chunk'[KeyOf(op, i)] = [by |-> writes, whole |-> TRUE]
    <3>1. KeyOf(op, i) \in Key /\ (i # made => KeyOf(op, i) # KeyOf(op, made))
      BY <1>3, <2>1, KeyFacts DEF StreamChunk
    <3>2. i # made => chunk[KeyOf(op, i)] = [by |-> writes, whole |-> TRUE]
      <4>1. at # "idle" /\ (i # made => i \in 0 .. made - 1)
        BY <1>3, <2>1 DEF StreamChunk
      <4> HIDE DEF KeyOf, Key
      <4> QED
        BY <4>1
    <3>3. chunk' = [chunk EXCEPT ![KeyOf(op, made)] = [by |-> writes, whole |-> TRUE]]
      BY <1>3 DEF StreamChunk
    <3>4. chunk \in [Key -> Chunk \cup {NoChunk}]
      OBVIOUS
    <3> HIDE DEF KeyOf, Key, SplitInv, TypeOK, MadeWhole
    <3> QED
      BY <3>1, <3>2, <3>3, <3>4
  <2>3. made' = made + 1 /\ made \in Nat /\ op' = op /\ writes' = writes
    BY <1>3 DEF StreamChunk
  <2>4. MadeWhole'
    <3>1. \A i \in 0 .. made' - 1 : i \in 0 .. made
      BY <2>3
    <3> HIDE DEF Key, SplitInv, TypeOK
    <3> QED
      BY <2>1, <2>3, <3>1
  <2>2. Progress' /\ OldIsRecorded' /\ FiledBySerial'
    BY <1>3 DEF StreamChunk
  <2> QED
    BY <2>2, <2>4
<1>4. CASE SourceEnds
  BY <1>4 DEF SourceEnds
<1>5. CASE WriteFails
  BY <1>5 DEF WriteFails, Fail
<1>6. CASE RemoveStale
  <2>1. ASSUME at = "stale", NEW i \in 0 .. made - 1
        PROVE  chunk'[KeyOf(op, i)] = chunk[KeyOf(op, i)]
    <3>1. KeyOf(op, i) \in Key /\ KeyOf(op, i) \in KeysOf(op)
      BY <2>1, KeyFacts
    <3> HIDE DEF KeyOf, KeysOf
    <3> QED
      BY <1>6, <3>1 DEF RemoveStale, StaleKeys, Without
  <2>2. Progress' /\ OldIsRecorded' /\ FiledBySerial'
    BY <1>6 DEF RemoveStale
  <2>3. MadeWhole'
    BY <1>6, <2>1 DEF RemoveStale
  <2> QED
    BY <2>2, <2>3
<1>7. CASE WriteRecord
  BY <1>7 DEF WriteRecord
<1>8. CASE RecordFails
  BY <1>8, Interrupted DEF RecordFails, Fail
<1>9. CASE Crash
  BY <1>9, Interrupted DEF Crash
<1>10. CASE UNCHANGED vars
  BY <1>10
<1> QED
  BY <1>1, <1>2, <1>3, <1>4, <1>5, <1>6, <1>7, <1>8, <1>9, <1>10 DEF Next

LEMMA SuccessStep == SplitInv /\ [Next]_vars => SuccessIsIntact'
<1> SUFFICES ASSUME SplitInv, [Next]_vars PROVE SuccessIsIntact'
  OBVIOUS
<1> USE DEF SplitInv, TypeOK, Progress, MadeWhole, SuccessIsIntact
<1>1. CASE WriteRecord
  BY <1>1 DEF WriteRecord
<1>2. CASE ~WriteRecord /\ Next
  <2>1. last' # "ok"
    BY <1>2 DEF Next, Begin, CreateChunk, StreamChunk, SourceEnds, WriteFails,
                RemoveStale, RecordFails, Crash, Fail
  <2> QED
    BY <2>1
<1>3. CASE UNCHANGED vars
  BY <1>3
<1> QED
  BY <1>1, <1>2, <1>3

(* A step that leaves the record of s alone and touches no chunk file it    *)
(* names leaves the set intact.                                             *)
LEMMA IntactKept ==
    ASSUME TypeOK, FiledBySerial, NEW s \in Serial, Intact(s), cfg'[s] = cfg[s],
           \A k \in Key : k[2] = s => chunk'[k] = chunk[k]
    PROVE  Intact(s)'
<1>1. \A k \in KeysOf(cfg[s]) : k \in Key /\ k[2] = s
  BY KeyFacts DEF TypeOK, FiledBySerial, Intact
<1>2. PICK w \in 1 .. MaxWrites :
         \A k \in KeysOf(cfg[s]) : chunk[k] = [by |-> w, whole |-> TRUE]
  BY DEF Intact
<1>3. \A k \in KeysOf(cfg'[s]) : chunk'[k] = [by |-> w, whole |-> TRUE]
  BY ZenonT(30), <1>1, <1>2
<1>4. cfg'[s] # NoGame
  BY DEF Intact
<1> QED
  BY <1>3, <1>4 DEF Intact

LEMMA IndexStep == SplitInv /\ [Next]_vars => IndexedIsIntact'
<1> SUFFICES ASSUME SplitInv, [Next]_vars, NEW s \in Serial, cfg'[s] # NoGame
             PROVE  \/ Intact(s)' \/ s \in hurt'
                    \/ at' # "idle" /\ op'.serial = s /\ old' # NoGame
  BY DEF IndexedIsIntact
<1> DEFINE G == \/ Intact(s)' \/ s \in hurt'
                \/ at' # "idle" /\ op'.serial = s /\ old' # NoGame
<1> USE DEF SplitInv, TypeOK, Progress, OldIsRecorded, IndexedIsIntact
<1>1. ASSUME NEW e \in Entry, Begin(e) PROVE G
  BY <1>1, IntactKept DEF Begin
<1>2. CASE CreateChunk
  BY <1>2, IntactKept DEF CreateChunk
<1>3. CASE StreamChunk
  BY <1>3, IntactKept DEF StreamChunk
<1>4. CASE SourceEnds
  BY <1>4, IntactKept DEF SourceEnds
<1>5. CASE WriteFails
  BY <1>5, IntactKept DEF WriteFails, Fail, InDoubt, Without
<1>6. CASE RemoveStale
  BY <1>6, IntactKept DEF RemoveStale, StaleKeys, Without, FiledBySerial
<1>7. CASE WriteRecord
  <2>1. CASE s = op.serial
    <3>1. cfg'[s] = op /\ UNCHANGED chunk
      BY <1>7, <2>1 DEF WriteRecord
    <3>2. \A k \in KeysOf(op) : chunk[k] = [by |-> writes, whole |-> TRUE]
      BY ZenonT(30), <1>7 DEF WriteRecord, MadeWhole
    <3>3. writes \in 1 .. MaxWrites
      BY <1>7 DEF WriteRecord
    <3>4. \A k \in KeysOf(cfg'[s]) : chunk'[k] = [by |-> writes, whole |-> TRUE]
      BY <3>1, <3>2
    <3> QED
      BY <3>3, <3>4 DEF Intact
  <2>2. CASE s # op.serial
    BY <1>7, <2>2, IntactKept DEF WriteRecord
  <2> QED
    BY <2>1, <2>2
<1>8. CASE RecordFails
  BY <1>8, IntactKept, Interrupted DEF RecordFails, Fail, InDoubt, Without
<1>9. CASE Crash
  BY <1>9, IntactKept, Interrupted DEF Crash, InDoubt
<1>10. CASE UNCHANGED vars
  BY <1>10, IntactKept
<1> QED
  BY <1>1, <1>2, <1>3, <1>4, <1>5, <1>6, <1>7, <1>8, <1>9, <1>10 DEF Next

LEMMA SplitInductive == Spec => []SplitInv
<1>1. SplitInv /\ [Next]_vars => SplitInv'
  BY TypeStep, CallStep, SuccessStep, IndexStep DEF SplitInv
<1> QED
  BY InitSplit, <1>1, PTL DEF Spec

(* Whatever fails, is cancelled or dies: a successful Write leaves a record *)
(* naming exactly the chunks it wrote.                                      *)
THEOREM SplitCorrect == Spec => []SuccessIsIntact
<1>1. SplitInv => SuccessIsIntact
  BY DEF SplitInv
<1> QED
  BY SplitInductive, <1>1, PTL

(* A record names an intact set, unless a rewrite of that very game is      *)
(* running or went wrong.                                                   *)
THEOREM RecordsIntact == Spec => []IndexedIsIntact
<1>1. SplitInv => IndexedIsIntact
  BY DEF SplitInv
<1> QED
  BY SplitInductive, <1>1, PTL

-----------------------------------------------------------------------------
(* Every chunk file belongs to a record, to the running call, or to a call  *)
(* that ended badly, or could not be removed.                               *)
Accounted == \A k \in Key : chunk[k] # NoChunk =>
    /\ chunk[k].by \in 1 .. writes
    /\ \/ chunk[k].by \in broken
       \/ cfg[k[2]] # NoGame /\ k \in KeysOf(cfg[k[2]])
       \/ at # "idle" /\ k \in KeysOf(op) /\ chunk[k].by = writes
       \/ k \in kept

StaleGone == at = "record" => StaleKeys \subseteq kept

StaleInv == Accounted /\ StaleGone /\ OldSetRemoved

(* A call that ends badly: its chunks are broken, and after a rewrite of    *)
(* ul.cfg began so is every chunk there is.                                 *)
LEMMA DoubtAccounted ==
    ASSUME SplitInv, Accounted, InDoubt, UNCHANGED <<writes, kept>>, writes \in Nat, at # "idle",
           at = "record" \/ UNCHANGED cfg,
           \A k \in Key : chunk'[k] \in {chunk[k], NoChunk}
    PROVE  Accounted'
<1> SUFFICES ASSUME NEW k \in Key, chunk'[k] # NoChunk
             PROVE  /\ chunk'[k].by \in 1 .. writes'
                    /\ \/ chunk'[k].by \in broken'
                       \/ cfg'[k[2]] # NoGame /\ k \in KeysOf(cfg'[k[2]])
                       \/ k \in kept'
  BY DEF Accounted
<1>1. chunk'[k] = chunk[k] /\ chunk[k].by \in 1 .. writes
  BY DEF Accounted
<1>2. CASE at = "record"
  BY <1>1, <1>2 DEF InDoubt
<1>3. CASE at # "record"
  <2>1. broken' = broken \cup {writes} /\ UNCHANGED cfg
    BY <1>3 DEF InDoubt
  <2>2. \/ chunk[k].by \in broken
        \/ cfg[k[2]] # NoGame /\ k \in KeysOf(cfg[k[2]])
        \/ chunk[k].by = writes
        \/ k \in kept
    BY <1>1 DEF Accounted
  <2> HIDE DEF KeysOf, Key, InDoubt
  <2> QED
    BY <1>1, <2>1, <2>2
<1> QED
  BY <1>2, <1>3

LEMMA StaleStep == SplitInv /\ StaleInv /\ [Next]_vars => StaleInv'
<1> SUFFICES ASSUME SplitInv, StaleInv, [Next]_vars PROVE StaleInv'
  OBVIOUS
<1> USE DEF StaleInv, StaleGone, StaleKeys
<1>1. ASSUME NEW e \in Entry, Begin(e) PROVE StaleInv'
  <2>1. Accounted'
    BY <1>1 DEF Begin, Accounted, SplitInv, TypeOK
  <2> QED
    BY <1>1, <2>1 DEF Begin, OldSetRemoved
<1>2. CASE CreateChunk
  <2>1. KeyOf(op, made) \in Key /\ KeyOf(op, made) \in KeysOf(op) /\ writes \in 1 .. writes
    BY <1>2, KeyFacts DEF CreateChunk, SplitInv, TypeOK, Progress
  <2>2. Accounted'
    <3> HIDE DEF Key, KeyOf, KeysOf
    <3> QED
      BY <1>2, <2>1 DEF CreateChunk, Accounted, SplitInv, TypeOK
  <2> QED
    BY <1>2, <2>2 DEF CreateChunk, OldSetRemoved, SplitInv, Progress
<1>3. CASE StreamChunk
  <2>1. KeyOf(op, made) \in Key /\ KeyOf(op, made) \in KeysOf(op) /\ writes \in 1 .. writes
    BY <1>3, KeyFacts DEF StreamChunk, SplitInv, TypeOK, Progress
  <2>2. Accounted'
    <3> HIDE DEF Key, KeyOf, KeysOf
    <3> QED
      BY <1>3, <2>1 DEF StreamChunk, Accounted, SplitInv, TypeOK
  <2> QED
    BY <1>3, <2>2 DEF StreamChunk, OldSetRemoved, SplitInv, Progress
<1>4. CASE SourceEnds
  BY <1>4 DEF SourceEnds, Accounted, OldSetRemoved, SplitInv, Progress
<1>5. CASE WriteFails
  BY <1>5, DoubtAccounted
     DEF WriteFails, Fail, Without, OldSetRemoved, SplitInv, TypeOK
<1>6. CASE RemoveStale
  <2>1. last # "ok"
    BY <1>6 DEF RemoveStale, SplitInv, Progress
  <2>2. Accounted'
    <3>1. ASSUME NEW k \in StaleKeys, chunk' = Without({k}), UNCHANGED <<at, kept>>
          PROVE  Accounted'
      <4>1. \A j \in Key : chunk'[j] \in {chunk[j], NoChunk}
        BY <3>1 DEF Without
      <4>2. UNCHANGED <<cfg, op, writes, broken, at, kept>>
        BY <1>6, <3>1 DEF RemoveStale
      <4> HIDE DEF Key, KeysOf, StaleKeys
      <4> QED
        BY <4>1, <4>2 DEF Accounted
    <3>2. CASE at' = "record" /\ UNCHANGED chunk
      <4>1. UNCHANGED <<cfg, op, writes, broken, chunk>> /\ kept \subseteq kept'
        BY <1>6, <3>2 DEF RemoveStale
      <4>2. at' # "idle"
        BY <3>2
      <4> HIDE DEF Key, KeysOf, StaleKeys
      <4> QED
        BY <4>1, <4>2 DEF Accounted
    <3> QED
      BY <1>6, <3>1, <3>2 DEF RemoveStale
  <2> QED
    BY <1>6, <2>1, <2>2 DEF RemoveStale, OldSetRemoved
<1>7. CASE WriteRecord
  <2>1. ASSUME NEW k \in Key, k[2] = op.serial, k \notin KeysOf(op), chunk[k] # NoChunk
        PROVE  chunk[k].by \in broken \/ k \in kept
    BY <1>7, <2>1 DEF WriteRecord, Accounted, SplitInv, OldIsRecorded
  <2>2. Accounted'
    <3> SUFFICES ASSUME NEW k \in Key, chunk[k] # NoChunk
                 PROVE  /\ chunk[k].by \in 1 .. writes
                        /\ \/ chunk[k].by \in broken
                           \/ cfg'[k[2]] # NoGame /\ k \in KeysOf(cfg'[k[2]])
                           \/ k \in kept
      BY <1>7 DEF WriteRecord, Accounted
    <3>1. CASE k[2] = op.serial
      <4>1. cfg'[k[2]] = op /\ op # NoGame
        BY <1>7, <3>1 DEF WriteRecord, SplitInv, TypeOK
      <4> QED
        BY <2>1, <3>1, <4>1 DEF Accounted
    <3>2. CASE k[2] # op.serial
      <4>1. cfg'[k[2]] = cfg[k[2]] /\ k \notin KeysOf(op)
        BY <1>7, <3>2 DEF WriteRecord, SplitInv, TypeOK
      <4> HIDE DEF Key, KeysOf
      <4> QED
        BY <4>1 DEF Accounted
    <3> QED
      BY <3>1, <3>2
  <2>3. OldSetRemoved'
    BY <1>7, <2>1 DEF WriteRecord, OldSetRemoved
  <2> QED
    BY <1>7, <2>2, <2>3 DEF WriteRecord
<1>8. CASE RecordFails
  BY <1>8, DoubtAccounted DEF RecordFails, Fail, Without, OldSetRemoved, SplitInv, TypeOK
<1>9. CASE Crash
  BY <1>9, DoubtAccounted DEF Crash, OldSetRemoved, SplitInv, TypeOK
<1>10. CASE UNCHANGED vars
  BY <1>10 DEF Accounted, OldSetRemoved
<1> QED
  BY <1>1, <1>2, <1>3, <1>4, <1>5, <1>6, <1>7, <1>8, <1>9, <1>10 DEF Next

(* After a successful Write the serial has no chunks beside its own but     *)
(* what calls that ended badly have left and what could not be removed.     *)
THEOREM OldSetsGone == Spec => []OldSetRemoved
<1>1. Init => StaleInv
  BY DEF Init, StaleInv, Accounted, StaleGone, OldSetRemoved
<1>2. StaleInv => OldSetRemoved
  BY DEF StaleInv
<1> QED
  BY SplitInductive, StaleStep, <1>1, <1>2, PTL DEF Spec
=============================================================================
