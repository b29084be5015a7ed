------------------------------ MODULE UlSplit ------------------------------
(***************************************************************************)
(* Splitting games into USBExtreme chunks at the device root, one write at *)
(* a time: the chunks first, then the chunks of the game's previous set,   *)
(* then the game's record in ul.cfg. Any step may fail, the process may    *)
(* die between two of them, and a failed removal of a file is ignored. A   *)
(* game name stands for the CRC of it that chunk file names carry.         *)
(***************************************************************************)
EXTENDS Naturals

CONSTANTS Serial,     \* disc serials
          Name,       \* OPL names
          MaxChunks,  \* most chunks of a game
          MaxWrites,  \* bound: calls of Write
          NoGame      \* no record

Entry == [name : Name, serial : Serial, chunks : 1 .. MaxChunks]

ASSUME SplitAssumption == /\ MaxChunks \in Nat \ {0} /\ MaxWrites \in Nat
                          /\ NoGame \notin Entry

Key == Name \X Serial \X (0 .. MaxChunks - 1)

(* A chunk file: the Write call that made it, and whether it has all its    *)
(* bytes.                                                                   *)
Chunk   == [by : 1 .. MaxWrites, whole : BOOLEAN]
NoChunk == [by |-> 0, whole |-> FALSE]

VARIABLES cfg,     \* ul.cfg: the record of each serial
          torn,    \* ul.cfg does not parse
          chunk,   \* the chunk files
          at,      \* where the running Write is
          op,      \* the entry it writes
          old,     \* the record it found for the serial
          made,    \* chunks it has completed ("created")
          writes,  \* calls so far, the running one included
          last,    \* how the last call ended
          broken,  \* history: calls that failed, or whose record may be lost
          hurt,    \* history: serials whose set a failed call touched
          kept     \* history: old chunks whose removal failed, until they are
                   \* written anew

index == <<cfg, torn>>
call  == <<op, old, writes>>
past  == <<broken, hurt, kept>>
vars  == <<index, chunk, at, call, made, last, past>>

KeyOf(e, i) == <<e.name, e.serial, i>>
KeysOf(e)   == {KeyOf(e, i) : i \in 0 .. e.chunks - 1}
Made        == {KeyOf(op, i) : i \in 0 .. made - 1}

Without(keys) == [k \in Key |-> IF k \in keys THEN NoChunk ELSE chunk[k]]

Init == /\ cfg = [s \in Serial |-> NoGame]
        /\ torn = FALSE
        /\ chunk = [k \in Key |-> NoChunk]
        /\ at = "idle"
        /\ op \in Entry /\ old = NoGame
        /\ made = 0
        /\ writes = 0
        /\ last = "none"
        /\ broken = {}
        /\ hurt = {} /\ kept = {}

-----------------------------------------------------------------------------
(* The call starts: findRecord fails closed on a corrupt index.             *)
Begin(e) == /\ at = "idle" /\ ~torn
            /\ writes < MaxWrites
            /\ writes' = writes + 1
            /\ op' = e /\ old' = cfg[e.serial]
            /\ made' = 0
            /\ at' = "create"
            /\ last' = "running"
            /\ UNCHANGED <<index, chunk, past>>

(* os.Create truncates a file of the same name.                             *)
CreateChunk ==
    /\ at = "create"
    /\ chunk' = [chunk EXCEPT ![KeyOf(op, made)] = [by |-> writes, whole |-> FALSE]]
    /\ kept' = kept \ {KeyOf(op, made)}
    /\ at' = "stream"
    /\ UNCHANGED <<index, call, made, last, broken, hurt>>

(* Mutant: the last chunk is not waited for.                                *)
StreamChunkEarly ==
    /\ at = "stream"
    /\ chunk' = [chunk EXCEPT ![KeyOf(op, made)] = [by |-> writes, whole |-> TRUE]]
    /\ made' = made + 1
    /\ at' = IF made + 2 >= op.chunks THEN "check" ELSE "create"
    /\ UNCHANGED <<index, call, last, past>>

StreamChunk ==
    /\ at = "stream"
    /\ chunk' = [chunk EXCEPT ![KeyOf(op, made)] = [by |-> writes, whole |-> TRUE]]
    /\ made' = made + 1
    /\ at' = IF made + 1 = op.chunks THEN "check" ELSE "create"
    /\ UNCHANGED <<index, call, last, past>>

(* The source had exactly the stated size.                                  *)
SourceEnds == /\ at = "check"
              /\ at' = "stale"
              /\ UNCHANGED <<index, chunk, call, made, last, past>>

(* What a call that ends badly leaves in doubt: its own chunks, the set it  *)
(* was replacing, and every record once the rewrite of ul.cfg began.        *)
InDoubt == /\ broken' = broken \cup (IF at = "record" THEN 1 .. writes ELSE {writes})
           /\ hurt' = IF old # NoGame \/ at = "record" THEN hurt \cup {op.serial} ELSE hurt

(* A failed create, a read or write error, a cancelled context, a source    *)
(* too short or too long: the completed chunks are deleted, those that can  *)
(* be.                                                                      *)
Fail == /\ at' = "idle"
        /\ last' = "failed"
        /\ InDoubt
        /\ \E gone \in SUBSET Made : chunk' = Without(gone)
        /\ UNCHANGED <<call, made, kept>>

WriteFails == /\ at \in {"create", "stream", "check"}
              /\ Fail
              /\ UNCHANGED index

(* Mutant: removal by serial does not spare the names the new set shares.   *)
AnyOldKey == IF old = NoGame THEN {} ELSE {k \in KeysOf(old) : chunk[k] # NoChunk}

(* Mutant: nothing is removed.                                              *)
NoKey == {}

(* removeStaleChunks: files of the old set that the new one does not reuse. *)
StaleKeys == IF old = NoGame THEN {}
             ELSE {k \in KeysOf(old) \ KeysOf(op) : chunk[k] # NoChunk}

(* What cannot be removed stays, and the record is written all the same.    *)
RemoveStale == /\ at = "stale"
               /\ \/ /\ \E k \in StaleKeys : chunk' = Without({k})
                     /\ UNCHANGED <<at, kept>>
                  \/ /\ at' = "record" /\ kept' = kept \cup StaleKeys
                     /\ UNCHANGED chunk
               /\ UNCHANGED <<index, call, made, last, broken, hurt>>

WriteRecord == /\ at = "record"
               /\ cfg' = [cfg EXCEPT ![op.serial] = op]
               /\ at' = "idle"
               /\ last' = "ok"
               /\ hurt' = hurt \ {op.serial}
               /\ UNCHANGED <<torn, chunk, call, made, broken, kept>>

(* os.WriteFile truncates and rewrites: interrupted, it leaves the file as  *)
(* it was, cut inside a record, or with some of the records only.           *)
IndexInterrupted ==
    \/ UNCHANGED index
    \/ torn' = TRUE /\ UNCHANGED cfg
    \/ /\ \E S \in SUBSET Serial :
             cfg' = [s \in Serial |-> IF s \in S THEN [cfg EXCEPT ![op.serial] = op][s]
                                                 ELSE NoGame]
       /\ UNCHANGED torn

RecordFails == /\ at = "record"
               /\ Fail
               /\ IndexInterrupted

(* The process dies; what is on the disk stays.                             *)
Crash == /\ at # "idle"
         /\ at' = "idle"
         /\ last' = "crashed"
         /\ InDoubt
         /\ IF at = "record" THEN IndexInterrupted ELSE UNCHANGED index
         /\ UNCHANGED <<chunk, call, made, kept>>

Next == \/ \E e \in Entry : Begin(e)
        \/ CreateChunk \/ StreamChunk \/ SourceEnds \/ WriteFails
        \/ RemoveStale \/ WriteRecord \/ RecordFails
        \/ Crash

Spec == Init /\ [][Next]_vars

-----------------------------------------------------------------------------
TypeOK == /\ cfg \in [Serial -> Entry \cup {NoGame}]
          /\ torn \in BOOLEAN
          /\ chunk \in [Key -> Chunk \cup {NoChunk}]
          /\ at \in {"idle", "create", "stream", "check", "stale", "record"}
          /\ op \in Entry /\ old \in Entry \cup {NoGame}
          /\ made \in 0 .. MaxChunks
          /\ writes \in 0 .. MaxWrites
          /\ last \in {"none", "running", "ok", "failed", "crashed"}
          /\ broken \subseteq 1 .. MaxWrites
          /\ hurt \subseteq Serial /\ kept \subseteq Key

(* Every chunk the record of s names is there, whole, and from one write.   *)
Intact(s) ==
    /\ cfg[s] # NoGame
    /\ \E w \in 1 .. MaxWrites : \A k \in KeysOf(cfg[s]) :
          chunk[k] = [by |-> w, whole |-> TRUE]

(* A Write that succeeds leaves a record naming exactly the chunks it       *)
(* wrote, whatever failed writes and crashes left lying around.             *)
SuccessIsIntact ==
    last = "ok" =>
        /\ cfg[op.serial] = op
        /\ \A k \in KeysOf(op) : chunk[k] = [by |-> writes, whole |-> TRUE]

(* ... and no chunk of the serial beside them, but what failed writes       *)
(* leaked and what could not be removed: of the set this write replaced no  *)
(* chunk is forgotten, and neither is one of a set replaced before it       *)
(* (removeStaleChunks).                                                     *)
OldSetRemoved ==
    last = "ok" =>
        \A k \in Key : k[2] = op.serial /\ k \notin KeysOf(op) /\ chunk[k] # NoChunk =>
            chunk[k].by \in broken \/ k \in kept

(* A record always names an intact set, unless a rewrite of that very game  *)
(* is running or went wrong: a first split that fails or dies half way      *)
(* leaves no record, and no write touches the chunks of another game.       *)
IndexedIsIntact ==
    \A s \in Serial : cfg[s] # NoGame =>
        Intact(s) \/ s \in hurt \/ (at # "idle" /\ op.serial = s /\ old # NoGame)
=============================================================================
