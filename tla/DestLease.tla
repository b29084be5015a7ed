----------------------------- MODULE DestLease -----------------------------
(***************************************************************************)
(* The cross-process lease of one destination: a dest_locks row that       *)
(* processes take with a SELECT followed by an INSERT or an UPDATE, keep   *)
(* fresh with a heartbeat, and take over once it looks abandoned. Time     *)
(* advances in heartbeat intervals (20 s): the row is stale when more than *)
(* StaleAfter of them passed since its last update.                        *)
(***************************************************************************)
EXTENDS Naturals, FiniteSets

CONSTANTS Proc,         \* the processes that may serve the destination
          StaleAfter,   \* lockStaleAfter in heartbeat intervals
          PromptBeats,  \* a live owner beats before its row turns stale
          MaxCrashes,   \* bound: processes that die
          Nobody        \* no row

ASSUME LeaseAssumption == /\ StaleAfter \in Nat \ {0}
                          /\ PromptBeats \in BOOLEAN
                          /\ MaxCrashes \in Nat
                          /\ Nobody \notin Proc

VARIABLES owner,    \* dest_locks.owner, Nobody when there is no row
          age,      \* heartbeat intervals since dest_locks.updated_at
          at,       \* where each process is
          raced,    \* history: two processes were taking over at once
          crashes

vars == <<owner, age, at, raced, crashes>>

(* "insert", "takeover": the SELECT found no row, a stale row. "hold": the  *)
(* runner drains the queue.                                                 *)
Place == {"out", "insert", "takeover", "hold", "dead"}

Stale == owner # Nobody /\ age > StaleAfter

Holders == {p \in Proc : at[p] = "hold"}

Init == /\ owner = Nobody
        /\ age = 0
        /\ at = [p \in Proc |-> "out"]
        /\ raced = FALSE
        /\ crashes = 0

Move(p, from, to) == at[p] = from /\ at' = [at EXCEPT ![p] = to]

(* AcquireLock's SELECT. A fresh row refuses, and the runner tries again    *)
(* after its cooldown.                                                      *)
SeesNoRow(p) == /\ owner = Nobody
                /\ Move(p, "out", "insert")
                /\ UNCHANGED <<owner, age, raced, crashes>>

SeesStaleRow(p) == /\ Stale
                   /\ Move(p, "out", "takeover")
                   /\ raced' = (raced \/ \E q \in Proc : at[q] = "takeover")
                   /\ UNCHANGED <<owner, age, crashes>>

(* Mutant: INSERT OR IGNORE: the loser of the race holds without a row.     *)
InsertsOrIgnores(p) ==
    /\ Move(p, "insert", "hold")
    /\ IF owner = Nobody THEN owner' = p /\ age' = 0 ELSE UNCHANGED <<owner, age>>
    /\ UNCHANGED <<raced, crashes>>

(* The INSERT: the path is the primary key, a row made meanwhile is an      *)
(* error.                                                                   *)
Inserts(p) ==
    \/ /\ owner = Nobody
       /\ Move(p, "insert", "hold")
       /\ owner' = p /\ age' = 0
       /\ UNCHANGED <<raced, crashes>>
    \/ /\ owner # Nobody
       /\ Move(p, "insert", "out")
       /\ UNCHANGED <<owner, age, raced, crashes>>

(* The UPDATE names the path alone: it takes whatever row is there now, and *)
(* updating no row at all is no error.                                      *)
TakesOver(p) ==
    /\ Move(p, "takeover", "hold")
    /\ IF owner = Nobody THEN UNCHANGED <<owner, age>> ELSE owner' = p /\ age' = 0
    /\ UNCHANGED <<raced, crashes>>

(* Heartbeat: WHERE owner=?. A lost lease is an error that the goroutine    *)
(* drops.                                                                   *)
Beats(p) == /\ at[p] = "hold" /\ owner = p
            /\ age' = 0
            /\ UNCHANGED <<owner, at, raced, crashes>>

(* RunDestination returns: ReleaseLock deletes the row if it is still its.  *)
Releases(p) ==
    /\ Move(p, "hold", "out")
    /\ IF owner = p THEN owner' = Nobody /\ age' = 0 ELSE UNCHANGED <<owner, age>>
    /\ UNCHANGED <<raced, crashes>>

Crashes(p) == /\ crashes < MaxCrashes
              /\ at[p] # "dead"
              /\ at' = [at EXCEPT ![p] = "dead"]
              /\ crashes' = crashes + 1
              /\ UNCHANGED <<owner, age, raced>>

(* A heartbeat interval passes. With PromptBeats a live owner's heartbeat   *)
(* comes first; without it the owner may be suspended for as long as it     *)
(* takes.                                                                   *)
Tick == /\ owner # Nobody /\ age <= StaleAfter
        /\ PromptBeats => (age < StaleAfter \/ at[owner] # "hold")
        /\ age' = age + 1
        /\ UNCHANGED <<owner, at, raced, crashes>>

Acquire(p) == SeesNoRow(p) \/ SeesStaleRow(p) \/ Inserts(p) \/ TakesOver(p)

Next == \/ \E p \in Proc : Acquire(p) \/ Beats(p) \/ Releases(p) \/ Crashes(p)
        \/ Tick

Spec == Init /\ [][Next]_vars

-----------------------------------------------------------------------------
TypeOK == /\ owner \in Proc \cup {Nobody}
          /\ age \in 0 .. StaleAfter + 1
          /\ at \in [Proc -> Place]
          /\ raced \in BOOLEAN
          /\ crashes \in Nat

OneHolder == \A p, q \in Holders : p = q

(* Exactly one process writes to the destination (AcquireLock), unless two  *)
(* processes were taking over one dead owner's row at the same time: INSERT *)
(* races have one winner, a beaten lease is never taken over, and a crash   *)
(* alone does no harm.                                                      *)
ExclusiveUntilRace == raced \/ OneHolder
=============================================================================
