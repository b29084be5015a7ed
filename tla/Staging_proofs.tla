-------------------------- MODULE Staging_proofs ---------------------------
(* Proofs about Staging, for any writers, builds of the loader, sweeps,     *)
(* crashes and files put there by hand.                                     *)
EXTENDS Staging, TLAPS

USE StagingAssumption DEF Writing, Gated, Small, Kind, Body, disk, bounds, vars, Go

(* The gate names exactly the gated writer that is past its TakesGate.      *)
GateNamesWriter == /\ gate \in Gated \cup {Free}
                   /\ \A w \in Writer : at[w] = "gate" => w \in Gated
                   /\ \A w \in Gated : at[w] \in Writing <=> gate = w

(* Jobs run only in the loop that follows a sweep, and only a crash, which  *)
(* ends the loop, leaves orphans.                                           *)
JobsAfterSweep == /\ at[Runner] # "idle" => runner = "loop"
                  /\ runner = "loop" => ~orphan

(* Only enrich requests, which are gated, write covers and cheats.          *)
SmallIsGated == \A w \in Writer : kind[w] \in Small => w \in Enrich

(* What a writer that has its temp file has seen and checked.               *)
Looked == \A w \in Writer : at[w] = "stream" =>
             /\ body[w] # "bad"
             /\ kind[w] \in Small => file[kind[w]] = "none" \/ w \in late

StagingInv == /\ TypeOK /\ GateNamesWriter /\ JobsAfterSweep /\ NoTempLeak
              /\ SmallIsGated /\ Looked /\ OneMasterStaged

LEMMA InitStaging == Init => StagingInv
<1> SUFFICES ASSUME Init PROVE StagingInv
  OBVIOUS
<1>1. orphan \in BOOLEAN
  BY DEF Init
<1>2. TypeOK
  BY <1>1 DEF Init, TypeOK
<1> QED
  BY <1>2 DEF Init, StagingInv, GateNamesWriter, JobsAfterSweep, NoTempLeak,
              SmallIsGated, Looked, OneMasterStaged

(* Two writers that stream the same small file are one writer.              *)
LEMMA SmallExclusive ==
  ASSUME StagingInv, NEW v \in Writer, NEW w \in Writer,
         at[v] = "stream", at[w] = "stream", kind[v] = kind[w], kind[w] \in Small
  PROVE  v = w
BY DEF StagingInv, GateNamesWriter, SmallIsGated

(* Whatever is fetched, it is content that a file may have.                 *)
LEMMA FetchesReady ==
  ASSUME NEW w \in Writer, Fetches(w)
  PROVE  FetchFails(w) \/ \E c \in Body : Ready(w, c)
<1>1. CASE FetchCover(w)
  BY <1>1 DEF FetchCover
<1>2. CASE FetchCheats(w)
  <2>1. PICK s \in Source, offer \in Offers : \E content \in Gives(s, offer) :
              content # "absent" /\ Ready(w, content)
    BY <1>2 DEF FetchCheats
  <2>2. Gives(s, offer) \subseteq {"absent", "made", "bad"}
    BY DEF Gives, Offers
  <2> QED
    BY <2>1, <2>2
<1>3. CASE FetchLoader(w)
  BY <1>3 DEF FetchLoader
<1> QED
  BY <1>1, <1>2, <1>3 DEF Fetches

LEMMA StepStaging == StagingInv /\ [Next]_vars => StagingInv'
<1> SUFFICES ASSUME StagingInv, [Next]_vars PROVE StagingInv'
  OBVIOUS
<1> USE DEF StagingInv, TypeOK, GateNamesWriter, JobsAfterSweep, NoTempLeak,
            SmallIsGated, Looked, OneMasterStaged
<1>1. CASE JobStarts
  BY <1>1 DEF JobStarts
<1>2. ASSUME NEW w \in Writer, NEW k \in Kind \ {"game"}, RequestStarts(w, k)
      PROVE  StagingInv'
  BY <1>2 DEF RequestStarts
<1>3. ASSUME NEW w \in Writer, NEW c \in Body, Ready(w, c) PROVE StagingInv'
  BY <1>3 DEF Ready
<1>4. ASSUME NEW w \in Writer, FetchFails(w) PROVE StagingInv'
  BY <1>4 DEF FetchFails, Ends
<1>5. ASSUME NEW w \in Writer, TakesGate(w) PROVE StagingInv'
  BY <1>5 DEF TakesGate
<1>6. ASSUME NEW w \in Writer, FindsFile(w) PROVE StagingInv'
  BY <1>6 DEF FindsFile, Drops
<1>7. ASSUME NEW w \in Writer, CreatesTemp(w) PROVE StagingInv'
  BY <1>7 DEF CreatesTemp, Accepts
<1>8. ASSUME NEW w \in Writer, Aborts(w) PROVE StagingInv'
  BY <1>8 DEF Aborts, Drops
<1>9. ASSUME NEW w \in Writer, Commits(w) PROVE StagingInv'
  BY <1>9, SmallExclusive DEF Commits
<1>10. ASSUME NEW w \in Writer, Unlocks(w) PROVE StagingInv'
  BY <1>10 DEF Unlocks, Leaves, Ends
<1>11. ASSUME NEW w \in Writer, Records(w) PROVE StagingInv'
  BY <1>11 DEF Records, Ends
<1>12. CASE SweepStarts
  BY <1>12 DEF SweepStarts
<1>13. CASE SweepsOne
  BY <1>13 DEF SweepsOne
<1>14. CASE SweepEnds
  BY <1>14 DEF SweepEnds
<1>15. CASE RunnerStops
  BY <1>15 DEF RunnerStops
<1>16. ASSUME NEW k \in Small, PutsByHand(k) PROVE StagingInv'
  BY <1>16 DEF PutsByHand
<1>17. CASE Crash
  BY <1>17 DEF Crash
<1>18. CASE UNCHANGED vars
  BY <1>18
<1> QED
  BY <1>1, <1>2, <1>3, <1>4, <1>5, <1>6, <1>7, <1>8, <1>9, <1>10, <1>11, <1>12,
     <1>13, <1>14, <1>15, <1>16, <1>17, <1>18, FetchesReady
     DEF Next, WriterStep

(* No two gated writes overlap, and whoever holds the gate gives it back.   *)
THEOREM GateSafe == Spec => []GatedExclusive
<1>1. StagingInv => GatedExclusive
  BY DEF StagingInv, GateNamesWriter, GatedExclusive
<1> QED
  BY InitStaging, StepStaging, <1>1, PTL DEF Spec

(* Every temp file has a writer, and no job writes before those of a dead   *)
(* process are gone.                                                        *)
THEOREM TempsSafe == Spec => []NoTempLeak
<1>1. StagingInv => NoTempLeak
  BY DEF StagingInv
<1> QED
  BY InitStaging, StepStaging, <1>1, PTL DEF Spec

(* Cheats without one master code are never put on the device.              *)
THEOREM CheatsSound == Spec => []OneMasterStaged
<1>1. StagingInv => OneMasterStaged
  BY DEF StagingInv
<1> QED
  BY InitStaging, StepStaging, <1>1, PTL DEF Spec

(* Covers and cheats that are on the device stay, except a hand file that   *)
(* arrives during the very write of its key.                                *)
THEOREM SmallFilesSafe == Spec => SmallFilesStand
<1>1. StagingInv => \A w \in Writer : Commits(w) /\ kind[w] \in Small
                                      => file[kind[w]] = "none" \/ w \in late
  BY DEF StagingInv, NoTempLeak, Looked, Commits
<1> QED
  BY InitStaging, StepStaging, <1>1, PTL DEF Spec, SmallFilesStand
=============================================================================
