-------------------------- MODULE Admission_proofs --------------------------
(* Proofs about Admission, for any requests, sizes, reorders and events.    *)
EXTENDS Admission, FiniteSetTheorems, SequenceTheorems, TLAPS

USE DEF vars, rows, device, runner, batch, mover

JobStatus == {"new", "pending", "running", "paused", "error", "done", "gone"}

OrderTypes ==
    /\ status \in [Job -> JobStatus]
    /\ ord \in [Job -> Int]
    /\ at \in [Batch -> {"idle", "sum", "max", "insert", "refused", "returned"}]
    /\ top \in [Batch -> Int]
    /\ next \in [Batch -> Nat]
    /\ earlier \in [Batch -> SUBSET Batch]
    /\ mat \in [Mover -> {"idle", "write", "moved", "failed"}]
    /\ place \in [Mover -> Int]
    /\ moved \in BOOLEAN

(* Only a job whose turn came was inserted, none before its request is      *)
(* there, and a request that had returned inserts no more.                  *)
InsertedInTurn ==
    /\ \A j \in Job : status[j] # "new" => j[2] < next[j[1]]
    /\ \A b \in Batch : at[b] \in {"idle", "sum", "max"} => next[b] <= 1
    /\ \A b \in Batch, c \in Batch : c \in earlier[b] => at[c] = "returned"

(* A reorder that is under way began.                                       *)
MoversMoved == \A m \in Mover : mat[m] = "write" => moved

(* The runner has a job, from its UPDATE on one whose row is running.       *)
RunnerHolds ==
    /\ wpc # "idle" => cur \in Job
    /\ wpc \notin {"idle", "claim"} => status[cur] = "running"

Sorted == \A j, k \in Rows : Before(k, j) => ord[k] < ord[j]

(* What an inserting request gave or read is above all that must precede.   *)
TopCovers ==
    \A b \in Batch : at[b] = "insert" =>
        \A k \in Rows : k[1] \in earlier[b] \cup {b} => ord[k] <= top[b]

OrderInv == /\ OrderTypes /\ InsertedInTurn /\ MoversMoved /\ RunnerHolds
            /\ ~moved => Sorted /\ TopCovers

LEMMA JobPair ==
  ASSUME NEW j \in Job
  PROVE  /\ j[1] \in Batch /\ j[2] \in Nat \ {0}
         /\ j = <<j[1], j[2]>>
BY AdmissionAssumption DEF Job

LEMMA InitOrder == Init => OrderInv
<1> SUFFICES ASSUME Init PROVE OrderInv
  OBVIOUS
<1>1. OrderTypes
  <2>1. moved \in BOOLEAN
    BY DEF Init
  <2> QED
    BY <2>1 DEF Init, OrderTypes, JobStatus
<1>2. Rows = {}
  BY DEF Init, Rows
<1>3. InsertedInTurn /\ MoversMoved /\ RunnerHolds
  BY DEF Init, InsertedInTurn, MoversMoved, RunnerHolds
<1> QED
  BY <1>1, <1>2, <1>3 DEF OrderInv, Sorted, TopCovers

(* Steps that insert no row and write no order.                             *)
LEMMA OrderApart ==
  ASSUME OrderInv, OrderTypes', RunnerHolds',
         Rows' \subseteq Rows,
         \A j \in Job : status[j] = "new" => status'[j] = "new",
         UNCHANGED <<ord, at, top, next, earlier, mat, place, moved>>
  PROVE  OrderInv'
<1>1. InsertedInTurn' /\ MoversMoved'
  BY DEF OrderInv, InsertedInTurn, MoversMoved, OrderTypes, JobStatus
<1>2. ASSUME ~moved' PROVE Sorted' /\ TopCovers'
  BY <1>2 DEF OrderInv, Sorted, TopCovers, Before
<1> QED
  BY <1>1, <1>2 DEF OrderInv

LEMMA StepBatch ==
  ASSUME OrderInv, NEW b \in Batch,
         Resolves(b) \/ Admits(b) \/ ReadsMax(b) \/ Inserts(b) \/ Returns(b)
  PROVE  OrderInv'
<1> USE DEF OrderInv, OrderTypes
<1>1. CASE Resolves(b)
  <2>1. OrderTypes'
    BY <1>1 DEF Resolves, Goto
  <2>2. InsertedInTurn' /\ MoversMoved' /\ RunnerHolds' /\ Rows' = Rows
    BY <1>1 DEF Resolves, Goto, InsertedInTurn, MoversMoved, RunnerHolds, Rows
  <2>3. ASSUME ~moved' PROVE Sorted' /\ TopCovers'
    <3>1. ASSUME NEW j \in Rows PROVE j[1] # b
      <4>1. j \in Job /\ j[2] < next[j[1]]
        BY DEF InsertedInTurn, Rows
      <4>2. next[b] <= 1 /\ next[b] \in Nat
        BY <1>1 DEF Resolves, InsertedInTurn
      <4>3. j[2] \in Nat \ {0}
        BY <4>1, JobPair
      <4> QED
        BY <4>1, <4>2, <4>3
    <3>2. Sorted'
      BY <1>1, <2>2, <2>3, <3>1, JobPair DEF Resolves, Sorted, Before, Rows
    <3>3. TopCovers'
      BY <1>1, <2>2, <2>3 DEF Resolves, Goto, TopCovers
    <3> QED
      BY <3>2, <3>3
  <2> QED
    BY <2>1, <2>2, <2>3
<1>2. CASE Admits(b)
  <2>1. OrderTypes' /\ InsertedInTurn' /\ MoversMoved' /\ RunnerHolds' /\ Rows' = Rows
    BY <1>2 DEF Admits, Goto, InsertedInTurn, MoversMoved, RunnerHolds, Rows
  <2>2. ASSUME ~moved' PROVE Sorted' /\ TopCovers'
    BY <1>2, <2>1, <2>2 DEF Admits, Goto, Sorted, TopCovers, Before
  <2> QED
    BY <2>1, <2>2
<1>3. CASE ReadsMax(b)
  <2>1. PICK n \in {ord[j] : j \in Rows} \cup {-1} :
           /\ \A j \in Rows : ord[j] <= n
           /\ top' = [top EXCEPT ![b] = n]
    BY <1>3 DEF ReadsMax
  <2>2. n \in Int
    BY DEF Rows
  <2>3. OrderTypes' /\ InsertedInTurn' /\ MoversMoved' /\ RunnerHolds' /\ Rows' = Rows
    BY <1>3, <2>1, <2>2 DEF ReadsMax, Goto, InsertedInTurn, MoversMoved, RunnerHolds, Rows
  <2>4. ASSUME ~moved' PROVE Sorted' /\ TopCovers'
    BY <1>3, <2>1, <2>3, <2>4 DEF ReadsMax, Goto, Sorted, TopCovers, Before
  <2> QED
    BY <2>3, <2>4
<1>4. CASE Inserts(b)
  <2> DEFINE i == <<b, next[b]>>
  <2>1. /\ i \in Job /\ at[b] = "insert"
        /\ status' = [status EXCEPT ![i] = "pending"]
        /\ ord' = [ord EXCEPT ![i] = top[b] + 1]
        /\ top' = [top EXCEPT ![b] = @ + 1]
        /\ next' = [next EXCEPT ![b] = @ + 1]
        /\ UNCHANGED <<at, earlier, mat, place, moved>>
    BY <1>4 DEF Inserts
  <2>2. i[1] = b /\ i[2] = next[b]
    OBVIOUS
  <2> HIDE DEF i
  <2>3. OrderTypes'
    BY <2>1 DEF JobStatus
  <2>4. InsertedInTurn' /\ MoversMoved' /\ RunnerHolds'
    <3>1. \A j \in Job : status'[j] # "new" => j[2] < next'[j[1]]
      BY <2>1, <2>2, JobPair DEF InsertedInTurn
    <3>2. /\ \A c \in Batch : at'[c] \in {"idle", "sum", "max"} => next'[c] <= 1
          /\ \A c \in Batch, e \in Batch : e \in earlier'[c] => at'[e] = "returned"
      BY <2>1 DEF InsertedInTurn
    <3>3. MoversMoved'
      BY <2>1 DEF MoversMoved
    <3>4. UNCHANGED <<wpc, cur>>
      BY <1>4 DEF Inserts
    <3>5. /\ wpc # "idle" => cur \in Job
          /\ wpc \notin {"idle", "claim"} => cur # i /\ status[cur] = "running"
      BY <2>2, JobPair DEF RunnerHolds, InsertedInTurn
    <3>6. RunnerHolds'
      BY <2>1, <3>4, <3>5 DEF RunnerHolds
    <3> QED
      BY <3>1, <3>2, <3>3, <3>6 DEF InsertedInTurn
  <2>5. \A k \in Rows' : k = i \/ (k # i /\ k \in Rows)
    BY <2>1 DEF Rows
  <2>6. \A k \in Rows : k[1] = b => k[2] < next[b]
    BY DEF Rows, InsertedInTurn
  <2>7. \A c \in Batch : b \notin earlier[c]
    BY <2>1 DEF InsertedInTurn
  <2>8. \A k \in Job : k # i /\ k[1] = b => k[2] # next[b]
    BY <2>2, JobPair DEF i
  <2>9. \A k \in Rows' : k \in Job
    BY DEF Rows
  <2>10. ASSUME ~moved' PROVE Sorted'
    <3> SUFFICES ASSUME NEW j \in Rows', NEW k \in Rows', Before(k, j)'
                 PROVE  ord'[k] < ord'[j]
      BY DEF Sorted
    <3>1. Before(k, j) /\ ~moved
      BY <2>1, <2>10 DEF Before
    <3>2. CASE j = i /\ k = i
      BY <2>2, <2>7, <3>1, <3>2 DEF Before
    <3>3. CASE j = i /\ k # i
      <4>1. k \in Rows /\ k[1] \in earlier[b] \cup {b}
        BY <2>2, <2>5, <3>1, <3>3 DEF Before
      <4>2. ord[k] <= top[b]
        BY <2>1, <3>1, <4>1 DEF TopCovers
      <4> QED
        BY <2>1, <2>9, <3>3, <4>2
    <3>4. CASE j # i /\ k = i
      <4>1. j \in Rows /\ j[1] \in Batch
        BY <2>5, <2>9, <3>4, JobPair
      <4>2. j[1] = b /\ next[b] < j[2]
        BY <2>2, <2>7, <3>1, <3>4, <4>1 DEF Before
      <4>3. j[2] < next[b] /\ j[2] \in Nat /\ next[b] \in Nat
        BY <2>6, <2>9, <4>1, <4>2, JobPair
      <4> QED
        BY <4>2, <4>3
    <3>5. CASE j # i /\ k # i
      BY <2>1, <2>5, <2>9, <3>1, <3>5 DEF Sorted
    <3> QED
      BY <3>2, <3>3, <3>4, <3>5
  <2>11. ASSUME ~moved' PROVE TopCovers'
    <3> SUFFICES ASSUME NEW c \in Batch, at'[c] = "insert", NEW k \in Rows',
                        k[1] \in earlier'[c] \cup {c}
                 PROVE  ord'[k] <= top'[c]
      BY DEF TopCovers
    <3>1. CASE k = i
      BY <2>1, <2>2, <2>7, <3>1
    <3>2. CASE k # i
      <4>1. ord[k] <= top[c] /\ ord[k] \in Int
        BY <2>1, <2>5, <2>9, <2>11, <3>2 DEF TopCovers
      <4> QED
        BY <2>1, <2>9, <3>2, <4>1
    <3> QED
      BY <3>1, <3>2
  <2> QED
    BY <2>3, <2>4, <2>10, <2>11
<1>5. CASE Returns(b)
  <2>1. OrderTypes' /\ InsertedInTurn' /\ MoversMoved' /\ RunnerHolds' /\ Rows' = Rows
    BY <1>5 DEF Returns, Busy, Goto, InsertedInTurn, MoversMoved, RunnerHolds, Rows
  <2>2. ASSUME ~moved' PROVE Sorted' /\ TopCovers'
    BY <1>5, <2>1, <2>2 DEF Returns, Goto, Sorted, TopCovers, Before
  <2> QED
    BY <2>1, <2>2
<1> QED
  BY <1>1, <1>2, <1>3, <1>4, <1>5

LEMMA StepRunner ==
  ASSUME OrderInv, RunnerStep
  PROVE  OrderInv'
<1> USE DEF OrderInv, OrderTypes
<1>0. CASE Selects
  <2>1. /\ UNCHANGED <<status, ord, at, top, next, earlier, mat, place, moved>>
        /\ cur' \in Job /\ wpc' = "claim"
    BY <1>0 DEF Selects, Pending
  <2>2. RunnerHolds'
    BY <2>1 DEF RunnerHolds
  <2> QED
    BY <2>1, <2>2, OrderApart DEF Rows
<1>1. CASE Claims
  <2>1. cur \in Job /\ UNCHANGED <<ord, at, top, next, earlier, mat, place, moved>>
    BY <1>1 DEF Claims, RunnerHolds
  <2>2. \/ /\ status[cur] = "pending" /\ cur' = cur /\ wpc' = "prepare"
           /\ status' = [status EXCEPT ![cur] = "running"]
        \/ wpc' = "idle" /\ UNCHANGED status
    BY <1>1 DEF Claims
  <2>3. OrderTypes' /\ RunnerHolds' /\ Rows' \subseteq Rows
    BY <2>1, <2>2 DEF Rows, JobStatus, RunnerHolds
  <2>4. \A j \in Job : status[j] = "new" => status'[j] = "new"
    BY <2>1, <2>2
  <2> QED
    BY <2>1, <2>3, <2>4, OrderApart
<1>2. CASE Begins \/ Writes \/ Checkpoints \/ Commits \/ Fails \/ Drops
  <2>1. UNCHANGED <<status, ord, at, top, next, earlier, mat, place, moved>>
    BY <1>2 DEF Begins, Writes, Checkpoints, Commits, Fails, Drops
  <2>2. RunnerHolds'
    BY <1>2 DEF Begins, Writes, Checkpoints, Commits, Fails, Drops, RunnerHolds
  <2> QED
    BY <2>1, <2>2, OrderApart DEF Rows
<1>3. CASE Passes \/ Settles
  <2>1. UNCHANGED <<ord, at, top, next, earlier, mat, place, moved>>
    BY <1>3 DEF Passes, Settles
  <2>2. \E s \in {"done", "pending", "error"} : status' = [status EXCEPT ![cur] = s]
    BY <1>3 DEF Passes, Settles
  <2>3. RunnerHolds' /\ cur \in Job /\ status[cur] = "running"
    BY <1>3 DEF Passes, Settles, RunnerHolds
  <2> QED
    BY <2>1, <2>2, <2>3, OrderApart DEF Rows, JobStatus
<1> QED
  BY <1>0, <1>1, <1>2, <1>3 DEF RunnerStep

LEMMA StepOp ==
  ASSUME OrderInv, NEW j \in Job,
         PauseJob(j) \/ ResumeJob(j) \/ RetryJob(j) \/ CancelJob(j)
  PROVE  OrderInv'
<1> USE DEF OrderInv, OrderTypes
<1>1. UNCHANGED <<ord, at, top, next, earlier, mat, place, moved>>
  BY DEF PauseJob, ResumeJob, RetryJob, CancelJob, Op
<1>2. /\ status[j] \notin {"new", "gone"}
      /\ status[j] # "running"
      /\ \E s \in {"paused", "pending", "gone"} : status' = [status EXCEPT ![j] = s]
  BY DEF PauseJob, ResumeJob, RetryJob, CancelJob
<1>3. RunnerHolds'
  BY <1>2 DEF PauseJob, ResumeJob, RetryJob, CancelJob, Op, RunnerHolds
<1> QED
  BY <1>1, <1>2, <1>3, OrderApart DEF Rows, JobStatus

LEMMA StepMover ==
  ASSUME OrderInv, NEW m \in Mover,
         MoverReads(m) \/ MoverWrites(m) \/ MoverReturns(m)
  PROVE  OrderInv'
<1> USE DEF OrderInv, OrderTypes
<1>1. CASE MoverReads(m)
  BY <1>1 DEF MoverReads, InsertedInTurn, MoversMoved, RunnerHolds
<1>2. CASE MoverWrites(m)
  <2>1. moved /\ UNCHANGED <<status, at, top, next, earlier, mat, moved, wpc, cur>>
    BY <1>2 DEF MoverWrites, MoversMoved
  <2>2. place' = [place EXCEPT ![m] = @ + 1]
    BY <1>2 DEF MoverWrites
  <2>3. PICK j : ord' = [ord EXCEPT ![j] = IF j \in Rows THEN place[m] ELSE @]
    BY <1>2 DEF MoverWrites
  <2>4. ord' \in [Job -> Int]
    BY <2>3
  <2> QED
    BY <2>1, <2>2, <2>4 DEF InsertedInTurn, MoversMoved, RunnerHolds
<1>3. CASE MoverReturns(m)
  <2>1. moved /\ UNCHANGED <<status, ord, at, top, next, earlier, moved, wpc, cur>>
    BY <1>3 DEF MoverReturns, MoversMoved
  <2>2. OrderTypes' /\ MoversMoved'
    BY <1>3 DEF MoverReturns, MoversMoved
  <2> QED
    BY <2>1, <2>2 DEF InsertedInTurn, RunnerHolds
<1> QED
  BY <1>1, <1>2, <1>3

LEMMA StepOrder == OrderInv /\ [Next]_vars => OrderInv'
<1> SUFFICES ASSUME OrderInv, [Next]_vars PROVE OrderInv'
  OBVIOUS
<1>1. CASE \E b \in Batch : \/ Resolves(b) \/ Admits(b) \/ ReadsMax(b)
                            \/ Inserts(b) \/ Returns(b)
  BY <1>1, StepBatch
<1>2. CASE RunnerStep
  BY <1>2, StepRunner
<1>3. CASE \E j \in Job : \/ PauseJob(j) \/ ResumeJob(j)
                          \/ RetryJob(j) \/ CancelJob(j)
  BY <1>3, StepOp
<1>4. CASE \E m \in Mover : MoverReads(m) \/ MoverWrites(m) \/ MoverReturns(m)
  BY <1>4, StepMover
<1>5. CASE UNCHANGED vars
  BY <1>5, OrderApart DEF Rows, OrderInv, OrderTypes, RunnerHolds
<1> QED
  BY <1>1, <1>2, <1>3, <1>4, <1>5 DEF Next

(* The runner's choice: nothing that was waiting then must come before it.  *)
ChosenFirst ==
    wpc = "claim" => /\ status[cur] # "new"
                     /\ ~moved => \A k \in waiting : ~Before(k, cur)

LEMMA InitChosen == Init => ChosenFirst
BY DEF Init, ChosenFirst

LEMMA StepChosen == OrderInv /\ ChosenFirst /\ [Next]_vars => ChosenFirst'
<1> SUFFICES ASSUME OrderInv, ChosenFirst, [Next]_vars, wpc' = "claim"
             PROVE  ChosenFirst'
  BY DEF ChosenFirst
<1> USE DEF OrderInv, OrderTypes
<1>1. CASE Selects
  <2>1. /\ cur' \in Pending /\ \A k \in Pending : ord[cur'] <= ord[k]
        /\ waiting' = Pending /\ UNCHANGED <<status, earlier, moved>>
    BY <1>1 DEF Selects
  <2>2. Pending \subseteq Rows /\ \A k \in Rows : ord[k] \in Int
    BY DEF Pending, Rows
  <2>3. ASSUME ~moved, NEW k \in Pending PROVE ~Before(k, cur')
    <3>1. Before(k, cur') => ord[k] < ord[cur']
      BY <2>1, <2>2, <2>3 DEF Sorted
    <3>2. ord[cur'] <= ord[k] /\ ord[k] \in Int /\ ord[cur'] \in Int
      BY <2>1, <2>2
    <3> QED
      BY <3>1, <3>2
  <2> QED
    BY <2>1, <2>3 DEF ChosenFirst, Before, Pending
<1>2. CASE ~Selects
  <2>1. wpc = "claim" /\ UNCHANGED <<wpc, cur, waiting>>
    BY <1>2 DEF Next, RunnerStep, Claims, Begins, Writes, Checkpoints, Commits, Passes,
                Fails, Settles, Drops, Resolves, Admits, ReadsMax, Inserts, Returns,
                PauseJob, ResumeJob, RetryJob, CancelJob, Op, MoverReads,
                MoverWrites, MoverReturns
  <2>2. cur \in Job /\ status[cur] # "new" /\ cur[1] \in Batch
    BY <2>1, JobPair DEF RunnerHolds, ChosenFirst
  <2>3. ~RunnerStep
    BY <1>2, <2>1 DEF RunnerStep, Claims, Begins, Writes, Checkpoints, Commits,
                      Passes, Fails, Settles, Drops
  <2>4. CASE \E b \in Batch : Resolves(b)
    <3>1. PICK b \in Batch : Resolves(b)
      BY <2>4
    <3>2. /\ at[b] = "idle" /\ UNCHANGED <<status, moved>>
          /\ earlier' = [earlier EXCEPT ![b] = {c \in Batch : at[c] = "returned"}]
      BY <3>1 DEF Resolves
    <3>3. cur[2] < next[cur[1]] /\ cur[2] \in Nat \ {0}
      BY <2>2, JobPair DEF InsertedInTurn
    <3>4. next[b] <= 1 /\ next[b] \in Nat
      BY <3>2 DEF InsertedInTurn
    <3>5. cur[1] # b
      BY <3>3, <3>4
    <3>6. earlier'[cur[1]] = earlier[cur[1]]
      BY <2>2, <3>2, <3>5
    <3> QED
      BY <2>1, <3>2, <3>6 DEF ChosenFirst, Before
  <2>5. CASE ~\E b \in Batch : Resolves(b)
    <3>1. UNCHANGED earlier /\ (moved => moved')
      BY <2>3, <2>5 DEF Next, Admits, ReadsMax, Inserts, Returns, PauseJob, ResumeJob,
                        RetryJob, CancelJob, Op, MoverReads, MoverWrites, MoverReturns
    <3>2. status'[cur] # "new"
      <4>1. \/ UNCHANGED status
            \/ \E j \in Job, l \in {"pending", "paused", "gone"} :
                   status' = [status EXCEPT ![j] = l]
        BY <2>3, <2>5 DEF Next, Admits, ReadsMax, Inserts, Returns, PauseJob, ResumeJob,
                          RetryJob, CancelJob, MoverReads, MoverWrites, MoverReturns
      <4> QED
        BY <2>2, <4>1
    <3> QED
      BY <2>1, <3>1, <3>2 DEF ChosenFirst, Before
  <2> QED
    BY <2>4, <2>5
<1> QED
  BY <1>1, <1>2

(* Only Claims makes a pending job running.                                 *)
LEMMA OnlyClaims ==
  ASSUME OrderInv, [Next]_vars, NEW j \in Job,
         status[j] = "pending", status'[j] = "running"
  PROVE  wpc = "claim" /\ j = cur
<1> USE DEF OrderInv, OrderTypes
<1>1. ~UNCHANGED status
  OBVIOUS
<1>2. ASSUME NEW b \in Batch PROVE ~Inserts(b)
  BY <1>2 DEF Inserts
<1>3. ~Passes /\ ~Settles
  BY DEF Passes, Settles
<1>4. ASSUME NEW k \in Job
      PROVE  ~PauseJob(k) /\ ~ResumeJob(k) /\ ~RetryJob(k) /\ ~CancelJob(k)
  BY DEF PauseJob, ResumeJob, RetryJob, CancelJob
<1>5. Claims
  BY <1>1, <1>2, <1>3, <1>4
     DEF Next, RunnerStep, Resolves, Admits, ReadsMax, Returns, Selects, Begins,
         Writes, Checkpoints, Commits, Fails, Drops, MoverReads, MoverWrites,
         MoverReturns
<1> QED
  BY <1>5 DEF Claims

(* First come, first served: for any mix of requests, failures and user     *)
(* operations without a reorder, a job never starts over an earlier one     *)
(* that was waiting when the runner chose.                                  *)
THEOREM FirstComeFirstServed == Spec => ClaimsInOrder
<1> DEFINE InTurn == \A j \in Job : status[j] = "pending" /\ status'[j] = "running"
                                    /\ ~moved => \A k \in waiting : ~Before(k, j)
<1>1. OrderInv /\ ChosenFirst /\ [Next]_vars => [InTurn]_vars
  BY OnlyClaims DEF ChosenFirst
<1> QED
  BY <1>1, InitOrder, StepOrder, InitChosen, StepChosen, PTL DEF Spec, ClaimsInOrder

-----------------------------------------------------------------------------
(* Sums of bytes.                                                           *)

LEMMA TotalType == \A j \in Job : Total(j) \in Nat
BY AdmissionAssumption DEF Job, Total

(* A union of finite sets, one for each element of a finite set.            *)
LEMMA FiniteUnion ==
  ASSUME NEW I, IsFiniteSet(I), NEW f, f \in [I -> Range(f)],
         \A i \in I : IsFiniteSet(f[i])
  PROVE  IsFiniteSet(UNION {f[i] : i \in I})
<1>1. f \in Surjection(I, {f[i] : i \in I})
  BY Zenon DEF Surjection
<1>2. IsFiniteSet({f[i] : i \in I})
  BY <1>1, FS_Surjection
<1>3. \A T \in {f[i] : i \in I} : IsFiniteSet(T)
  OBVIOUS
<1> QED
  BY <1>2, <1>3, FS_UNION

LEMMA FiniteColumn ==
  ASSUME NEW x, NEW n \in Nat
  PROVE  IsFiniteSet({x} \X (1 .. n))
<1> DEFINE A == {x}
           B == 1 .. n
<1>1. IsFiniteSet(A)
  BY FS_Singleton, Zenon
<1>2. IsFiniteSet(B)
  BY FS_Interval
<1> HIDE DEF A, B
<1>3. IsFiniteSet(A \X B)
  BY <1>1, <1>2, FS_Product
<1> QED
  BY <1>3 DEF A, B

LEMMA JobFinite == IsFiniteSet(Job)
<1> DEFINE f == [b \in Batch |-> {b} \X DOMAIN Sizes[b]]
<1>1. ASSUME NEW b \in Batch PROVE IsFiniteSet({b} \X DOMAIN Sizes[b])
  <2>1. DOMAIN Sizes[b] = 1 .. Len(Sizes[b]) /\ Len(Sizes[b]) \in Nat
    BY AdmissionAssumption
  <2> QED
    BY <2>1, FiniteColumn
<1>2. IsFiniteSet(UNION {f[b] : b \in Batch})
  <2>1. f \in [Batch -> Range(f)]
    BY DEF Range
  <2>2. \A b \in Batch : IsFiniteSet(f[b])
    BY <1>1
  <2> HIDE DEF f
  <2> QED
    BY <2>1, <2>2, FiniteUnion, AdmissionAssumption
<1>3. Job = UNION {f[b] : b \in Batch}
  BY DEF Job
<1> QED
  BY <1>2, <1>3

Stack(f, S) == UNION {{j} \X (1 .. f[j]) : j \in S}

LEMMA StackMember ==
  ASSUME NEW f, NEW S
  PROVE  \A q : q \in Stack(f, S) <=> \E j \in S : \E n \in 1 .. f[j] : q = <<j, n>>
BY DEF Stack

LEMMA StackFinite ==
  ASSUME NEW f \in [Job -> Nat], NEW S \in SUBSET Job
  PROVE  IsFiniteSet(Stack(f, S)) /\ Bytes(f, S) \in Nat
<1> DEFINE h == [j \in S |-> {j} \X (1 .. f[j])]
<1>1. IsFiniteSet(S)
  BY JobFinite, FS_Subset
<1>2. \A j \in S : IsFiniteSet(h[j])
  BY FiniteColumn
<1>3. h \in [S -> Range(h)]
  BY DEF Range
<1>4. Stack(f, S) = UNION {h[j] : j \in S}
  BY DEF Stack
<1> HIDE DEF h
<1>5. IsFiniteSet(Stack(f, S))
  BY <1>1, <1>2, <1>3, <1>4, FiniteUnion
<1> QED
  BY <1>5, FS_CardinalityType DEF Bytes, Stack

LEMMA BytesGrow ==
  ASSUME NEW f \in [Job -> Nat], NEW g \in [Job -> Nat],
         \A j \in Job : f[j] <= g[j]
  PROVE  Bytes(f, Job) <= Bytes(g, Job)
<1>1. Stack(f, Job) \subseteq Stack(g, Job)
  <2> SUFFICES ASSUME NEW j \in Job, NEW n \in 1 .. f[j]
               PROVE  n \in 1 .. g[j]
    BY StackMember
  <2> QED
    OBVIOUS
<1> QED
  BY <1>1, StackFinite, FS_Subset DEF Bytes, Stack

(* h stacked on f, for the jobs of S. *)
LEMMA BytesAdd ==
  ASSUME NEW f \in [Job -> Nat], NEW h \in [Job -> Nat], NEW S \in SUBSET Job
  PROVE  Bytes([j \in Job |-> f[j] + IF j \in S THEN h[j] ELSE 0], Job)
           = Bytes(f, Job) + Bytes(h, S)
<1> DEFINE g == [j \in Job |-> f[j] + IF j \in S THEN h[j] ELSE 0]
           Above == Stack(g, Job) \ Stack(f, Job)
           F == [q \in Above |-> <<q[1], q[2] - f[q[1]]>>]
<1>1. g \in [Job -> Nat] /\ \A j \in Job : f[j] <= g[j]
  OBVIOUS
<1>2. Stack(f, Job) \subseteq Stack(g, Job)
  <2> SUFFICES ASSUME NEW j \in Job, NEW n \in 1 .. f[j]
               PROVE  n \in 1 .. g[j]
    BY StackMember
  <2> QED
    BY <1>1
<1>3. \A j \in Job, n \in Nat : <<j, n>> \in Above <=> j \in S /\ n > f[j] /\ n <= f[j] + h[j]
  BY StackMember
<1>4. \A q \in Above : \E j \in Job : \E n \in Nat : q = <<j, n>>
  BY <1>1, StackMember
<1>5. F \in [Above -> Stack(h, S)]
  <2> SUFFICES ASSUME NEW q \in Above PROVE <<q[1], q[2] - f[q[1]]>> \in Stack(h, S)
    OBVIOUS
  <2>1. PICK j \in Job, n \in Nat : q = <<j, n>>
    BY <1>4
  <2>2. j \in S /\ n - f[j] \in 1 .. h[j]
    BY <1>3, <2>1
  <2> HIDE DEF Above
  <2> QED
    BY <2>1, <2>2, StackMember
<1>6. \A p, q \in Above : F[p] = F[q] => p = q
  <2> SUFFICES ASSUME NEW p \in Above, NEW q \in Above, F[p] = F[q] PROVE p = q
    OBVIOUS
  <2>1. PICK j \in Job, n \in Nat : p = <<j, n>>
    BY <1>4
  <2>2. PICK k \in Job, m \in Nat : q = <<k, m>>
    BY <1>4
  <2> HIDE DEF Above
  <2> QED
    BY <2>1, <2>2
<1>7. \A r \in Stack(h, S) : \E q \in Above : F[q] = r
  <2> SUFFICES ASSUME NEW j \in S, NEW n \in 1 .. h[j]
               PROVE  \E q \in Above : F[q] = <<j, n>>
    <3> HIDE DEF Above, F
    <3> TAKE r \in Stack(h, S)
    <3>1. PICK j \in S : \E n \in 1 .. h[j] : r = <<j, n>>
      BY StackMember
    <3> QED
      BY <3>1
  <2>1. <<j, f[j] + n>> \in Above
    BY <1>3
  <2> HIDE DEF Above
  <2>2. F[<<j, f[j] + n>>] = <<j, n>>
    BY <2>1
  <2> HIDE DEF F
  <2> QED
    BY <2>1, <2>2
<1> HIDE DEF g, Above, F
<1>8. F \in Injection(Above, Stack(h, S)) /\ F \in Surjection(Above, Stack(h, S))
  BY <1>5, <1>6, <1>7 DEF Injection, IsInjective, Surjection
<1>9. IsFiniteSet(Above) /\ Cardinality(Above) = Bytes(h, S)
  BY <1>8, StackFinite, FS_Injection DEF Bytes, Stack
<1>10. Stack(g, Job) = Stack(f, Job) \cup Above /\ Stack(f, Job) \cap Above = {}
  BY <1>2 DEF Above
<1>11. Cardinality(Stack(g, Job)) = Cardinality(Stack(f, Job)) + Cardinality(Above)
  <2>1. IsFiniteSet(Stack(f, Job)) /\ Cardinality(Stack(f, Job)) \in Nat
    BY StackFinite, FS_CardinalityType
  <2>2. Cardinality(Above) \in Nat /\ Cardinality({}) = 0
    BY <1>9, FS_CardinalityType, FS_EmptySet
  <2> QED
    BY SMTT(30), <1>9, <1>10, <2>1, <2>2, FS_Union
<1> QED
  BY <1>9, <1>11 DEF Bytes, Stack, g

SpaceTypes ==
    /\ done \in [Job -> Nat] /\ temp \in [Job -> Nat] /\ kept \in [Job -> Nat]
    /\ \A j \in Job : done[j] <= Total(j) /\ temp[j] <= Total(j)
    /\ free \in [Batch -> Int]
    /\ wpc \in {"idle", "claim", "prepare", "write", "verify", "fail"}

(* Only the job being written has a temp file, no shorter than its last     *)
(* checkpoint.                                                              *)
TempOfWriter ==
    /\ \A j \in Job : temp[j] # 0 => wpc = "write" /\ j = cur
    /\ wpc = "write" => done[cur] <= temp[cur]

(* The rows tell the truth: a job that has not begun has no bytes done, and *)
(* only the runner's row is running.                                        *)
RowsTell ==
    /\ \A j \in Job : \/ status[j] \in {"new", "pending", "paused"}
                      \/ wpc = "prepare" /\ j = cur
                      => done[j] = 0
    /\ \A j \in Job : status[j] = "running" => wpc \notin {"idle", "claim"} /\ j = cur

OneAtATime == \A b \in Batch, c \in Batch : Busy(b) /\ Busy(c) => b = c

SawFree == \A b \in Batch : at[b] = "sum" => free[b] \in {Free, Unknown}

(* The jobs taken: in the queue, or admitted and not inserted yet.          *)
Held(j) == \/ status[j] \in {"pending", "running", "paused"}
           \/ status[j] = "new" /\ at[j[1]] \in {"max", "insert"}

(* What job j occupies on the device or is still going to.                  *)
Claim == [j \in Job |-> OnDevice[j] + IF Held(j) THEN Unwritten[j] ELSE 0]

ClaimsFit == Bytes(Claim, Job) <= Capacity

SpaceInv == /\ SpaceTypes /\ TempOfWriter
            /\ ~excused => RowsTell /\ OneAtATime /\ SawFree /\ ClaimsFit

LEMMA ClaimTypes ==
  ASSUME SpaceTypes
  PROVE  /\ OnDevice \in [Job -> Nat] /\ Left \in [Job -> Nat]
         /\ Unwritten \in [Job -> Nat] /\ Claim \in [Job -> Nat]
<1>1. OnDevice \in [Job -> Nat]
  BY DEF SpaceTypes, OnDevice
<1>2. Left \in [Job -> Nat]
  BY TotalType DEF SpaceTypes, Left
<1>3. Unwritten \in [Job -> Nat]
  BY TotalType DEF SpaceTypes, Unwritten
<1> QED
  BY <1>1, <1>2, <1>3 DEF Claim

LEMMA ClaimTypesNext ==
  ASSUME SpaceTypes'
  PROVE  /\ OnDevice' \in [Job -> Nat] /\ Unwritten' \in [Job -> Nat]
         /\ Claim' \in [Job -> Nat]
<1>1. OnDevice' \in [Job -> Nat]
  BY DEF SpaceTypes, OnDevice
<1>2. Unwritten' \in [Job -> Nat]
  BY TotalType DEF SpaceTypes, Unwritten
<1> QED
  BY <1>1, <1>2 DEF Claim

LEMMA ClaimsShrink ==
  ASSUME SpaceTypes, SpaceTypes', ClaimsFit,
         \A j \in Job : Claim'[j] <= Claim[j]
  PROVE  ClaimsFit'
<1>1. Claim \in [Job -> Nat] /\ Claim' \in [Job -> Nat]
  BY ClaimTypes, ClaimTypesNext
<1>2. Bytes(Claim', Job) <= Bytes(Claim, Job)
  BY <1>1, BytesGrow
<1>3. Bytes(Claim, Job) \in Nat /\ Bytes(Claim', Job) \in Nat
  BY <1>1, StackFinite
<1> QED
  BY <1>2, <1>3, AdmissionAssumption DEF ClaimsFit

LEMMA InitSpace == Init => SpaceInv
<1> SUFFICES ASSUME Init PROVE SpaceInv
  OBVIOUS
<1>1. SpaceTypes /\ TempOfWriter
  BY TotalType DEF Init, SpaceTypes, TempOfWriter
<1>2. RowsTell
  BY DEF Init, RowsTell
<1>7. OneAtATime /\ SawFree
  <2>1. \A b \in Batch : at[b] = "idle"
    BY DEF Init
  <2> QED
    BY <2>1 DEF OneAtATime, SawFree, Busy
<1>3. \A j \in Job : OnDevice[j] = 0 /\ ~Held(j)
  BY JobPair DEF Init, OnDevice, Held
<1>4. \A j \in Job : Claim[j] = 0
  BY <1>3 DEF Claim
<1>5. Stack(Claim, Job) = {}
  BY <1>4, StackMember
<1>6. ClaimsFit
  <2>1. Bytes(Claim, Job) = 0
    BY <1>5, FS_EmptySet, Zenon DEF Bytes, Stack
  <2> QED
    BY <2>1, AdmissionAssumption DEF ClaimsFit
<1> QED
  BY <1>1, <1>2, <1>6, <1>7 DEF SpaceInv

(* Steps that move no bytes and admit nothing.                              *)
LEMMA SpaceApart ==
  ASSUME SpaceInv, SpaceTypes', TempOfWriter',
         ~excused' => ~excused /\ RowsTell' /\ \A j \in Job : Claim'[j] <= Claim[j],
         UNCHANGED <<temp, kept, at, free>>
  PROVE  SpaceInv'
<1> SUFFICES ASSUME ~excused' PROVE (RowsTell /\ OneAtATime /\ SawFree /\ ClaimsFit)'
  BY DEF SpaceInv
<1>1. OneAtATime'
  BY DEF SpaceInv, OneAtATime, Busy
<1>2. SawFree'
  BY DEF SpaceInv, SawFree, Free, OnDevice
<1>3. ClaimsFit'
  BY ClaimsShrink DEF SpaceInv
<1> QED
  BY <1>1, <1>2, <1>3

(* The runner's steps that move bytes, with no request between its readings. *)
LEMMA SpaceMoves ==
  ASSUME SpaceInv, SpaceTypes', TempOfWriter', MovesBytes,
         ~excused => RowsTell' /\ \A j \in Job : Claim'[j] <= Claim[j],
         UNCHANGED <<at, free>>
  PROVE  SpaceInv'
<1> SUFFICES ASSUME ~excused' PROVE (RowsTell /\ OneAtATime /\ SawFree /\ ClaimsFit)'
  BY DEF SpaceInv
<1>0. ~excused /\ \A b \in Batch : at[b] # "sum"
  BY DEF MovesBytes
<1>1. OneAtATime'
  BY <1>0 DEF SpaceInv, OneAtATime, Busy
<1>2. SawFree'
  BY <1>0 DEF SawFree
<1>3. ClaimsFit'
  BY <1>0, ClaimsShrink DEF SpaceInv
<1> QED
  BY <1>0, <1>1, <1>2, <1>3

LEMMA SpaceRunner ==
  ASSUME OrderInv, SpaceInv, RunnerStep
  PROVE  SpaceInv'
<1> USE DEF SpaceInv
<1>t. /\ SpaceTypes /\ status \in [Job -> JobStatus]
      /\ wpc # "idle" => cur \in Job
      /\ wpc \notin {"idle", "claim"} => status[cur] = "running"
      /\ \A j \in Job : Total(j) \in Nat
  BY TotalType DEF OrderInv, OrderTypes, RunnerHolds
<1>0. CASE Selects \/ Claims
  <2>1. PICK l \in {"idle", "claim", "prepare"} :
           /\ wpc' = l /\ wpc \in {"idle", "claim"}
           /\ UNCHANGED <<done, temp, kept, at, free, excused>>
           /\ l \in {"idle", "claim"} => UNCHANGED status
           /\ l = "prepare" => /\ wpc = "claim" /\ status[cur] = "pending"
                               /\ status' = [status EXCEPT ![cur] = "running"]
                               /\ cur' = cur
    BY <1>0 DEF Selects, Claims
  <2>3. SpaceTypes' /\ TempOfWriter'
    BY <1>t, <2>1 DEF SpaceTypes, TempOfWriter
  <2>4. ASSUME ~excused PROVE RowsTell'
    BY <1>t, <2>1, <2>4 DEF RowsTell, JobStatus
  <2>5. ASSUME NEW j \in Job PROVE Claim'[j] <= Claim[j]
    <3>1. Held(j)' = Held(j) /\ OnDevice'[j] = OnDevice[j] /\ Unwritten'[j] = Unwritten[j]
      BY <1>t, <2>1 DEF Held, OnDevice, Unwritten, JobStatus
    <3> QED
      BY <3>1, ClaimTypes DEF Claim
  <2> QED
    BY <2>1, <2>3, <2>4, <2>5, SpaceApart
<1>1. CASE Drops
  <2>1. /\ wpc' = "idle" /\ cur' = None /\ excused'
        /\ wpc = "fail" \/ wpc = "verify"
        /\ UNCHANGED <<status, done, temp, kept, at, free>>
    BY <1>1 DEF Drops
  <2>2. SpaceTypes' /\ TempOfWriter'
    BY <1>t, <2>1 DEF SpaceTypes, TempOfWriter
  <2> QED
    BY <2>1, <2>2
<1>2. CASE Begins
  <2>1. /\ wpc = "prepare" /\ wpc' = "write" /\ done' = [done EXCEPT ![cur] = 0]
        /\ UNCHANGED <<status, cur, temp, kept, at, free, excused>>
    BY <1>2 DEF Begins
  <2>2. SpaceTypes' /\ TempOfWriter'
    BY <1>t, <2>1 DEF SpaceTypes, TempOfWriter
  <2>3. ASSUME ~excused PROVE RowsTell'
    BY <1>t, <2>1, <2>3 DEF RowsTell, SpaceTypes
  <2>4. ASSUME NEW j \in Job PROVE Claim'[j] <= Claim[j]
    <3>1. Held(j)' = Held(j) /\ OnDevice'[j] = OnDevice[j] /\ Unwritten'[j] = Unwritten[j]
      BY <1>t, <2>1 DEF Held, OnDevice, Unwritten
    <3> QED
      BY <3>1, ClaimTypes DEF Claim
  <2> QED
    BY <2>1, <2>2, <2>3, <2>4, SpaceApart
<1>3. CASE Writes
  <2>1. /\ wpc = "write" /\ temp[cur] < Total(cur)
        /\ temp' = [temp EXCEPT ![cur] = @ + 1]
        /\ MovesBytes
        /\ UNCHANGED <<status, done, kept, wpc, cur, at, free>>
    BY <1>3 DEF Writes
  <2>2. SpaceTypes' /\ TempOfWriter'
    BY <1>t, <2>1 DEF SpaceTypes, TempOfWriter
  <2>3. ASSUME ~excused PROVE RowsTell'
    BY <2>1, <2>3 DEF RowsTell
  <2>4. ASSUME NEW j \in Job PROVE Claim'[j] <= Claim[j]
    <3>1. Held(j)' = Held(j) /\ Held(cur)
      BY <1>t, <2>1 DEF Held
    <3>2. OnDevice'[j] = IF j = cur THEN OnDevice[j] + 1 ELSE OnDevice[j]
      BY <1>t, <2>1 DEF OnDevice, SpaceTypes
    <3>3. Unwritten'[j] = IF j = cur THEN Unwritten[j] - 1 ELSE Unwritten[j]
      BY <1>t, <2>1 DEF Unwritten, SpaceTypes
    <3> QED
      BY <1>t, <3>1, <3>2, <3>3, ClaimTypes DEF Claim
  <2> QED
    BY <2>1, <2>2, <2>3, <2>4, SpaceMoves
<1>4. CASE Checkpoints
  <2>1. /\ wpc \in {"write", "verify"}
        /\ done' = [done EXCEPT ![cur] = IF wpc = "write" THEN temp[cur] ELSE Total(cur)]
        /\ MovesBytes
        /\ UNCHANGED <<status, temp, kept, wpc, cur, at, free>>
    BY <1>4 DEF Checkpoints
  <2>2. SpaceTypes' /\ TempOfWriter'
    BY <1>t, <2>1 DEF SpaceTypes, TempOfWriter
  <2>3. ASSUME ~excused PROVE RowsTell'
    BY <1>t, <2>1, <2>3 DEF RowsTell, SpaceTypes
  <2>4. ASSUME NEW j \in Job PROVE Claim'[j] <= Claim[j]
    <3>1. Held(j)' = Held(j) /\ OnDevice'[j] = OnDevice[j] /\ Unwritten'[j] = Unwritten[j]
      BY <1>t, <2>1 DEF Held, OnDevice, Unwritten
    <3> QED
      BY <1>t, <3>1, ClaimTypes DEF Claim
  <2> QED
    BY <2>1, <2>2, <2>3, <2>4, SpaceMoves
<1>5. CASE Commits
  <2>1. /\ wpc = "write" /\ temp[cur] = Total(cur) /\ wpc' = "verify"
        /\ temp' = [temp EXCEPT ![cur] = 0]
        /\ kept' = [kept EXCEPT ![cur] = Total(cur)]
        /\ MovesBytes
        /\ UNCHANGED <<status, done, cur, at, free>>
    BY <1>5 DEF Commits
  <2>2. SpaceTypes' /\ TempOfWriter'
    BY <1>t, <2>1 DEF SpaceTypes, TempOfWriter
  <2>3. ASSUME ~excused PROVE RowsTell'
    BY <2>1, <2>3 DEF RowsTell
  <2>4. ASSUME NEW j \in Job PROVE Claim'[j] <= Claim[j]
    <3>1. Held(j)' = Held(j)
      BY <1>t, <2>1 DEF Held
    <3>2. OnDevice'[j] <= OnDevice[j]
      BY <1>t, <2>1 DEF OnDevice, SpaceTypes
    <3>3. Unwritten'[j] <= Unwritten[j]
      BY <1>t, <2>1 DEF Unwritten, SpaceTypes
    <3> QED
      BY <1>t, <2>2, <3>1, <3>2, <3>3, ClaimTypes, ClaimTypesNext DEF Claim
  <2> QED
    BY <2>1, <2>2, <2>3, <2>4, SpaceMoves
<1>6. CASE Passes
  <2>1. /\ wpc = "verify" /\ wpc' = "idle" /\ cur' = None
        /\ status' = [status EXCEPT ![cur] = "done"]
        /\ MovesBytes
        /\ UNCHANGED <<done, temp, kept, at, free>>
    BY <1>6 DEF Passes
  <2>2. SpaceTypes' /\ TempOfWriter'
    BY <1>t, <2>1 DEF SpaceTypes, TempOfWriter, JobStatus
  <2>3. ASSUME ~excused PROVE RowsTell'
    BY <1>t, <2>1, <2>3 DEF RowsTell, JobStatus
  <2>4. ASSUME NEW j \in Job PROVE Claim'[j] <= Claim[j]
    <3>1. Held(j)' => Held(j) /\ j # cur
      BY <1>t, <2>1 DEF Held, JobStatus
    <3>2. OnDevice'[j] = OnDevice[j] /\ (j # cur => Unwritten'[j] = Unwritten[j])
      BY <1>t, <2>1 DEF OnDevice, Unwritten
    <3> QED
      BY <1>t, <2>2, <3>1, <3>2, ClaimTypes DEF Claim
  <2> QED
    BY <2>1, <2>2, <2>3, <2>4, SpaceMoves
<1>7. CASE Fails
  <2>1. /\ wpc \in {"prepare", "write", "verify"} /\ wpc' = "fail"
        /\ temp' = [temp EXCEPT ![cur] = 0]
        /\ UNCHANGED <<status, done, kept, cur, at, free>>
    BY <1>7 DEF Fails
  <2>2. SpaceTypes' /\ TempOfWriter'
    BY <1>t, <2>1 DEF SpaceTypes, TempOfWriter
  <2>3. CASE excused'
    BY <2>2, <2>3
  <2>4. CASE ~excused'
    <3>1. wpc # "verify" /\ MovesBytes
      BY <1>7, <2>4 DEF Fails
    <3>2. ASSUME ~excused PROVE RowsTell'
      BY <2>1, <3>2 DEF RowsTell
    <3>3. ASSUME NEW j \in Job PROVE Claim'[j] <= Claim[j]
      <4>1. Held(j)' = Held(j) /\ Held(cur)
        BY <1>t, <2>1 DEF Held
      <4>2. OnDevice'[j] = IF j = cur THEN OnDevice[j] - temp[j] ELSE OnDevice[j]
        BY <1>t, <2>1 DEF OnDevice, SpaceTypes
      <4>3. Unwritten'[j] = IF j = cur THEN Unwritten[j] + temp[j] ELSE Unwritten[j]
        BY <1>t, <2>1, <3>1 DEF Unwritten, SpaceTypes
      <4>4. temp[j] \in Nat
        BY <1>t DEF SpaceTypes
      <4> QED
        BY <1>t, <2>1, <4>1, <4>2, <4>3, <4>4, ClaimTypes DEF Claim
    <3> QED
      BY <2>1, <2>2, <3>1, <3>2, <3>3, SpaceMoves
  <2> QED
    BY <2>3, <2>4
<1>8. CASE Settles
  <2>1. /\ wpc = "fail" /\ wpc' = "idle" /\ cur' = None /\ cur \in Job
        /\ MovesBytes
        /\ UNCHANGED <<temp, kept, at, free>>
    BY <1>t, <1>8 DEF Settles
  <2>2. PICK s \in {"pending", "error"} : status' = [status EXCEPT ![cur] = s]
    BY <1>8 DEF Settles
  <2>3. done' = IF s = "pending" THEN [done EXCEPT ![cur] = 0] ELSE done
    BY <1>t, <1>8, <2>1, <2>2 DEF Settles, JobStatus
  <2>4. SpaceTypes'
    BY <1>t, <2>1, <2>3 DEF SpaceTypes
  <2>5. TempOfWriter'
    BY <1>t, <2>1, <2>2 DEF TempOfWriter, JobStatus
  <2>6. ASSUME ~excused PROVE RowsTell'
    BY <1>t, <2>1, <2>2, <2>3, <2>6 DEF RowsTell, JobStatus, SpaceTypes
  <2>7. ASSUME NEW j \in Job PROVE Claim'[j] <= Claim[j]
    <3>1. Held(j)' => Held(j)
      BY <1>t, <2>1, <2>2 DEF Held, JobStatus
    <3>2. OnDevice'[j] = OnDevice[j] /\ Unwritten'[j] = Unwritten[j]
      BY <1>t, <2>1 DEF OnDevice, Unwritten
    <3> QED
      BY <1>t, <3>1, <3>2, ClaimTypes DEF Claim
  <2> QED
    BY <2>1, <2>4, <2>5, <2>6, <2>7, SpaceMoves
<1> QED
  BY <1>0, <1>1, <1>2, <1>3, <1>4, <1>5, <1>6, <1>7, <1>8 DEF RunnerStep

LEMMA SpaceOp ==
  ASSUME OrderInv, SpaceInv, NEW i \in Job,
         PauseJob(i) \/ ResumeJob(i) \/ RetryJob(i) \/ CancelJob(i)
  PROVE  SpaceInv'
<1> USE DEF SpaceInv
<1>1. UNCHANGED <<wpc, cur, temp, kept, at, free>>
  BY DEF PauseJob, ResumeJob, RetryJob, CancelJob, Op
<1>2. /\ SpaceTypes /\ status \in [Job -> JobStatus]
      /\ wpc # "idle" => cur \in Job
      /\ wpc \notin {"idle", "claim"} => status[cur] = "running"
  BY DEF OrderInv, OrderTypes, RunnerHolds
<1>3. PICK s \in {"paused", "pending", "gone"} : status' = [status EXCEPT ![i] = s]
  BY DEF PauseJob, ResumeJob, RetryJob, CancelJob
<1>4. status[i] \notin {"new", "running"}
  BY DEF PauseJob, ResumeJob, RetryJob, CancelJob
<1>5. \/ UNCHANGED done
      \/ done' = [done EXCEPT ![i] = 0]
  BY DEF PauseJob, ResumeJob, RetryJob, CancelJob
<1>6. SpaceTypes'
  BY <1>1, <1>2, <1>5, TotalType DEF SpaceTypes
<1>7. TempOfWriter'
  BY <1>1, <1>2, <1>3, <1>4, <1>5 DEF TempOfWriter, JobStatus, SpaceTypes
<1>8. ASSUME ~excused'
      PROVE  ~excused /\ (s # "gone" => status[i] \in {"pending", "paused"})
  <2>1. status'[i] = s
    BY <1>2, <1>3
  <2>2. CASE PauseJob(i)
    <3>1. status[i] \in {"pending", "error"} /\ ~(excused \/ status[i] = "error")
      BY <1>8, <2>2, Zenon DEF PauseJob
    <3> QED
      BY <3>1
  <2>5. CASE ResumeJob(i)
    BY <1>8, <2>5 DEF ResumeJob
  <2>3. CASE RetryJob(i)
    BY <1>8, <2>3 DEF RetryJob
  <2>4. CASE CancelJob(i)
    BY <1>2, <1>8, <2>1, <2>4 DEF CancelJob
  <2> QED
    BY <2>2, <2>3, <2>4, <2>5
<1>9. ASSUME ~excused' PROVE RowsTell'
  BY <1>1, <1>2, <1>3, <1>4, <1>5, <1>8, <1>9 DEF RowsTell, SpaceTypes, JobStatus
<1>10. ASSUME ~excused', NEW j \in Job PROVE Claim'[j] <= Claim[j]
  <2>1. Held(j)' => Held(j)
    BY <1>1, <1>2, <1>3, <1>8, <1>10 DEF Held, JobStatus
  <2>2. OnDevice'[j] = OnDevice[j] /\ Unwritten'[j] = Unwritten[j]
    BY <1>1 DEF OnDevice, Unwritten
  <2> QED
    BY <1>2, <2>1, <2>2, ClaimTypes DEF Claim
<1> QED
  BY <1>1, <1>6, <1>7, <1>8, <1>9, <1>10, SpaceApart

LEMMA SpaceResolves ==
  ASSUME OrderInv, SpaceInv, NEW b \in Batch, Resolves(b)
  PROVE  SpaceInv'
<1> USE DEF SpaceInv
<1>1. /\ at[b] = "idle" /\ at' = [at EXCEPT ![b] = "sum"]
      /\ UNCHANGED <<status, done, temp, kept, wpc, cur>>
  BY DEF Resolves, Goto
<1>f. PICK f \in {Free, Unknown} : free' = [free EXCEPT ![b] = f]
  BY DEF Resolves
<1>2. Free \in Int /\ Free' = Free
  <2>1. Bytes(OnDevice, Job) \in Nat /\ OnDevice' = OnDevice
    BY <1>1, ClaimTypes, StackFinite DEF OnDevice
  <2> QED
    BY <2>1, AdmissionAssumption DEF Free
<1>3. SpaceTypes' /\ TempOfWriter'
  BY <1>1, <1>2, <1>f DEF SpaceTypes, TempOfWriter, Unknown
<1>4. at \in [Batch -> {"idle", "sum", "max", "insert", "refused", "returned"}]
  BY DEF OrderInv, OrderTypes
<1>5. ASSUME ~excused' PROVE (RowsTell /\ OneAtATime /\ SawFree /\ ClaimsFit)'
  <2>1. ~excused /\ \A c \in Batch : ~Busy(c)
    BY <1>5 DEF Resolves
  <2>2. RowsTell' /\ OneAtATime'
    BY <1>1, <1>4, <2>1 DEF RowsTell, OneAtATime, Busy
  <2>3. SawFree'
    BY <1>1, <1>2, <1>3, <1>4, <1>f, <2>1 DEF SawFree, Busy, SpaceTypes
  <2>4. ASSUME NEW j \in Job PROVE Claim'[j] <= Claim[j]
    <3>1. Held(j)' = Held(j) /\ OnDevice'[j] = OnDevice[j] /\ Unwritten'[j] = Unwritten[j]
      BY <1>1, <1>4, JobPair DEF Held, OnDevice, Unwritten
    <3> QED
      BY <3>1, ClaimTypes DEF Claim
  <2> QED
    BY <1>3, <2>1, <2>2, <2>3, <2>4, ClaimsShrink
<1> QED
  BY <1>3, <1>5

(* The decision: a job that is taken owes no more than the sum counts for   *)
(* it, if its checkpoint is not ahead of its file.                          *)
LEMMA SpaceAdmits ==
  ASSUME OrderInv, SpaceInv, NEW b \in Batch, Admits(b)
  PROVE  SpaceInv'
<1> USE DEF SpaceInv
<1> DEFINE All == [j \in Job |-> Total(j)]
           G == [j \in Job |-> OnDevice[j] + IF j \in Active THEN Left[j] ELSE 0]
           H == [j \in Job |-> G[j] + IF j \in {k \in Job : k[1] = b} THEN All[j] ELSE 0]
<1>1. /\ at[b] = "sum"
      /\ at' = [at EXCEPT ![b] = IF TooMuch(b) THEN "refused" ELSE "max"]
      /\ free' = [free EXCEPT ![b] = 0]
      /\ UNCHANGED <<status, done, temp, kept, wpc, cur>>
  BY DEF Admits, Goto
<1>2. /\ at \in [Batch -> {"idle", "sum", "max", "insert", "refused", "returned"}]
      /\ status \in [Job -> JobStatus]
  BY DEF OrderInv, OrderTypes
<1>3. SpaceTypes' /\ TempOfWriter'
  BY <1>1 DEF SpaceTypes, TempOfWriter
<1>4. ASSUME ~excused' PROVE (RowsTell /\ OneAtATime /\ SawFree /\ ClaimsFit)'
  <2>1. ~excused /\ wpc # "fail" /\ free[b] # Unknown
    BY <1>4 DEF Admits
  <2>2. RowsTell' /\ OneAtATime'
    BY <1>1, <1>2, <2>1 DEF RowsTell, OneAtATime, Busy
  <2>3. SawFree'
    BY <1>1, <1>2, <2>1 DEF SawFree, Free, OnDevice
  <2>4. \A j \in Job : /\ Held(j)' => \/ Held(j)
                                      \/ j[1] = b /\ status[j] = "new" /\ at'[b] = "max"
                       /\ OnDevice'[j] = OnDevice[j] /\ Unwritten'[j] = Unwritten[j]
    BY <1>1, <1>2, JobPair DEF Held, OnDevice, Unwritten
  <2>5. CASE at'[b] # "max"
    <3>1. \A j \in Job : Claim'[j] <= Claim[j]
      BY <2>4, <2>5, ClaimTypes DEF Claim
    <3> QED
      BY <1>3, <2>1, <2>2, <2>3, <3>1, ClaimsShrink
  <2>6. CASE at'[b] = "max"
    <3>1. /\ Need(b) + InFlightBytes <= free[b] /\ free[b] = Free
          /\ Need(b) \in Nat /\ InFlightBytes \in Nat
      <4>1. ~(Need(b) + InFlightBytes > free[b])
        BY <1>1, <1>2, <2>1, <2>6 DEF TooMuch
      <4>2. free[b] = Free
        BY <1>1, <2>1 DEF SawFree
      <4>3. Need(b) \in Nat /\ InFlightBytes \in Nat /\ free[b] \in Int
        <5>1. All \in [Job -> Nat] /\ Active \in SUBSET Job
          BY TotalType DEF Active
        <5>2. Bytes(All, {k \in Job : k[1] = b}) \in Nat
          BY <5>1, StackFinite
        <5>3. Bytes(Left, Active) \in Nat
          BY <5>1, ClaimTypes, StackFinite
        <5> QED
          BY <5>2, <5>3 DEF Need, InFlightBytes, SpaceTypes
      <4> QED
        BY <4>1, <4>2, <4>3
    <3>2. ASSUME NEW j \in Active PROVE Unwritten[j] <= Left[j]
      <4>1. j \in Job /\ status[j] \in {"pending", "running", "paused"}
        BY DEF Active
      <4>2. /\ done[j] \in Nat /\ temp[j] \in Nat /\ Total(j) \in Nat
            /\ done[j] <= Total(j) /\ temp[j] <= Total(j)
        BY <4>1, TotalType DEF SpaceTypes
      <4>3. done[j] <= temp[j] \/ (j = cur /\ wpc = "verify")
        <5>1. CASE status[j] # "running"
          BY <2>1, <4>1, <4>2, <5>1 DEF RowsTell
        <5>2. CASE status[j] = "running"
          <6>1. j = cur /\ wpc \in {"prepare", "write", "verify"}
            BY <2>1, <4>1, <5>2 DEF RowsTell, SpaceTypes
          <6> QED
            BY <2>1, <4>1, <4>2, <6>1 DEF RowsTell, TempOfWriter
        <5> QED
          BY <5>1, <5>2
      <4> QED
        BY <4>1, <4>2, <4>3 DEF Unwritten, Left
    <3>3. \A j \in Job : Held(j)' => j \in Active \/ j[1] = b
      BY <1>1, <1>2, <2>1, JobPair DEF Held, Active, OneAtATime, Busy
    <3>4. /\ G \in [Job -> Nat] /\ H \in [Job -> Nat] /\ All \in [Job -> Nat]
          /\ \A j \in Job : Claim'[j] <= H[j]
      <4>1. G \in [Job -> Nat] /\ H \in [Job -> Nat] /\ All \in [Job -> Nat]
        BY ClaimTypes, TotalType
      <4>2. ASSUME NEW j \in Job PROVE Unwritten[j] <= Total(j)
        BY TotalType DEF Unwritten, SpaceTypes
      <4>3. ASSUME NEW j \in Job PROVE Claim'[j] <= H[j]
        <5>1. Claim'[j] = OnDevice[j] + IF Held(j)' THEN Unwritten[j] ELSE 0
          BY <2>4 DEF Claim
        <5>2. /\ OnDevice[j] \in Nat /\ Unwritten[j] \in Nat /\ Left[j] \in Nat
              /\ Total(j) \in Nat
          BY ClaimTypes, TotalType
        <5>3. H[j] = OnDevice[j] + (IF j \in Active THEN Left[j] ELSE 0)
                                 + (IF j[1] = b THEN Total(j) ELSE 0)
          OBVIOUS
        <5> HIDE DEF H
        <5> QED
          BY <3>2, <3>3, <4>2, <5>1, <5>2, <5>3
      <4> QED
        BY <4>1, <4>3
    <3>5. Bytes(G, Job) = Bytes(OnDevice, Job) + InFlightBytes
      BY ClaimTypes, BytesAdd DEF InFlightBytes, Active
    <3>6. Bytes(H, Job) = Bytes(G, Job) + Need(b)
      <4> HIDE DEF G
      <4> QED
        BY <3>4, BytesAdd DEF Need
    <3> HIDE DEF G, H, All
    <3>7. Claim' \in [Job -> Nat]
      BY <1>3, ClaimTypesNext
    <3>8. Bytes(Claim', Job) <= Bytes(H, Job) /\ Bytes(Claim', Job) \in Nat
      BY <3>4, <3>7, BytesGrow, StackFinite
    <3>9. /\ Bytes(OnDevice, Job) \in Nat /\ Bytes(G, Job) \in Nat /\ Bytes(H, Job) \in Nat
      BY <3>4, ClaimTypes, StackFinite
    <3>10. Bytes(Claim', Job) <= Capacity
      BY <3>1, <3>5, <3>6, <3>8, <3>9, AdmissionAssumption DEF Free
    <3> QED
      BY <2>2, <2>3, <3>10 DEF ClaimsFit
  <2> QED
    BY <2>5, <2>6
<1> QED
  BY <1>3, <1>4

LEMMA SpaceBatch ==
  ASSUME OrderInv, SpaceInv, NEW b \in Batch,
         ReadsMax(b) \/ Inserts(b) \/ Returns(b)
  PROVE  SpaceInv'
<1> USE DEF SpaceInv
<1>1. /\ SpaceTypes /\ status \in [Job -> JobStatus]
      /\ at \in [Batch -> {"idle", "sum", "max", "insert", "refused", "returned"}]
      /\ wpc # "idle" => cur \in Job
      /\ wpc \notin {"idle", "claim"} => status[cur] = "running"
  BY DEF OrderInv, OrderTypes, RunnerHolds
<1>2. UNCHANGED <<done, temp, kept, wpc, cur, excused>>
  BY DEF ReadsMax, Inserts, Returns
<1>3. CASE Inserts(b)
  <2> DEFINE i == <<b, next[b]>>
  <2>1. /\ i \in Job /\ at[b] = "insert"
        /\ status' = [status EXCEPT ![i] = "pending"]
        /\ UNCHANGED <<at, free>>
    BY <1>3 DEF Inserts
  <2>2. i[1] = b /\ i[2] = next[b] /\ next[b] \in Nat
    BY DEF OrderInv, OrderTypes
  <2> HIDE DEF i
  <2>3. status[i] = "new"
    BY <2>1, <2>2 DEF OrderInv, InsertedInTurn
  <2>4. SpaceTypes' /\ TempOfWriter'
    BY <1>1, <1>2, <2>1, <2>3 DEF SpaceTypes, TempOfWriter, JobStatus
  <2>5. ASSUME ~excused PROVE RowsTell'
    BY <1>1, <1>2, <2>1, <2>3, <2>5 DEF RowsTell, JobStatus
  <2>6. ASSUME NEW j \in Job PROVE Claim'[j] <= Claim[j]
    <3>1. Held(j)' = Held(j) /\ OnDevice'[j] = OnDevice[j] /\ Unwritten'[j] = Unwritten[j]
      BY <1>1, <1>2, <2>1, <2>2, <2>3 DEF Held, OnDevice, Unwritten, JobStatus
    <3> QED
      BY <3>1, ClaimTypes DEF Claim
  <2> QED
    BY <1>2, <2>1, <2>4, <2>5, <2>6, SpaceApart
<1>4. CASE ReadsMax(b) \/ Returns(b)
  <2>1. PICK l \in {"insert", "returned"} : at' = [at EXCEPT ![b] = l]
    BY <1>4 DEF ReadsMax, Returns, Goto
  <2>2. UNCHANGED status /\ (l = "insert" => at[b] = "max") /\ Busy(b)
    BY <1>1, <1>4, <2>1 DEF ReadsMax, Returns, Goto, Busy
  <2>3. SpaceTypes' /\ TempOfWriter'
    BY <1>1, <1>2, <1>4, <2>2 DEF SpaceTypes, TempOfWriter, ReadsMax, Returns
  <2>4. ASSUME ~excused PROVE (RowsTell /\ OneAtATime /\ SawFree)'
    <3>1. RowsTell' /\ OneAtATime'
      BY <1>1, <1>2, <2>1, <2>2, <2>4 DEF RowsTell, OneAtATime, Busy
    <3>2. Free' = Free
      BY <1>2 DEF Free, OnDevice
    <3>3. \A c \in Batch : c # b => free'[c] = free[c]
      BY <1>1, <1>4 DEF ReadsMax, Returns, SpaceTypes
    <3>4. SawFree'
      BY <1>1, <2>1, <2>4, <3>2, <3>3 DEF SawFree
    <3> QED
      BY <3>1, <3>4
  <2>5. ASSUME NEW j \in Job PROVE Claim'[j] <= Claim[j]
    <3>1. Held(j)' => Held(j)
      BY <1>1, <2>1, <2>2, JobPair DEF Held
    <3>2. OnDevice'[j] = OnDevice[j] /\ Unwritten'[j] = Unwritten[j]
      BY <1>2 DEF OnDevice, Unwritten
    <3> QED
      BY <3>1, <3>2, ClaimTypes DEF Claim
  <2> QED
    BY <1>2, <2>3, <2>4, <2>5, ClaimsShrink
<1> QED
  BY <1>3, <1>4

LEMMA StepSpace == OrderInv /\ SpaceInv /\ [Next]_vars => SpaceInv'
<1> SUFFICES ASSUME OrderInv, SpaceInv, [Next]_vars PROVE SpaceInv'
  OBVIOUS
<1>1. CASE \E b \in Batch : \/ Resolves(b) \/ Admits(b) \/ ReadsMax(b)
                            \/ Inserts(b) \/ Returns(b)
  BY <1>1, SpaceResolves, SpaceAdmits, SpaceBatch
<1>2. CASE RunnerStep
  BY <1>2, SpaceRunner
<1>3. CASE \E j \in Job : \/ PauseJob(j) \/ ResumeJob(j)
                          \/ RetryJob(j) \/ CancelJob(j)
  BY <1>3, SpaceOp
<1>4. CASE \/ \E m \in Mover : MoverReads(m) \/ MoverWrites(m) \/ MoverReturns(m)
           \/ UNCHANGED vars
  <2>1. UNCHANGED <<status, done, temp, kept, wpc, cur, at, free, excused>>
    BY <1>4 DEF MoverReads, MoverWrites, MoverReturns
  <2>2. (SpaceTypes /\ TempOfWriter)' /\ (~excused => RowsTell')
    BY <2>1 DEF SpaceInv, SpaceTypes, TempOfWriter, RowsTell
  <2>3. ASSUME NEW j \in Job PROVE Claim'[j] <= Claim[j]
    <3>1. Held(j)' = Held(j) /\ OnDevice'[j] = OnDevice[j] /\ Unwritten'[j] = Unwritten[j]
      BY <2>1 DEF Held, OnDevice, Unwritten
    <3> QED
      BY <3>1, ClaimTypes DEF Claim, SpaceInv
  <2> QED
    BY <2>1, <2>2, <2>3, SpaceApart
<1> QED
  BY <1>1, <1>2, <1>3, <1>4 DEF Next

(* What is taken fits on the device: at every moment, in any mix of steps   *)
(* and for any sizes, unless the history is one of those excused.           *)
THEOREM TakenFits == Spec => []FitsIfCounted
<1>1. SpaceInv => FitsIfCounted
  <2> SUFFICES ASSUME SpaceInv, ~excused PROVE Owed <= Free
    BY DEF FitsIfCounted, Fits
  <2> DEFINE G == [j \in Job |-> OnDevice[j] + IF j \in Active THEN Unwritten[j] ELSE 0]
  <2>1. /\ SpaceTypes /\ ClaimsFit
        /\ OnDevice \in [Job -> Nat] /\ Unwritten \in [Job -> Nat] /\ Claim \in [Job -> Nat]
    BY ClaimTypes DEF SpaceInv
  <2>2. G \in [Job -> Nat] /\ \A j \in Job : G[j] <= Claim[j]
    BY <2>1 DEF Active, Claim, Held
  <2>3. Bytes(G, Job) = Bytes(OnDevice, Job) + Owed
    BY <2>1, BytesAdd DEF Owed, Active
  <2> HIDE DEF G
  <2>4. Bytes(G, Job) <= Bytes(Claim, Job)
    BY <2>1, <2>2, BytesGrow
  <2>5. /\ Bytes(OnDevice, Job) \in Nat /\ Bytes(G, Job) \in Nat
        /\ Bytes(Claim, Job) \in Nat /\ Owed \in Nat
    BY <2>1, <2>2, StackFinite DEF Owed, Active
  <2> QED
    BY <2>1, <2>3, <2>4, <2>5, AdmissionAssumption DEF ClaimsFit, Free
<1> QED
  BY <1>1, InitOrder, StepOrder, InitSpace, StepSpace, PTL DEF Spec

-----------------------------------------------------------------------------
(* Reorders.                                                                *)

(* A set that is listed without repetitions has as many elements as the     *)
(* list.                                                                    *)
LEMMA RangeCount ==
  ASSUME NEW n \in Nat, NEW S, NEW f \in [1 .. n -> S],
         \A s \in S : \E i \in 1 .. n : f[i] = s,
         \A i, k \in 1 .. n : f[i] = f[k] => i = k
  PROVE  Cardinality(S) = n
<1>1. f \in Bijection(1 .. n, S)
  BY DEF Bijection, Injection, IsInjective, Surjection
<1> QED
  BY <1>1, FS_CountingElements DEF ExistsBijection

LEMMA MovedIs ==
  ASSUME NEW rest \in Seq(Job), NEW j \in Job, NEW p \in Nat
  PROVE  /\ Place(rest, p) \in 0 .. Len(rest)
         /\ Moved(rest, j, p) \in Seq(Job)
         /\ Len(Moved(rest, j, p)) = Len(rest) + 1
         /\ \A i \in 1 .. Len(rest) + 1 :
               Moved(rest, j, p)[i] = IF i <= Place(rest, p) THEN rest[i]
                                      ELSE IF i = Place(rest, p) + 1 THEN j
                                      ELSE rest[i - 1]
<1> DEFINE q == Place(rest, p)
           a == SubSeq(rest, 1, q)
           b == SubSeq(rest, q + 1, Len(rest))
<1>1. q \in 0 .. Len(rest)
  BY DEF Place
<1> HIDE DEF q
<1>2. /\ a \in Seq(Job) /\ Len(a) = q /\ \A i \in 1 .. q : a[i] = rest[i]
      /\ b \in Seq(Job) /\ Len(b) = Len(rest) - q
      /\ \A i \in 1 .. Len(rest) - q : b[i] = rest[i + q]
  BY <1>1
<1>3. Moved(rest, j, p) = (a \o <<j>>) \o b
  <2>1. Moved(rest, j, p)
          = SubSeq(rest, 1, (q + 1) - 1) \o <<j>> \o SubSeq(rest, q + 1, Len(rest))
    BY Zenon DEF Moved, InsertAt, q
  <2>2. (q + 1) - 1 = q
    BY <1>1
  <2> QED
    BY <2>1, <2>2, Zenon
<1> HIDE DEF a, b
<1>4. /\ a \o <<j>> \in Seq(Job) /\ Len(a \o <<j>>) = q + 1
      /\ \A i \in 1 .. q + 1 : (a \o <<j>>)[i] = IF i <= q THEN rest[i] ELSE j
  BY <1>1, <1>2
<1> DEFINE c == a \o <<j>>
<1> HIDE DEF c
<1>5. /\ c \o b \in Seq(Job) /\ Len(c \o b) = Len(rest) + 1
      /\ \A i \in 1 .. Len(rest) + 1 :
            (c \o b)[i] = IF i <= q + 1 THEN c[i] ELSE b[i - (q + 1)]
  BY <1>1, <1>2, <1>4 DEF c
<1>6. \A i \in 1 .. Len(rest) + 1 :
         (c \o b)[i] = IF i <= q THEN rest[i] ELSE IF i = q + 1 THEN j ELSE rest[i - 1]
  <2> SUFFICES ASSUME NEW i \in 1 .. Len(rest) + 1
               PROVE  (c \o b)[i] = IF i <= q THEN rest[i]
                                    ELSE IF i = q + 1 THEN j ELSE rest[i - 1]
    OBVIOUS
  <2>1. CASE i <= q + 1
    BY <1>1, <1>4, <1>5, <2>1 DEF c
  <2>2. CASE i > q + 1
    <3>1. i - (q + 1) \in 1 .. Len(rest) - q /\ (i - (q + 1)) + q = i - 1
      BY <1>1, <2>2
    <3>2. b[i - (q + 1)] = rest[i - 1]
      BY <1>2, <3>1
    <3>3. ~(i <= q + 1) /\ ~(i <= q) /\ i # q + 1
      BY <1>1, <2>2
    <3>4. (c \o b)[i] = b[i - (q + 1)]
      BY <1>5, <3>3
    <3> QED
      BY <3>2, <3>3, <3>4
  <2>3. i <= q + 1 \/ i > q + 1
    BY <1>1
  <2> QED
    BY <2>1, <2>2, <2>3
<1> QED
  BY SMTT(30), <1>1, <1>3, <1>5, <1>6 DEF c, q

LEMMA RemovedIs ==
  ASSUME NEW s \in Seq(Job), NEW i \in 1 .. Len(s)
  PROVE  /\ RemoveAt(s, i) \in Seq(Job)
         /\ Len(RemoveAt(s, i)) = Len(s) - 1
         /\ \A k \in 1 .. Len(s) - 1 :
               RemoveAt(s, i)[k] = IF k < i THEN s[k] ELSE s[k + 1]
<1> DEFINE a == SubSeq(s, 1, i - 1)
           b == SubSeq(s, i + 1, Len(s))
<1>1. /\ a \in Seq(Job) /\ Len(a) = i - 1 /\ \A k \in 1 .. i - 1 : a[k] = s[k]
      /\ b \in Seq(Job) /\ Len(b) = Len(s) - i
      /\ \A k \in 1 .. Len(s) - i : b[k] = s[k + i]
  OBVIOUS
<1>2. RemoveAt(s, i) = a \o b
  BY DEF RemoveAt
<1> HIDE DEF a, b
<1>3. /\ a \o b \in Seq(Job) /\ Len(a \o b) = Len(s) - 1
      /\ \A k \in 1 .. Len(s) - 1 : (a \o b)[k] = IF k <= Len(a) THEN a[k]
                                                 ELSE b[k - Len(a)]
  <2>1. /\ a \o b \in Seq(Job) /\ Len(a \o b) = Len(a) + Len(b)
        /\ \A k \in 1 .. Len(a) + Len(b) : (a \o b)[k] = IF k <= Len(a) THEN a[k]
                                                        ELSE b[k - Len(a)]
    BY <1>1, ConcatProperties
  <2>2. Len(a) + Len(b) = Len(s) - 1
    BY <1>1
  <2> QED
    BY <2>1, <2>2
<1>4. ASSUME NEW k \in 1 .. Len(s) - 1
      PROVE  (a \o b)[k] = IF k < i THEN s[k] ELSE s[k + 1]
  <2>1. CASE k < i
    BY <1>1, <1>3, <2>1
  <2>2. CASE ~(k < i)
    <3>1. k - (i - 1) \in 1 .. Len(s) - i /\ (k - (i - 1)) + i = k + 1
      BY <2>2
    <3> QED
      BY <1>1, <1>3, <2>2, <3>1
  <2> QED
    BY <2>1, <2>2
<1> QED
  BY <1>2, <1>3, <1>4

(* A reading of the queue has every row once.                               *)
LEMMA QueueIs ==
  ASSUME NEW s \in Queues
  PROVE  /\ s \in Seq(Job) /\ Rows = {s[i] : i \in 1 .. Len(s)}
         /\ \A i, k \in 1 .. Len(s) : s[i] = s[k] => i = k
         /\ \A i, k \in 1 .. Len(s) : i < k => ord[s[i]] <= ord[s[k]]
<1> DEFINE n == Cardinality(Rows)
<1>1. n \in Nat /\ IsFiniteSet(Rows)
  BY JobFinite, FS_Subset, FS_CardinalityType DEF Rows
<1> HIDE DEF n
<1>2. /\ s \in [1 .. n -> Rows] /\ \A i, k \in 1 .. n : i # k => s[i] # s[k]
      /\ \A i, k \in DOMAIN s : i < k => ord[s[i]] <= ord[s[k]]
  BY DEF Queues, SetToSeqs, n
<1>3. s \in Seq(Job) /\ Len(s) = n
  BY <1>1, <1>2 DEF Rows
<1>4. Cardinality({s[i] : i \in 1 .. n}) = n
  <2> DEFINE S == {s[i] : i \in 1 .. n}
  <2>1. /\ s \in [1 .. n -> S]
        /\ \A x \in S : \E i \in 1 .. n : s[i] = x
        /\ \A i, k \in 1 .. n : s[i] = s[k] => i = k
    BY <1>2
  <2> HIDE DEF S
  <2>2. Cardinality(S) = n
    BY <1>1, <2>1, RangeCount
  <2> QED
    BY <2>2 DEF S
<1>5. Rows = {s[i] : i \in 1 .. n}
  <2>1. {s[i] : i \in 1 .. n} \in SUBSET Rows
    BY <1>2
  <2> QED
    BY <1>1, <1>4, <2>1, FS_Subset DEF n
<1> QED
  BY <1>2, <1>3, <1>5

(* A reorder that nobody interfered with has every row once in its          *)
(* sequence, what it wrote has its index, and the rest is still to write.   *)
Goes(rest, j, p, q, todo, queue, order) ==
    LET n == Len(rest)
        full == Moved(rest, j, p) IN
    /\ rest \in Seq(Job) /\ j \in Job /\ p \in Nat
    /\ queue = {full[i] : i \in 1 .. n + 1}
    /\ \A i, k \in 1 .. n + 1 : full[i] = full[k] => i = k
    /\ q \in 0 .. n + 1
    /\ todo = SubSeq(full, q + 1, n + 1)
    /\ \A i \in 1 .. q : order[full[i]] = i - 1

MoveGoes(m) ==
    Goes(goal[m].rest, goal[m].job, goal[m].place, place[m], list[m], Rows, ord)

MoveInv == /\ list = [m \in Mover |-> list[m]] /\ goal = [m \in Mover |-> goal[m]]
           /\ \A m \in Mover : mat[m] = "idle" => place[m] = 0
           /\ \A m \in Mover : mat[m] = "write" /\ goal[m] # <<>> => MoveGoes(m)

LEMMA MoveStays ==
  ASSUME NEW m \in Mover, MoveGoes(m), Rows' = Rows, ord' = ord,
         list'[m] = list[m], place'[m] = place[m], goal'[m] = goal[m]
  PROVE  MoveGoes(m)'
BY DEF MoveGoes

LEMMA InitMove == Init => MoveInv
BY DEF Init, MoveInv

LEMMA MoveApart ==
  ASSUME OrderInv, MoveInv, OrderInv',
         \/ UNCHANGED goal /\ Rows' = Rows /\ ord' = ord
         \/ goal' = [m \in Mover |-> <<>>],
         UNCHANGED <<mat, list, place>>
  PROVE  MoveInv'
<1>1. list' = [m \in Mover |-> list'[m]] /\ goal' = [m \in Mover |-> goal'[m]]
  BY DEF MoveInv
<1>2. \A m \in Mover : mat'[m] = "idle" => place'[m] = 0
  BY DEF MoveInv
<1>3. ASSUME NEW m \in Mover, mat'[m] = "write", goal'[m] # <<>>
      PROVE  MoveGoes(m)'
  <2>1. UNCHANGED goal /\ Rows' = Rows /\ ord' = ord
    BY <1>3
  <2>2. MoveGoes(m)
    BY <1>3, <2>1 DEF MoveInv
  <2> QED
    BY <2>1, <2>2, MoveStays
<1> QED
  BY <1>1, <1>2, <1>3 DEF MoveInv

LEMMA MoveReads ==
  ASSUME OrderInv, MoveInv, NEW m \in Mover, MoverReads(m)
  PROVE  MoveInv'
<1>1. PICK s \in Queues, p \in 0 .. Cardinality(Rows) : \E i \in DOMAIN s :
         /\ list' = [list EXCEPT ![m] = Moved(RemoveAt(s, i), s[i], p)]
         /\ goal' = [goal EXCEPT ![m] = [job |-> s[i], place |-> p, rest |-> RemoveAt(s, i)]]
  BY DEF MoverReads
<1>2. PICK i \in DOMAIN s :
         /\ list' = [list EXCEPT ![m] = Moved(RemoveAt(s, i), s[i], p)]
         /\ goal' = [goal EXCEPT ![m] = [job |-> s[i], place |-> p, rest |-> RemoveAt(s, i)]]
  BY <1>1
<1>3. /\ mat[m] = "idle" /\ mat' = [mat EXCEPT ![m] = "write"]
      /\ UNCHANGED <<status, ord, place>>
  BY DEF MoverReads
<1>4. /\ s \in Seq(Job) /\ Rows = {s[k] : k \in 1 .. Len(s)} /\ i \in 1 .. Len(s)
      /\ \A k, l \in 1 .. Len(s) : s[k] = s[l] => k = l
  BY QueueIs
<1> DEFINE rest == RemoveAt(s, i)
           e == s[i]
           n == Len(rest)
           full == Moved(rest, e, p)
           q == Place(rest, p)
<1>5. /\ rest \in Seq(Job) /\ n = Len(s) - 1 /\ n \in Nat
      /\ \A k \in 1 .. n : rest[k] = IF k < i THEN s[k] ELSE s[k + 1]
  <2>1. /\ rest \in Seq(Job) /\ Len(rest) = Len(s) - 1
        /\ \A k \in 1 .. Len(s) - 1 : rest[k] = IF k < i THEN s[k] ELSE s[k + 1]
    BY <1>4, RemovedIs
  <2>2. Len(s) - 1 \in Nat
    BY <1>4
  <2> HIDE DEF rest
  <2> QED
    BY <2>1, <2>2
<1>6. p \in Nat /\ e \in Job
  BY <1>4
<1> HIDE DEF rest, e
<1>7. /\ q \in 0 .. n /\ full \in Seq(Job) /\ Len(full) = n + 1
      /\ \A k \in 1 .. n + 1 : full[k] = IF k <= q THEN rest[k]
                                        ELSE IF k = q + 1 THEN e ELSE rest[k - 1]
  <2>1. rest \in Seq(Job)
    BY <1>5
  <2> QED
    BY <1>6, <2>1, MovedIs
<1> HIDE DEF n, full, q
<1> DEFINE h(k) == IF k <= q THEN (IF k < i THEN k ELSE k + 1)
                   ELSE IF k = q + 1 THEN i
                   ELSE (IF k - 1 < i THEN k - 1 ELSE k)
<1>8. \A k \in 1 .. n + 1 : h(k) \in 1 .. Len(s) /\ full[k] = s[h(k)]
  <2>1. \A k \in 1 .. n + 1 : h(k) \in 1 .. Len(s)
    BY <1>4, <1>5, <1>7
  <2>2. \A k \in 1 .. n + 1 : full[k] = s[h(k)]
    <3> SUFFICES ASSUME NEW k \in 1 .. n + 1 PROVE full[k] = s[h(k)]
      OBVIOUS
    <3>0. k \in Int /\ q \in Int /\ n \in Nat /\ i \in Int
      BY <1>4, <1>5, <1>7
    <3>1. CASE k <= q
      <4>1. k \in 1 .. n /\ full[k] = rest[k]
        BY <1>7, <3>0, <3>1
      <4>2. rest[k] = s[IF k < i THEN k ELSE k + 1]
        BY <1>5, <4>1
      <4> QED
        BY <3>1, <4>1, <4>2
    <3>2. CASE k = q + 1
      <4>1. full[k] = e /\ ~(k <= q)
        BY <1>7, <3>0, <3>2
      <4> QED
        BY <3>2, <4>1 DEF e
    <3>3. CASE k > q + 1
      <4>1. k - 1 \in 1 .. n /\ (k - 1) + 1 = k /\ ~(k <= q) /\ k # q + 1
        BY <1>7, <3>0, <3>3
      <4>2. full[k] = rest[k - 1]
        BY <1>7, <4>1
      <4>3. rest[k - 1] = s[IF k - 1 < i THEN k - 1 ELSE (k - 1) + 1]
        BY <1>5, <4>1
      <4> QED
        BY <4>1, <4>2, <4>3
    <3> QED
      BY <3>0, <3>1, <3>2, <3>3
  <2> HIDE DEF h
  <2> QED
    BY <2>1, <2>2
<1>9. \A l \in 1 .. Len(s) : \E k \in 1 .. n + 1 : full[k] = s[l]
  <2> SUFFICES ASSUME NEW l \in 1 .. Len(s) PROVE \E k \in 1 .. n + 1 : full[k] = s[l]
    OBVIOUS
  <2>1. CASE l = i
    <3>1. full[q + 1] = s[i] /\ q + 1 \in 1 .. n + 1
      BY <1>5, <1>7 DEF e
    <3> QED
      BY <2>1, <3>1
  <2>2. CASE l # i
    <3> DEFINE r == IF l < i THEN l ELSE l - 1
    <3>1. r \in 1 .. n /\ rest[r] = s[l]
      BY <1>4, <1>5, <2>2
    <3> HIDE DEF r
    <3>2. CASE r <= q
      <4>1. r \in 1 .. n + 1 /\ full[r] = s[l]
        BY <1>5, <1>7, <3>1, <3>2
      <4> QED
        BY <4>1
    <3>3. CASE ~(r <= q)
      <4>1. r + 1 \in 1 .. n + 1 /\ full[r + 1] = rest[(r + 1) - 1]
        BY <1>5, <1>7, <3>1, <3>3
      <4>2. (r + 1) - 1 = r
        BY <3>1
      <4> QED
        BY <3>1, <4>1, <4>2
    <3> QED
      BY <3>2, <3>3
  <2> QED
    BY <2>1, <2>2
<1>10. \A k, l \in 1 .. n + 1 : full[k] = full[l] => k = l
  <2>1. \A k, l \in 1 .. n + 1 : h(k) = h(l) => k = l
    BY SMTT(30), <1>4, <1>5, <1>7
  <2> HIDE DEF h
  <2> QED
    BY <1>4, <1>8, <2>1
<1>11. Rows' = {full[k] : k \in 1 .. n + 1}
  <2>1. Rows' = Rows
    BY <1>3 DEF Rows
  <2> HIDE DEF h
  <2>2. {s[k] : k \in 1 .. Len(s)} = {full[k] : k \in 1 .. n + 1}
    <3>1. \A k \in 1 .. n + 1 : full[k] \in {s[l] : l \in 1 .. Len(s)}
      BY <1>8
    <3>2. \A l \in 1 .. Len(s) : s[l] \in {full[k] : k \in 1 .. n + 1}
      BY <1>9
    <3> QED
      BY <3>1, <3>2, Zenon
  <2> QED
    BY <1>4, <2>1, <2>2
<1>12. goal'[m] = [job |-> e, place |-> p, rest |-> rest] /\ list'[m] = full
  BY <1>2 DEF MoveInv, full, rest, e
<1>13. place'[m] = 0
  BY <1>3 DEF MoveInv
<1>14. MoveGoes(m)'
  <2>1. list'[m] = SubSeq(full, 0 + 1, n + 1)
    BY <1>7, <1>12
  <2>2. goal'[m].rest = rest /\ goal'[m].job = e /\ goal'[m].place = p
    BY <1>12
  <2>3. 0 \in 0 .. n + 1 /\ \A k \in 1 .. 0 : ord'[full[k]] = k - 1
    BY <1>5
  <2>4. Goes(rest, e, p, 0, list'[m], Rows', ord')
    BY <1>5, <1>6, <1>10, <1>11, <2>1, <2>3, Zenon DEF Goes, full, n
  <2> QED
    BY <1>13, <2>2, <2>4 DEF MoveGoes
<1>15. ASSUME NEW k \in Mover, k # m, mat'[k] = "write", goal'[k] # <<>>
       PROVE  MoveGoes(k)'
  <2>1. /\ mat[k] = "write" /\ goal'[k] = goal[k] /\ list'[k] = list[k]
        /\ place'[k] = place[k]
    BY <1>2, <1>3, <1>15 DEF MoveInv, OrderInv, OrderTypes
  <2>2. MoveGoes(k) /\ Rows' = Rows /\ ord' = ord
    BY <1>3, <1>15, <2>1 DEF MoveInv, Rows
  <2> QED
    BY <2>1, <2>2, MoveStays
<1>16. /\ list' = [k \in Mover |-> list'[k]] /\ goal' = [k \in Mover |-> goal'[k]]
       /\ \A k \in Mover : mat'[k] = "idle" => place'[k] = 0
  BY <1>2, <1>3 DEF MoveInv, OrderInv, OrderTypes
<1> QED
  BY <1>14, <1>15, <1>16 DEF MoveInv

LEMMA MoveWrites ==
  ASSUME OrderInv, MoveInv, NEW m \in Mover, MoverWrites(m)
  PROVE  MoveInv'
<1>1. /\ mat[m] = "write" /\ list[m] # <<>>
      /\ ord' = [ord EXCEPT ![Head(list[m])] = IF Head(list[m]) \in Rows THEN place[m] ELSE @]
      /\ list' = [list EXCEPT ![m] = Tail(@)]
      /\ place' = [place EXCEPT ![m] = @ + 1]
      /\ goal' = [k \in Mover |-> IF k = m THEN goal[m] ELSE <<>>]
      /\ UNCHANGED <<status, mat>>
  BY DEF MoverWrites
<1>2. ord \in [Job -> Int] /\ place \in [Mover -> Int]
  BY DEF OrderInv, OrderTypes
<1>3. ASSUME goal'[m] # <<>> PROVE MoveGoes(m)'
  <2>1. goal'[m] = goal[m] /\ MoveGoes(m)
    BY <1>1, <1>3 DEF MoveInv
  <2>2. PICK rest \in Seq(Job), j \in Job, p \in Nat :
           rest = goal[m].rest /\ j = goal[m].job /\ p = goal[m].place
    BY <2>1 DEF MoveGoes, Goes
  <2> DEFINE n == Len(rest)
             full == Moved(rest, j, p)
             q == place[m]
  <2>3. /\ full \in Seq(Job) /\ Len(full) = n + 1 /\ n \in Nat
        /\ Rows = {full[i] : i \in 1 .. n + 1}
        /\ \A i, k \in 1 .. n + 1 : full[i] = full[k] => i = k
        /\ q \in 0 .. n + 1
        /\ list[m] = SubSeq(full, q + 1, n + 1)
        /\ \A i \in 1 .. q : ord[full[i]] = i - 1
    <3>1. full \in Seq(Job) /\ Len(full) = n + 1 /\ n \in Nat
      BY MovedIs
    <3>2. Goes(rest, j, p, place[m], list[m], Rows, ord)
      BY <2>1, <2>2 DEF MoveGoes
    <3> QED
      BY <3>1, <3>2, Zenon DEF Goes
  <2> HIDE DEF n, full, q
  <2>4. q <= n
    <3>1. q = n + 1 => SubSeq(full, q + 1, n + 1) = <<>>
      BY <2>3
    <3> QED
      BY <1>1, <2>3, <3>1
  <2>5. Head(list[m]) = full[q + 1] /\ Tail(list[m]) = SubSeq(full, q + 2, n + 1)
    <3>1. q + 1 \in 1 .. Len(full) /\ n + 1 \in q + 1 .. Len(full)
      BY <2>3, <2>4
    <3>2. /\ Head(SubSeq(full, q + 1, n + 1)) = full[q + 1]
          /\ Tail(SubSeq(full, q + 1, n + 1)) = SubSeq(full, (q + 1) + 1, n + 1)
      BY <2>3, <3>1, HeadTailOfSubSeq
    <3>3. (q + 1) + 1 = q + 2
      BY <2>3
    <3> QED
      BY <2>3, <3>2, <3>3
  <2>6. full[q + 1] \in Rows /\ Rows \subseteq Job
    BY <2>3, <2>4 DEF Rows
  <2>7. ord' = [ord EXCEPT ![full[q + 1]] = q]
    BY <1>1, <2>5, <2>6 DEF q
  <2>8. place'[m] = q + 1 /\ list'[m] = SubSeq(full, (q + 1) + 1, n + 1)
    <3>1. (q + 1) + 1 = q + 2
      BY <2>3
    <3>2. place'[m] = q + 1
      BY <1>1, <1>2 DEF q
    <3>3. list'[m] = Tail(list[m])
      BY <1>1 DEF MoveInv
    <3> QED
      BY <2>5, <3>1, <3>2, <3>3
  <2>9. \A i \in 1 .. q + 1 : ord'[full[i]] = i - 1
    <3> SUFFICES ASSUME NEW i \in 1 .. q + 1 PROVE ord'[full[i]] = i - 1
      OBVIOUS
    <3>1. full[i] \in Job
      BY <2>3, <2>4
    <3>2. CASE i = q + 1
      BY SMTT(30), <1>2, <2>3, <2>7, <3>1, <3>2
    <3>3. CASE i # q + 1
      <4>1. i \in 1 .. q /\ full[i] # full[q + 1]
        BY <2>3, <2>4, <3>3
      <4> QED
        BY <1>2, <2>3, <2>7, <3>1, <4>1
    <3> QED
      BY <3>2, <3>3
  <2>10. q + 1 \in 0 .. n + 1 /\ Rows' = Rows
    BY <1>1, <2>3, <2>4 DEF Rows
  <2> QED
    <3>1. Goes(rest, j, p, q + 1, list'[m], Rows', ord')
      BY <2>3, <2>8, <2>9, <2>10, Zenon DEF Goes, n, full
    <3> QED
      BY <2>1, <2>2, <2>8, <3>1 DEF MoveGoes
<1>4. /\ list' = [k \in Mover |-> list'[k]] /\ goal' = [k \in Mover |-> goal'[k]]
      /\ \A k \in Mover : mat'[k] = "idle" => place'[k] = 0
  BY <1>1, <1>2 DEF MoveInv
<1>5. \A k \in Mover : goal'[k] # <<>> => k = m
  BY <1>1
<1> QED
  BY <1>3, <1>4, <1>5 DEF MoveInv

LEMMA MoveReturns ==
  ASSUME OrderInv, MoveInv, NEW m \in Mover, MoverReturns(m)
  PROVE  MoveInv'
<1>1. /\ mat[m] = "write"
      /\ mat' = [mat EXCEPT ![m] = IF list[m] = <<>> THEN "moved" ELSE "failed"]
      /\ list' = [list EXCEPT ![m] = <<>>]
      /\ place' = [place EXCEPT ![m] = 0]
      /\ goal' = [goal EXCEPT ![m] = <<>>]
      /\ UNCHANGED <<status, ord>>
  BY DEF MoverReturns
<1>2. mat'[m] # "write" /\ mat'[m] # "idle"
  BY <1>1 DEF OrderInv, OrderTypes
<1>3. ASSUME NEW k \in Mover, mat'[k] = "write", goal'[k] # <<>>
      PROVE  MoveGoes(k)'
  <2>1. k # m
    BY <1>2, <1>3
  <2>2. /\ mat[k] = "write" /\ goal'[k] = goal[k] /\ list'[k] = list[k]
        /\ place'[k] = place[k]
    BY <1>1, <1>3, <2>1 DEF MoveInv, OrderInv, OrderTypes
  <2>3. MoveGoes(k) /\ Rows' = Rows /\ ord' = ord
    BY <1>1, <1>3, <2>2 DEF MoveInv, Rows
  <2> QED
    BY <2>2, <2>3, MoveStays
<1>4. /\ list' = [k \in Mover |-> list'[k]] /\ goal' = [k \in Mover |-> goal'[k]]
      /\ \A k \in Mover : mat'[k] = "idle" => place'[k] = 0
  BY <1>1, <1>2 DEF MoveInv, OrderInv, OrderTypes
<1> QED
  BY <1>3, <1>4 DEF MoveInv

LEMMA StepMove == OrderInv /\ OrderInv' /\ MoveInv /\ [Next]_vars => MoveInv'
<1> SUFFICES ASSUME OrderInv, OrderInv', MoveInv, [Next]_vars PROVE MoveInv'
  OBVIOUS
<1>1. status \in [Job -> JobStatus]
  BY DEF OrderInv, OrderTypes
<1>2. ASSUME NEW b \in Batch,
             \/ Resolves(b) \/ Admits(b) \/ ReadsMax(b) \/ Inserts(b) \/ Returns(b)
      PROVE  MoveInv'
  <2>1. CASE Inserts(b)
    BY <2>1, MoveApart DEF Inserts, SpoilsGoals
  <2>2. CASE ~Inserts(b)
    BY <1>2, <2>2, MoveApart DEF Resolves, Admits, ReadsMax, Returns, Rows
  <2> QED
    BY <2>1, <2>2
<1>3. CASE RunnerStep
  <2>1. UNCHANGED <<ord, mat, list, place, goal>>
    BY <1>3 DEF RunnerStep, Selects, Claims, Begins, Writes, Checkpoints, Commits,
                Passes, Fails, Settles, Drops
  <2>2. \/ UNCHANGED status
        \/ \E j \in Job, s \in JobStatus :
              /\ status[j] \notin {"new", "gone"} /\ s \notin {"new", "gone"}
              /\ status' = [status EXCEPT ![j] = s]
    <3>1. CASE Claims
      <4>1. cur \in Job
        BY <3>1 DEF Claims, OrderInv, RunnerHolds
      <4> QED
        BY <3>1, <4>1 DEF Claims, JobStatus
    <3>2. CASE Passes \/ Settles
      <4>1. cur \in Job /\ status[cur] = "running"
        BY <3>2 DEF Passes, Settles, OrderInv, RunnerHolds
      <4> QED
        BY <3>2, <4>1 DEF Passes, Settles, JobStatus
    <3>3. CASE Selects \/ Begins \/ Writes \/ Checkpoints \/ Commits \/ Fails \/ Drops
      BY <3>3 DEF Selects, Begins, Writes, Checkpoints, Commits, Fails, Drops
    <3> QED
      BY <1>3, <3>1, <3>2, <3>3 DEF RunnerStep
  <2>3. Rows' = Rows
    BY <1>1, <2>2 DEF Rows
  <2> QED
    BY <2>1, <2>3, MoveApart
<1>4. ASSUME NEW j \in Job, PauseJob(j) \/ ResumeJob(j) \/ RetryJob(j) \/ CancelJob(j)
      PROVE  MoveInv'
  <2>1. UNCHANGED <<ord, mat, list, place>>
    BY <1>4 DEF PauseJob, ResumeJob, RetryJob, CancelJob, Op
  <2>2. CASE CancelJob(j)
    BY <2>1, <2>2, MoveApart DEF CancelJob, SpoilsGoals
  <2>3. CASE PauseJob(j) \/ ResumeJob(j) \/ RetryJob(j)
    <3>1. UNCHANGED goal /\ status[j] \in {"pending", "error", "paused"}
      BY <2>3 DEF PauseJob, ResumeJob, RetryJob
    <3>2. \E s \in {"paused", "pending"} : status' = [status EXCEPT ![j] = s]
      BY <2>3 DEF PauseJob, ResumeJob, RetryJob
    <3>3. Rows' = Rows
      BY <1>1, <3>1, <3>2 DEF Rows
    <3> QED
      BY <2>1, <3>1, <3>3, MoveApart
  <2> QED
    BY <1>4, <2>2, <2>3
<1>5. CASE \E m \in Mover : MoverReads(m) \/ MoverWrites(m) \/ MoverReturns(m)
  BY <1>5, MoveReads, MoveWrites, MoveReturns
<1>6. CASE UNCHANGED vars
  BY <1>6, MoveApart DEF Rows
<1> QED
  BY <1>2, <1>3, <1>4, <1>5, <1>6 DEF Next

(* A finished reorder has numbered its sequence from zero.                  *)
LEMMA MoveDone == OrderInv /\ MoveInv => MoveLands
<1> SUFFICES ASSUME OrderInv, MoveInv, NEW m \in Mover,
                    mat[m] = "write", list[m] = <<>>, goal[m] # <<>>
             PROVE  LET g == goal[m] IN
                    /\ Cardinality({k \in Rows : ord[k] < ord[g.job]})
                         = Min({g.place, Cardinality(Rows) - 1})
                    /\ \A i, k \in DOMAIN g.rest : i < k => ord[g.rest[i]] < ord[g.rest[k]]
                    /\ \A j, k \in Rows : ord[j] = ord[k] => j = k
  BY DEF MoveLands
<1>1. MoveGoes(m)
  BY DEF MoveInv
<1>2. PICK rest \in Seq(Job), j \in Job, p \in Nat :
         rest = goal[m].rest /\ j = goal[m].job /\ p = goal[m].place
  BY <1>1 DEF MoveGoes, Goes
<1> DEFINE n == Len(rest)
           full == Moved(rest, j, p)
           q == Place(rest, p)
<1>3. n \in Nat /\ q = IF p > n THEN n ELSE p
  BY DEF Place
<1>4. /\ q \in 0 .. n /\ full \in Seq(Job) /\ Len(full) = n + 1
      /\ \A i \in 1 .. n + 1 : full[i] = IF i <= q THEN rest[i]
                                        ELSE IF i = q + 1 THEN j ELSE rest[i - 1]
  BY ZenonT(30), MovedIs
<1>5. /\ Rows = {full[i] : i \in 1 .. n + 1}
      /\ \A i, k \in 1 .. n + 1 : full[i] = full[k] => i = k
      /\ place[m] \in 0 .. n + 1
      /\ SubSeq(full, place[m] + 1, n + 1) = <<>>
      /\ \A i \in 1 .. place[m] : ord[full[i]] = i - 1
  <2>1. Goes(rest, j, p, place[m], <<>>, Rows, ord)
    BY <1>1, <1>2 DEF MoveGoes
  <2> QED
    BY <2>1, Zenon DEF Goes
<1> HIDE DEF n, full, q
<1>6. place[m] = n + 1
  <2>1. place[m] <= n => Len(SubSeq(full, place[m] + 1, n + 1)) = n + 1 - place[m]
    <3> DEFINE first == place[m] + 1
               last == n + 1
    <3>0. place[m] \in Nat /\ n \in Nat
      BY <1>3, <1>5
    <3>1. first \in Int /\ last \in Int /\ \A k \in first .. last : full[k] \in Job
      BY <3>0, <1>4
    <3>2. place[m] <= n => first <= last /\ last - first + 1 = n + 1 - place[m]
      BY <3>0
    <3> HIDE DEF first, last
    <3>3. Len(SubSeq(full, first, last)) = IF first <= last THEN last - first + 1 ELSE 0
      BY <3>1, SubSeqProperties
    <3> QED
      BY <3>2, <3>3 DEF first, last
  <2>2. Len(SubSeq(full, place[m] + 1, n + 1)) = 0
    BY <1>5, EmptySeq
  <2> QED
    BY <1>3, <1>5, <2>1, <2>2
<1>7. \A i \in 1 .. n + 1 : ord[full[i]] = i - 1
  BY <1>5, <1>6
<1>8. ord[j] = q
  <2>1. full[q + 1] = j /\ q + 1 \in 1 .. n + 1 /\ (q + 1) - 1 = q
    BY <1>3, <1>4
  <2> QED
    BY <1>7, <2>1
<1>9. Cardinality({k \in Rows : ord[k] < ord[j]}) = q
  <2>1. q \in Nat /\ \A i, k \in 1 .. q : full[i] = full[k] => i = k
    BY <1>3, <1>4, <1>5
  <2>2. \A i \in 1 .. n + 1 : ord[full[i]] < ord[j] <=> i <= q
    BY <1>3, <1>4, <1>7, <1>8
  <2>3. {k \in Rows : ord[k] < ord[j]} = {full[i] : i \in 1 .. q}
    BY <1>3, <1>4, <1>5, <2>2
  <2> DEFINE S == {k \in Rows : ord[k] < ord[j]}
             f == [i \in 1 .. q |-> full[i]]
  <2>4. /\ f \in [1 .. q -> S]
        /\ \A k \in S : \E i \in 1 .. q : f[i] = k
        /\ \A i, k \in 1 .. q : f[i] = f[k] => i = k
    BY <2>1, <2>3
  <2> HIDE DEF S, f
  <2>5. Cardinality(S) = q
    BY <2>1, <2>4, RangeCount
  <2> QED
    BY <2>5 DEF S
<1>10. Cardinality(Rows) = n + 1
  <2> DEFINE l == n + 1
             f == [i \in 1 .. l |-> full[i]]
  <2>1. /\ l \in Nat /\ f \in [1 .. l -> Rows]
        /\ \A k \in Rows : \E i \in 1 .. l : f[i] = k
        /\ \A i, k \in 1 .. l : f[i] = f[k] => i = k
    BY <1>3, <1>5
  <2> HIDE DEF l, f
  <2>2. Cardinality(Rows) = l
    BY <2>1, RangeCount
  <2> QED
    BY <2>2 DEF l
<1>11. Min({p, Cardinality(Rows) - 1}) = q
  <2>1. Cardinality(Rows) - 1 = n
    BY <1>3, <1>10
  <2> QED
    BY <1>3, <2>1 DEF Min
<1>12. \A i, k \in DOMAIN rest : i < k => ord[rest[i]] < ord[rest[k]]
  <2>1. ASSUME NEW i \in 1 .. n PROVE ord[rest[i]] = IF i <= q THEN i - 1 ELSE i
    <3>1. CASE i <= q
      BY <1>3, <1>4, <1>7, <3>1
    <3>2. CASE ~(i <= q)
      <4>1. full[i + 1] = rest[(i + 1) - 1] /\ i + 1 \in 1 .. n + 1 /\ (i + 1) - 1 = i
        BY <1>3, <1>4, <3>2
      <4> QED
        BY <1>7, <3>2, <4>1
    <3> QED
      BY <3>1, <3>2
  <2>2. DOMAIN rest = 1 .. n
    BY DEF n
  <2> QED
    BY <1>3, <1>4, <2>1, <2>2
<1>13. \A i, k \in Rows : ord[i] = ord[k] => i = k
  BY <1>3, <1>5, <1>7
<1> QED
  BY <1>2, <1>9, <1>11, <1>12, <1>13

(* The same for every queue, every position and any number of reorders at a *)
(* time: the move a reorder makes is the one asked for, or somebody came    *)
(* between its statements.                                                  *)
THEOREM MovesLand == Spec => []MoveLands
BY InitOrder, StepOrder, InitMove, StepMove, MoveDone, PTL DEF Spec
=============================================================================
