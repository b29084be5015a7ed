------------------------- MODULE Ps1Outputs_proofs -------------------------
(* Proofs about Ps1Outputs, for any library, any number of jobs, edits,     *)
(* failures and crashes.                                                    *)
EXTENDS Ps1Outputs, FiniteSetTheorems, SequenceTheorems, TLAPS

USE DEF vars, runner, files, counters

Fields == {"stage", "row", "outputs", "version", "torn"}

Columns == /\ job \in [Jobs -> {"none", "pending", "running", "done", "error"}]
           /\ n \in Nat /\ crashes \in Nat
           /\ pc \in {"idle", "plan", "write", "verify"}

(* An Ember plan has a folder of its own.                                   *)
InEmber(outputs) == /\ Len(outputs) \in Nat
                    /\ DOMAIN outputs = 1 .. Len(outputs)
                    /\ \A k \in DOMAIN outputs : outputs[k].path[1] = "EMBER"

Formed(p) == DOMAIN p = Fields /\ p = [f \in Fields |-> p[f]]

Preps == /\ DOMAIN prep = Jobs
         /\ prep = [i \in Jobs |-> prep[i]]
         /\ \A i \in Jobs : /\ Formed(prep[i])
                            /\ Kind[i] = "ember" => InEmber(prep[i].outputs)

(* A runner past its claim works on a running job, whose plan nobody makes  *)
(* again while it writes ...                                                *)
Working == /\ pc # "idle" => cur \in Jobs /\ job[cur] = "running"
           /\ pc \in {"write", "verify"} => prep[cur].stage = "made"

(* ... and is at one of its files.                                          *)
Position == /\ pc = "write" => Kind[cur] = "convert" \/ n + 1 \in DOMAIN Outputs
            /\ pc = "verify" => n > 0

(* A VCD that was not read back is the one that is being written, or one    *)
(* that could not be removed.                                               *)
Vcds == crashes = 0 =>
          \A p \in unchecked \ left : p[1] = "POPS" =>
             /\ pc \in {"write", "verify"} /\ Kind[cur] = "convert"
             /\ p = Target /\ n > 0

VcdInv == Columns /\ Preps /\ Working /\ Position /\ Vcds

LEMMA NothingPlanned ==
  /\ Formed(NoPrep)
  /\ NoPrep.outputs = <<>>
  /\ InEmber(<<>>)
BY DEF NoPrep, Fields, Formed, InEmber

LEMMA EmberPlanned ==
  ASSUME NEW i \in Items, NEW row, NEW rows
  PROVE  InEmber(Plan(i, "ember", row, rows))
<1> DEFINE folder == VCDFileName(NoSerial, row.title.stem, row.title.disc)
           L == Len(EmberFiles[i])
           plan == [k \in 1 .. L |-> Output(<<"EMBER", folder, EmberFiles[i][k]>>,
                                            Image(i, TRUE))]
<1>1. L \in Nat
  BY EmberAssumption
<1>2. Plan(i, "ember", row, rows) = plan
  BY DEF Plan, PlanEmber
<1>3. Len(plan) = L /\ DOMAIN plan = 1 .. L
  BY <1>1
<1>4. \A k \in 1 .. L : plan[k].path[1] = "EMBER"
  BY DEF Output
<1> HIDE DEF plan
<1> QED
  BY <1>1, <1>2, <1>3, <1>4 DEF InEmber

LEMMA InitVcd == Init => VcdInv
BY NothingPlanned DEF Init, VcdInv, Columns, Preps, Working, Position, Vcds

(* Steps that leave the runner and what it writes alone.                    *)
LEMMA RunnerApart ==
  ASSUME VcdInv, Columns', Preps', UNCHANGED <<pc, cur, n, unchecked, left, crashes>>,
         pc # "idle" => /\ job'[cur] = job[cur]
                        /\ pc # "plan" => prep'[cur] = prep[cur]
  PROVE  VcdInv'
<1>1. Working'
  BY DEF VcdInv, Working
<1>2. Position' /\ Vcds'
  BY DEF VcdInv, Columns, Working, Position, Vcds, Outputs, Target
<1> QED
  BY <1>1, <1>2 DEF VcdInv

(* Preps is kept where one entry is thrown away ...                         *)
LEMMA Discards ==
  ASSUME Preps, NEW i \in Jobs, prep' = [prep EXCEPT ![i] = NoPrep]
  PROVE  Preps'
BY NothingPlanned DEF Preps

(* ... and where one is filled in.                                          *)
LEMMA FillsIn ==
  ASSUME Preps, NEW i \in Jobs, NEW new, prep' = [prep EXCEPT ![i] = new],
         Formed(new),
         Kind[i] = "ember" => InEmber(new.outputs)
  PROVE  Preps'
BY DEF Preps

LEMMA StepRequest ==
  ASSUME VcdInv, NEW i \in Jobs, Enqueue(i) \/ RetryJob(i)
  PROVE  VcdInv'
<1>1. Columns' /\ Preps'
  BY DEF Enqueue, RetryJob, VcdInv, Columns, Preps
<1> QED
  BY <1>1, RunnerApart DEF Enqueue, RetryJob, VcdInv, Columns, Working

LEMMA StepClaim ==
  ASSUME VcdInv, NEW i \in Jobs, Claims(i)
  PROVE  VcdInv'
<1> USE DEF VcdInv
<1>1. Columns'
  BY DEF Claims, Columns
<1>2. Preps'
  <2>1. CASE UNCHANGED prep
    BY <2>1 DEF Claims, Preps
  <2>2. CASE prep' = [prep EXCEPT ![ahead] = NoPrep]
    BY <2>2, NothingPlanned DEF Claims, Preps
  <2> QED
    BY <2>1, <2>2 DEF Claims
<1>3. Working' /\ Position'
  BY DEF Claims, Working, Position, Columns
<1>4. Vcds'
  BY DEF Claims, Vcds
<1> QED
  BY <1>1, <1>2, <1>3, <1>4

LEMMA StepPlan ==
  ASSUME VcdInv, NEW i \in Jobs, GetsItem(i) \/ \E found \in BOOLEAN : ListsSiblings(i, found)
  PROVE  VcdInv'
<1> USE DEF VcdInv
<1>1. DOMAIN prep[i] = Fields /\ Formed(prep[i])
  BY DEF Preps, Formed
<1>2. CASE GetsItem(i)
  <2> DEFINE new == [prep[i] EXCEPT !.stage = "row", !.row = lib[Item[i]], !.version = edits]
  <2>1. prep' = [prep EXCEPT ![i] = new]
    BY <1>2 DEF GetsItem
  <2>2. Formed(new)
    BY <1>1 DEF Formed
  <2>3. new.outputs = prep[i].outputs
    BY <1>1 DEF Fields
  <2> HIDE DEF new
  <2>4. Preps'
    BY <1>2, <2>1, <2>2, <2>3, FillsIn DEF GetsItem, Preps
  <2>5. pc \in {"write", "verify"} => prep'[cur] = prep[cur]
    BY <1>2, <2>1 DEF GetsItem, Working, Preps
  <2> QED
    BY <1>2, <2>4, <2>5, RunnerApart DEF GetsItem, Columns
<1>3. CASE \E found \in BOOLEAN : ListsSiblings(i, found)
  <2>1. PICK found \in BOOLEAN : ListsSiblings(i, found)
    BY <1>3
  <2> DEFINE outputs == IF found THEN Plan(Item[i], Kind[i], prep[i].row, lib) ELSE <<>>
             new == [prep[i] EXCEPT !.stage = "made", !.torn = edits # prep[i].version,
                                    !.outputs = outputs]
  <2>2. prep' = [prep EXCEPT ![i] = new]
    BY <2>1 DEF ListsSiblings
  <2>3. Kind[i] = "ember" => InEmber(outputs)
    BY EmberPlanned, NothingPlanned, JobAssumption
  <2> HIDE DEF outputs
  <2>4. Formed(new)
    BY <1>1 DEF Formed
  <2>5. new.outputs = outputs
    BY <1>1 DEF Fields
  <2> HIDE DEF new
  <2>6. Preps'
    BY <2>1, <2>2, <2>3, <2>4, <2>5, FillsIn DEF ListsSiblings
  <2>7. pc \in {"write", "verify"} => prep'[cur] = prep[cur]
    BY <2>1, <2>2 DEF ListsSiblings, Working, Preps
  <2> QED
    BY <2>1, <2>6, <2>7, RunnerApart DEF ListsSiblings, Columns
<1> QED
  BY <1>2, <1>3

LEMMA StepBegin ==
  ASSUME VcdInv, NEW next \in Jobs \cup {NoJob}, Begins(next)
  PROVE  VcdInv'
<1> USE DEF VcdInv
<1>1. cur \in Jobs
  BY DEF Begins, Working
<1>2. CASE Outputs = <<>>
  <2>1. Columns' /\ Working' /\ Position'
    BY <1>1, <1>2 DEF Begins, Columns, Working, Position
  <2>2. Preps'
    BY <1>1, <1>2, Discards DEF Begins
  <2>3. Vcds'
    BY <1>2 DEF Begins, Vcds
  <2> QED
    BY <2>1, <2>2, <2>3
<1>3. CASE Outputs # <<>>
  <2>1. Columns' /\ Preps' /\ Working'
    BY <1>3 DEF Begins, Columns, Preps, Working
  <2>2. Kind[cur] = "ember" => 1 \in DOMAIN Outputs
    <3>1. SUFFICES ASSUME Kind[cur] = "ember" PROVE 1 \in DOMAIN Outputs
      OBVIOUS
    <3>2. InEmber(Outputs)
      BY <1>1, <3>1 DEF Preps, Outputs
    <3> QED
      BY <1>3, <3>2 DEF InEmber
  <2>3. Position'
    BY <1>1, <1>3, <2>2, JobAssumption DEF Begins, Position, Columns, Outputs
  <2>4. Vcds'
    BY <1>3 DEF Begins, Vcds
  <2> QED
    BY <2>1, <2>3, <2>4
<1> QED
  BY <1>2, <1>3

LEMMA StepCommit ==
  ASSUME VcdInv, NEW sound \in BOOLEAN, Commits(sound)
  PROVE  VcdInv'
<1> USE DEF VcdInv
<1>1. cur \in Jobs /\ n \in Nat /\ Kind[cur] \in {"convert", "ember"}
  BY JobAssumption DEF Commits, Working, Columns
<1>2. Columns' /\ Preps' /\ Working'
  BY DEF Commits, Columns, Preps, Working
<1>3. Position'
  BY <1>1 DEF Commits, Position, Columns
<1>4. Vcds'
  <2>1. SUFFICES ASSUME crashes = 0, NEW p \in unchecked' \ left', p[1] = "POPS"
                 PROVE  Kind[cur] = "convert" /\ p = Target
    BY <1>1 DEF Commits, Vcds, Columns, Target, Outputs
  <2>2. CASE p \in unchecked \ left
    BY <2>1, <2>2 DEF Vcds
  <2>3. CASE p \notin unchecked \ left
    <3>1. (Kind[cur] = "ember" \/ n = 0) /\ p = Outputs[n + 1].path
      BY <2>1, <2>3 DEF Commits
    <3>2. Kind[cur] = "convert"
      <4>1. SUFFICES ASSUME Kind[cur] = "ember" PROVE FALSE
        BY <1>1 DEF Columns
      <4>2. InEmber(Outputs) /\ n + 1 \in DOMAIN Outputs
        BY <1>1, <4>1 DEF Commits, Preps, Position, Outputs
      <4> QED
        BY <2>1, <3>1, <4>2 DEF InEmber
    <3> QED
      BY <3>1, <3>2 DEF Target
  <2> QED
    BY <2>2, <2>3
<1> QED
  BY <1>2, <1>3, <1>4

LEMMA StepVerify ==
  ASSUME VcdInv, VerifyPasses
  PROVE  VcdInv'
<1> USE DEF VcdInv
<1>1. cur \in Jobs /\ n \in Nat /\ n > 0
  BY DEF VerifyPasses, Working, Columns, Position
<1>2. Columns' /\ Preps' /\ Working'
  BY <1>1 DEF VerifyPasses, Columns, Preps, Working
<1>3. Position'
  <2>1. SUFFICES ASSUME n < Len(Outputs), Kind[cur] = "ember"
                 PROVE  n + 1 \in DOMAIN Outputs
    BY <1>1 DEF VerifyPasses, Position, Columns, Outputs
  <2>2. InEmber(Outputs)
    BY <1>1, <2>1 DEF Preps, Outputs
  <2> QED
    BY <1>1, <2>1, <2>2 DEF InEmber
<1>4. Vcds'
  <2>1. \A p \in unchecked' \ left' : crashes = 0 => p[1] # "POPS"
    BY DEF VerifyPasses, Vcds, Verified, Target
  <2> QED
    BY <2>1 DEF VerifyPasses, Vcds
<1> QED
  BY <1>2, <1>3, <1>4

LEMMA StepFail ==
  ASSUME VcdInv, NEW status \in {"pending", "error"}, NEW gone \in BOOLEAN, Fails(status, gone)
  PROVE  VcdInv'
<1> USE DEF VcdInv
<1>1. cur \in Jobs
  BY DEF Fails, Working
<1>2. Columns' /\ Working' /\ Position'
  BY <1>1 DEF Fails, Columns, Working, Position
<1>3. Preps'
  BY <1>1, Discards DEF Fails
<1>4. Vcds'
  <2>1. \A p \in unchecked' \ left' : crashes = 0 => p[1] # "POPS"
    BY DEF Fails, Vcds, TakenBack
  <2> QED
    BY <2>1 DEF Fails, Vcds
<1> QED
  BY <1>2, <1>3, <1>4

LEMMA StepCrash ==
  ASSUME VcdInv, Crash
  PROVE  VcdInv'
<1> USE DEF VcdInv
<1>1. Columns' /\ Working' /\ Position' /\ Vcds'
  BY DEF Crash, Columns, Working, Position, Vcds
<1>2. Preps'
  BY NothingPlanned DEF Crash, Preps
<1> QED
  BY <1>1, <1>2

LEMMA StepEdit ==
  ASSUME VcdInv, NEW i \in Items,
         \/ \E g \in Groups \cup {NoGroup} : SetGroup(i, g)
         \/ \E title \in EditTitles : UpdateTitle(i, title)
  PROVE  VcdInv'
<1>1. Columns' /\ Preps'
  BY DEF SetGroup, UpdateTitle, VcdInv, Columns, Preps
<1> QED
  BY <1>1, RunnerApart DEF SetGroup, UpdateTitle

LEMMA StepVcd == VcdInv /\ [Next]_vars => VcdInv'
<1> SUFFICES ASSUME VcdInv, [Next]_vars PROVE VcdInv'
  OBVIOUS
<1>1. CASE \E i \in Jobs : Enqueue(i) \/ RetryJob(i)
  BY <1>1, StepRequest
<1>2. CASE \E i \in Jobs : Claims(i)
  BY <1>2, StepClaim
<1>3. CASE \/ \E i \in Jobs : GetsItem(i)
           \/ \E i \in Jobs, found \in BOOLEAN : ListsSiblings(i, found)
  BY <1>3, StepPlan
<1>4. CASE \E next \in Jobs \cup {NoJob} : Begins(next)
  BY <1>4, StepBegin
<1>5. CASE \E sound \in BOOLEAN : Commits(sound)
  BY <1>5, StepCommit
<1>6. CASE VerifyPasses
  BY <1>6, StepVerify
<1>7. CASE \E status \in {"pending", "error"}, gone \in BOOLEAN : Fails(status, gone)
  BY <1>7, StepFail
<1>8. CASE Crash
  BY <1>8, StepCrash
<1>9. CASE \/ \E i \in Items, g \in Groups \cup {NoGroup} : SetGroup(i, g)
           \/ \E i \in Items, title \in EditTitles : UpdateTitle(i, title)
  BY <1>9, StepEdit
<1>10. CASE UNCHANGED vars
  <2>1. Columns' /\ Preps'
    BY <1>10 DEF VcdInv, Columns, Preps
  <2> QED
    BY <1>10, <2>1, RunnerApart
<1> QED
  BY <1>1, <1>2, <1>3, <1>4, <1>5, <1>6, <1>7, <1>8, <1>9, <1>10 DEF Next

LEMMA VcdInductive == Spec => []VcdInv
BY InitVcd, StepVcd, PTL DEF Spec

(* A VCD that nobody read back never stays behind a conversion that ended,  *)
(* however it ended, as long as no process died and the drive let the VCD   *)
(* be removed (runConvert, verifyFile).                                     *)
THEOREM VerifiedOrGone == Spec => []NoUnverifiedVcd
<1>1. VcdInv => NoUnverifiedVcd
  BY DEF VcdInv, Vcds, NoUnverifiedVcd
<1> QED
  BY <1>1, VcdInductive, PTL
-----------------------------------------------------------------------------
(* The names of a set's discs, and the plans made of them.                  *)

(* Every set of numbers has a least one.                                    *)
LEMMA LeastExists ==
  ASSUME NEW T \in SUBSET Nat, T # {}
  PROVE  \E x \in T : \A y \in T : x <= y
<1> DEFINE Less == {p \in Nat \X Nat : p[1] < p[2]}
<1>1. IsWellFoundedOn(Less, Nat)
  BY NatLessThanWellFounded DEF OpToRel
<1> HIDE DEF Less
<1>2. PICK x \in T : \A y \in T : ~ (<<y, x>> \in Less)
  BY <1>1, WFMin
<1>3. \A y \in Nat : y < x => <<y, x>> \in Less
  BY DEF Less
<1>4. \A y \in T : ~ (y < x)
  BY <1>2, <1>3, Zenon
<1>5. \A y \in T : x <= y
  BY <1>4
<1> QED
  BY <1>5

(* Of some discs one is before all others.                                  *)
LEMMA FirstExists ==
  ASSUME NEW rows, NEW S \in SUBSET Items, S # {}, \A i \in S : rows[i].index \in Nat
  PROVE  \E x \in S : \A y \in S \ {x} : Before(rows, x, y)
<1> DEFINE I == {rows[y].index : y \in S}
<1>1. I \in SUBSET Nat /\ I # {}
  OBVIOUS
<1>2. PICK m \in I : \A y \in I : m <= y
  BY <1>1, LeastExists
<1>3. \A y \in S : rows[y].index \in Nat /\ m <= rows[y].index
  BY <1>2
<1> DEFINE J == {y \in S : rows[y].index = m}
<1>4. J \in SUBSET Nat /\ J # {}
  BY ItemAssumption
<1>5. PICK x \in J : \A y \in J : x <= y
  BY <1>4, LeastExists
<1>6. ASSUME NEW y \in S, y # x PROVE Before(rows, x, y)
  <2>1. x \in Nat /\ y \in Nat /\ m \in Nat /\ rows[x].index = m
    BY <1>1, <1>5, ItemAssumption
  <2>2. rows[y].index \in Nat /\ m <= rows[y].index
    BY <1>3
  <2>3. rows[y].index = m => x <= y
    BY <1>5
  <2> HIDE DEF I, J
  <2> QED
    BY <1>6, <2>1, <2>2, <2>3 DEF Before
<1> QED
  BY <1>5, <1>6

LEMMA OrderExists ==
  ASSUME NEW rows, NEW S \in SUBSET Items, \A i \in S : rows[i].index \in Nat
  PROVE  \E order \in [1 .. Cardinality(S) -> S] :
            \A p, q \in 1 .. Cardinality(S) : p < q => Before(rows, order[p], order[q])
<1> DEFINE Ordered(T) == \E order \in [1 .. Cardinality(T) -> T] :
                            \A p, q \in 1 .. Cardinality(T) :
                               p < q => Before(rows, order[p], order[q])
           Bad == {c \in Nat : \E T \in SUBSET S : Cardinality(T) = c /\ ~Ordered(T)}
<1>1. \A T \in SUBSET S : IsFiniteSet(T) /\ Cardinality(T) \in Nat
  BY ItemAssumption, FS_Subset, FS_CardinalityType
<1>2. ASSUME Bad # {} PROVE FALSE
  <2>1. PICK c \in Bad : \A d \in Bad : c <= d
    <3>1. Bad \in SUBSET Nat
      OBVIOUS
    <3> HIDE DEF Bad
    <3> QED
      BY <1>2, <3>1, LeastExists
  <2>2. PICK T \in SUBSET S : Cardinality(T) = c /\ ~Ordered(T)
    OBVIOUS
  <2>3. CASE T = {}
    <3>1. c = 0
      BY <1>1, <2>2, <2>3, FS_EmptySet
    <3>2. [p \in 1 .. 0 |-> 0] \in [1 .. 0 -> T]
      OBVIOUS
    <3>3. \A p, q \in 1 .. 0 : FALSE
      OBVIOUS
    <3> QED
      BY <2>2, <3>1, <3>2, <3>3
  <2>4. CASE T # {}
    <3>1. PICK x \in T : \A y \in T \ {x} : Before(rows, x, y)
      BY <2>4, FirstExists
    <3> DEFINE U == T \ {x}
    <3>2. Cardinality(U) = c - 1 /\ c - 1 \in Nat /\ c \in Nat
      <4>1. c \in Nat /\ c # 0
        BY <1>1, <2>2, <2>4, FS_EmptySet
      <4>2. Cardinality(T \ {x}) = c - 1
        BY <1>1, <2>2, <3>1, FS_RemoveElement
      <4> QED
        BY <4>1, <4>2
    <3>3. Ordered(U)
      <4>1. ~ (c - 1 \in Bad)
        BY <2>1, <3>2
      <4> QED
        BY <3>2, <4>1
    <3>4. PICK s \in [1 .. c - 1 -> U] :
             \A p, q \in 1 .. c - 1 : p < q => Before(rows, s[p], s[q])
      BY <3>2, <3>3
    <3> DEFINE order == [p \in 1 .. c |-> IF p = 1 THEN x ELSE s[p - 1]]
    <3>5. \A p \in 1 .. c : p # 1 => p - 1 \in 1 .. c - 1 /\ s[p - 1] \in U
      BY <3>2, <3>4
    <3>6. order \in [1 .. c -> T]
      BY <3>5
    <3>7. ASSUME NEW p \in 1 .. c, NEW q \in 1 .. c, p < q
          PROVE  Before(rows, order[p], order[q])
      <4>1. q # 1 /\ order[q] = s[q - 1]
        BY <3>2, <3>7
      <4>2. CASE p = 1
        BY <3>1, <3>5, <4>1, <4>2
      <4>3. CASE p # 1
        <5>1. order[p] = s[p - 1] /\ p - 1 < q - 1
          BY <3>2, <3>7, <4>3
        <5> QED
          BY <3>4, <3>5, <4>1, <4>3, <5>1
      <4> QED
        BY <4>2, <4>3
    <3> HIDE DEF order
    <3> QED
      BY <2>2, <3>6, <3>7
  <2> QED
    BY <2>3, <2>4
<1>3. Cardinality(S) \in Nat
  BY <1>1
<1> QED
  BY <1>2, <1>3

(* The discs of a set are listed by index, each once.                       *)
LEMMA ByDiscIndexIs ==
  ASSUME NEW rows, NEW S \in SUBSET Items, \A i \in S : rows[i].index \in Nat,
         NEW order, order = ByDiscIndex(rows, S)
  PROVE  /\ Cardinality(S) \in Nat /\ Len(order) = Cardinality(S)
         /\ order \in [1 .. Cardinality(S) -> S]
         /\ \A p, q \in 1 .. Cardinality(S) : p < q => Before(rows, order[p], order[q])
         /\ \A i \in S : \E p \in 1 .. Cardinality(S) : order[p] = i
<1> DEFINE c == Cardinality(S)
<1>1. IsFiniteSet(S) /\ c \in Nat
  BY ItemAssumption, FS_Subset, FS_CardinalityType
<1>2. /\ order \in [1 .. c -> S]
      /\ \A p, q \in 1 .. c : p < q => Before(rows, order[p], order[q])
  BY OrderExists, Zenon DEF ByDiscIndex
<1> HIDE DEF c
<1>3. ASSUME NEW p \in 1 .. c, NEW q \in 1 .. c, order[p] = order[q] PROVE p = q
  <2>1. \A i \in S : ~Before(rows, i, i)
    BY ItemAssumption DEF Before
  <2>2. order[p] \in S
    BY <1>2
  <2>3. ~ (p < q) /\ ~ (q < p)
    BY <1>2, <1>3, <2>1, <2>2
  <2> QED
    BY <1>1, <2>3
<1>4. order \in Injection(1 .. c, S)
  BY <1>2, <1>3 DEF Injection, IsInjective
<1>5. IsFiniteSet(1 .. c) /\ Cardinality(1 .. c) = c
  BY <1>1, FS_Interval
<1>6. order \in Surjection(1 .. c, S)
  BY <1>1, <1>4, <1>5, FS_Injection DEF c
<1>7. \A i \in S : \E p \in 1 .. c : order[p] = i
  BY <1>6 DEF Surjection
<1>8. Len(order) = c
  BY <1>1, <1>2
<1> QED
  BY <1>1, <1>2, <1>7, <1>8 DEF c

DiscNames(rows, g) ==
    LET order == ByDiscIndex(rows, Members(rows, g))
    IN  [p \in 1 .. Len(order) |-> GroupedVCDName(order[p], rows[order[p]], p)]

LEMMA OneAndMore ==
  ASSUME NEW R, NEW c \in Nat, NEW m \in [1 .. c -> R], NEW o, NEW s, s = <<o>> \o m
  PROVE  /\ Len(s) = 1 + c /\ DOMAIN s = 1 .. Len(s) /\ s[1] = o
         /\ \A k \in 1 .. c : s[k + 1] = m[k]
<1> DEFINE S == R \cup {o}
           u == <<o>>
<1>1. u \in Seq(S) /\ Len(u) = 1 /\ u[1] = o
  OBVIOUS
<1>2. m \in [1 .. c -> S]
  OBVIOUS
<1> HIDE DEF S
<1>3. m \in Seq(S)
  BY <1>2, SeqDef, Zenon
<1>4. Len(m) = c
  BY <1>2, LenProperties
<1>5. s = u \o m
  OBVIOUS
<1> HIDE DEF u
<1>6. /\ s \in Seq(S) /\ Len(s) = 1 + c
      /\ \A k \in 1 .. 1 + c : s[k] = IF k <= 1 THEN u[k] ELSE m[k - 1]
  BY <1>1, <1>3, <1>4, <1>5, ConcatProperties
<1>7. ASSUME NEW k \in 1 .. c PROVE s[k + 1] = m[k]
  <2>1. k + 1 \in 1 .. 1 + c /\ ~ (k + 1 <= 1) /\ (k + 1) - 1 = k
    OBVIOUS
  <2>2. s[k + 1] = m[(k + 1) - 1]
    BY <1>6, <2>1
  <2> QED
    BY <2>1, <2>2
<1>8. s[1] = o
  BY <1>1, <1>6
<1> QED
  BY <1>6, <1>7, <1>8, LenProperties

ManifestOf(o, names) ==
    \E q \in 1 .. Len(names) :
        o \in {Output(Discs(names[q]), names), Output(Vmc(names[q]), names[1])}

SetFiles(o, names) == <<o>> \o Manifests(names)

(* What a set's job writes: the image first, then the set's manifests.      *)
LEMMA ManifestsAfter ==
  ASSUME NEW names, Len(names) \in Nat, NEW o, NEW plan, plan = SetFiles(o, names)
  PROVE  /\ Len(plan) = 1 + 2 * Len(names) /\ DOMAIN plan = 1 .. Len(plan)
         /\ plan[1] = o
         /\ \A k \in 2 .. Len(plan) : ManifestOf(plan[k], names)
         /\ \A q \in 1 .. Len(names) :
               /\ \E k \in 1 .. Len(plan) : plan[k] = Output(Discs(names[q]), names)
               /\ \E k \in 1 .. Len(plan) : plan[k] = Output(Vmc(names[q]), names[1])
<1> DEFINE c == Len(names)
           L(k) == names[(k + 1) \div 2]
           M(k) == IF k % 2 = 1 THEN Output(Discs(L(k)), names) ELSE Output(Vmc(L(k)), names[1])
           m == [k \in 1 .. 2 * c |-> M(k)]
           R == {M(k) : k \in 1 .. 2 * c}
<1>1. Manifests(names) = m
  BY DEF Manifests
<1>2. m \in [1 .. 2 * c -> R] /\ 2 * c \in Nat
  <2>1. 2 * c \in Nat
    OBVIOUS
  <2> HIDE DEF M, c
  <2>2. \A k \in 1 .. 2 * c : M(k) \in R
    OBVIOUS
  <2> HIDE DEF R
  <2> QED
    BY <2>1, <2>2
<1>3. \A k \in 1 .. 2 * c : m[k] = M(k)
  OBVIOUS
<1> HIDE DEF m, M, R
<1>4. plan = <<o>> \o m
  BY <1>1 DEF SetFiles
<1>5. /\ Len(plan) = 1 + 2 * c /\ DOMAIN plan = 1 .. Len(plan) /\ plan[1] = o
      /\ \A k \in 1 .. 2 * c : plan[k + 1] = M(k)
  <2>1. /\ Len(plan) = 1 + 2 * c /\ DOMAIN plan = 1 .. Len(plan) /\ plan[1] = o
        /\ \A k \in 1 .. 2 * c : plan[k + 1] = m[k]
    BY <1>2, <1>4, OneAndMore
  <2> QED
    BY <1>3, <2>1
<1>6. ASSUME NEW k \in 2 .. Len(plan)
      PROVE  ManifestOf(plan[k], names)
  <2>1. k - 1 \in 1 .. 2 * c /\ k \div 2 \in 1 .. c /\ (k - 1) + 1 = k
    BY <1>5
  <2>2. plan[(k - 1) + 1] = M(k - 1)
    BY <1>5, <2>1
  <2> QED
    BY <2>1, <2>2 DEF M, ManifestOf
<1>7. ASSUME NEW q \in 1 .. c
      PROVE  /\ \E k \in 1 .. Len(plan) : plan[k] = Output(Discs(names[q]), names)
             /\ \E k \in 1 .. Len(plan) : plan[k] = Output(Vmc(names[q]), names[1])
  <2>1. /\ 2 * q - 1 \in 1 .. 2 * c /\ 2 * q \in 1 .. 2 * c
        /\ (2 * q - 1) % 2 = 1 /\ (2 * q) % 2 = 0
        /\ ((2 * q - 1) + 1) \div 2 = q /\ (2 * q + 1) \div 2 = q
    OBVIOUS
  <2>2. plan[(2 * q - 1) + 1] = M(2 * q - 1) /\ plan[2 * q + 1] = M(2 * q)
    BY <1>5, <2>1
  <2>3. M(2 * q - 1) = Output(Discs(names[q]), names) /\ M(2 * q) = Output(Vmc(names[q]), names[1])
    BY <2>1 DEF M
  <2>4. (2 * q - 1) + 1 \in 1 .. Len(plan) /\ 2 * q + 1 \in 1 .. Len(plan)
    BY <1>5, <2>1
  <2> QED
    BY <2>2, <2>3, <2>4
<1> QED
  BY <1>5, <1>6, <1>7

IsPlan(outputs) ==
    /\ Len(outputs) \in Nat /\ DOMAIN outputs = 1 .. Len(outputs)
    /\ \A k, l \in DOMAIN outputs :
          outputs[k].path = outputs[l].path => outputs[k].content = outputs[l].content

LEMMA PathsDiffer ==
  ASSUME NEW x, NEW y
  PROVE  Vcd(x) # Discs(y) /\ Vcd(x) # Vmc(y) /\ Discs(x) # Vmc(y)
BY DEF Vcd, Discs, Vmc

LEMMA OutputIs ==
  ASSUME NEW path, NEW content
  PROVE  Output(path, content).path = path /\ Output(path, content).content = content
BY DEF Output

(* The plan of a disc called x of a set: its image, then all manifests.     *)
SetShape(plan, x, c, names) ==
    /\ Len(plan) \in Nat \ {0} /\ DOMAIN plan = 1 .. Len(plan)
    /\ plan[1].path = Vcd(x) /\ plan[1].content = c
    /\ \A k \in 2 .. Len(plan) : ManifestOf(plan[k], names)
    /\ \A q \in 1 .. Len(names) :
          /\ \E k \in 1 .. Len(plan) : plan[k] = Output(Discs(names[q]), names)
          /\ \E k \in 1 .. Len(plan) : plan[k] = Output(Vmc(names[q]), names[1])

LEMMA SetShaped ==
  ASSUME NEW names, Len(names) \in Nat, NEW x, NEW c, NEW plan,
         plan = SetFiles(Output(Vcd(x), c), names)
  PROVE  SetShape(plan, x, c, names)
<1>1. PICK o : o = Output(Vcd(x), c)
  OBVIOUS
<1>2. o.path = Vcd(x) /\ o.content = c
  BY <1>1, OutputIs
<1>3. plan = SetFiles(o, names)
  BY <1>1
<1>4. /\ Len(plan) = 1 + 2 * Len(names) /\ DOMAIN plan = 1 .. Len(plan)
      /\ plan[1] = o
      /\ \A k \in 2 .. Len(plan) : ManifestOf(plan[k], names)
      /\ \A q \in 1 .. Len(names) :
            /\ \E k \in 1 .. Len(plan) : plan[k] = Output(Discs(names[q]), names)
            /\ \E k \in 1 .. Len(plan) : plan[k] = Output(Vmc(names[q]), names[1])
  BY SMTT(30), <1>3, ManifestsAfter
<1>5. Len(plan) \in Nat \ {0}
  BY <1>4
<1> QED
  BY <1>2, <1>4, <1>5 DEF SetShape

LEMMA ManifestsAgree ==
  ASSUME NEW names, NEW o, ManifestOf(o, names)
  PROVE  /\ \A x : o.path # Vcd(x)
         /\ \A r : ManifestOf(r, names) /\ o.path = r.path => o.content = r.content
<1>1. \A r : ManifestOf(r, names) =>
         \E y : \/ r.path = Discs(y) /\ r.content = names
                \/ r.path = Vmc(y) /\ r.content = names[1]
  <2>1. SUFFICES ASSUME NEW r, NEW q \in 1 .. Len(names),
                        r \in {Output(Discs(names[q]), names), Output(Vmc(names[q]), names[1])}
                 PROVE  \/ r.path = Discs(names[q]) /\ r.content = names
                        \/ r.path = Vmc(names[q]) /\ r.content = names[1]
    BY Zenon DEF ManifestOf
  <2> QED
    BY <2>1, OutputIs
<1>2. PICK y : \/ o.path = Discs(y) /\ o.content = names
               \/ o.path = Vmc(y) /\ o.content = names[1]
  BY <1>1
<1> QED
  BY <1>1, <1>2, PathsDiffer

(* Two outputs of a job at one path are the same file.                      *)
LEMMA SetIsPlan ==
  ASSUME NEW plan, NEW x, NEW c, NEW names, SetShape(plan, x, c, names)
  PROVE  IsPlan(plan)
<1>1. /\ Len(plan) \in Nat /\ DOMAIN plan = 1 .. Len(plan) /\ plan[1].path = Vcd(x)
      /\ \A k \in 2 .. Len(plan) : ManifestOf(plan[k], names)
  BY DEF SetShape
<1>2. ASSUME NEW k \in 1 .. Len(plan), NEW l \in 1 .. Len(plan),
             plan[k].path = plan[l].path
      PROVE  plan[k].content = plan[l].content
  <2>1. (k = 1 \/ k \in 2 .. Len(plan)) /\ (l = 1 \/ l \in 2 .. Len(plan))
    BY <1>1
  <2> QED
    BY <1>1, <1>2, <2>1, ManifestsAgree
<1> QED
  BY <1>1, <1>2 DEF IsPlan

LEMMA ShortPlans ==
  /\ IsPlan(<<>>)
  /\ \A o : IsPlan(<<o>>)
BY DEF IsPlan

LEMMA NamesAre ==
  ASSUME NEW rows, \A k \in Items : rows[k].index \in Nat, NEW g,
         NEW order, order = ByDiscIndex(rows, Members(rows, g)),
         NEW names, names = DiscNames(rows, g)
  PROVE  /\ Members(rows, g) \in SUBSET Items
         /\ Cardinality(Members(rows, g)) \in Nat
         /\ Len(order) = Cardinality(Members(rows, g))
         /\ Len(names) = Len(order) /\ DOMAIN names = 1 .. Len(order)
         /\ \A p \in 1 .. Len(order) : order[p] \in Members(rows, g)
         /\ \A p, q \in 1 .. Len(order) : p < q => Before(rows, order[p], order[q])
         /\ \A i \in Members(rows, g) : \E p \in 1 .. Len(order) : order[p] = i
<1> DEFINE S == Members(rows, g)
<1>1. S \in SUBSET Items /\ \A k \in S : rows[k].index \in Nat
  BY DEF Members
<1> HIDE DEF S
<1>2. /\ Cardinality(S) \in Nat /\ Len(order) = Cardinality(S)
      /\ order \in [1 .. Cardinality(S) -> S]
      /\ \A p, q \in 1 .. Cardinality(S) : p < q => Before(rows, order[p], order[q])
      /\ \A i \in S : \E p \in 1 .. Cardinality(S) : order[p] = i
  BY <1>1, ByDiscIndexIs DEF S
<1>3. Len(names) = Len(order) /\ DOMAIN names = 1 .. Len(order)
  BY <1>2 DEF DiscNames, S
<1> QED
  BY <1>1, <1>2, <1>3 DEF S

LEMMA ConvertIs ==
  ASSUME NEW rows, \A k \in Items : rows[k].index \in Nat, NEW i, NEW row,
         NEW plan, plan = PlanConvert(i, row, rows)
  PROVE  \/ plan = <<>>
         \/ \E x : plan = <<Output(Vcd(x), Image(i, TRUE))>>
         \/ \E x, names : SetShape(plan, x, Image(i, TRUE), names)
<1> DEFINE g == row.group
           order == ByDiscIndex(rows, Members(rows, g))
           names == DiscNames(rows, g)
           own   == {p \in 1 .. Len(order) : order[p] = i}
           name  == IF own = {} THEN GroupedVCDName(i, row, 1) ELSE names[CHOOSE p \in own : TRUE]
<1>1. Len(names) \in Nat
  BY NamesAre
<1>2. plan =
        IF row.group = NoGroup THEN <<Output(Vcd(GroupedVCDName(i, row, 1)), Image(i, TRUE))>>
        ELSE IF ValidSet(names) THEN SetFiles(Output(Vcd(name), Image(i, TRUE)), names)
        ELSE <<>>
  BY DEF PlanConvert, DiscNames, SetFiles
<1> HIDE DEF names, name
<1>3. plan = SetFiles(Output(Vcd(name), Image(i, TRUE)), names)
        => SetShape(plan, name, Image(i, TRUE), names)
  BY <1>1, SetShaped, Zenon
<1> QED
  BY <1>2, <1>3

LEMMA ConvertIsPlan ==
  ASSUME NEW rows, \A k \in Items : rows[k].index \in Nat, NEW i, NEW row
  PROVE  IsPlan(PlanConvert(i, row, rows))
<1>1. PICK plan : plan = PlanConvert(i, row, rows)
  OBVIOUS
<1>2. \/ plan = <<>>
      \/ \E x : plan = <<Output(Vcd(x), Image(i, TRUE))>>
      \/ \E x, names : SetShape(plan, x, Image(i, TRUE), names)
  BY <1>1, ConvertIs
<1>3. IsPlan(plan)
  BY <1>2, ShortPlans, SetIsPlan, Zenon
<1> QED
  BY <1>1, <1>3

(* i is the p-th disc of a set, and its job writes what a disc's job does.  *)
DiscAt(p, plan, i, order, names) ==
    p \in 1 .. Len(names) /\ order[p] = i /\ SetShape(plan, names[p], Image(i, TRUE), names)

(* What the job of a disc writes when no edit comes between its two reads.  *)
OwnFiles(i, rows) == PlanConvert(i, rows[i], rows)

(* A disc of a set has its own place in it, and writes what the set does.   *)
LEMMA OwnPlan ==
  ASSUME NEW rows, \A k \in Items : rows[k].index \in Nat, NEW g \in Groups,
         NEW i \in Members(rows, g),
         NEW plan, plan = OwnFiles(i, rows), plan # <<>>,
         NEW order, order = ByDiscIndex(rows, Members(rows, g)),
         NEW names, names = DiscNames(rows, g)
  PROVE  /\ ValidSet(names) /\ Len(names) \in Nat
         /\ \E p : DiscAt(p, plan, i, order, names)
<1> DEFINE own   == {p \in 1 .. Len(order) : order[p] = i}
           name  == IF own = {} THEN GroupedVCDName(i, rows[i], 1)
                    ELSE names[CHOOSE p \in own : TRUE]
<1>1. rows[i].group = g /\ g # NoGroup
  BY ItemAssumption DEF Members
<1>2. plan = IF ValidSet(names) THEN SetFiles(Output(Vcd(name), Image(i, TRUE)), names)
             ELSE <<>>
  BY <1>1 DEF OwnFiles, PlanConvert, DiscNames, SetFiles
<1>3. Len(names) = Len(order) /\ Len(names) \in Nat /\ own # {}
  BY NamesAre
<1> HIDE DEF own
<1>4. PICK p \in own : p = CHOOSE q \in own : TRUE
  BY <1>3
<1>5. p \in 1 .. Len(names) /\ order[p] = i
  BY <1>3, <1>4 DEF own
<1>6. name = names[p]
  BY <1>3, <1>4
<1>7. ValidSet(names) /\ plan = SetFiles(Output(Vcd(names[p]), Image(i, TRUE)), names)
  BY <1>2, <1>6
<1> HIDE DEF name
<1>8. SetShape(plan, names[p], Image(i, TRUE), names)
  BY <1>3, <1>7, SetShaped, Zenon
<1> QED
  BY <1>3, <1>5, <1>7, <1>8 DEF DiscAt

(* Discs of one set write different images and the same manifests.          *)
LEMMA SiblingsAgree ==
  ASSUME NEW rows, \A k \in Items : rows[k].index \in Nat, NEW g \in Groups,
         NEW i \in Members(rows, g), NEW j \in Members(rows, g), i # j,
         NEW mine, mine = OwnFiles(i, rows),
         NEW theirs, theirs = OwnFiles(j, rows)
  PROVE  \A k \in DOMAIN mine, l \in DOMAIN theirs :
            mine[k].path = theirs[l].path => l # 1 /\ mine[k].content = theirs[l].content
<1> SUFFICES ASSUME NEW k \in DOMAIN mine, NEW l \in DOMAIN theirs,
                    mine[k].path = theirs[l].path
             PROVE  l # 1 /\ mine[k].content = theirs[l].content
  OBVIOUS
<1>1. PICK order, names : order = ByDiscIndex(rows, Members(rows, g)) /\ names = DiscNames(rows, g)
  OBVIOUS
<1>2. mine # <<>> /\ theirs # <<>>
  OBVIOUS
<1>3. ValidSet(names) /\ Len(names) \in Nat
  BY <1>1, <1>2, OwnPlan
<1>4. PICK p : DiscAt(p, mine, i, order, names)
  BY <1>1, <1>2, OwnPlan
<1>5. PICK q : DiscAt(q, theirs, j, order, names)
  BY <1>1, <1>2, OwnPlan
<1>6. names[p] # names[q]
  <2>1. DOMAIN names = 1 .. Len(names)
    BY <1>1, NamesAre
  <2>2. p # q
    BY <1>4, <1>5 DEF DiscAt
  <2> QED
    BY <1>3, <1>4, <1>5, <2>1, <2>2 DEF ValidSet, IsInjective, DiscAt
<1>7. mine[1].path = Vcd(names[p]) /\ DOMAIN mine = 1 .. Len(mine) /\ Len(mine) \in Nat
      /\ \A m \in 2 .. Len(mine) : ManifestOf(mine[m], names)
  BY <1>4 DEF SetShape, DiscAt
<1>8. theirs[1].path = Vcd(names[q]) /\ DOMAIN theirs = 1 .. Len(theirs) /\ Len(theirs) \in Nat
      /\ \A m \in 2 .. Len(theirs) : ManifestOf(theirs[m], names)
  BY <1>5 DEF SetShape, DiscAt
<1>9. (k = 1 \/ k \in 2 .. Len(mine)) /\ (l = 1 \/ l \in 2 .. Len(theirs))
  BY <1>7, <1>8
<1>10. Vcd(names[p]) # Vcd(names[q])
  BY <1>6 DEF Vcd
<1>11. k # 1 /\ l # 1
  BY <1>7, <1>8, <1>9, <1>10, ManifestsAgree
<1> QED
  BY <1>7, <1>8, <1>9, <1>11, ManifestsAgree

LEMMA PlanIsPlan ==
  ASSUME NEW rows, \A k \in Items : rows[k].index \in Nat, NEW i \in Items, NEW row,
         NEW k \in {"convert", "ember"}
  PROVE  IsPlan(Plan(i, k, row, rows))
<1>1. CASE k = "convert"
  BY <1>1, ConvertIsPlan DEF Plan
<1>2. CASE k = "ember"
  <2> DEFINE folder == VCDFileName(NoSerial, row.title.stem, row.title.disc)
             L == Len(EmberFiles[i])
             plan == [f \in 1 .. L |-> Output(<<"EMBER", folder, EmberFiles[i][f]>>,
                                              Image(i, TRUE))]
  <2>1. L \in Nat
    BY EmberAssumption
  <2>2. Plan(i, k, row, rows) = plan
    BY <1>2 DEF Plan, PlanEmber
  <2> HIDE DEF L, folder
  <2>3. Len(plan) = L /\ DOMAIN plan = 1 .. L
    BY <2>1
  <2>4. \A f \in 1 .. L : plan[f].content = Image(i, TRUE)
    BY DEF Output
  <2> HIDE DEF plan
  <2> QED
    BY <2>1, <2>2, <2>3, <2>4 DEF IsPlan
<1> QED
  BY <1>1, <1>2

(* A set's files are in POPS.                                               *)
LEMMA SetInPops ==
  ASSUME NEW plan, NEW x, NEW c, NEW names, SetShape(plan, x, c, names), NEW k \in DOMAIN plan
  PROVE  plan[k].path[1] = "POPS"
<1>1. k = 1 \/ k \in 2 .. Len(plan)
  BY DEF SetShape
<1>2. CASE k = 1
  BY <1>2 DEF SetShape, Vcd
<1>3. CASE k \in 2 .. Len(plan)
  <2>1. ManifestOf(plan[k], names)
    BY <1>3 DEF SetShape
  <2>2. PICK q \in 1 .. Len(names) :
           plan[k] \in {Output(Discs(names[q]), names), Output(Vmc(names[q]), names[1])}
    BY <2>1, Zenon DEF ManifestOf
  <2>3. plan[k].path = Discs(names[q]) \/ plan[k].path = Vmc(names[q])
    BY <2>2, OutputIs
  <2> QED
    BY <2>3 DEF Discs, Vmc
<1> QED
  BY <1>1, <1>2, <1>3
(* The paths of images, and what a job of item i puts there.                *)
ImagePath(path) == path[1] = "EMBER" \/ path[3] = "VCD"
Imaged(i, k, outputs) ==
    /\ \A l \in DOMAIN outputs :
          ImagePath(outputs[l].path) => outputs[l].content = Image(i, TRUE)
    /\ k = "convert" /\ 1 \in DOMAIN outputs => ImagePath(outputs[1].path)

LEMMA NothingImaged == \A i, k : Imaged(i, k, <<>>)
BY DEF Imaged

LEMMA ManifestsNoImages ==
  ASSUME NEW names, NEW o, ManifestOf(o, names)
  PROVE  ~ImagePath(o.path)
<1>1. PICK q \in 1 .. Len(names) :
         o \in {Output(Discs(names[q]), names), Output(Vmc(names[q]), names[1])}
  BY Zenon DEF ManifestOf
<1>2. o.path = Discs(names[q]) \/ o.path = Vmc(names[q])
  BY <1>1, OutputIs
<1> QED
  BY <1>2 DEF Discs, Vmc, ImagePath

LEMMA PlanImaged ==
  ASSUME NEW rows, \A k \in Items : rows[k].index \in Nat, NEW i \in Items, NEW row,
         NEW k \in {"convert", "ember"}
  PROVE  Imaged(i, k, Plan(i, k, row, rows))
<1>1. CASE k = "convert"
  <2>1. PICK plan : plan = PlanConvert(i, row, rows)
    OBVIOUS
  <2>2. plan = <<>> => Imaged(i, k, plan)
    BY NothingImaged
  <2>3. ASSUME NEW x, plan = <<Output(Vcd(x), Image(i, TRUE))>> PROVE Imaged(i, k, plan)
    <3>1. PICK o : o = Output(Vcd(x), Image(i, TRUE))
      OBVIOUS
    <3>2. o.path = Vcd(x) /\ o.content = Image(i, TRUE)
      BY <3>1, OutputIs
    <3>3. plan = <<o>>
      BY <2>3, <3>1
    <3>4. DOMAIN plan = {1} /\ plan[1] = o
      BY <3>3
    <3>5. ImagePath(o.path)
      BY <3>2 DEF ImagePath, Vcd
    <3> QED
      BY <3>2, <3>4, <3>5 DEF Imaged
  <2>4. ASSUME NEW x, NEW names, SetShape(plan, x, Image(i, TRUE), names)
        PROVE  Imaged(i, k, plan)
    <3>1. /\ DOMAIN plan = 1 .. Len(plan) /\ Len(plan) \in Nat \ {0}
          /\ plan[1].path = Vcd(x) /\ plan[1].content = Image(i, TRUE)
          /\ \A l \in 2 .. Len(plan) : ManifestOf(plan[l], names)
      BY <2>4 DEF SetShape
    <3>2. \A l \in DOMAIN plan : l # 1 => ~ImagePath(plan[l].path)
      BY <3>1, ManifestsNoImages
    <3>3. ImagePath(plan[1].path)
      BY <3>1 DEF ImagePath, Vcd
    <3> QED
      BY <3>1, <3>2, <3>3 DEF Imaged
  <2>5. \/ plan = <<>>
        \/ \E x : plan = <<Output(Vcd(x), Image(i, TRUE))>>
        \/ \E x, names : SetShape(plan, x, Image(i, TRUE), names)
    BY <2>1, ConvertIs
  <2>6. Imaged(i, k, plan)
    BY <2>2, <2>3, <2>4, <2>5
  <2> QED
    BY <1>1, <2>1, <2>6 DEF Plan
<1>2. CASE k = "ember"
  <2> DEFINE folder == VCDFileName(NoSerial, row.title.stem, row.title.disc)
             plan == [f \in 1 .. Len(EmberFiles[i]) |->
                         Output(<<"EMBER", folder, EmberFiles[i][f]>>, Image(i, TRUE))]
  <2>1. Plan(i, k, row, rows) = plan
    BY <1>2 DEF Plan, PlanEmber
  <2>2. \A f \in DOMAIN plan : plan[f].content = Image(i, TRUE)
    BY DEF Output
  <2> HIDE DEF plan
  <2> QED
    BY <1>2, <2>1, <2>2 DEF Imaged
<1> QED
  BY <1>1, <1>2
-----------------------------------------------------------------------------
(* What a finished job wrote stays.                                         *)

Rows == /\ lib \in [Items -> Row]
        /\ edits \in Nat /\ \A i \in Jobs : prep[i].version \in 0 .. edits
        /\ ahead = NoJob \/ ahead \in Pending

(* A plan for item i that no edit overtook is what the library says.        *)
PlanTrue(i, p, k, rows, now) ==
    /\ IsPlan(p.outputs) /\ Imaged(i, k, p.outputs)
    /\ p.stage # "made" => p.outputs = <<>>
    /\ p.stage = "row" /\ p.version = now => p.row = rows[i]
    /\ ~p.torn /\ p.version = now /\ p.outputs # <<>> => p.outputs = Plan(i, k, rows[i], rows)

PlansTrue == \A i \in Jobs : PlanTrue(Item[i], prep[i], Kind[i], lib, edits)

(* A finished job had a plan and wrote all of it.                           *)
DoneMade ==
    \A i \in Jobs : job[i] = "done" =>
        /\ prep[i].stage = "made" /\ prep[i].outputs # <<>>
        /\ \A k \in DOMAIN prep[i].outputs : <<Item[i], prep[i].outputs[k].path>> \in touched

(* The runner is at a file of its plan; a conversion is verified last.      *)
InPlan == /\ pc = "write" => n < Len(Outputs)
          /\ pc = "verify" => n \in 1 .. Len(Outputs)
          /\ pc = "verify" /\ Kind[cur] = "convert" => n = Len(Outputs)

(* Of what the running job wrote, only this file may be damaged.            *)
Unread(p) == IF Kind[cur] = "convert" THEN p = Target
             ELSE pc = "verify" /\ p = Outputs[n].path

SoFar == pc \in {"write", "verify"} =>
           \A k \in 1 .. n :
              /\ <<Item[cur], Outputs[k].path>> \in touched
              /\ Outputs[k].path \in DOMAIN device
              /\ device[Outputs[k].path] = Outputs[k].content \/ Unread(Outputs[k].path)

(* A job that wrote did it from a plan that was true, and still is if one   *)
(* that finished is current.                                                *)
Fresh == pc \in {"write", "verify"} /\ n > 0 /\ ~stale =>
            /\ ~prep[cur].torn
            /\ \A i \in Jobs : job[i] = "done" /\ prep[i].version = edits
                                  => prep[cur].version = edits

(* A VCD is in doubt from its commit to its verification.                   *)
InDoubt == pc \in {"write", "verify"} /\ Kind[cur] = "convert" /\ n > 0
              => <<Item[cur], Target>> \in doubt

StandInv == /\ Rows /\ PlansTrue /\ DoneMade /\ InPlan /\ SoFar /\ Fresh /\ InDoubt
            /\ DoneStands

LEMMA NotEmpty ==
  ASSUME NEW s, 1 \in DOMAIN s
  PROVE  s # <<>>
OBVIOUS

LEMMA InitStand == Init => StandInv
<1> SUFFICES ASSUME Init PROVE StandInv
  OBVIOUS
<1>1. Rows
  <2>1. \A i \in Jobs : prep[i] = NoPrep
    BY DEF Init
  <2>2. NoPrep.version = 0
    BY DEF NoPrep
  <2>3. lib \in [Items -> Row] /\ edits = 0 /\ ahead = NoJob
    BY LibraryAssumption DEF Init
  <2>4. \A i \in Jobs : prep[i].version = 0
    BY <2>1, <2>2
  <2>5. \A i \in Jobs : prep[i].version \in 0 .. edits
    BY <2>3, <2>4
  <2> QED
    BY <2>3, <2>5 DEF Rows
<1>2. PlansTrue
  BY ShortPlans, NothingImaged DEF Init, PlansTrue, PlanTrue, NoPrep
<1>3. DoneMade /\ InPlan /\ SoFar /\ Fresh /\ InDoubt /\ DoneStands
  BY DEF Init, DoneMade, InPlan, SoFar, Fresh, InDoubt, DoneStands, Current
<1> QED
  BY <1>1, <1>2, <1>3 DEF StandInv

(* Steps that leave plans alone or throw them away.                         *)
LEMMA PlansKept ==
  ASSUME PlansTrue, UNCHANGED <<lib, edits>>,
         \A i \in Jobs : prep'[i] \in {NoPrep, prep[i]}
  PROVE  PlansTrue'
<1> SUFFICES ASSUME NEW i \in Jobs PROVE PlanTrue(Item[i], prep'[i], Kind[i], lib', edits')
  BY DEF PlansTrue
<1>1. CASE prep'[i] = NoPrep
  BY <1>1, ShortPlans, NothingPlanned, NothingImaged DEF PlanTrue, NoPrep
<1>2. CASE prep'[i] = prep[i]
  BY <1>2 DEF PlansTrue
<1> QED
  BY <1>1, <1>2

(* Steps that write nothing and finish no job.                              *)
LEMMA DoneKept ==
  ASSUME DoneMade, DoneStands, UNCHANGED <<device, touched, doubt, lib, edits, stale>>,
         \A i \in Jobs : job'[i] = "done" => job[i] = "done" /\ prep'[i] = prep[i]
  PROVE  DoneMade' /\ DoneStands'
<1>1. DoneMade'
  BY DEF DoneMade
<1>2. ASSUME NEW i \in Jobs, Current(i)', ~stale', NEW k \in 1 .. Len(prep'[i].outputs),
             Undisturbed(i, prep[i].outputs[k].path)',
             <<Item[i], prep'[i].outputs[k].path>> \notin doubt'
      PROVE  /\ prep'[i].outputs[k].path \in DOMAIN device'
             /\ device'[prep'[i].outputs[k].path] = prep'[i].outputs[k].content
  <2>1. job[i] = "done" /\ prep'[i] = prep[i] /\ Current(i)
    BY <1>2 DEF Current
  <2>2. Team(i)' = Team(i)
    BY DEF Team, Members
  <2>3. Undisturbed(i, prep[i].outputs[k].path)
    BY <1>2, <2>1, <2>2 DEF Undisturbed
  <2> QED
    BY <1>2, <2>1, <2>3 DEF DoneStands
<1>3. DoneStands'
  BY <1>2 DEF DoneStands
<1> QED
  BY <1>1, <1>3

(* Steps that leave the runner and its plan alone.                          *)
LEMMA RunKept ==
  ASSUME InPlan, SoFar, Fresh, InDoubt,
         UNCHANGED <<pc, cur, n, device, touched, doubt, edits, stale>>,
         pc \in {"write", "verify"} => prep'[cur] = prep[cur],
         \A i \in Jobs : job'[i] = "done" => job[i] = "done" /\ prep'[i] = prep[i]
  PROVE  InPlan' /\ SoFar' /\ Fresh' /\ InDoubt'
BY SMTT(30) DEF InPlan, SoFar, Fresh, InDoubt, Unread, Outputs, Target

(* The rows' indexes are numbers.                                           *)
LEMMA Indexed == Rows => \A k \in Items : lib[k].index \in Nat
BY DEF Rows, Row

LEMMA StandRequest ==
  ASSUME VcdInv, StandInv, NEW i \in Jobs, Enqueue(i) \/ RetryJob(i)
  PROVE  StandInv'
<1> USE DEF StandInv
<1>1. /\ job[i] \in {"none", "error"} /\ job'[i] = "pending"
      /\ \A k \in Jobs \ {i} : job'[k] = job[k]
  BY DEF Enqueue, RetryJob, VcdInv, Columns
<1>2. UNCHANGED <<lib, prep, edits, stale, pc, cur, ahead, n, device, touched, doubt>>
  BY DEF Enqueue, RetryJob
<1>3. Rows'
  BY <1>1, <1>2 DEF Rows, Pending
<1>4. PlansTrue'
  BY <1>2, PlansKept
<1>5. \A k \in Jobs : job'[k] = "done" => job[k] = "done"
  BY <1>1
<1>6. DoneMade' /\ DoneStands'
  BY <1>2, <1>5, DoneKept
<1>7. InPlan' /\ SoFar' /\ Fresh' /\ InDoubt'
  BY <1>2, <1>5, RunKept
<1> QED
  BY <1>3, <1>4, <1>6, <1>7

LEMMA StandClaim ==
  ASSUME VcdInv, StandInv, NEW i \in Jobs, Claims(i)
  PROVE  StandInv'
<1> USE DEF StandInv
<1>1. /\ job[i] = "pending" /\ job'[i] = "running"
      /\ \A k \in Jobs \ {i} : job'[k] = job[k]
  BY DEF Claims, Pending, VcdInv, Columns
<1>2. /\ \A k \in Jobs : prep'[k] \in {prep[k], NoPrep}
      /\ \A k \in Jobs : prep'[k] # prep[k] => k = ahead /\ k \in Pending
  BY DEF Claims, VcdInv, Preps, Rows
<1>3. pc' = "plan" /\ ahead' = NoJob /\ UNCHANGED <<lib, n, device, touched, doubt, stale, edits>>
  BY DEF Claims
<1>4. Rows'
  BY <1>2, <1>3 DEF Rows, NoPrep
<1>5. PlansTrue'
  BY <1>2, <1>3, PlansKept
<1>6. \A k \in Jobs : job'[k] = "done" => job[k] = "done" /\ prep'[k] = prep[k]
  BY <1>1, <1>2 DEF Pending
<1>7. DoneMade' /\ DoneStands'
  BY <1>3, <1>6, DoneKept
<1>8. InPlan' /\ SoFar' /\ Fresh' /\ InDoubt'
  BY <1>3 DEF InPlan, SoFar, Fresh, InDoubt
<1> QED
  BY <1>4, <1>5, <1>7, <1>8

LEMMA StandPlan ==
  ASSUME VcdInv, StandInv, NEW i \in Jobs,
         GetsItem(i) \/ \E found \in BOOLEAN : ListsSiblings(i, found)
  PROVE  StandInv'
<1> USE DEF StandInv
<1>1. DOMAIN prep[i] = Fields /\ prep[i].version \in 0 .. edits
  BY DEF VcdInv, Preps, Formed, Rows
<1>2. job[i] # "done" /\ (pc \in {"write", "verify"} => cur # i /\ cur \in Jobs)
  BY ZenonT(30), JobAssumption DEF GetsItem, ListsSiblings, Planned, VcdInv, Working, Rows, Pending
<1>3. UNCHANGED <<lib, job, pc, cur, ahead, n, device, touched, doubt, stale, edits>>
  BY DEF GetsItem, ListsSiblings
<1>4. \A k \in Jobs \ {i} : prep'[k] = prep[k]
  BY DEF GetsItem, ListsSiblings, VcdInv, Preps
<1>5. PlanTrue(Item[i], prep[i], Kind[i], lib, edits) /\ Item[i] \in Items
  BY JobAssumption DEF PlansTrue
<1>6. /\ prep'[i].version \in 0 .. edits
      /\ PlanTrue(Item[i], prep'[i], Kind[i], lib, edits)
  <2>1. CASE GetsItem(i)
    <3> DEFINE new == [prep[i] EXCEPT !.stage = "row", !.row = lib[Item[i]], !.version = edits]
    <3>1. prep'[i] = new /\ prep[i].stage = "none"
      BY <2>1 DEF GetsItem, VcdInv, Preps
    <3>2. /\ new.stage = "row" /\ new.row = lib[Item[i]] /\ new.version = edits
          /\ new.torn = prep[i].torn /\ new.outputs = prep[i].outputs
      BY <1>1 DEF Fields
    <3> HIDE DEF new
    <3>3. new.outputs = <<>>
      BY <1>5, <3>1, <3>2 DEF PlanTrue
    <3>4. edits \in 0 .. edits
      BY DEF Rows
    <3> QED
      BY <1>1, <3>1, <3>2, <3>3, <3>4, ShortPlans, NothingImaged DEF PlanTrue
  <2>2. CASE \E found \in BOOLEAN : ListsSiblings(i, found)
    <3>1. PICK found \in BOOLEAN : ListsSiblings(i, found)
      BY <2>2
    <3> DEFINE outputs == IF found THEN Plan(Item[i], Kind[i], prep[i].row, lib) ELSE <<>>
               new == [prep[i] EXCEPT !.stage = "made", !.torn = edits # prep[i].version,
                                      !.outputs = outputs]
    <3>2. prep'[i] = new /\ prep[i].stage = "row"
      BY <3>1 DEF ListsSiblings, VcdInv, Preps
    <3>3. IsPlan(outputs) /\ Imaged(Item[i], Kind[i], outputs)
      BY <1>5, PlanIsPlan, PlanImaged, ShortPlans, NothingImaged, Indexed, JobAssumption
    <3>4. prep[i].version = edits /\ outputs # <<>>
             => outputs = Plan(Item[i], Kind[i], lib[Item[i]], lib)
      BY <1>5, <3>2 DEF PlanTrue
    <3> HIDE DEF outputs
    <3>5. /\ new.stage = "made" /\ new.version = prep[i].version
          /\ new.torn = (edits # prep[i].version) /\ new.outputs = outputs
      BY <1>1 DEF Fields
    <3> HIDE DEF new
    <3> QED
      BY <1>1, <3>2, <3>3, <3>4, <3>5 DEF PlanTrue
  <2> QED
    BY <2>1, <2>2
<1>7. Rows'
  BY <1>3, <1>4, <1>6 DEF Rows, Pending
<1>8. PlansTrue'
  <2> SUFFICES ASSUME NEW k \in Jobs PROVE PlanTrue(Item[k], prep'[k], Kind[k], lib, edits)
    BY <1>3 DEF PlansTrue
  <2> QED
    BY <1>4, <1>6 DEF PlansTrue
<1>9. \A k \in Jobs : job'[k] = "done" => job[k] = "done" /\ prep'[k] = prep[k]
  BY <1>2, <1>3, <1>4
<1>10. DoneMade' /\ DoneStands'
  BY <1>3, <1>9, DoneKept
<1>11. InPlan' /\ SoFar' /\ Fresh' /\ InDoubt'
  BY <1>2, <1>3, <1>4, <1>9, RunKept
<1> QED
  BY <1>7, <1>8, <1>10, <1>11

LEMMA StandBegin ==
  ASSUME VcdInv, StandInv, NEW next \in Jobs \cup {NoJob}, Begins(next)
  PROVE  StandInv'
<1> USE DEF StandInv
<1>1. cur \in Jobs /\ job[cur] = "running" /\ next \in Pending \cup {NoJob}
  BY DEF Begins, VcdInv, Working
<1>2. ahead' = next /\ n' = 0 /\ UNCHANGED <<lib, device, touched, doubt, stale, edits>>
  BY DEF Begins
<1>3. /\ \A k \in Jobs \ {cur} : job'[k] = job[k] /\ prep'[k] = prep[k]
      /\ \/ job'[cur] = "error" /\ prep'[cur] = NoPrep /\ pc' = "idle"
         \/ /\ job'[cur] = "running" /\ prep'[cur] = prep[cur] /\ pc' = "write" /\ cur' = cur
            /\ Outputs # <<>>
  BY <1>1 DEF Begins, VcdInv, Columns, Preps
<1>4. Rows'
  BY <1>1, <1>2, <1>3 DEF Rows, Pending, NoPrep
<1>5. PlansTrue'
  BY <1>2, <1>3, PlansKept
<1>6. \A k \in Jobs : job'[k] = "done" => job[k] = "done" /\ prep'[k] = prep[k]
  BY <1>1, <1>3
<1>7. DoneMade' /\ DoneStands'
  BY <1>2, <1>6, DoneKept
<1>8. InPlan' /\ SoFar' /\ Fresh' /\ InDoubt'
  <2>1. Outputs # <<>> => Len(Outputs) > 0
    BY <1>1 DEF PlansTrue, PlanTrue, IsPlan, Outputs
  <2>2. InPlan'
    BY <1>2, <1>3, <2>1 DEF InPlan, Outputs
  <2>3. SoFar' /\ Fresh' /\ InDoubt'
    BY <1>2, <1>3 DEF SoFar, Fresh, InDoubt
  <2> QED
    BY <2>2, <2>3
<1> QED
  BY <1>4, <1>5, <1>7, <1>8

LEMMA StandEdit ==
  ASSUME VcdInv, StandInv, NEW i \in Items,
         \/ \E g \in Groups \cup {NoGroup} : SetGroup(i, g)
         \/ \E title \in EditTitles : UpdateTitle(i, title)
  PROVE  StandInv'
<1> USE DEF StandInv
<1>1. /\ edits' = edits + 1
      /\ UNCHANGED <<job, prep, pc, cur, ahead, n, device, touched, doubt, stale>>
  BY DEF SetGroup, UpdateTitle
<1>2. lib' \in [Items -> Row]
  BY LibraryAssumption DEF SetGroup, UpdateTitle, Rows, Row
<1>3. edits \in Nat /\ \A k \in Jobs : prep[k].version \in 0 .. edits
  BY DEF Rows
<1>4. \A k \in Jobs : prep[k].version \in 0 .. edits' /\ prep[k].version # edits'
  BY <1>1, <1>3
<1>5. Rows'
  BY <1>1, <1>2, <1>3, <1>4 DEF Rows, Pending
<1>6. PlansTrue'
  BY <1>1, <1>4 DEF PlansTrue, PlanTrue
<1>7. DoneMade' /\ InPlan' /\ SoFar' /\ InDoubt'
  BY <1>1 DEF DoneMade, InPlan, SoFar, InDoubt, Unread, Outputs, Target
<1>8. Fresh' /\ DoneStands'
  BY <1>1, <1>4 DEF Fresh, DoneStands, Current
<1> QED
  BY <1>5, <1>6, <1>7, <1>8

(* A file that a finished job and the running one of another disc of its    *)
(* set have in common is a manifest, and they agree on it.                  *)
LEMMA Clash ==
  ASSUME VcdInv, StandInv, pc # "idle", NEW i \in Jobs, Current(i),
         prep[cur].version = edits, ~prep[cur].torn,
         Item[cur] \in Team(i), Item[cur] # Item[i],
         NEW k \in DOMAIN prep[i].outputs, NEW l \in DOMAIN Outputs,
         prep[i].outputs[k].path = Outputs[l].path
  PROVE  Kind[cur] = "convert" /\ l # 1 /\ prep[i].outputs[k].content = Outputs[l].content
<1> USE DEF StandInv
<1> DEFINE a == Item[i]
           b == Item[cur]
           g == lib[a].group
<1>1. cur \in Jobs /\ a \in Items /\ b \in Items /\ Kind[cur] \in {"convert", "ember"}
  BY JobAssumption DEF VcdInv, Working
<1>2. Kind[i] = "convert" /\ g # NoGroup /\ b \in Members(lib, g)
  BY <1>1 DEF Team
<1>3. g \in Groups /\ a \in Members(lib, g) /\ \A m \in Items : lib[m].index \in Nat
  BY <1>1, <1>2, Indexed DEF Rows, Row, Members
<1>4. prep[i].outputs # <<>> /\ Outputs # <<>>
  OBVIOUS
<1>5. prep[i].outputs = OwnFiles(a, lib)
  BY <1>2, <1>4 DEF PlansTrue, PlanTrue, Current, Plan, OwnFiles
<1> HIDE DEF a, b, g
<1>6. prep[i].outputs[k].path[1] = "POPS"
  <2>1. PICK order, names : order = ByDiscIndex(lib, Members(lib, g)) /\ names = DiscNames(lib, g)
    OBVIOUS
  <2>2. PICK p : DiscAt(p, prep[i].outputs, a, order, names)
    BY <1>3, <1>4, <1>5, <2>1, OwnPlan
  <2> QED
    BY <2>2, SetInPops DEF DiscAt
<1>7. Kind[cur] = "convert"
  <2>1. Kind[cur] = "ember" => Outputs[l].path[1] = "EMBER"
    BY <1>1 DEF VcdInv, Preps, InEmber, Outputs
  <2> QED
    BY <1>1, <1>6, <2>1
<1>8. Outputs = OwnFiles(b, lib)
  BY <1>1, <1>4, <1>7 DEF PlansTrue, PlanTrue, Outputs, Plan, OwnFiles, b
<1>9. PICK mine, theirs : mine = prep[i].outputs /\ theirs = Outputs
  OBVIOUS
<1>10. /\ mine = OwnFiles(a, lib) /\ theirs = OwnFiles(b, lib)
       /\ k \in DOMAIN mine /\ l \in DOMAIN theirs /\ mine[k].path = theirs[l].path
  BY <1>5, <1>8, <1>9
<1>11. PICK h, x, y : h = g /\ x = a /\ y = b
  OBVIOUS
<1>12. /\ h \in Groups /\ x \in Members(lib, h) /\ y \in Members(lib, h) /\ x # y
       /\ mine = OwnFiles(x, lib) /\ theirs = OwnFiles(y, lib)
  BY <1>2, <1>3, <1>10, <1>11 DEF a, b
<1>13. \A c \in DOMAIN mine, d \in DOMAIN theirs :
          mine[c].path = theirs[d].path => d # 1 /\ mine[c].content = theirs[d].content
  BY <1>3, <1>12, SiblingsAgree
<1> QED
  BY <1>7, <1>9, <1>10, <1>13

(* A finished job and the running one of the same item agree on every file  *)
(* they have in common.                                                     *)
LEMMA SameItem ==
  ASSUME VcdInv, StandInv, pc # "idle", NEW i \in Jobs, Current(i),
         prep[cur].version = edits, ~prep[cur].torn, Item[cur] = Item[i],
         NEW k \in DOMAIN prep[i].outputs, NEW l \in DOMAIN Outputs,
         prep[i].outputs[k].path = Outputs[l].path
  PROVE  prep[i].outputs[k].content = Outputs[l].content
<1> USE DEF StandInv
<1>1. /\ cur \in Jobs /\ Kind[cur] \in {"convert", "ember"} /\ Kind[i] \in {"convert", "ember"}
      /\ prep[i].outputs # <<>> /\ Outputs # <<>>
  BY JobAssumption DEF VcdInv, Working
<1>2. /\ prep[i].outputs = Plan(Item[i], Kind[i], lib[Item[i]], lib)
      /\ Outputs = Plan(Item[i], Kind[cur], lib[Item[i]], lib)
  BY <1>1 DEF PlansTrue, PlanTrue, Current, Outputs
<1>3. CASE Kind[i] = Kind[cur]
  <2>1. PICK outputs : outputs = Outputs
    OBVIOUS
  <2>2. IsPlan(outputs) /\ prep[i].outputs = outputs
    BY <1>1, <1>2, <1>3, <2>1 DEF PlansTrue, PlanTrue, Outputs
  <2> QED
    BY <2>1, <2>2 DEF IsPlan
<1>4. CASE Kind[i] # Kind[cur]
  <2>1. prep[i].outputs[k].path[1] = "EMBER" \/ Outputs[l].path[1] = "EMBER"
    BY <1>1, <1>4 DEF VcdInv, Preps, InEmber, Outputs
  <2>2. ImagePath(prep[i].outputs[k].path) /\ ImagePath(Outputs[l].path)
    BY <2>1 DEF ImagePath
  <2> QED
    BY <1>1, <2>2 DEF PlansTrue, PlanTrue, Imaged, Outputs
<1> QED
  BY <1>3, <1>4

LEMMA StandCommit ==
  ASSUME VcdInv, StandInv, NEW sound \in BOOLEAN, Commits(sound)
  PROVE  StandInv'
<1> USE DEF StandInv
<1> DEFINE o == Outputs[n + 1]
           kept == IF sound THEN o.content ELSE Image(Item[cur], FALSE)
<1>1. /\ cur \in Jobs /\ n \in Nat /\ pc = "write" /\ job[cur] = "running"
      /\ Kind[cur] \in {"convert", "ember"} /\ Item[cur] \in Items
  BY JobAssumption DEF Commits, VcdInv, Working, Columns
<1>2. /\ UNCHANGED <<lib, job, prep, cur, ahead, edits>> /\ Outputs' = Outputs /\ n' = n + 1
      /\ pc' = IF Kind[cur] = "ember" \/ n + 1 = Len(Outputs) THEN "verify" ELSE "write"
      /\ touched' = touched \cup {<<Item[cur], o.path>>} /\ doubt \subseteq doubt'
      /\ Kind[cur] = "ember" \/ n = 0 => <<Item[cur], o.path>> \in doubt'
      /\ sound \/ Kind[cur] = "ember" \/ n = 0
  BY DEF Commits, Outputs
<1>3. /\ Len(Outputs) \in Nat /\ DOMAIN Outputs = 1 .. Len(Outputs) /\ n < Len(Outputs)
      /\ \A k, l \in DOMAIN Outputs :
            Outputs[k].path = Outputs[l].path => Outputs[k].content = Outputs[l].content
  BY <1>1 DEF PlansTrue, PlanTrue, IsPlan, Outputs, InPlan
<1>4. n + 1 \in DOMAIN Outputs /\ \A k \in 1 .. n : k \in DOMAIN Outputs
  BY <1>1, <1>3
<1>5. /\ DOMAIN device' = DOMAIN device \cup {o.path} /\ device'[o.path] = kept
      /\ \A p \in DOMAIN device : p # o.path => device'[p] = device[p]
  BY DEF Commits, Put
<1>6. ~stale' => ~stale /\ prep[cur].version = edits /\ ~prep[cur].torn
  BY DEF Commits
<1> HIDE DEF o, kept
<1>7. Rows'
  BY <1>2 DEF Rows, Pending
<1>8. PlansTrue'
  BY <1>2, PlansKept
<1>9. DoneMade'
  BY <1>2 DEF DoneMade
<1>10. InPlan'
  <2>1. n + 1 \in 1 .. Len(Outputs) /\ (n + 1 # Len(Outputs) => n + 1 < Len(Outputs))
    <3>1. n + 1 \in 1 .. Len(Outputs)
      BY <1>3, <1>4, Zenon
    <3>2. Len(Outputs) \in Nat
      BY <1>3
    <3> QED
      BY <3>1, <3>2
  <2>2. /\ pc' = "write" => Kind[cur] # "ember" /\ n + 1 # Len(Outputs)
        /\ pc' = "verify" /\ Kind[cur] = "convert" => n + 1 = Len(Outputs)
    BY <1>2
  <2> QED
    BY <1>2, <2>1, <2>2 DEF InPlan
<1>11. SoFar'
  <2>1. ASSUME NEW k \in 1 .. n + 1
        PROVE  /\ <<Item[cur], Outputs[k].path>> \in touched'
               /\ Outputs[k].path \in DOMAIN device'
               /\ device'[Outputs[k].path] = Outputs[k].content \/ Unread(Outputs[k].path)'
    <3>1. k \in DOMAIN Outputs /\ (k = n + 1 \/ k \in 1 .. n)
      BY <1>1, <1>4
    <3>2. Unread(Outputs[k].path)' <=>
            IF Kind[cur] = "convert" THEN Outputs[k].path = Outputs[1].path
            ELSE pc' = "verify" /\ Outputs[k].path = o.path
      BY <1>2 DEF Unread, Target, o
    <3>3. CASE Outputs[k].path = o.path
      <4>1. <<Item[cur], Outputs[k].path>> \in touched' /\ Outputs[k].path \in DOMAIN device'
        BY <1>2, <1>5, <3>3
      <4>2. CASE sound
        BY <1>3, <1>4, <1>5, <3>1, <3>3, <4>1, <4>2 DEF kept, o
      <4>3. CASE ~sound
        BY <1>1, <1>2, <3>1, <3>2, <3>3, <4>1, <4>3
      <4> QED
        BY <4>2, <4>3
    <3>4. CASE Outputs[k].path # o.path
      <4>1. k \in 1 .. n
        BY <3>1, <3>4 DEF o
      <4>2. /\ <<Item[cur], Outputs[k].path>> \in touched /\ Outputs[k].path \in DOMAIN device
            /\ device[Outputs[k].path] = Outputs[k].content \/ Unread(Outputs[k].path)
        BY <1>1, <4>1 DEF SoFar
      <4>3. Unread(Outputs[k].path) => Kind[cur] = "convert" /\ Outputs[k].path = Outputs[1].path
        BY <1>1 DEF Unread, Target
      <4> QED
        BY <1>2, <1>5, <3>2, <3>4, <4>2, <4>3
    <3> QED
      BY <3>3, <3>4
  <2> QED
    BY <1>2, <2>1 DEF SoFar
<1>12. Fresh' /\ InDoubt'
  <2>1. Fresh'
    BY <1>2, <1>6 DEF Fresh
  <2>2. Kind[cur] = "convert" => <<Item[cur], Outputs[1].path>> \in doubt'
    <3>1. CASE n = 0
      BY <1>2, <3>1 DEF o
    <3>2. CASE n # 0
      BY <1>1, <1>2, <3>2 DEF InDoubt, Target
    <3> QED
      BY <3>1, <3>2
  <2>3. Target' = Outputs[1].path
    BY <1>2 DEF Target
  <2> QED
    BY <1>2, <2>1, <2>2, <2>3 DEF InDoubt
<1>13. DoneStands'
  <2>1. ASSUME NEW i \in Jobs, Current(i)', ~stale', NEW k \in 1 .. Len(prep[i].outputs),
               Undisturbed(i, prep[i].outputs[k].path)',
               <<Item[i], prep[i].outputs[k].path>> \notin doubt'
        PROVE  /\ prep[i].outputs[k].path \in DOMAIN device'
               /\ device'[prep[i].outputs[k].path] = prep[i].outputs[k].content
    <3> DEFINE q == prep[i].outputs[k]
    <3>1. Current(i) /\ Team(i)' = Team(i)
      BY <1>2, <2>1 DEF Current, Team, Members
    <3>2. Undisturbed(i, q.path) /\ <<Item[i], q.path>> \notin doubt
      BY <1>2, <2>1, <3>1 DEF Undisturbed
    <3>3. q.path \in DOMAIN device /\ device[q.path] = q.content
      BY <1>6, <2>1, <3>1, <3>2 DEF DoneStands
    <3>4. CASE q.path # o.path
      BY <1>5, <3>3, <3>4
    <3>5. CASE q.path = o.path
      <4>1. Item[cur] \in Team(i)
        BY <1>1, <1>2, <2>1, <3>1, <3>5 DEF Undisturbed
      <4>2. k \in DOMAIN prep[i].outputs
        BY DEF PlansTrue, PlanTrue, IsPlan
      <4>3. /\ q.path = Outputs[n + 1].path /\ o = Outputs[n + 1] /\ n + 1 \in DOMAIN Outputs
            /\ pc # "idle" /\ prep[cur].version = edits /\ ~prep[cur].torn
        BY <1>1, <1>4, <1>6, <2>1, <3>5 DEF o
      <4>4. sound /\ q.content = Outputs[n + 1].content
        <5>1. CASE Item[cur] = Item[i]
          <6>1. sound
            BY <1>2, <2>1, <3>5, <5>1
          <6> QED
            BY <3>1, <4>2, <4>3, <5>1, <6>1, SameItem
        <5>2. CASE Item[cur] # Item[i]
          <6>1. Kind[cur] = "convert" /\ n + 1 # 1 /\ q.content = Outputs[n + 1].content
            BY <3>1, <4>1, <4>2, <4>3, <5>2, Clash
          <6>2. n # 0
            BY <6>1
          <6> QED
            BY <1>2, <6>1, <6>2
        <5> QED
          BY <5>1, <5>2
      <4>5. kept = q.content
        BY <4>3, <4>4 DEF kept
      <4> QED
        BY <1>5, <3>5, <4>5
    <3> QED
      BY <3>4, <3>5
  <2> QED
    BY <1>2, <2>1 DEF DoneStands
<1> QED
  BY <1>7, <1>8, <1>9, <1>10, <1>11, <1>12, <1>13

LEMMA StandVerify ==
  ASSUME VcdInv, StandInv, VerifyPasses
  PROVE  StandInv'
<1> USE DEF StandInv
<1>1. /\ cur \in Jobs /\ n \in Nat /\ pc = "verify" /\ job[cur] = "running"
      /\ prep[cur].stage = "made" /\ Kind[cur] \in {"convert", "ember"}
  BY JobAssumption DEF VerifyPasses, VcdInv, Working, Columns
<1>2. /\ UNCHANGED <<lib, prep, ahead, n, device, touched, stale, edits>>
      /\ doubt' = doubt \ {<<Item[cur], Verified.path>>}
      /\ device[Verified.path] = Verified.content
  BY DEF VerifyPasses
<1>3. /\ Len(Outputs) \in Nat /\ DOMAIN Outputs = 1 .. Len(Outputs) /\ n \in 1 .. Len(Outputs)
      /\ \A k, l \in DOMAIN Outputs :
            Outputs[k].path = Outputs[l].path => Outputs[k].content = Outputs[l].content
      /\ Kind[cur] = "convert" => n = Len(Outputs)
  BY SMTT(30), <1>1 DEF PlansTrue, PlanTrue, IsPlan, Outputs, InPlan
<1>a. /\ Len(Outputs) \in Nat /\ n \in 1 .. Len(Outputs)
      /\ Kind[cur] = "convert" => n = Len(Outputs)
  BY Zenon, <1>3
<1>4. ASSUME NEW k \in 1 .. n
      PROVE  /\ <<Item[cur], Outputs[k].path>> \in touched
             /\ Outputs[k].path \in DOMAIN device
             /\ device[Outputs[k].path] = Outputs[k].content
  <2>1. /\ <<Item[cur], Outputs[k].path>> \in touched /\ Outputs[k].path \in DOMAIN device
        /\ device[Outputs[k].path] = Outputs[k].content \/ Unread(Outputs[k].path)
    BY <1>1 DEF SoFar
  <2>2. k \in DOMAIN Outputs /\ n \in DOMAIN Outputs /\ 1 \in DOMAIN Outputs
    <3>1. Len(Outputs) \in Nat /\ n \in 1 .. Len(Outputs) /\ DOMAIN Outputs = 1 .. Len(Outputs)
      BY Zenon, <1>3
    <3>2. k \in 1 .. Len(Outputs) /\ 1 \in 1 .. Len(Outputs)
      BY <3>1
    <3> QED
      BY ZenonT(30), <3>1, <3>2
  <2>3. device[Verified.path] = Verified.content
    BY DEF VerifyPasses
  <2>4. Unread(Outputs[k].path) => Outputs[k].path = Verified.path
    BY <1>1 DEF Unread, Verified, Target
  <2>5. Outputs[k].path = Verified.path => Outputs[k].content = Verified.content
    BY <1>3, <2>2 DEF Verified
  <2> QED
    BY <2>1, <2>3, <2>4, <2>5
<1>9. ASSUME NEW i \in Jobs, i # cur, Current(i), ~stale, NEW k \in 1 .. Len(prep[i].outputs),
             Undisturbed(i, prep[i].outputs[k].path),
             <<Item[i], prep[i].outputs[k].path>> \notin doubt'
      PROVE  /\ prep[i].outputs[k].path \in DOMAIN device
             /\ device[prep[i].outputs[k].path] = prep[i].outputs[k].content
  <2> DEFINE q == prep[i].outputs[k]
  <2>1. CASE <<Item[i], q.path>> \notin doubt
    BY <1>9, <2>1 DEF DoneStands
  <2>2. CASE <<Item[i], q.path>> \in doubt
    <3>1. Item[i] = Item[cur] /\ q.path = Verified.path
      BY <1>2, <1>9, <2>2
    <3>2. PICK l \in 1 .. n : Verified = Outputs[l] /\ (Kind[cur] = "convert" => l = 1)
      <4>1. 1 \in 1 .. n /\ n \in 1 .. n
        BY <1>a
      <4> QED
        BY <1>1, <4>1 DEF Verified
    <3>3. l \in DOMAIN Outputs /\ (Kind[cur] = "convert" => 1 \in DOMAIN Outputs)
      <4>1. l \in 1 .. Len(Outputs)
        BY <1>a, <3>2
      <4> QED
        BY <1>3, <3>2, <4>1, Zenon
    <3>4. ImagePath(Verified.path)
      <4>1. CASE Kind[cur] = "convert"
        BY <1>1, <3>2, <3>3, <4>1 DEF PlansTrue, PlanTrue, Imaged, Outputs
      <4>2. CASE Kind[cur] = "ember"
        BY <1>1, <3>2, <3>3, <4>2 DEF VcdInv, Preps, InEmber, ImagePath, Outputs
      <4> QED
        BY <1>1, <4>1, <4>2
    <3>5. Verified.content = Image(Item[cur], TRUE)
      BY <1>1, <3>2, <3>3, <3>4 DEF PlansTrue, PlanTrue, Imaged, Outputs
    <3>6. k \in DOMAIN prep[i].outputs
      BY DEF PlansTrue, PlanTrue, IsPlan
    <3>7. q.content = Image(Item[cur], TRUE)
      BY <3>1, <3>4, <3>6 DEF PlansTrue, PlanTrue, Imaged
    <3>8. Verified.path \in DOMAIN device
      BY <1>4, <3>2
    <3> QED
      BY <1>2, <3>1, <3>5, <3>7, <3>8
  <2> QED
    BY <2>1, <2>2
<1>5. Rows'
  BY <1>1, <1>2 DEF VerifyPasses, Rows, Pending, VcdInv, Columns
<1>6. PlansTrue'
  BY <1>2, PlansKept
<1>7. CASE n < Len(Outputs)
  <2>1. pc' = "write" /\ UNCHANGED <<job, cur>> /\ Kind[cur] = "ember"
    <3>1. Kind[cur] = "ember"
      BY <1>1, <1>a, <1>7
    <3> QED
      BY <1>7, <3>1 DEF VerifyPasses
  <2>2. DoneMade'
    BY <1>2, <2>1 DEF DoneMade
  <2>5. DoneStands'
    <3>1. ASSUME NEW i \in Jobs, Current(i)', ~stale', NEW k \in 1 .. Len(prep[i].outputs),
                 Undisturbed(i, prep[i].outputs[k].path)',
                 <<Item[i], prep[i].outputs[k].path>> \notin doubt'
          PROVE  /\ prep[i].outputs[k].path \in DOMAIN device
                 /\ device[prep[i].outputs[k].path] = prep[i].outputs[k].content
      <4>1. i # cur /\ Current(i) /\ ~stale /\ Undisturbed(i, prep[i].outputs[k].path)
        BY <1>1, <1>2, <2>1, <3>1 DEF Current, Undisturbed, Team, Members
      <4> QED
        BY <1>9, <3>1, <4>1
    <3> QED
      BY <1>2, <3>1 DEF DoneStands
  <2>3. InPlan' /\ SoFar'
    BY <1>2, <1>4, <1>7, <2>1 DEF InPlan, SoFar, Outputs
  <2>4. Fresh' /\ InDoubt'
    BY <1>1, <1>2, <2>1 DEF Fresh, InDoubt
  <2> QED
    BY <1>5, <1>6, <2>2, <2>3, <2>4, <2>5
<1>8. CASE ~ (n < Len(Outputs))
  <2>1. /\ pc' = "idle" /\ n = Len(Outputs)
        /\ \A i \in Jobs \ {cur} : job'[i] = job[i]
    <3>1. n = Len(Outputs)
      <4>1. Len(Outputs) \in Nat /\ n \in 1 .. Len(Outputs)
        BY Zenon, <1>3
      <4> QED
        BY SMTT(30), <1>8, <4>1
    <3>2. pc' = "idle" /\ job' = [job EXCEPT ![cur] = "done"]
      BY <1>8 DEF VerifyPasses
    <3> QED
      BY <3>1, <3>2 DEF VcdInv, Columns
  <2>2. InPlan' /\ SoFar' /\ Fresh' /\ InDoubt'
    BY <2>1 DEF InPlan, SoFar, Fresh, InDoubt
  <2>3. DoneMade'
    <3>1. 1 \in DOMAIN Outputs /\ DOMAIN Outputs = 1 .. n
      <4>1. Len(Outputs) \in Nat /\ n \in 1 .. Len(Outputs) /\ DOMAIN Outputs = 1 .. Len(Outputs)
        BY Zenon, <1>3
      <4> QED
        BY SMTT(30), <2>1, <4>1
    <3>2. Outputs # <<>>
      BY <3>1, NotEmpty
    <3>3. ASSUME NEW i \in Jobs, job'[i] = "done"
          PROVE  /\ prep[i].stage = "made" /\ prep[i].outputs # <<>>
                 /\ \A k \in DOMAIN prep[i].outputs :
                       <<Item[i], prep[i].outputs[k].path>> \in touched
      <4>1. CASE i = cur
        BY <1>1, <1>4, <3>1, <3>2, <4>1 DEF Outputs
      <4>2. CASE i # cur
        BY <2>1, <3>3, <4>2 DEF DoneMade
      <4> QED
        BY <4>1, <4>2
    <3> QED
      BY <1>2, <3>3 DEF DoneMade
  <2>4. ASSUME NEW i \in Jobs, Current(i)', ~stale', NEW k \in 1 .. Len(prep[i].outputs),
               Undisturbed(i, prep[i].outputs[k].path)',
               <<Item[i], prep[i].outputs[k].path>> \notin doubt'
        PROVE  /\ prep[i].outputs[k].path \in DOMAIN device
               /\ device[prep[i].outputs[k].path] = prep[i].outputs[k].content
    <3>1. CASE i = cur
      BY <1>4, <2>1, <2>4, <3>1 DEF Outputs
    <3>2. CASE i # cur
      <4>1. Current(i) /\ ~stale /\ Undisturbed(i, prep[i].outputs[k].path)
        BY <1>2, <2>1, <2>4, <3>2 DEF Current, Undisturbed, Team, Members
      <4> QED
        BY <1>9, <2>4, <3>2, <4>1
    <3> QED
      BY <3>1, <3>2
  <2>5. DoneStands'
    BY <1>2, <2>4 DEF DoneStands
  <2> QED
    BY <1>5, <1>6, <2>2, <2>3, <2>5
<1> QED
  BY <1>7, <1>8

LEMMA StandFail ==
  ASSUME VcdInv, StandInv, NEW status \in {"pending", "error"}, NEW gone \in BOOLEAN,
         Fails(status, gone)
  PROVE  StandInv'
<1> USE DEF StandInv
<1>1. /\ cur \in Jobs /\ n \in Nat /\ pc \in {"write", "verify"} /\ job[cur] = "running"
  BY DEF Fails, VcdInv, Working, Columns
<1>2. /\ pc' = "idle" /\ UNCHANGED <<lib, ahead, edits, touched, doubt, stale>>
      /\ job'[cur] \in {"pending", "error"} /\ prep'[cur] = NoPrep
      /\ \A i \in Jobs \ {cur} : job'[i] = job[i] /\ prep'[i] = prep[i]
  BY <1>1 DEF Fails, VcdInv, Columns, Preps
<1>3. \A p \in DOMAIN device \ TakenBack : p \in DOMAIN device' /\ device'[p] = device[p]
  BY DEF Fails, Restrict
<1>4. Rows'
  BY <1>1, <1>2 DEF Rows, Pending, NoPrep
<1>5. PlansTrue'
  BY <1>2, PlansKept
<1>6. DoneMade'
  BY <1>2 DEF DoneMade
<1>7. InPlan' /\ SoFar' /\ Fresh' /\ InDoubt'
  BY <1>2 DEF InPlan, SoFar, Fresh, InDoubt
<1>8. ASSUME NEW i \in Jobs, Current(i)', ~stale', NEW k \in 1 .. Len(prep'[i].outputs),
             Undisturbed(i, prep[i].outputs[k].path)',
             <<Item[i], prep'[i].outputs[k].path>> \notin doubt'
      PROVE  /\ prep'[i].outputs[k].path \in DOMAIN device'
             /\ device'[prep'[i].outputs[k].path] = prep'[i].outputs[k].content
  <2>1. i # cur /\ prep'[i] = prep[i] /\ Current(i) /\ ~stale
    BY <1>2, <1>8 DEF Current
  <2> DEFINE q == prep[i].outputs[k]
  <2>2. Undisturbed(i, q.path) /\ <<Item[i], q.path>> \notin doubt
    BY <1>2, <1>8, <2>1 DEF Undisturbed, Team, Members
  <2>3. q.path \in DOMAIN device /\ device[q.path] = q.content
    BY <1>8, <2>1, <2>2 DEF DoneStands
  <2>4. ASSUME q.path \in TakenBack PROVE FALSE
    <3>1. Kind[cur] = "convert" /\ n > 0 /\ q.path = Outputs[1].path
      BY <2>4 DEF TakenBack, Target
    <3>2. <<Item[cur], q.path>> \in touched /\ <<Item[cur], q.path>> \in doubt
      <4>1. <<Item[cur], q.path>> \in doubt
        BY <1>1, <3>1 DEF InDoubt, Target
      <4>2. 1 \in 1 .. n
        BY <1>1, <3>1
      <4> QED
        BY <1>1, <3>1, <4>1, <4>2 DEF SoFar
    <3>3. Item[cur] \in Team(i) /\ Item[cur] # Item[i]
      BY <1>1, <2>2, <3>2, JobAssumption DEF Undisturbed
    <3>4. ~prep[cur].torn /\ prep[cur].version = edits
      BY <1>1, <2>1, <3>1 DEF Fresh, Current
    <3>5. 1 \in DOMAIN Outputs
      BY <1>1, <3>1 DEF InPlan, PlansTrue, PlanTrue, IsPlan, Outputs
    <3>6. k \in DOMAIN prep[i].outputs
      BY <1>8, <2>1 DEF PlansTrue, PlanTrue, IsPlan
    <3> QED
      BY <1>1, <2>1, <3>1, <3>3, <3>4, <3>5, <3>6, Clash
  <2> QED
    BY <1>3, <2>1, <2>3, <2>4
<1>9. DoneStands'
  BY <1>8 DEF DoneStands
<1> QED
  BY <1>4, <1>5, <1>6, <1>7, <1>9

LEMMA StandCrash ==
  ASSUME VcdInv, StandInv, Crash
  PROVE  StandInv'
<1> USE DEF StandInv
<1>1. /\ pc' = "idle" /\ ahead' = NoJob
      /\ UNCHANGED <<lib, device, touched, doubt, stale, edits>>
      /\ \A i \in Jobs : prep'[i] = IF job[i] = "done" THEN prep[i] ELSE NoPrep
      /\ \A i \in Jobs : job'[i] = IF job[i] = "running" THEN "pending" ELSE job[i]
  BY DEF Crash
<1>2. Rows'
  BY <1>1 DEF Rows, NoPrep
<1>3. PlansTrue'
  BY <1>1, PlansKept
<1>4. DoneMade' /\ DoneStands'
  BY <1>1, DoneKept
<1>5. InPlan' /\ SoFar' /\ Fresh' /\ InDoubt'
  BY <1>1 DEF InPlan, SoFar, Fresh, InDoubt
<1> QED
  BY <1>2, <1>3, <1>4, <1>5

LEMMA StepStand == VcdInv /\ StandInv /\ [Next]_vars => StandInv'
<1> SUFFICES ASSUME VcdInv, StandInv, [Next]_vars PROVE StandInv'
  OBVIOUS
<1>1. CASE \E i \in Jobs : Enqueue(i) \/ RetryJob(i)
  BY <1>1, StandRequest
<1>2. CASE \E i \in Jobs : Claims(i)
  BY <1>2, StandClaim
<1>3. CASE \/ \E i \in Jobs : GetsItem(i)
           \/ \E i \in Jobs, found \in BOOLEAN : ListsSiblings(i, found)
  BY <1>3, StandPlan
<1>4. CASE \E next \in Jobs \cup {NoJob} : Begins(next)
  BY <1>4, StandBegin
<1>5. CASE \E sound \in BOOLEAN : Commits(sound)
  BY <1>5, StandCommit
<1>6. CASE VerifyPasses
  BY <1>6, StandVerify
<1>7. CASE \E status \in {"pending", "error"}, gone \in BOOLEAN : Fails(status, gone)
  BY <1>7, StandFail
<1>8. CASE Crash
  BY <1>8, StandCrash
<1>9. CASE \/ \E i \in Items, g \in Groups \cup {NoGroup} : SetGroup(i, g)
           \/ \E i \in Items, title \in EditTitles : UpdateTitle(i, title)
  BY <1>9, StandEdit
<1>10. CASE UNCHANGED vars
  <2>1. Rows'
    BY <1>10 DEF StandInv, Rows, Pending
  <2>2. PlansTrue'
    BY <1>10, PlansKept DEF StandInv
  <2>3. DoneMade' /\ DoneStands'
    BY <1>10, DoneKept DEF StandInv
  <2>4. InPlan' /\ SoFar' /\ Fresh' /\ InDoubt'
    BY <1>10, RunKept DEF StandInv
  <2> QED
    BY <2>1, <2>2, <2>3, <2>4 DEF StandInv
<1> QED
  BY <1>1, <1>2, <1>3, <1>4, <1>5, <1>6, <1>7, <1>8, <1>9, <1>10 DEF Next

LEMMA StandInductive == Spec => []StandInv
BY InitStand, VcdInductive, StepStand, PTL DEF Spec

(* What a finished job wrote stays as it wrote it, whatever the jobs of its *)
(* set do later, for any library and any number of jobs, failures, retries  *)
(* and crashes (planConvert, executePlan, runConvert).                      *)
THEOREM FinishedStands == Spec => []DoneStands
<1>1. StandInv => DoneStands
  BY DEF StandInv
<1> QED
  BY <1>1, StandInductive, PTL

DiscOnDevice(p, i, order, names) ==
    /\ p \in 1 .. Len(names) /\ order[p] = i
    /\ Vcd(names[p]) \in DOMAIN device /\ device[Vcd(names[p])] = Image(i, TRUE)

SetOnDevice(set, order, names) ==
    /\ Len(names) = Cardinality(set)
    /\ \A q \in 1 .. Len(names) :
          /\ Discs(names[q]) \in DOMAIN device /\ device[Discs(names[q])] = names
          /\ Vmc(names[q]) \in DOMAIN device /\ device[Vmc(names[q])] = names[1]
    /\ \A i \in set : \E p : DiscOnDevice(p, i, order, names)

(* A set of which every disc was converted is on the device: every folder   *)
(* has its own image and the list of all discs, in playing order.           *)
LEMMA SetIsThere ==
  ASSUME StandInv, NEW g \in Groups, NEW set, set = Members(lib, g), set # {}, ~stale,
         Unspoilt(set), \A i \in set : Converted(i),
         NEW order, order = ByDiscIndex(lib, set), NEW names, names = DiscNames(lib, g)
  PROVE  SetOnDevice(set, order, names)
<1> USE DEF StandInv
<1>1. \A m \in Items : lib[m].index \in Nat
  BY Indexed
<1>2. set \in SUBSET Items /\ \A i \in set : lib[i].group = g
  BY DEF Members
<1>3. Len(names) = Cardinality(set) /\ Len(names) \in Nat
  BY <1>1, NamesAre
<1> DEFINE of == [i \in set |-> CHOOSE j \in Jobs :
                                     Item[j] = i /\ Kind[j] = "convert" /\ Current(j)]
<1>4. \A i \in set : of[i] \in Jobs /\ Item[of[i]] = i /\ Kind[of[i]] = "convert" /\ Current(of[i])
  BY DEF Converted
<1> DEFINE wrote(i) == prep[of[i]].outputs
<1> HIDE DEF of
<1>5. ASSUME NEW i \in set
      PROVE  \E p : DiscAt(p, wrote(i), i, order, names)
  <2>1. g # NoGroup /\ wrote(i) # <<>>
    BY <1>4, ItemAssumption DEF DoneMade, Current
  <2>2. wrote(i) = OwnFiles(i, lib)
    BY <1>4, <2>1 DEF PlansTrue, PlanTrue, Current, Plan, OwnFiles
  <2>3. PICK plan : plan = wrote(i)
    OBVIOUS
  <2>4. plan # <<>> /\ plan = OwnFiles(i, lib) /\ order = ByDiscIndex(lib, Members(lib, g))
    BY <2>1, <2>2, <2>3
  <2>5. i \in Members(lib, g)
    OBVIOUS
  <2>6. \E p : DiscAt(p, plan, i, order, names)
    BY <1>1, <2>4, <2>5, OwnPlan
  <2> QED
    BY <2>3, <2>6
<1>8. ASSUME NEW i \in set, NEW k \in 1 .. Len(wrote(i))
      PROVE  /\ wrote(i)[k].path \in DOMAIN device
             /\ device[wrote(i)[k].path] = wrote(i)[k].content
  <2>1. PICK j : j = of[i]
    OBVIOUS
  <2>2. j \in Jobs /\ Item[j] = i /\ Kind[j] = "convert" /\ Current(j) /\ wrote(i) = prep[j].outputs
    BY <1>4, <2>1
  <2>3. k \in DOMAIN prep[j].outputs
    BY <2>2 DEF PlansTrue, PlanTrue, IsPlan
  <2>4. <<i, prep[j].outputs[k].path>> \in touched
    BY <2>2, <2>3 DEF DoneMade, Current
  <2>5. Team(j) = set
    BY <1>2, <2>2, ItemAssumption DEF Team
  <2>6. /\ Undisturbed(j, prep[j].outputs[k].path)
        /\ <<i, prep[j].outputs[k].path>> \notin doubt
    BY <2>4, <2>5 DEF Unspoilt, Undisturbed
  <2> QED
    BY <2>2, <2>6 DEF DoneStands
<1> HIDE DEF wrote
<1>6. ASSUME NEW q \in 1 .. Len(names)
      PROVE  /\ Discs(names[q]) \in DOMAIN device /\ device[Discs(names[q])] = names
             /\ Vmc(names[q]) \in DOMAIN device /\ device[Vmc(names[q])] = names[1]
  <2>1. PICK i \in set : TRUE
    OBVIOUS
  <2>2. PICK p : DiscAt(p, wrote(i), i, order, names)
    BY <1>5
  <2>3. PICK k \in 1 .. Len(wrote(i)) : wrote(i)[k] = Output(Discs(names[q]), names)
    BY <2>2 DEF DiscAt, SetShape
  <2>4. PICK l \in 1 .. Len(wrote(i)) : wrote(i)[l] = Output(Vmc(names[q]), names[1])
    BY <2>2 DEF DiscAt, SetShape
  <2> QED
    BY SMTT(30), <1>8, <2>3, <2>4, OutputIs
<1>7. ASSUME NEW i \in set
      PROVE  \E p : DiscOnDevice(p, i, order, names)
  <2>1. PICK p : DiscAt(p, wrote(i), i, order, names)
    BY <1>5
  <2>2. /\ p \in 1 .. Len(names) /\ order[p] = i
        /\ Len(wrote(i)) \in Nat \ {0}
        /\ wrote(i)[1].path = Vcd(names[p])
        /\ wrote(i)[1].content = Image(i, TRUE)
    BY <2>1 DEF DiscAt, SetShape
  <2>3. 1 \in 1 .. Len(wrote(i))
    BY <2>2
  <2>4. /\ wrote(i)[1].path \in DOMAIN device
        /\ device[wrote(i)[1].path] = wrote(i)[1].content
    BY <1>8, <2>3
  <2>5. DiscOnDevice(p, i, order, names)
    BY <2>2, <2>4 DEF DiscOnDevice
  <2> QED
    BY <2>5
<1> QED
  BY <1>3, <1>6, <1>7 DEF SetOnDevice

(* A set of which every disc was converted can be played from any of them,  *)
(* for any library, in whatever order the jobs ran and failed (planConvert, *)
(* sortByDiscIndex, MultiDiscSet).                                          *)
THEOREM SetsPlay == Spec => []SetPlays
<1>1. ASSUME StandInv PROVE SetPlays
  <2> SUFFICES ASSUME NEW g \in Groups, NEW set, set = Members(lib, g), set # {}, ~stale,
                      Unspoilt(set), \A i \in set : Converted(i)
               PROVE  \E names \in [set -> {p[2] : p \in DOMAIN device}] :
                /\ \A i \in set : Listed(i, names[i])
                /\ \A i, k \in set :
                    /\ device[Discs(names[i])] = device[Discs(names[k])]
                    /\ device[Vmc(names[i])] = device[Vmc(names[k])]
                    /\ Len(device[Discs(names[i])]) = Cardinality(set)
                    /\ \E p \in 1 .. Cardinality(set) :
                        /\ device[Discs(names[k])][p] = names[i]
                        /\ lib[i].index < lib[k].index =>
                             \E q \in 1 .. Cardinality(set) :
                                 p < q /\ device[Discs(names[k])][q] = names[k]
    BY DEF SetPlays
  <2>1. PICK order, list : order = ByDiscIndex(lib, set) /\ list = DiscNames(lib, g)
    OBVIOUS
  <2>a. SetOnDevice(set, order, list)
    BY <1>1, <2>1, SetIsThere
  <2>2. /\ Len(list) = Cardinality(set)
        /\ \A q \in 1 .. Len(list) :
              /\ Discs(list[q]) \in DOMAIN device /\ device[Discs(list[q])] = list
              /\ Vmc(list[q]) \in DOMAIN device /\ device[Vmc(list[q])] = list[1]
        /\ \A i \in set : \E p : DiscOnDevice(p, i, order, list)
    BY <2>a DEF SetOnDevice
  <2>3. /\ Len(list) \in Nat
        /\ \A p, q \in 1 .. Len(list) : p < q => Before(lib, order[p], order[q])
    BY <1>1, <2>1, <2>2, Indexed, NamesAre DEF StandInv
  <2>4. \A i \in set : i \in Items /\ lib[i].index \in Nat
    BY <1>1, Indexed DEF StandInv, Members
  <2> DEFINE pos == [i \in set |-> CHOOSE p : DiscOnDevice(p, i, order, list)]
             names == [i \in set |-> list[pos[i]]]
  <2>b. \A i \in set : DiscOnDevice(pos[i], i, order, list)
    BY <2>2
  <2>5. \A i \in set : /\ pos[i] \in 1 .. Len(list) /\ order[pos[i]] = i
                       /\ Vcd(list[pos[i]]) \in DOMAIN device
                       /\ device[Vcd(list[pos[i]])] = Image(i, TRUE)
    BY <2>b DEF DiscOnDevice
  <2> HIDE DEF pos
  <2>6. \A i \in set : names[i] = list[pos[i]]
    OBVIOUS
  <2>7. names \in [set -> {p[2] : p \in DOMAIN device}]
    <3>1. \A i \in set : Vcd(list[pos[i]])[2] = list[pos[i]]
      BY DEF Vcd
    <3>2. \A i \in set : list[pos[i]] \in {p[2] : p \in DOMAIN device}
      BY <2>5, <3>1
    <3> QED
      BY <3>2
  <2> HIDE DEF names
  <2>8. ASSUME NEW i \in set PROVE Listed(i, names[i])
    <3>1. /\ pos[i] \in 1 .. Len(list) /\ names[i] = list[pos[i]]
          /\ Vcd(list[pos[i]]) \in DOMAIN device
          /\ device[Vcd(list[pos[i]])] = Image(i, TRUE)
      BY <2>5, <2>6
    <3>2. Discs(names[i]) \in DOMAIN device /\ Vmc(names[i]) \in DOMAIN device
      BY <2>2, <3>1
    <3> QED
      BY <3>1, <3>2 DEF Listed
  <2>9. ASSUME NEW i \in set, NEW k \in set
        PROVE  /\ device[Discs(names[i])] = device[Discs(names[k])]
               /\ device[Vmc(names[i])] = device[Vmc(names[k])]
               /\ Len(device[Discs(names[i])]) = Cardinality(set)
               /\ \E p \in 1 .. Cardinality(set) :
                   /\ device[Discs(names[k])][p] = names[i]
                   /\ lib[i].index < lib[k].index =>
                        \E q \in 1 .. Cardinality(set) :
                            p < q /\ device[Discs(names[k])][q] = names[k]
    <3>1. /\ pos[i] \in 1 .. Cardinality(set) /\ pos[k] \in 1 .. Cardinality(set)
          /\ names[i] = list[pos[i]] /\ names[k] = list[pos[k]]
      BY <2>2, <2>5, <2>6
    <3>2. /\ device[Discs(names[i])] = list /\ device[Discs(names[k])] = list
          /\ device[Vmc(names[i])] = list[1] /\ device[Vmc(names[k])] = list[1]
      BY <2>2, <3>1
    <3>3. ASSUME lib[i].index < lib[k].index PROVE pos[i] < pos[k]
      <4>1. order[pos[i]] = i /\ order[pos[k]] = k
        BY <2>5
      <4>2. lib[i].index \in Nat /\ lib[k].index \in Nat
        BY <2>4
      <4>3. ~Before(lib, k, i) /\ i # k
        BY <3>3, <4>2 DEF Before
      <4>4. pos[i] # pos[k] /\ ~(pos[k] < pos[i])
        BY <2>2, <2>3, <3>1, <4>1, <4>3
      <4>5. pos[i] \in Nat /\ pos[k] \in Nat
        BY <2>2, <2>3, <3>1
      <4> QED
        BY <4>4, <4>5
    <3> QED
      BY <2>2, <3>1, <3>2, <3>3
  <2> QED
    BY <2>7, <2>8, <2>9
<1> QED
  BY <1>1, StandInductive, PTL
=============================================================================
