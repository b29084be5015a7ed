--------------------------- MODULE Library_proofs ---------------------------
(* Proofs about Library, for any items, imports, roots and user edits.      *)
EXTENDS Library, FiniteSetTheorems, WellFoundedInduction, TLAPS

USE DEF vars, table, walk, local

(* What a scan finds.                                                       *)
LEMMA Entries ==
  ASSUME NEW S, NEW seq \in Seq(S), NEW n \in DOMAIN seq
  PROVE  seq[n] \in S
OBVIOUS

(* A set of integers with an upper bound has a greatest one.                *)
LEMMA MaxIsGreatest ==
  ASSUME NEW S \in SUBSET Int, NEW b \in Int, \A s \in S : s <= b, S # {}
  PROVE  Max(S) \in S /\ \A s \in S : s <= Max(S)
<1> DEFINE gap == {b - s : s \in S}
           less == {ss \in Nat \X Nat : ss[1] < ss[2]}
<1>1. gap \subseteq Nat /\ gap # {}
  <2>1. \A s \in S : b - s \in Nat
    OBVIOUS
  <2> QED
    BY <2>1
<1>2. IsWellFoundedOn(less, Nat)
  BY NatLessThanWellFounded, Zenon DEF OpToRel
<1>3. PICK x \in gap : \A y \in gap : ~(<<y, x>> \in less)
  <2> HIDE DEF gap, less
  <2> QED
    BY <1>1, <1>2, WFMin
<1>6. \A y \in gap : x <= y
  <2> TAKE y \in gap
  <2>1. x \in Nat /\ y \in Nat /\ ~(<<y, x>> \in less)
    BY <1>1, <1>3
  <2> QED
    BY <2>1
<1>4. PICK s \in S : x = b - s
  OBVIOUS
<1>5. \A t \in S : s >= t
  <2> TAKE t \in S
  <2>1. x <= b - t
    BY <1>6
  <2> QED
    BY <1>4, <2>1
<1> QED
  BY <1>5 DEF Max

(* What a scan finds has rows to be written to.                             *)
LEMMA ScannedItems ==
  ASSUME NEW r \in Root
  PROVE  DOMAIN Scan[r] \subseteq Item
<1>1. Files[r] \in Seq([hash : Item \cup {None}, key : Nat])
  BY LibraryAssumption
<1>2. ASSUME NEW n \in Candidates(Files[r])
      PROVE  Files[r][n].hash \in Item
  <2>1. n \in DOMAIN Files[r] /\ Files[r][n].hash # None
    BY <1>2 DEF Candidates
  <2>2. Files[r][n] \in [hash : Item \cup {None}, key : Nat]
    BY <1>1, <2>1, Entries
  <2> QED
    BY <2>1, <2>2
<1> QED
  BY <1>2 DEF Scan, ScanDir

LEMMA CandidatesFinite ==
  ASSUME NEW r \in Root
  PROVE  IsFiniteSet(Candidates(Files[r]))
<1>1. Files[r] \in Seq([hash : Item \cup {None}, key : Nat])
  BY LibraryAssumption
<1>2. DOMAIN Files[r] = 1 .. Len(Files[r]) /\ Len(Files[r]) \in Nat
  BY <1>1
<1>3. Candidates(Files[r]) \subseteq DOMAIN Files[r]
  BY DEF Candidates
<1>4. IsFiniteSet(1 .. Len(Files[r]))
  BY <1>2, FS_Interval
<1> QED
  BY <1>2, <1>3, <1>4, FS_Subset

LEMMA SetsFinite ==
  ASSUME NEW r \in Root
  PROVE  IsFiniteSet(Sets(Files[r])) /\ Sets(Files[r]) \subseteq Nat
<1> DEFINE files == Files[r]
           keys  == {files[n].key : n \in Candidates(files)}
           key   == [n \in Candidates(files) |-> files[n].key]
<1>1. files \in Seq([hash : Item \cup {None}, key : Nat])
  BY LibraryAssumption
<1>2. IsFiniteSet(Candidates(files))
  BY CandidatesFinite
<1>3. key \in Surjection(Candidates(files), keys)
  BY DEF Surjection
<1>4. IsFiniteSet(keys)
  BY <1>2, <1>3, FS_Surjection
<1>5. keys \subseteq Nat
  <2>1. ASSUME NEW n \in Candidates(files) PROVE files[n].key \in Nat
    <3>1. n \in DOMAIN files
      BY DEF Candidates
    <3>2. files[n] \in [hash : Item \cup {None}, key : Nat]
      BY <1>1, <3>1, Entries
    <3> QED
      BY <3>2
  <2> QED
    BY <2>1
<1>6. Sets(files) \subseteq keys
  BY DEF Sets
<1> QED
  BY <1>4, <1>5, <1>6, FS_Subset

LEMMA ScanIsInt ==
  ASSUME NEW r \in Root, NEW h \in DOMAIN Scan[r]
  PROVE  Scan[r][h] \in Int /\ Scan[r][h] <= 0
<1> DEFINE upTo == {k \in Sets(Files[r]) : k <= KeyOf(Files[r], h)}
<1>1. Cardinality(upTo) \in Nat
  BY SetsFinite, FS_Subset, FS_CardinalityType
<1>2. Scan[r][h] \in {0, -Cardinality(upTo)}
  BY DEF Scan, ScanDir
<1> QED
  BY <1>1, <1>2

LEMMA MinIsLeast ==
  ASSUME NEW S \in SUBSET Nat, S # {}
  PROVE  Min(S) \in S /\ \A s \in S : Min(S) <= s
<1> DEFINE less == {ss \in Nat \X Nat : ss[1] < ss[2]}
<1>1. IsWellFoundedOn(less, Nat)
  BY NatLessThanWellFounded, Zenon DEF OpToRel
<1>2. PICK x \in S : \A y \in S : ~(<<y, x>> \in less)
  <2> HIDE DEF less
  <2> QED
    BY <1>1, WFMin
<1>3. \A y \in S : x <= y
  <2> TAKE y \in S
  <2>1. x \in Nat /\ y \in Nat /\ ~(<<y, x>> \in less)
    BY <1>2
  <2> QED
    BY <2>1
<1> QED
  BY <1>3 DEF Min

(* An image counts under the key of one of its copies.                      *)
LEMMA KeyOfCopy ==
  ASSUME NEW r \in Root, NEW h \in DOMAIN Scan[r]
  PROVE  \E n \in Candidates(Files[r]) : /\ Files[r][n].hash = h
                                         /\ Files[r][n].key = KeyOf(Files[r], h)
                                         /\ Files[r][n].key \in Nat
<1> DEFINE files == Files[r]
           keys  == {files[n].key : n \in {m \in Candidates(files) : files[m].hash = h}}
<1>1. files \in Seq([hash : Item \cup {None}, key : Nat])
  BY LibraryAssumption
<1>2. \A n \in Candidates(files) : files[n].key \in Nat
  <2> TAKE n \in Candidates(files)
  <2>1. n \in DOMAIN files
    BY DEF Candidates
  <2>2. files[n] \in [hash : Item \cup {None}, key : Nat]
    BY <1>1, <2>1, Entries
  <2> QED
    BY <2>2
<1>3. keys \in SUBSET Nat /\ keys # {}
  BY <1>2 DEF Scan, ScanDir
<1>4. KeyOf(files, h) \in keys
  BY <1>3, MinIsLeast DEF KeyOf
<1> QED
  BY <1>2, <1>4

(* Two images get one temporary group exactly when they have one key.       *)
LEMMA ScanGroups ==
  ASSUME NEW r \in Root, NEW h \in DOMAIN Scan[r], NEW k \in DOMAIN Scan[r], h # k
  PROVE  KeyOf(Files[r], h) = KeyOf(Files[r], k) <=> Scan[r][h] = Scan[r][k] /\ Scan[r][h] # 0
<1> DEFINE files  == Files[r]
           upTo(g) == {s \in Sets(files) : s <= KeyOf(files, g)}
           with(s) == {n \in Candidates(files) : files[n].key = s}
<1>1. IsFiniteSet(Sets(files)) /\ Sets(files) \subseteq Nat
  BY SetsFinite
<1>2. \A g \in {h, k} : /\ KeyOf(files, g) \in Nat
                        /\ IsFiniteSet(upTo(g)) /\ Cardinality(upTo(g)) \in Nat
                        /\ Scan[r][g] = IF KeyOf(files, g) \in Sets(files)
                                          THEN -Cardinality(upTo(g)) ELSE 0
  <2> TAKE g \in {h, k}
  <2>1. KeyOf(files, g) \in Nat
    BY KeyOfCopy
  <2>2. IsFiniteSet(upTo(g)) /\ Cardinality(upTo(g)) \in Nat
    BY <1>1, FS_Subset, FS_CardinalityType
  <2>3. Scan[r][g] = IF KeyOf(files, g) \in Sets(files) THEN -Cardinality(upTo(g)) ELSE 0
    BY DEF Scan, ScanDir
  <2> QED
    BY <2>1, <2>2, <2>3
<1>3. ASSUME KeyOf(files, h) = KeyOf(files, k)
      PROVE  Scan[r][h] = Scan[r][k] /\ Scan[r][h] # 0
  <2>1. PICK n \in Candidates(files) : files[n].hash = h /\ files[n].key = KeyOf(files, h)
    BY KeyOfCopy
  <2>2. PICK m \in Candidates(files) : files[m].hash = k /\ files[m].key = KeyOf(files, k)
    BY KeyOfCopy
  <2>3. n # m /\ {n, m} \subseteq with(KeyOf(files, h))
    BY <1>3, <2>1, <2>2
  <2>4. IsFiniteSet(with(KeyOf(files, h)))
    BY CandidatesFinite, FS_Subset
  <2>5. Cardinality({n, m}) = 2
    <3>1. IsFiniteSet({n}) /\ Cardinality({n}) = 1
      BY FS_Singleton
    <3>2. Cardinality({n} \cup {m}) = 2
      <4>1. Cardinality({n} \cup {m}) = IF m \in {n} THEN Cardinality({n}) ELSE Cardinality({n}) + 1
        BY <3>1, FS_AddElement
      <4>2. m \notin {n}
        BY <2>3
      <4> HIDE DEF files, with
      <4> QED
        BY <3>1, <4>1, <4>2
    <3>3. {n, m} = {n} \cup {m}
      OBVIOUS
    <3> QED
      BY <3>2, <3>3
  <2>6. Cardinality(with(KeyOf(files, h))) >= 2
    <3>1. Cardinality({n, m}) <= Cardinality(with(KeyOf(files, h)))
      BY <2>3, <2>4, FS_Subset
    <3>2. Cardinality(with(KeyOf(files, h))) \in Nat
      BY <2>4, FS_CardinalityType
    <3> QED
      BY <2>5, <3>1, <3>2
  <2>7. KeyOf(files, h) \in Sets(files)
    BY <2>1, <2>6 DEF Sets
  <2>8. upTo(h) # {} /\ upTo(h) = upTo(k)
    BY <1>2, <1>3, <2>7
  <2>9. Cardinality(upTo(h)) # 0
    BY <1>2, <2>8, FS_EmptySet
  <2> HIDE DEF upTo, files
  <2> QED
    BY <1>2, <1>3, <2>7, <2>8, <2>9
<1>4. ASSUME Scan[r][h] = Scan[r][k], Scan[r][h] # 0
      PROVE  KeyOf(files, h) = KeyOf(files, k)
  <2>1. /\ KeyOf(files, h) \in Sets(files) /\ KeyOf(files, k) \in Sets(files)
        /\ Cardinality(upTo(h)) = Cardinality(upTo(k))
    <3> HIDE DEF upTo, files
    <3> QED
      BY <1>2, <1>4
  <2>2. ASSUME KeyOf(files, h) < KeyOf(files, k) PROVE FALSE
    <3>1. upTo(h) \subseteq upTo(k) /\ KeyOf(files, k) \notin upTo(h) /\ KeyOf(files, k) \in upTo(k)
      BY <1>1, <1>2, <2>1, <2>2
    <3> QED
      BY <1>2, <2>1, <3>1, FS_Subset
  <2>3. ASSUME KeyOf(files, k) < KeyOf(files, h) PROVE FALSE
    <3>1. upTo(k) \subseteq upTo(h) /\ KeyOf(files, h) \notin upTo(k) /\ KeyOf(files, h) \in upTo(h)
      BY <1>1, <1>2, <2>1, <2>3
    <3> QED
      BY <1>2, <2>1, <3>1, FS_Subset
  <2> QED
    BY <1>2, <2>2, <2>3
<1> QED
  BY <1>3, <1>4

-----------------------------------------------------------------------------
(* Detection and the user's choice.                                         *)

(* The columns detection writes ...                                         *)
Columns == /\ disc \in [Item -> Disc \cup {"none"}]
           /\ method \in [Item -> Method]
           /\ chosen \in [Item -> Disc \cup {"none"}]

(* ... and what the imports are about to write there, of which items.       *)
Verdicts == verdict \in [Import -> [disc : Disc \cup {"none"}, method : Method]]
Agenda   == todo \in [Import -> SUBSET Item]

OverrideInv == Columns /\ Verdicts /\ Agenda /\ OverrideSticks

LEMMA DecideType ==
  ASSUME NEW h \in Item
  PROVE  Decide(Evidence[h]) \in [disc : Disc, method : Method]
BY LibraryAssumption DEF Decide, Disc, Method

LEMMA InitOverride == Init => OverrideInv
BY DEF Init, OverrideInv, Columns, Verdicts, Agenda, OverrideSticks, NoVerdict,
       Disc, Method

(* Steps that write none of the three columns.                              *)
LEMMA ColumnsApart ==
  ASSUME OverrideInv, UNCHANGED <<disc, method, chosen>>, Verdicts', Agenda'
  PROVE  OverrideInv'
BY DEF OverrideInv, Columns, OverrideSticks

LEMMA StepImport ==
  ASSUME OverrideInv, NEW i \in Import, ImportStep(i) \/ Fails(i)
  PROVE  OverrideInv'
<1> USE DEF OverrideInv, Verdicts, Agenda
<1>1. CASE \E r \in Root : Scans(i, r)
  BY <1>1, ScannedItems, ColumnsApart DEF Scans
<1>2. CASE LooksUp(i) \/ Allocates(i) \/ Remaps(i)
  BY <1>2, ColumnsApart DEF LooksUp, Allocates, Remaps
<1>3. CASE Grouped(i)
  BY <1>3, LibraryAssumption, ColumnsApart DEF Grouped
<1>4. CASE Saves(i) \/ Fails(i)
  BY <1>4, ColumnsApart DEF Saves, Fails, Forgets, NoVerdict, Method
<1>5. CASE Detects(i)
  <2>1. PICK h \in todo[i] :
          verdict' = [verdict EXCEPT ![i] =
             IF method[h] = "override"
               THEN [disc |-> disc[h], method |-> "override"]
               ELSE Decide(Evidence[h])]
    BY <1>5 DEF Detects
  <2>2. verdict'[i] \in [disc : Disc \cup {"none"}, method : Method]
    BY <2>1, DecideType DEF Columns, Method
  <2>3. Verdicts'
    BY <2>1, <2>2
  <2> QED
    BY <1>5, <2>3, ColumnsApart DEF Detects
<1>6. CASE Records(i)
  <2>1. Verdicts' /\ Agenda' /\ UNCHANGED chosen
    BY <1>6 DEF Records, Forgets, NoVerdict, Method
  <2>2. CASE method[cur[i]] = "override"
    BY <1>6, <2>1, <2>2, ColumnsApart DEF Records
  <2>3. CASE method[cur[i]] # "override"
    <3>1. verdict[i].disc \in Disc \cup {"none"} /\ verdict[i].method \in Method
      OBVIOUS
    <3>2. /\ disc' = [disc EXCEPT ![cur[i]] = verdict[i].disc]
          /\ method' = [method EXCEPT ![cur[i]] = verdict[i].method]
      BY <1>6, <2>3 DEF Records
    <3>3. Columns'
      BY <2>1, <3>1, <3>2 DEF Columns
    <3>4. OverrideSticks'
      BY <2>1, <2>3, <3>2 DEF Columns, OverrideSticks
    <3> QED
      BY <2>1, <3>3, <3>4
  <2> QED
    BY <2>2, <2>3
<1> QED
  BY <1>1, <1>2, <1>3, <1>4, <1>5, <1>6 DEF ImportStep

LEMMA StepEdit ==
  ASSUME OverrideInv, NEW h \in Item,
         \/ \E dt \in Disc : SetDiscOverride(h, dt)
         \/ \E g \in UserGroup \cup {0} : SetGroup(h, g)
  PROVE  OverrideInv'
<1> USE DEF OverrideInv, Verdicts, Agenda
<1>1. CASE \E dt \in Disc : SetDiscOverride(h, dt)
  BY <1>1 DEF SetDiscOverride, Edits, Columns, OverrideSticks, Disc, Method
<1>2. CASE \E g \in UserGroup \cup {0} : SetGroup(h, g)
  BY <1>2, ColumnsApart DEF SetGroup, Edits
<1> QED
  BY <1>1, <1>2

(* A user's choice of disc type survives every import, whenever it runs.    *)
THEOREM OverridesStick == Spec => []OverrideSticks
<1>1. OverrideInv /\ [Next]_vars => OverrideInv'
  <2> SUFFICES ASSUME OverrideInv, [Next]_vars PROVE OverrideInv'
    OBVIOUS
  <2>1. CASE \E i \in Import : ImportStep(i) \/ Fails(i)
    BY <2>1, StepImport
  <2>2. CASE \E h \in Item : \/ \E dt \in Disc : SetDiscOverride(h, dt)
                             \/ \E g \in UserGroup \cup {0} : SetGroup(h, g)
    BY <2>2, StepEdit
  <2>3. CASE UNCHANGED vars
    BY <2>3, ColumnsApart DEF OverrideInv, Verdicts, Agenda
  <2> QED
    BY <2>1, <2>2, <2>3 DEF Next
<1>2. OverrideInv => OverrideSticks
  BY DEF OverrideInv
<1> QED
  BY <1>1, <1>2, InitOverride, PTL DEF Spec

-----------------------------------------------------------------------------
(* Groups.                                                                  *)
GroupsTyped ==
    /\ rows \subseteq Item
    /\ group \in [Item -> Int]
    /\ at \in [Import -> {"idle", "read", "write", "groups", "remap", "detect",
                          "record", "done", "failed"}]
    /\ root \in [Import -> Root \cup {None}]
    /\ todo \in [Import -> SUBSET Item]
    /\ cur \in [Import -> Item \cup {None}]
    /\ temps \in [Import -> SUBSET {n \in Int : n < 0}]
    /\ fresh \in [Import -> Nat]
    /\ disturbed \in BOOLEAN

(* So that there is a greatest group.                                       *)
Bounded == \E b \in Nat : \A h \in rows : group[h] <= b

(* Every temporary group is on some import's list.                          *)
Watched == \A h \in rows : group[h] < 0 => \E i \in Import : group[h] \in temps[i]

Scanned(i) == DOMAIN Scan[root[i]]
Pending(i) == IF at[i] \in {"read", "write"} THEN todo[i] ELSE {}
Saved(i)   == Scanned(i) \ Pending(i)

Walks == \A i \in Active : /\ root[i] \in Root
                           /\ Pending(i) \subseteq Scanned(i)
                           /\ at[i] = "write" => cur[i] \in todo[i]

(* As long as nothing disturbs them, imports come one after the other, ...  *)
Alone == /\ \A i \in Import : at[i] # "failed"
         /\ \A i, j \in Active : i = j
         /\ \A i \in Import : i \notin Active \/ at[i] \in {"detect", "record"} => temps[i] = {}

(* ... the temporary groups are of items the import has saved, ...          *)
TempsSaved == \A i \in Active : /\ Saved(i) \subseteq rows
                                /\ \A h \in rows : group[h] < 0 => h \in Saved(i)

(* ... the new id is nobody's yet, ...                                      *)
FreshIsNew ==
    \A i \in Active : at[i] = "remap" => fresh[i] > 0 /\ \A h \in rows : group[h] < fresh[i]

(* ... what was saved is grouped as scanned, whatever the ids are by now,   *)
AsScanned ==
    \A i \in Active :
        IF at[i] \in {"read", "write"}
          THEN \A h \in Saved(i) : group[h] = Scan[root[i]][h]
          ELSE \A h, k \in Scanned(i) : h # k =>
                 (KeyOf(Files[root[i]], h) = KeyOf(Files[root[i]], k)
                    <=> group[h] = group[k] /\ group[h] # 0)

(* and shares no group with the rest.                                       *)
Apart == \A i \in Active : \A h \in Saved(i), k \in rows \ Scanned(i) :
            group[h] = group[k] => group[h] = 0

InTurn == Alone /\ TempsSaved /\ FreshIsNew /\ AsScanned /\ Apart

GroupInv == GroupsTyped /\ Bounded /\ Watched /\ Walks /\ (~disturbed => InTurn)

LEMMA InitGroups == Init => GroupInv
<1> SUFFICES ASSUME Init PROVE GroupInv
  OBVIOUS
<1>1. GroupsTyped
  <2>1. disturbed \in BOOLEAN
    BY DEF Init
  <2> QED
    BY <2>1 DEF Init, GroupsTyped
<1>2. Bounded
  <2>1. rows = {} /\ 0 \in Nat
    BY DEF Init
  <2> QED
    BY <2>1 DEF Bounded
<1>3. Active = {}
  BY DEF Init, Active
<1>4. Watched /\ Walks /\ InTurn
  BY <1>3 DEF Init, Watched, Walks, InTurn, Alone, TempsSaved, FreshIsNew, AsScanned, Apart
<1> QED
  BY <1>1, <1>2, <1>4 DEF GroupInv

(* Steps that leave an import's saved items, its list and the groups alone. *)
LEMMA GroupsApart ==
  ASSUME GroupInv, GroupsTyped', Walks', UNCHANGED <<rows, group, root, temps, fresh>>,
         ~disturbed' => /\ ~disturbed /\ Active' \subseteq Active
                        /\ \A i \in Import : /\ at'[i] # "failed"
                                             /\ i \in Active' \/ i \notin Active \/ temps[i] = {}
                                             /\ at'[i] \in {"detect", "record"} => temps[i] = {}
                                             /\ at'[i] = "remap" => at[i] = "remap"
                                             /\ i \in Active' => Saved(i)' = Saved(i)
                                             /\ at'[i] \in {"read", "write"}
                                                  <=> at[i] \in {"read", "write"}
  PROVE  GroupInv'
<1> USE DEF GroupInv
<1>1. Bounded' /\ Watched'
  BY DEF Bounded, Watched
<1>2. ASSUME ~disturbed' PROVE InTurn'
  <2>1. ~disturbed /\ InTurn /\ Active' \subseteq Active /\ Active' \subseteq Import
    BY <1>2 DEF Active
  <2>2. \A i \in Import : Scanned(i)' = Scanned(i)
    BY DEF Scanned
  <2>3. Alone'
    BY <1>2, <2>1 DEF InTurn, Alone
  <2>4. TempsSaved'
    BY <1>2, <2>1 DEF InTurn, TempsSaved
  <2>5. FreshIsNew'
    BY <1>2, <2>1 DEF InTurn, FreshIsNew
  <2>6. AsScanned'
    BY <1>2, <2>1, <2>2 DEF InTurn, AsScanned
  <2>7. Apart'
    BY <1>2, <2>1, <2>2 DEF InTurn, Apart
  <2> QED
    BY <2>3, <2>4, <2>5, <2>6, <2>7 DEF InTurn
<1> QED
  BY <1>1, <1>2

LEMMA StepScans ==
  ASSUME GroupInv, NEW i \in Import, NEW r \in Root, Scans(i, r)
  PROVE  GroupInv'
<1> USE DEF GroupInv
<1>1. DOMAIN Scan[r] \subseteq Item
  BY ScannedItems
<1>2. /\ at[i] = "idle" /\ root' = [root EXCEPT ![i] = r]
      /\ todo' = [todo EXCEPT ![i] = DOMAIN Scan[r]]
      /\ at' = [at EXCEPT ![i] = IF DOMAIN Scan[r] = {} THEN "groups" ELSE "read"]
      /\ UNCHANGED <<rows, group, cur, temps, fresh>>
  BY DEF Scans, Goto, GroupsTyped
<1>3. disturbed' \in BOOLEAN /\ (~disturbed' => ~disturbed /\ Active = {})
  BY Zenon DEF Scans, GroupsTyped
<1>4. GroupsTyped'
  BY <1>1, <1>2, <1>3 DEF GroupsTyped
<1>5. Bounded' /\ Watched'
  BY <1>2 DEF Bounded, Watched
<1>6. Active' = Active \cup {i}
  BY <1>2 DEF Active, GroupsTyped
<1>7. /\ Scanned(i)' = DOMAIN Scan[r] /\ Pending(i)' = DOMAIN Scan[r] /\ Saved(i)' = {}
      /\ \A j \in Import \ {i} : UNCHANGED <<Scanned(j), Pending(j), at[j], root[j],
                                              cur[j], todo[j]>>
  BY <1>2 DEF GroupsTyped, Scanned, Pending, Saved
<1>8. Walks'
  <2> SUFFICES ASSUME NEW j \in Active'
               PROVE  /\ root'[j] \in Root
                      /\ Pending(j)' \subseteq Scanned(j)'
                      /\ at'[j] = "write" => cur'[j] \in todo'[j]
    BY DEF Walks
  <2>1. CASE j = i
    BY <1>2, <1>7, <2>1 DEF GroupsTyped
  <2>2. CASE j # i
    BY <1>6, <1>7, <2>2 DEF Walks, Active
  <2> QED
    BY <2>1, <2>2
<1>9. ASSUME ~disturbed' PROVE InTurn'
  <2>1. InTurn /\ Active = {} /\ Active' = {i}
    BY <1>3, <1>6, <1>9
  <2>2. \A h \in rows : group[h] >= 0
    <3>1. \A j \in Import : temps[j] = {}
      BY <2>1 DEF InTurn, Alone
    <3> QED
      BY <3>1 DEF Watched, GroupsTyped
  <2>3. Alone'
    BY <1>2, <2>1 DEF InTurn, Alone, GroupsTyped
  <2>4. TempsSaved'
    BY <1>2, <1>7, <2>1, <2>2 DEF TempsSaved, GroupsTyped
  <2>5. FreshIsNew'
    BY <1>2, <2>1 DEF FreshIsNew, GroupsTyped
  <2>6. AsScanned'
    BY <1>2, <1>7, <2>1 DEF AsScanned, GroupsTyped
  <2>7. Apart'
    BY <1>7, <2>1 DEF Apart
  <2> QED
    BY <2>3, <2>4, <2>5, <2>6, <2>7 DEF InTurn
<1> QED
  BY <1>4, <1>5, <1>8, <1>9

LEMMA StepLooksUp ==
  ASSUME GroupInv, NEW i \in Import, LooksUp(i)
  PROVE  GroupInv'
<1>1. PICK h \in todo[i] : cur' = [cur EXCEPT ![i] = h]
  BY DEF LooksUp
<1>2. /\ at[i] = "read" /\ at' = [at EXCEPT ![i] = "write"]
      /\ UNCHANGED <<rows, group, root, todo, temps, fresh, disturbed>>
  BY DEF LooksUp, Goto
<1>3. GroupsTyped'
  BY <1>1, <1>2 DEF GroupInv, GroupsTyped
<1>4. Active' = Active
  BY <1>2 DEF GroupInv, GroupsTyped, Active
<1>5. \A j \in Import : Pending(j)' = Pending(j) /\ Scanned(j)' = Scanned(j) /\ Saved(j)' = Saved(j)
  BY <1>2 DEF GroupInv, GroupsTyped, Pending, Scanned, Saved
<1>6. Walks'
  BY <1>1, <1>2, <1>4, <1>5 DEF GroupInv, GroupsTyped, Walks, Active
<1>7. ~disturbed' => ~disturbed /\ InTurn
  BY <1>2 DEF GroupInv
<1> QED
  BY <1>2, <1>3, <1>4, <1>5, <1>6, <1>7, GroupsApart DEF GroupInv, GroupsTyped, InTurn, Alone

(* The steps of the second pass, and the end of the first.                  *)
LEMMA StepDetects ==
  ASSUME GroupInv, NEW i \in Import, Grouped(i) \/ Detects(i) \/ Records(i)
  PROVE  GroupInv'
<1>1. /\ at[i] \in {"groups", "detect", "record"} /\ (at[i] = "groups" => temps[i] = {})
      /\ \E l \in {"detect", "record", "done"} : at' = [at EXCEPT ![i] = l]
      /\ UNCHANGED <<rows, group, root, temps, fresh, disturbed>>
  BY DEF Grouped, Detects, Records, Goto
<1>2. todo' \in [Import -> SUBSET Item] /\ cur' \in [Import -> Item \cup {None}]
      /\ \A j \in Import \ {i} : UNCHANGED <<todo[j], cur[j]>>
  <2>1. CASE Grouped(i)
    BY <2>1, LibraryAssumption DEF GroupInv, GroupsTyped, Grouped
  <2>2. CASE Detects(i)
    BY <2>2 DEF GroupInv, GroupsTyped, Detects
  <2>3. CASE Records(i)
    BY <2>3 DEF GroupInv, GroupsTyped, Records, Forgets
  <2> QED
    BY <2>1, <2>2, <2>3
<1>3. GroupsTyped'
  BY <1>1, <1>2 DEF GroupInv, GroupsTyped
<1>4. Active' \subseteq Active
  BY <1>1 DEF GroupInv, GroupsTyped, Active
<1>5. \A j \in Import : Pending(j)' = Pending(j) /\ Scanned(j)' = Scanned(j) /\ Saved(j)' = Saved(j)
  BY <1>1, <1>2 DEF GroupInv, GroupsTyped, Pending, Scanned, Saved
<1>6. Walks'
  BY <1>1, <1>2, <1>4, <1>5 DEF GroupInv, GroupsTyped, Walks, Active
<1>7. ~disturbed' => ~disturbed /\ InTurn
  BY <1>1 DEF GroupInv
<1>8. i \in Active
  BY <1>1 DEF Active
<1> QED
  BY <1>1, <1>3, <1>4, <1>5, <1>6, <1>7, <1>8, GroupsApart
     DEF GroupInv, GroupsTyped, InTurn, Alone, Active

LEMMA StepFails ==
  ASSUME GroupInv, NEW i \in Import, Fails(i)
  PROVE  GroupInv'
<1>1. /\ at' = [at EXCEPT ![i] = "failed"] /\ disturbed' = TRUE
      /\ cur' = [cur EXCEPT ![i] = None]
      /\ UNCHANGED <<rows, group, root, todo, temps, fresh>>
  BY DEF Fails, Goto, Forgets
<1>2. GroupsTyped'
  BY <1>1 DEF GroupInv, GroupsTyped
<1>3. Active' = Active \ {i}
  BY <1>1 DEF GroupInv, GroupsTyped, Active
<1>4. Walks'
  BY <1>1, <1>3 DEF GroupInv, GroupsTyped, Walks, Active, Pending, Scanned
<1> QED
  BY <1>1, <1>2, <1>4, GroupsApart

LEMMA StepAllocates ==
  ASSUME GroupInv, NEW i \in Import, Allocates(i)
  PROVE  GroupInv'
<1> USE DEF GroupInv
<1>1. /\ at[i] = "groups" /\ at' = [at EXCEPT ![i] = "remap"]
      /\ fresh' = [fresh EXCEPT ![i] = NextGroupID]
      /\ UNCHANGED <<rows, group, root, todo, cur, temps, disturbed>>
  BY DEF Allocates, Goto
<1>2. NextGroupID \in Nat /\ NextGroupID > 0 /\ \A h \in rows : group[h] < NextGroupID
  <2> DEFINE ids == {group[h] : h \in rows} \cup {0}
  <2>1. ids \in SUBSET Int /\ 0 \in ids
    BY DEF GroupsTyped
  <2>2. PICK b \in Nat : \A h \in rows : group[h] <= b
    BY DEF Bounded
  <2>3. \A s \in ids : s <= b
    BY <2>2
  <2>4. PICK m : m = Max(ids)
    OBVIOUS
  <2>5. m \in ids /\ \A s \in ids : s <= m
    <3>1. ids # {} /\ b \in Int
      BY <2>1
    <3> HIDE DEF ids
    <3> QED
      BY <2>1, <2>3, <2>4, <3>1, MaxIsGreatest
  <2>6. m \in Nat
    BY <2>1, <2>5
  <2>7. NextGroupID = m + 1
    BY <2>4 DEF NextGroupID
  <2>8. \A h \in rows : group[h] \in ids
    OBVIOUS
  <2>9. \A h \in rows : group[h] <= m /\ group[h] \in Int
    <3> HIDE DEF ids
    <3> QED
      BY <2>1, <2>5, <2>8
  <2> HIDE DEF ids
  <2> QED
    BY <2>6, <2>7, <2>9
<1>3. GroupsTyped'
  BY <1>1, <1>2 DEF GroupsTyped
<1>4. Active' = Active
  BY <1>1 DEF GroupsTyped, Active
<1>5. \A j \in Import : Pending(j)' = Pending(j) /\ Scanned(j)' = Scanned(j) /\ Saved(j)' = Saved(j)
  BY <1>1 DEF GroupsTyped, Pending, Scanned, Saved
<1>6. Walks'
  BY <1>1, <1>4, <1>5 DEF GroupsTyped, Walks, Active
<1>7. Bounded' /\ Watched'
  BY <1>1 DEF Bounded, Watched
<1>8. ASSUME ~disturbed' PROVE InTurn'
  <2>1. InTurn
    BY <1>1, <1>8
  <2>2. Alone'
    BY <1>1, <1>4, <2>1 DEF InTurn, Alone, GroupsTyped
  <2>3. TempsSaved'
    BY <1>1, <1>4, <1>5, <2>1 DEF InTurn, TempsSaved, Active
  <2>4. FreshIsNew'
    BY <1>1, <1>2, <1>4, <2>1 DEF InTurn, FreshIsNew, Active, GroupsTyped
  <2>5. AsScanned'
    BY <1>1, <1>4, <1>5, <2>1 DEF InTurn, AsScanned, Active, GroupsTyped
  <2>6. Apart'
    BY <1>1, <1>4, <1>5, <2>1 DEF InTurn, Apart, Active
  <2> QED
    BY <2>2, <2>3, <2>4, <2>5, <2>6 DEF InTurn
<1> QED
  BY <1>3, <1>6, <1>7, <1>8

LEMMA StepSaves ==
  ASSUME GroupInv, NEW i \in Import, Saves(i)
  PROVE  GroupInv'
<1> USE DEF GroupInv
<1> DEFINE h == cur[i]
           v == Scan[root[i]][h]
<1>1. /\ at[i] = "write"
      /\ rows' = rows \cup {h} /\ group' = [group EXCEPT ![h] = v]
      /\ temps' = [temps EXCEPT ![i] = @ \cup ({group'[h]} \ {0})]
      /\ todo' = [todo EXCEPT ![i] = @ \ {h}]
      /\ at' = [at EXCEPT ![i] = IF todo'[i] = {} THEN "groups" ELSE "read"]
      /\ cur' = [cur EXCEPT ![i] = None]
      /\ UNCHANGED <<root, fresh, disturbed>>
  BY DEF Saves, Goto, Forgets
<1>2. /\ i \in Active /\ root[i] \in Root
      /\ h \in todo[i] /\ todo[i] \subseteq Scanned(i) /\ h \in Item
  BY <1>1 DEF Active, Walks, Pending, GroupsTyped
<1>3. v \in Int /\ v <= 0
  BY <1>2, ScanIsInt DEF Scanned
<1>4. group'[h] = v /\ \A k \in Item \ {h} : group'[k] = group[k]
  BY <1>1, <1>2 DEF GroupsTyped
<1>5. temps'[i] = temps[i] \cup ({v} \ {0}) /\ \A j \in Import \ {i} : temps'[j] = temps[j]
  BY <1>1, <1>4 DEF GroupsTyped
<1> HIDE DEF v, h
<1>6. GroupsTyped'
  BY <1>1, <1>2, <1>3, <1>5 DEF GroupsTyped
<1>7. Bounded'
  <2>1. PICK b \in Nat : \A k \in rows : group[k] <= b
    BY DEF Bounded
  <2>2. \A k \in rows' : group'[k] <= b
    BY <1>1, <1>3, <1>4, <2>1 DEF GroupsTyped
  <2> QED
    BY <2>2 DEF Bounded
<1>8. Watched'
  <2> SUFFICES ASSUME NEW k \in rows', group'[k] < 0
               PROVE  \E j \in Import : group'[k] \in temps'[j]
    BY DEF Watched
  <2>1. CASE k = h
    BY <1>3, <1>4, <1>5, <2>1
  <2>2. CASE k # h
    <3>1. k \in rows /\ group'[k] = group[k]
      BY <1>1, <1>4, <2>2 DEF GroupsTyped
    <3> QED
      BY <1>5, <3>1 DEF Watched
  <2> QED
    BY <2>1, <2>2
<1>9. Active' = Active
  BY <1>1 DEF Active, GroupsTyped
<1>10. /\ \A j \in Import : Scanned(j)' = Scanned(j)
       /\ Pending(i)' = todo[i] \ {h} /\ Saved(i)' = Saved(i) \cup {h}
       /\ \A j \in Import \ {i} : UNCHANGED <<Pending(j), Saved(j), at[j], cur[j], todo[j]>>
  <2>1. \A j \in Import : Scanned(j)' = Scanned(j)
    BY <1>1 DEF Scanned
  <2>2. Pending(i) = todo[i] /\ Pending(i)' = todo[i] \ {h}
    BY <1>1 DEF Pending, GroupsTyped
  <2>3. \A j \in Import \ {i} : UNCHANGED <<Pending(j), at[j], cur[j], todo[j]>>
    BY <1>1 DEF Pending, GroupsTyped
  <2> QED
    BY <1>2, <2>1, <2>2, <2>3 DEF Saved
<1>11. Walks'
  <2> SUFFICES ASSUME NEW j \in Active
               PROVE  /\ root[j] \in Root
                      /\ Pending(j)' \subseteq Scanned(j)
                      /\ at'[j] = "write" => cur'[j] \in todo'[j]
    BY <1>1, <1>9, <1>10 DEF Walks, Active
  <2>1. CASE j = i
    BY <1>1, <1>2, <1>10, <2>1 DEF GroupsTyped
  <2>2. CASE j # i
    BY <1>10, <2>2 DEF Walks, Active
  <2> QED
    BY <2>1, <2>2
<1>12. ASSUME ~disturbed' PROVE InTurn'
  <2>1. InTurn /\ Active = {i}
    BY <1>1, <1>2, <1>12 DEF InTurn, Alone
  <2>2. Alone'
    BY <1>1, <1>5, <1>9, <2>1 DEF InTurn, Alone, GroupsTyped
  <2>3. TempsSaved'
    <3>1. Saved(i)' \subseteq rows'
      BY <1>1, <1>10, <2>1 DEF InTurn, TempsSaved
    <3>2. ASSUME NEW k \in rows', group'[k] < 0, k # h PROVE k \in Saved(i)
      BY <1>1, <1>4, <2>1, <3>2 DEF InTurn, TempsSaved, GroupsTyped
    <3> QED
      BY <1>9, <1>10, <2>1, <3>1, <3>2 DEF TempsSaved
  <2>4. FreshIsNew'
    BY <1>1, <1>9, <2>1 DEF FreshIsNew, GroupsTyped
  <2>5. \A k \in Saved(i)' : group'[k] = Scan[root[i]][k]
    <3> SUFFICES ASSUME NEW k \in Saved(i), k # h PROVE group'[k] = Scan[root[i]][k]
      BY <1>4, <1>10 DEF v
    <3>1. k \in Item /\ group[k] = Scan[root[i]][k]
      BY <1>1, <1>2, <2>1, ScannedItems DEF InTurn, AsScanned, Saved, Scanned
    <3> QED
      BY <1>4, <3>1
  <2>6. AsScanned'
    <3>1. CASE at'[i] = "read"
      BY <1>1, <1>9, <1>10, <2>1, <2>5, <3>1 DEF AsScanned
    <3>2. CASE at'[i] = "groups"
      <4>1. Saved(i)' = Scanned(i)
        BY <1>10, <3>2 DEF Saved, Pending
      <4>2. \A x, k \in Scanned(i) : x # k =>
              (KeyOf(Files[root[i]], x) = KeyOf(Files[root[i]], k)
                 <=> group'[x] = group'[k] /\ group'[x] # 0)
        BY <1>2, <2>5, <4>1, ScanGroups DEF Scanned
      <4> QED
        BY <1>1, <1>9, <1>10, <2>1, <3>2, <4>2 DEF AsScanned
    <3>3. at'[i] \in {"read", "groups"}
      BY <1>1 DEF GroupsTyped
    <3> QED
      BY <3>1, <3>2, <3>3
  <2>7. Apart'
    <3> SUFFICES ASSUME NEW x \in Saved(i)', NEW k \in rows' \ Scanned(i), group'[x] = group'[k]
                 PROVE  group'[x] = 0
      BY <1>9, <1>10, <2>1 DEF Apart
    <3>1. k \in rows /\ k # h /\ k \in Item
      BY <1>1, <1>2 DEF GroupsTyped
    <3>2. group'[k] = group[k] /\ ~(group[k] < 0) /\ group[k] \in Int
      BY <1>4, <2>1, <3>1 DEF InTurn, TempsSaved, Saved, GroupsTyped
    <3>3. CASE x = h
      BY <1>3, <1>4, <3>2, <3>3
    <3>4. CASE x # h
      <4>1. x \in Saved(i) /\ x \in Item
        BY <1>2, <1>10, <3>4, ScannedItems DEF Saved, Scanned
      <4>2. group'[x] = group[x]
        BY <1>4, <3>4, <4>1
      <4> QED
        BY <2>1, <3>1, <3>2, <4>1, <4>2 DEF InTurn, Apart
    <3> QED
      BY <3>3, <3>4
  <2> QED
    BY <2>2, <2>3, <2>4, <2>6, <2>7 DEF InTurn
<1> QED
  BY <1>6, <1>7, <1>8, <1>11, <1>12

LEMMA StepRemaps ==
  ASSUME GroupInv, NEW i \in Import, Remaps(i)
  PROVE  GroupInv'
<1> USE DEF GroupInv
<1>1. PICK t \in temps[i] :
        /\ group' = [h \in Item |-> IF h \in rows /\ group[h] = t THEN fresh[i] ELSE group[h]]
        /\ temps' = [temps EXCEPT ![i] = @ \ {t}]
  BY DEF Remaps
<1>2. /\ at[i] = "remap" /\ at' = [at EXCEPT ![i] = "groups"]
      /\ fresh' = [fresh EXCEPT ![i] = 0]
      /\ UNCHANGED <<rows, todo, cur, root, disturbed>>
  BY DEF Remaps, Goto
<1>3. i \in Active /\ t \in Int /\ t < 0 /\ fresh[i] \in Nat
  BY <1>2 DEF Active, GroupsTyped
<1>4. \A h \in rows : group'[h] = IF group[h] = t THEN fresh[i] ELSE group[h]
  BY <1>1 DEF GroupsTyped
<1>5. GroupsTyped'
  BY <1>1, <1>2, <1>3 DEF GroupsTyped
<1>6. Bounded'
  <2>1. PICK b \in Nat : \A h \in rows : group[h] <= b
    BY DEF Bounded
  <2>2. \A h \in rows : group'[h] <= b + fresh[i]
    BY <1>3, <1>4, <2>1 DEF GroupsTyped
  <2>3. b + fresh[i] \in Nat
    BY <1>3
  <2> QED
    BY <1>2, <2>2, <2>3 DEF Bounded
<1>7. Watched'
  <2> SUFFICES ASSUME NEW h \in rows, group'[h] < 0
               PROVE  \E j \in Import : group'[h] \in temps'[j]
    BY <1>2 DEF Watched
  <2>1. group[h] # t /\ group'[h] = group[h]
    BY <1>3, <1>4
  <2>2. PICK j \in Import : group[h] \in temps[j]
    BY <2>1 DEF Watched
  <2>3. group[h] \in temps'[j]
    BY <1>1, <2>1, <2>2 DEF GroupsTyped
  <2> QED
    BY <2>1, <2>3
<1>8. Active' = Active
  BY <1>2 DEF Active, GroupsTyped
<1>9. \A j \in Import : Pending(j)' = Pending(j) /\ Scanned(j)' = Scanned(j) /\ Saved(j)' = Saved(j)
  BY <1>2 DEF GroupsTyped, Pending, Scanned, Saved
<1>10. Walks'
  BY <1>2, <1>8, <1>9 DEF GroupsTyped, Walks, Active
<1>11. ASSUME ~disturbed' PROVE InTurn'
  <2>1. InTurn /\ Active = {i}
    BY <1>2, <1>3, <1>11 DEF InTurn, Alone
  <2>2. Saved(i) = Scanned(i) /\ Scanned(i) \subseteq rows
    BY <1>2, <2>1 DEF InTurn, TempsSaved, Saved, Pending
  <2>3. fresh[i] > 0 /\ \A h \in rows : group[h] < fresh[i]
    BY <1>2, <2>1 DEF InTurn, FreshIsNew
  <2>4. Alone'
    BY <1>1, <1>2, <1>8, <2>1 DEF InTurn, Alone, GroupsTyped
  <2>5. TempsSaved'
    <3>1. \A h \in rows : group'[h] < 0 => h \in Saved(i)
      BY <1>3, <1>4, <2>1 DEF InTurn, TempsSaved
    <3> QED
      BY <1>2, <1>8, <1>9, <2>1, <2>2, <3>1 DEF TempsSaved
  <2>6. FreshIsNew'
    BY <1>2, <1>8, <2>1 DEF FreshIsNew, GroupsTyped
  <2>7. \A h, k \in rows : group'[h] = group'[k] <=> group[h] = group[k]
    BY <1>3, <1>4, <2>3 DEF GroupsTyped
  <2>8. \A h \in rows : group'[h] = 0 <=> group[h] = 0
    BY <1>3, <1>4, <2>3 DEF GroupsTyped
  <2>9. AsScanned'
    <3>1. \A h, k \in Scanned(i) : h # k =>
            (KeyOf(Files[root[i]], h) = KeyOf(Files[root[i]], k)
               <=> group'[h] = group'[k] /\ group'[h] # 0)
      BY <1>2, <2>1, <2>2, <2>7, <2>8 DEF InTurn, AsScanned
    <3> QED
      BY <1>2, <1>8, <1>9, <2>1, <3>1 DEF AsScanned, GroupsTyped
  <2>10. Apart'
    <3>1. \A h \in Saved(i), k \in rows \ Scanned(i) : group'[h] = group'[k] => group'[h] = 0
      BY <2>1, <2>2, <2>7, <2>8 DEF InTurn, Apart
    <3> QED
      BY <1>2, <1>8, <1>9, <2>1, <3>1 DEF Apart
  <2> QED
    BY <2>4, <2>5, <2>6, <2>9, <2>10 DEF InTurn
<1> QED
  BY <1>5, <1>6, <1>7, <1>10, <1>11

LEMMA StepEdits ==
  ASSUME GroupInv, NEW h \in Item,
         \/ \E dt \in Disc : SetDiscOverride(h, dt)
         \/ \E g \in UserGroup \cup {0} : SetGroup(h, g)
  PROVE  GroupInv'
<1>1. UNCHANGED <<rows, at, root, todo, cur, temps, fresh>>
  BY DEF SetDiscOverride, SetGroup, Edits
<1>2. Active' = Active /\ Walks'
  BY <1>1 DEF GroupInv, Active, Walks, Pending, Scanned
<1>3. CASE \E dt \in Disc : SetDiscOverride(h, dt)
  <2>1. UNCHANGED <<group, disturbed>>
    BY <1>3 DEF SetDiscOverride
  <2>2. GroupsTyped' /\ \A j \in Import : Saved(j)' = Saved(j)
    BY <1>1, <2>1 DEF GroupInv, GroupsTyped, Saved, Scanned, Pending
  <2> QED
    BY <1>1, <1>2, <2>1, <2>2, GroupsApart DEF GroupInv, InTurn, Alone
<1>4. CASE \E g \in UserGroup \cup {0} : SetGroup(h, g)
  <2>1. PICK g \in UserGroup \cup {0} : group' = [group EXCEPT ![h] = g]
    BY <1>4 DEF SetGroup
  <2>2. disturbed' = TRUE
    BY <1>4 DEF SetGroup
  <2>3. g \in Nat
    BY <2>1, LibraryAssumption
  <2>4. GroupsTyped'
    BY <1>1, <2>1, <2>2, <2>3 DEF GroupInv, GroupsTyped
  <2>5. \A k \in rows : group'[k] = IF k = h THEN g ELSE group[k]
    BY <2>1 DEF GroupInv, GroupsTyped
  <2>6. Bounded'
    <3>1. PICK b \in Nat : \A k \in rows : group[k] <= b
      BY DEF GroupInv, Bounded
    <3>2. b + g \in Nat /\ \A k \in rows : group'[k] <= b + g
      BY <2>3, <2>5, <3>1 DEF GroupInv, GroupsTyped
    <3> QED
      BY <1>1, <3>2 DEF Bounded
  <2>7. Watched'
    BY <1>1, <2>3, <2>5 DEF GroupInv, Watched
  <2> QED
    BY <1>2, <2>2, <2>4, <2>6, <2>7 DEF GroupInv
<1> QED
  BY <1>3, <1>4

LEMMA GroupsInductive == Spec => []GroupInv
<1>1. GroupInv /\ [Next]_vars => GroupInv'
  <2> SUFFICES ASSUME GroupInv, [Next]_vars PROVE GroupInv'
    OBVIOUS
  <2>1. ASSUME NEW i \in Import, ImportStep(i) \/ Fails(i) PROVE GroupInv'
    BY <2>1, StepScans, StepLooksUp, StepSaves, StepAllocates, StepRemaps, StepDetects, StepFails
       DEF ImportStep
  <2>2. ASSUME NEW h \in Item, \/ \E dt \in Disc : SetDiscOverride(h, dt)
                               \/ \E g \in UserGroup \cup {0} : SetGroup(h, g)
        PROVE  GroupInv'
    BY <2>2, StepEdits
  <2>3. CASE UNCHANGED vars
    BY <2>3 DEF GroupInv, GroupsTyped, Bounded, Watched, Walks, InTurn, Alone, TempsSaved,
                FreshIsNew, AsScanned, Apart, Active, Saved, Pending, Scanned
  <2> QED
    BY <2>1, <2>2, <2>3 DEF Next
<1> QED
  BY <1>1, InitGroups, PTL DEF Spec

(* However imports overlap and fail and the user regroups, no temporary     *)
(* group is left when none of them has one to replace (RemapGroup).         *)
THEOREM TempsGo == Spec => []TempsReplaced
<1>1. GroupInv => TempsReplaced
  BY DEF GroupInv, GroupsTyped, Watched, TempsReplaced
<1> QED
  BY <1>1, GroupsInductive, PTL

(* An import that nobody disturbed groups its items as scanned, ...         *)
THEOREM GroupsFollowTheScan == Spec => []GroupedAsScanned
<1>1. ASSUME GroupInv, NEW i \in Import, ~disturbed, at[i] \in {"detect", "record"},
             NEW h \in DOMAIN Scan[root[i]], NEW k \in DOMAIN Scan[root[i]], h # k
      PROVE  KeyOf(Files[root[i]], h) = KeyOf(Files[root[i]], k)
                <=> group[h] = group[k] /\ group[h] > 0
  <2>1. InTurn /\ i \in Active
    BY <1>1 DEF GroupInv, Active
  <2>2. KeyOf(Files[root[i]], h) = KeyOf(Files[root[i]], k)
           <=> group[h] = group[k] /\ group[h] # 0
    BY <1>1, <2>1 DEF InTurn, AsScanned, Scanned
  <2>3. Active = {i} /\ \A j \in Import : temps[j] = {}
    BY <1>1, <2>1 DEF InTurn, Alone
  <2>4. h \in rows
    BY <1>1, <2>1 DEF InTurn, TempsSaved, Saved, Scanned, Pending
  <2>5. group[h] \in Int /\ ~(group[h] < 0)
    BY <1>1, <2>3, <2>4 DEF GroupInv, GroupsTyped, Watched
  <2> QED
    BY <2>2, <2>5
<1>2. GroupInv => GroupedAsScanned
  BY <1>1 DEF GroupedAsScanned
<1> QED
  BY <1>2, GroupsInductive, PTL

(* ... in groups of their own: NextGroupID is nobody's until they have it.  *)
THEOREM SetsApart == Spec => []SetsStayApart
<1>1. GroupInv => SetsStayApart
  BY DEF GroupInv, InTurn, Apart, Saved, Scanned, Pending, Active, SetsStayApart
<1> QED
  BY <1>1, GroupsInductive, PTL
=============================================================================
