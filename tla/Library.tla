------------------------------ MODULE Library ------------------------------
(***************************************************************************)
(* The library table and what changes it: imports, which scan a directory  *)
(* and persist what they found one statement at a time, and the user's     *)
(* edits. Imports run concurrently: each HTTP request has a goroutine, and *)
(* the command line imports into the same database from another process.   *)
(***************************************************************************)
EXTENDS Integers, Sequences, FiniteSetsExt

CONSTANTS Item,       \* content hashes
          Import,     \* calls of ImportDir
          Root,       \* directories to import
          Files,      \* the image files of each, in the order of the walk
          Evidence,   \* of each item's image: what its descriptors, its size
                      \* and the title database say of its disc type
          PS2,        \* the items that are PS2 images; the others are PS1
          UserGroup,  \* bound: group ids the user types
          MaxEdits,   \* bound: user edits
          None

Disc   == {"cd", "dvd"}
Method == {"none", "override", "inspected", "heuristic", "database"}

(* A file's key is its directory and its title, lowered and without the     *)
(* disc marker, numbered in the order of the keys. An image that cannot be  *)
(* read has no hash; a cue sheet that cannot be, or whose BINs are missing, *)
(* still has one, of its own bytes or path.                                 *)
ASSUME LibraryAssumption ==
    /\ Files \in [Root -> Seq([hash : Item \cup {None}, key : Nat])]
    /\ Evidence \in [Item -> [inspected : Disc \cup {"none"}, size : Disc,
                               db : Disc \cup {"none"}]]
    /\ PS2 \subseteq Item
    /\ UserGroup \subseteq Nat \ {0}
    /\ MaxEdits \in Nat
    /\ None \notin Item \cup Import \cup Root

(* The images that are candidates: the files that have a hash.              *)
Candidates(files) == {n \in DOMAIN files : files[n].hash # None}

(* Two candidates or more under one key are a multi-disc set.               *)
Sets(files) ==
    {k \in {files[n].key : n \in Candidates(files)} :
        Cardinality({n \in Candidates(files) : files[n].key = k}) >= 2}

(* Of several copies of an image the one with the least key counts.         *)
KeyOf(files, h) ==
    Min({files[n].key : n \in {m \in Candidates(files) : files[m].hash = h}})

(* Each image once, with a temporary group: the sets are -1, -2, ... in the *)
(* order of their keys, 0 is no group.                                      *)
ScanDir(files) ==
    [h \in {files[n].hash : n \in Candidates(files)} |->
        IF KeyOf(files, h) \in Sets(files)
          THEN -Cardinality({k \in Sets(files) : k <= KeyOf(files, h)})
          ELSE 0]

Scan == [r \in Root |-> ScanDir(Files[r])]

VARIABLES
    rows,      \* hashes that have a row
    group,     \* disc_group_id, 0 for NULL
    disc,      \* disc_type
    method,    \* detection_method
    at,        \* where each import is
    root,      \* the directory it scans
    todo,      \* its items still to persist, then still to detect
    cur,       \* the item it works on
    known,     \* GetByHash found a row for cur
    temps,     \* temporary groups it has to replace
    fresh,     \* the id NextGroupID gave it
    verdict,   \* the disc type and method Detect came to
    chosen,    \* history: the user's disc type of each item
    disturbed, \* history: imports overlapped, one failed, or the user regrouped
    edits

table  == <<rows, group, disc, method>>
walk   == <<at, todo, cur>>
local  == <<root, known, temps, fresh, verdict>>
vars   == <<table, walk, local, chosen, disturbed, edits>>

Active == {i \in Import : at[i] \notin {"idle", "done", "failed"}}

NoVerdict == [disc |-> "none", method |-> "none"]

Init == /\ rows = {}
        /\ group = [h \in Item |-> 0]
        /\ disc = [h \in Item |-> "none"]
        /\ method = [h \in Item |-> "none"]
        /\ at = [i \in Import |-> "idle"]
        /\ root = [i \in Import |-> None]
        /\ todo = [i \in Import |-> {}]
        /\ cur = [i \in Import |-> None]
        /\ known = [i \in Import |-> FALSE]
        /\ temps = [i \in Import |-> {}]
        /\ fresh = [i \in Import |-> 0]
        /\ verdict = [i \in Import |-> NoVerdict]
        /\ chosen = [h \in Item |-> "none"]
        /\ disturbed = FALSE
        /\ edits = 0

Goto(i, l) == at' = [at EXCEPT ![i] = l]

(* The loop goes to its next item.                                          *)
Forgets(i) == /\ cur' = [cur EXCEPT ![i] = None]
              /\ known' = [known EXCEPT ![i] = FALSE]
              /\ verdict' = [verdict EXCEPT ![i] = NoVerdict]

-----------------------------------------------------------------------------
(* ImportDir. ScanDir touches no table.                                     *)
Scans(i, r) ==
    /\ at[i] = "idle"
    /\ root' = [root EXCEPT ![i] = r]
    /\ todo' = [todo EXCEPT ![i] = DOMAIN Scan[r]]
    /\ disturbed' = (disturbed \/ Active # {})
    /\ Goto(i, IF todo'[i] = {} THEN "groups" ELSE "read")
    /\ UNCHANGED <<table, cur, known, temps, fresh, verdict, chosen, edits>>

(* UpsertItem: look the hash up, then INSERT or UPDATE.                     *)
LooksUp(i) ==
    /\ at[i] = "read"
    /\ \E h \in todo[i] : /\ cur' = [cur EXCEPT ![i] = h]
                          /\ known' = [known EXCEPT ![i] = h \in rows]
    /\ Goto(i, "write")
    /\ UNCHANGED <<table, todo, root, temps, fresh, verdict, chosen,
                   disturbed, edits>>

(* Mutant: the temporary group of a row that was there already is not       *)
(* remembered.                                                              *)
SavesForgetting(i) ==
    LET h == cur[i] IN
    /\ at[i] = "write"
    /\ known[i] \/ h \notin rows
    /\ rows' = rows \cup {h}
    /\ group' = [group EXCEPT ![h] = Scan[root[i]][h]]
    /\ temps' = [temps EXCEPT ![i] = IF known[i] THEN @ ELSE @ \cup ({group'[h]} \ {0})]
    /\ todo' = [todo EXCEPT ![i] = @ \ {h}]
    /\ Goto(i, IF todo'[i] = {} THEN "groups" ELSE "read")
    /\ Forgets(i)
    /\ UNCHANGED <<disc, method, root, fresh, chosen, disturbed, edits>>

(* The UPDATE rewrites the group, the user's choice of it included; a       *)
(* temporary one is remembered.                                             *)
Saves(i) ==
    LET h == cur[i] IN
    /\ at[i] = "write"
    /\ known[i] \/ h \notin rows
    /\ rows' = rows \cup {h}
    /\ group' = [group EXCEPT ![h] = Scan[root[i]][h]]
    /\ temps' = [temps EXCEPT ![i] = @ \cup ({group'[h]} \ {0})]
    /\ todo' = [todo EXCEPT ![i] = @ \ {h}]
    /\ Goto(i, IF todo'[i] = {} THEN "groups" ELSE "read")
    /\ Forgets(i)
    /\ UNCHANGED <<disc, method, root, fresh, chosen, disturbed, edits>>

(* Mutant: MAX without the + 1.                                             *)
LastGroupID == Max({group[h] : h \in rows} \cup {1})

(* COALESCE(MAX(disc_group_id), 0) + 1, and at least 1.                     *)
NextGroupID == Max({group[h] : h \in rows} \cup {0}) + 1

Allocates(i) ==
    /\ at[i] = "groups" /\ temps[i] # {}
    /\ fresh' = [fresh EXCEPT ![i] = NextGroupID]
    /\ Goto(i, "remap")
    /\ UNCHANGED <<table, todo, cur, root, known, temps, verdict, chosen,
                   disturbed, edits>>

(* Mutant: one NextGroupID for all the temporary groups.                    *)
RemapsAll(i) ==
    /\ at[i] = "remap"
    /\ group' = [h \in Item |-> IF h \in rows /\ group[h] \in temps[i] THEN fresh[i]
                                ELSE group[h]]
    /\ temps' = [temps EXCEPT ![i] = {}]
    /\ fresh' = [fresh EXCEPT ![i] = 0]
    /\ Goto(i, "groups")
    /\ UNCHANGED <<rows, disc, method, todo, cur, root, known, verdict,
                   chosen, disturbed, edits>>

(* RemapGroup: every row with that temporary id, whoever wrote it.          *)
Remaps(i) ==
    /\ at[i] = "remap"
    /\ \E t \in temps[i] :
          /\ group' = [h \in Item |-> IF h \in rows /\ group[h] = t THEN fresh[i]
                                      ELSE group[h]]
          /\ temps' = [temps EXCEPT ![i] = @ \ {t}]
    /\ fresh' = [fresh EXCEPT ![i] = 0]
    /\ Goto(i, "groups")
    /\ UNCHANGED <<rows, disc, method, todo, cur, root, known, verdict,
                   chosen, disturbed, edits>>

(* The second pass over the items: detection, of PS2 images only.           *)
Grouped(i) ==
    /\ at[i] = "groups" /\ temps[i] = {}
    /\ todo' = [todo EXCEPT ![i] = DOMAIN Scan[root[i]] \cap PS2]
    /\ Goto(i, IF todo'[i] = {} THEN "done" ELSE "detect")
    /\ UNCHANGED <<table, cur, local, chosen, disturbed, edits>>

(* decide: what the image itself says outranks the database, which outranks *)
(* the size.                                                                *)
Decide(e) ==
    IF e.inspected # "none" THEN [disc |-> e.inspected, method |-> "inspected"]
    ELSE IF e.db \notin {"none", e.size} THEN [disc |-> e.db, method |-> "database"]
    ELSE [disc |-> e.size, method |-> "heuristic"]

Detects(i) ==
    /\ at[i] = "detect"
    /\ \E h \in todo[i] :
          /\ cur' = [cur EXCEPT ![i] = h]
          /\ verdict' = [verdict EXCEPT ![i] =
                            IF method[h] = "override"
                              THEN [disc |-> disc[h], method |-> "override"]
                              ELSE Decide(Evidence[h])]
    /\ Goto(i, "record")
    /\ UNCHANGED <<table, todo, root, known, temps, fresh, chosen,
                   disturbed, edits>>

(* Mutant: no AND detection_method != 'override'.                           *)
RecordsAlways(i) ==
    LET h == cur[i] IN
    /\ at[i] = "record"
    /\ disc' = [disc EXCEPT ![h] = verdict[i].disc]
    /\ method' = [method EXCEPT ![h] = verdict[i].method]
    /\ todo' = [todo EXCEPT ![i] = @ \ {h}]
    /\ Goto(i, IF todo'[i] = {} THEN "done" ELSE "detect")
    /\ Forgets(i)
    /\ UNCHANGED <<rows, group, root, temps, fresh, chosen, disturbed, edits>>

(* UpdateDetection leaves a row alone that is an override by now.           *)
Records(i) ==
    LET h == cur[i] IN
    /\ at[i] = "record"
    /\ IF method[h] = "override"
         THEN UNCHANGED <<disc, method>>
         ELSE /\ disc' = [disc EXCEPT ![h] = verdict[i].disc]
              /\ method' = [method EXCEPT ![h] = verdict[i].method]
    /\ todo' = [todo EXCEPT ![i] = @ \ {h}]
    /\ Goto(i, IF todo'[i] = {} THEN "done" ELSE "detect")
    /\ Forgets(i)
    /\ UNCHANGED <<rows, group, root, temps, fresh, chosen, disturbed, edits>>

(* An INSERT of a hash another import inserted meanwhile, a database error, *)
(* or the end of the process: the import stops where it is.                 *)
Fails(i) ==
    /\ i \in Active
    /\ Goto(i, "failed")
    /\ disturbed' = TRUE
    /\ Forgets(i)
    /\ UNCHANGED <<table, todo, root, temps, fresh, chosen, edits>>

-----------------------------------------------------------------------------
(* PATCH /api/library/{id}.                                                 *)
Edits == /\ edits < MaxEdits /\ edits' = edits + 1
         /\ UNCHANGED <<rows, walk, local>>

SetDiscOverride(h, dt) ==
    /\ Edits /\ h \in rows
    /\ disc' = [disc EXCEPT ![h] = dt]
    /\ method' = [method EXCEPT ![h] = "override"]
    /\ chosen' = [chosen EXCEPT ![h] = dt]
    /\ UNCHANGED <<group, disturbed>>

SetGroup(h, g) ==
    /\ Edits /\ h \in rows
    /\ group' = [group EXCEPT ![h] = g]
    /\ disturbed' = TRUE
    /\ UNCHANGED <<disc, method, chosen>>

ImportStep(i) == \/ \E r \in Root : Scans(i, r)
                 \/ LooksUp(i) \/ Saves(i) \/ Allocates(i) \/ Remaps(i)
                 \/ Grouped(i) \/ Detects(i) \/ Records(i)

Next == \/ \E i \in Import : ImportStep(i) \/ Fails(i)
        \/ \E h \in Item : \/ \E dt \in Disc : SetDiscOverride(h, dt)
                           \/ \E g \in UserGroup \cup {0} : SetGroup(h, g)

Spec == Init /\ [][Next]_vars

-----------------------------------------------------------------------------
TypeOK ==
    /\ rows \subseteq Item
    /\ group \in [Item -> Int]
    /\ disc \in [Item -> Disc \cup {"none"}]
    /\ method \in [Item -> Method]
    /\ \A h \in Item : disc[h] = "none" <=> method[h] = "none"
    /\ at \in [Import -> {"idle", "read", "write", "groups", "remap", "detect",
                          "record", "done", "failed"}]
    /\ root \in [Import -> Root \cup {None}]
    /\ todo \in [Import -> SUBSET Item]
    /\ cur \in [Import -> Item \cup {None}]
    /\ known \in [Import -> BOOLEAN]
    /\ temps \in [Import -> SUBSET {n \in Int : n < 0}]
    /\ fresh \in [Import -> Nat]
    /\ verdict \in [Import -> [disc : Disc \cup {"none"}, method : Method]]
    /\ chosen \in [Item -> Disc \cup {"none"}]
    /\ disturbed \in BOOLEAN
    /\ edits \in Nat

(* The disc type the user chose stands, whatever imports of the item were   *)
(* running when it was chosen or run later (UpdateDetection, UpsertItem).   *)
OverrideSticks ==
    \A h \in Item : chosen[h] # "none" =>
        disc[h] = chosen[h] /\ method[h] = "override"

(* Temporary group ids do not outlive the imports that wrote them, even if  *)
(* imports overlap, unless one of them failed.                              *)
TempsReplaced ==
    (\A i \in Import : at[i] \in {"idle", "groups", "detect", "record", "done"}
                          /\ temps[i] = {})
    => \A h \in rows : group[h] >= 0

(* An import that nobody disturbed leaves two images in one group exactly   *)
(* when their directory and title are the same (ScanDir, NextGroupID,       *)
(* RemapGroup).                                                             *)
GroupedAsScanned ==
    \A i \in Import : ~disturbed /\ at[i] \in {"detect", "record"} =>
        \A h, k \in DOMAIN Scan[root[i]] :
           h # k => (KeyOf(Files[root[i]], h) = KeyOf(Files[root[i]], k)
                       <=> group[h] = group[k] /\ group[h] > 0)

(* ... and no set of it shares a group with an item it did not scan.        *)
SetsStayApart ==
    \A i \in Import : ~disturbed /\ at[i] \in {"detect", "record"} =>
        \A h \in DOMAIN Scan[root[i]], k \in rows \ DOMAIN Scan[root[i]] :
           group[h] = group[k] => group[h] = 0
=============================================================================
