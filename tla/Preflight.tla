----------------------------- MODULE Preflight ------------------------------
(***************************************************************************)
(* What Preflight says of a destination, as a function of what is so and of *)
(* what it is allowed to see: UDisks2 may not run or may know only a part, *)
(* and the disk itself may not be readable. A device path, a partition     *)
(* type, a size are classes of what the checks tell apart.                 *)
(***************************************************************************)
EXTENDS Integers, FiniteSets

MiB == 1048576

(* The filesystem that Probe finds ("error": the probe fails), the toggle,  *)
(* the contents of the directory.                                          *)
Place == [kind : {"drive", "folder"},
          toggle : {"fat32", "exfat", "unknown"},
          fstype : {"fat32", "exfat", "other", "unknown", "error"},
          content : {"fine", "ul.cfg corrupt", "full", "free unknown"}]

(* The disk below it. A hybrid is a GPT disk whose MBR has more than the    *)
(* protective entry; "none" has no boot sector signature. The partition is *)
(* a primary or a logical one; its MBR entry has a type and a first sector. *)
Disk == [layout : {"mbr", "gpt", "hybrid", "none"},
         primary : BOOLEAN,
         ptype : {"0x00", "0x07", "0x83"},
         lba : {63, 256, 2048},
         sector : {512, 4096}]

(* What is seen: the fields UDisks2 fills in, and the sectors that read.    *)
Access == [udisks : SUBSET {"table", "type", "offset"}, reads : {{}, {0}, {0, 1}}]

VARIABLES place, disk, access, done
vars == <<place, disk, access, done>>

NoPlace == [kind |-> "folder", toggle |-> "unknown", fstype |-> "unknown", content |-> "fine"]
NoDisk  == [layout |-> "none", primary |-> TRUE, ptype |-> "0x00", lba |-> 63, sector |-> 512]
Blind   == [udisks |-> {}, reads |-> {}]

-----------------------------------------------------------------------------
(* fsToggleVerdict, after normalizeFSType.                                  *)
Filesystem(p) ==
    IF p.fstype = "error" \/ p.toggle = "unknown" THEN "warn"
    ELSE IF p.fstype \in {p.toggle, "unknown"} THEN "pass"
    ELSE IF p.kind = "folder" THEN "warn" ELSE "fail"

(* Asked only if the probe worked. *)
FreeSpace(p) == IF p.fstype = "error" \/ p.content = "free unknown" THEN "warn"
                ELSE IF p.content = "full" THEN "fail" ELSE "pass"

(* ul.cfg does not parse, or one of the sets it names does not verify.      *)
UlCfg(p) == IF p.content = "ul.cfg corrupt" THEN "fail" ELSE "pass"

(* The boot sector: its types and the place of the partition. The entry of  *)
(* a GPT disk's first partition is the protective one.                      *)
Signed(d)    == d.layout # "none"
EntryType(d) == IF d.layout = "gpt" THEN IF d.primary THEN "0xee" ELSE "0x00" ELSE d.ptype
EntryLBA(d)  == IF d.layout = "gpt" THEN 1 ELSE d.lba

(* Mutant: the header in the second sector is not looked for.               *)
ProbeEntries(d, a) ==
    IF "table" \in a.udisks /\ Signed(d) THEN IF d.layout = "mbr" THEN "dos" ELSE "gpt"
    ELSE IF 0 \notin a.reads \/ ~Signed(d) THEN "unknown"
    ELSE IF d.layout = "gpt" THEN "gpt" ELSE "dos"

(* The header of the GPT is in the second sector, and is looked for at byte *)
(* 512: on sectors of 4096 bytes that is still inside the first.            *)
HeaderSeen(d, a) == d.sector = 512 /\ 1 \in a.reads

ProbeTable(d, a) ==
    IF "table" \in a.udisks /\ Signed(d) THEN IF d.layout = "mbr" THEN "dos" ELSE "gpt"
    ELSE IF 0 \notin a.reads \/ ~Signed(d) THEN "unknown"
    ELSE IF d.layout = "gpt" THEN "gpt"
    ELSE IF d.layout = "hybrid" /\ HeaderSeen(d, a) THEN "gpt"
    ELSE "dos"

PartitionTable(p, d, a) ==
    IF p.kind = "folder" THEN "warn"
    ELSE CASE ProbeTable(d, a) = "dos" -> "pass"
           [] ProbeTable(d, a) = "gpt" -> "fail"
           [] OTHER -> "warn"

(* probePartitionType: "" when it cannot be told. *)
ProbeType(d, a) ==
    IF "table" \in a.udisks /\ d.layout = "mbr" /\ "type" \in a.udisks THEN d.ptype
    ELSE IF "table" \in a.udisks /\ d.layout \in {"gpt", "hybrid"} THEN ""
    ELSE IF 0 \in a.reads /\ Signed(d) /\ d.primary /\ EntryType(d) # "0x00"
      THEN EntryType(d) ELSE ""

(* 0x07, 0x0b and 0x0c pass whatever the toggle says.                       *)
PartitionType(p, d, a) ==
    IF p.kind = "folder" \/ ProbeType(d, a) = "" THEN "warn"
    ELSE IF p.toggle # "unknown" /\ ProbeType(d, a) \notin {"0x07", "0x0b", "0x0c"}
      THEN "fail" ELSE "pass"

Start(d) == d.lba * d.sector

(* Mutant: the first sector is taken for an offset.                         *)
EntrySector(d) == EntryLBA(d)

(* mbrPartitionOffset: sectors are taken to have 512 bytes.                 *)
EntryOffset(d) == EntryLBA(d) * 512

(* probePartitionOffset: -1 when it cannot be told.                         *)
ProbeOffset(d, a) ==
    IF "offset" \in a.udisks THEN Start(d)
    ELSE IF 0 \in a.reads /\ Signed(d) /\ d.primary /\ EntryType(d) # "0x00"
      THEN EntryOffset(d) ELSE -1

Alignment(p, d, a) ==
    IF p.kind = "folder" \/ ProbeOffset(d, a) = -1 THEN "warn"
    ELSE IF ProbeOffset(d, a) % MiB = 0 THEN "pass" ELSE "fail"

(* The rows that can block. Cluster size, device type and fragmentation     *)
(* only warn.                                                               *)
Rows(p, d, a) == {Filesystem(p), FreeSpace(p), UlCfg(p), PartitionTable(p, d, a),
                  PartitionType(p, d, a), Alignment(p, d, a)}

Blocked(p, d, a) == "fail" \in Rows(p, d, a)

-----------------------------------------------------------------------------
Init == place = NoPlace /\ disk = NoDisk /\ access = Blind /\ done = FALSE

(* One call. *)
Checks == /\ ~done /\ done' = TRUE
          /\ place' \in Place /\ disk' \in Disk /\ access' \in Access

Next == Checks
Spec == Init /\ [][Next]_vars

-----------------------------------------------------------------------------
More(a, b) == a.udisks \subseteq b.udisks /\ a.reads \subseteq b.reads

(* Fail closed: what is blocked by one who sees little stays blocked for    *)
(* one who sees more. A GPT disk whose protective entry fails the checks of *)
(* type and alignment is refused by its table as well, and a partition is   *)
(* as aligned in the boot sector as in UDisks2 (on sectors of 512 bytes).   *)
SeeingMoreUnblocksNothing ==
    done /\ disk.sector = 512 /\ Blocked(place, disk, access)
      => \A b \in Access : More(access, b) => Blocked(place, disk, b)

HybridUnseen(d, a) == /\ d.layout = "hybrid" /\ "table" \notin a.udisks
                      /\ 1 \notin a.reads \/ d.sector = 4096

(* A drive without a warning is one the console can mount: an MBR disk with *)
(* an aligned partition and the filesystem of the toggle, unless the probe  *)
(* does not know that one; without UDisks2's word a hybrid is taken for an  *)
(* MBR disk if its second sector cannot be read, or is not at byte 512. A   *)
(* folder is refused for what is in it only.                                *)
AllPassMeansMountable ==
    /\ done /\ Rows(place, disk, access) = {"pass"} =>
          /\ disk.layout = "mbr" \/ HybridUnseen(disk, access)
          /\ Start(disk) % MiB = 0
          /\ place.fstype \in {place.toggle, "unknown"}
    /\ done /\ place.kind = "folder" /\ Blocked(place, disk, access) =>
          place.content \in {"full", "ul.cfg corrupt"}

(* Refuted: "partition start is 1 MiB-aligned" as a reason to block, on     *)
(* sectors of 4096 bytes.                                                   *)
AlignedIsNotBlocked ==
    done /\ Start(disk) % MiB = 0 => Alignment(place, disk, access) # "fail"

(* Refuted: "partition type vs fs toggle (when detectable)" as a reason to  *)
(* block: 0x07 passes for FAT32 and 0x0c for exFAT.                         *)
TypeFollowsToggle ==
    done /\ place.kind = "drive" /\ ProbeType(disk, access) # "" =>
       (PartitionType(place, disk, access) = "pass" =>
          <<place.toggle, ProbeType(disk, access)>>
            \in {<<"fat32", "0x0c">>, <<"fat32", "0x0b">>, <<"exfat", "0x07">>}
            \cup ({"unknown"} \X {"0x00", "0x07", "0x0c", "0x83", "0xee"}))
=============================================================================
