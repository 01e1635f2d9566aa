------------------------------ MODULE FatTable ------------------------------
(***************************************************************************)
(* The layout of a volume and its file allocation table, byte by byte: the *)
(* geometry that bpb.h reads off the boot sector, the FAT12, FAT16 and     *)
(* FAT32 entries of write.c and fat_core.c with the entries of FAT12 that  *)
(* lie across two sectors, and the search for a free cluster.              *)
(* FatVolume takes from here that the FAT is a function on clusters, equal *)
(* in all copies.                                                          *)
(* Definitions named Bug_... are plausible mistakes in the definition that *)
(* follows them; no specification uses them.                               *)
(***************************************************************************)
EXTENDS Integers, FiniteSets

CONSTANTS
    Boots,        \* boot sectors of formatted volumes
    DirentLen,    \* bytes of a directory entry, 32 in the code
    Fat12Limit,   \* the least cluster count of FAT16, 4085 in the code
    Fat16Limit    \* the least cluster count of FAT32, 65525 in the code

VARIABLES
    bpb,        \* the boot sector
    vol,        \* the volume handle
    disk,       \* disk[s][o]: byte o of sector s, up to the first of the data
    link        \* what each cluster was last linked to

vars == <<bpb, vol, disk, link>>

Byte == 0 .. 255

-----------------------------------------------------------------------------
(* bpb.h *)

Bug_RoundDown(b) == (b.root_entry_count * DirentLen) \div b.bytes_per_sector

bpb_root_dir_sectors(b) ==
    (b.root_entry_count * DirentLen + b.bytes_per_sector - 1) \div b.bytes_per_sector

bpb_fat_size(b) == IF b.fat_size_16 # 0 THEN b.fat_size_16 ELSE b.fat_size_32

bpb_first_data_sector(b) ==
    b.reserved_sector_count + b.num_fats * bpb_fat_size(b) + bpb_root_dir_sectors(b)

TotalSectors(b) == IF b.total_sectors_16 # 0 THEN b.total_sectors_16 ELSE b.total_sectors_32

bpb_cluster_count(b) ==
    (TotalSectors(b) - b.reserved_sector_count - b.num_fats * bpb_fat_size(b)
        - bpb_root_dir_sectors(b)) \div b.sectors_per_cluster

\* A formatted volume: sectors for the entries of the root directory, at least
\* one cluster, as many as the sectors behind have room for, and FATs with an
\* entry for each and the two reserved ones.
Fits(b, root, clusters) ==
    LET bits == IF clusters < Fat12Limit THEN 12 ELSE IF clusters < Fat16Limit THEN 16 ELSE 32
    IN  /\ root * b.bytes_per_sector - b.root_entry_count * DirentLen \in 0 .. b.bytes_per_sector - 1
        /\ TotalSectors(b) - b.reserved_sector_count - b.num_fats * bpb_fat_size(b) - root
               - clusters * b.sectors_per_cluster \in 0 .. b.sectors_per_cluster - 1
        /\ (clusters + 2) * bits <= 8 * bpb_fat_size(b) * b.bytes_per_sector

ASSUME TableAssumption ==
    /\ {DirentLen, Fat12Limit, Fat16Limit} \subseteq Nat
    /\ \A b \in Boots :
          /\ {b.bytes_per_sector, b.sectors_per_cluster, b.num_fats} \subseteq Nat \ {0}
          /\ {b.reserved_sector_count, b.root_entry_count, b.total_sectors_16, b.total_sectors_32,
              b.fat_size_16, b.fat_size_32} \subseteq Nat
          /\ \E root \in 0 .. TotalSectors(b), clusters \in 1 .. TotalSectors(b) : Fits(b, root, clusters)

fat_type(b) ==
    IF bpb_cluster_count(b) < Fat12Limit THEN 12
    ELSE IF bpb_cluster_count(b) < Fat16Limit THEN 16
    ELSE 32

Short == 65536      \* root_first_sector, of FAT12 and FAT16, is a uint16_t

fat_vol_init(b) ==
    [type |-> fat_type(b),
     cluster_count |-> bpb_cluster_count(b),
     bytes_per_sector |-> b.bytes_per_sector,
     sectors_per_cluster |-> b.sectors_per_cluster,
     first_data_sector |-> bpb_first_data_sector(b),
     reserved_sector_count |-> b.reserved_sector_count,
     num_fats |-> b.num_fats,
     fat_size |-> bpb_fat_size(b),
     root_first_sector |-> (bpb_first_data_sector(b) - bpb_root_dir_sectors(b)) % Short,
     last_cluster_alloc |-> 2]

\* The clusters of the volume are numbered from 2.
Clusters == 2 .. vol.cluster_count + 1

fat_first_sector_of_cluster(c) ==
    (c - 2) * vol.sectors_per_cluster + vol.first_data_sector

fat_eoc == [t \in {12, 16, 32} |-> CASE t = 12 -> 4088 [] t = 16 -> 65528 [] t = 32 -> 268435448]

-----------------------------------------------------------------------------
(* FAT entries *)

EntryOffset(c) ==
    CASE vol.type = 12 -> c + c \div 2
      [] vol.type = 16 -> c * 2
      [] vol.type = 32 -> c * 4

\* The address of byte i of the entry of c in a copy of the FAT.
At(copy, c, i) ==
    LET offset == EntryOffset(c) + i
    IN  <<vol.reserved_sector_count + copy * vol.fat_size + offset \div vol.bytes_per_sector,
          offset % vol.bytes_per_sector>>

ByteAt(d, copy, c, i) == d[At(copy, c, i)[1]][At(copy, c, i)[2]]

\* The next cluster, from the first copy.  The top nybble of a FAT32 entry does
\* not belong to it.
fat_get_next_cluster(c) ==
    LET b(i) == ByteAt(disk, 0, c, i)
    IN  CASE vol.type = 12 -> IF c % 2 = 1 THEN (b(0) + 256 * b(1)) \div 16
                              ELSE (b(0) + 256 * b(1)) % 4096
          [] vol.type = 16 -> b(0) + 256 * b(1)
          [] vol.type = 32 -> b(0) + 256 * b(1) + 65536 * b(2) + 16777216 * (b(3) % 16)

\* d with the bytes of the entry of c in a copy set to new[0], new[1], ...
PutBytes(d, copy, c, new) ==
    [s \in DOMAIN d |->
        LET here == {i \in DOMAIN new : At(copy, c, i)[1] = s}
        IN  [o \in DOMAIN d[s] |->
                IF \E i \in here : At(copy, c, i)[2] = o
                THEN new[CHOOSE i \in here : At(copy, c, i)[2] = o]
                ELSE d[s][o]]]

Bug_NeighbourLost(d, copy, c, next) ==
    PutBytes(d, copy, c,
        IF c % 2 = 1 THEN [i \in 0 .. 1 |-> IF i = 0 THEN (next % 16) * 16 ELSE next \div 16]
        ELSE [i \in 0 .. 1 |-> IF i = 0 THEN next % 256 ELSE next \div 256])

\* An odd cluster has the upper three nybbles of its two bytes, an even one the
\* lower three; the remaining nybble belongs to the neighbour.
fat12_set_next_cluster(d, copy, c, next) ==
    LET old(i) == ByteAt(d, copy, c, i)
    IN  PutBytes(d, copy, c,
            IF c % 2 = 1
            THEN [i \in 0 .. 1 |-> IF i = 0 THEN (old(0) % 16) + (next % 16) * 16 ELSE next \div 16]
            ELSE [i \in 0 .. 1 |-> IF i = 0 THEN next % 256
                                   ELSE (old(1) \div 16) * 16 + next \div 256])

Bug_NotTruncated(d, copy, c, next) ==
    PutBytes(d, copy, c, [i \in 0 .. 1 |-> IF i = 0 THEN next ELSE next \div 256])

fat16_set_next_cluster(d, copy, c, next) ==
    PutBytes(d, copy, c, [i \in 0 .. 1 |-> IF i = 0 THEN next % 256 ELSE next \div 256])

Bug_TopNybbleLost(d, copy, c, next) ==
    PutBytes(d, copy, c, [i \in 0 .. 3 |-> (next \div 256^i) % 256])

fat32_set_next_cluster(d, copy, c, next) ==
    PutBytes(d, copy, c,
        [i \in 0 .. 3 |->
            CASE i = 0 -> next % 256
              [] i = 1 -> (next \div 256) % 256
              [] i = 2 -> (next \div 65536) % 256
              [] i = 3 -> (ByteAt(d, copy, c, 3) \div 16) * 16 + next \div 16777216])

SetInCopy(d, copy, c, next) ==
    CASE vol.type = 12 -> fat12_set_next_cluster(d, copy, c, next)
      [] vol.type = 16 -> fat16_set_next_cluster(d, copy, c, next)
      [] vol.type = 32 -> fat32_set_next_cluster(d, copy, c, next)

Bug_FirstCopyOnly(c, next) == SetInCopy(disk, 0, c, next)

\* The disk with next set for c in every copy.
AllCopies(c, next) ==
    LET upTo[n \in 0 .. vol.num_fats] ==
            IF n = 0 THEN disk ELSE SetInCopy(upTo[n - 1], n - 1, c, next)
    IN  upTo[vol.num_fats]

-----------------------------------------------------------------------------

fat_set_next_cluster(c, next) ==
    /\ disk' = AllCopies(c, next)
    /\ link' = [link EXCEPT ![c] = next]
    /\ UNCHANGED bpb

IsFree(c) == c \in 2 .. vol.cluster_count - 1 /\ fat_get_next_cluster(c) = 0

Bug_OnwardOnly(c) ==
    /\ IsFree(c)
    /\ c >= vol.last_cluster_alloc
    /\ \A d \in vol.last_cluster_alloc .. c - 1 : ~IsFree(d)

\* The first free cluster from the one allocated last, then from 2 on.  The
\* search ends below cluster_count, two short of the last cluster.
fat_find_free_cluster(c) ==
    /\ IsFree(c)
    /\ \/ c >= vol.last_cluster_alloc /\ \A d \in vol.last_cluster_alloc .. c - 1 : ~IsFree(d)
       \/ /\ c < vol.last_cluster_alloc /\ \A d \in 2 .. c - 1 : ~IsFree(d)
          /\ \A d \in vol.last_cluster_alloc .. vol.cluster_count - 1 : ~IsFree(d)

\* The first cluster of a file, or the next one of a chain before its link.
Allocate ==
    \E c \in Clusters :
        /\ fat_find_free_cluster(c)
        /\ fat_set_next_cluster(c, fat_eoc[vol.type])
        /\ vol' = [vol EXCEPT !.last_cluster_alloc = c]

\* A cluster is linked behind another, or freed.
Relink(c, next) ==
    /\ link[c] # 0
    /\ fat_set_next_cluster(c, next)
    /\ UNCHANGED vol

\* The bytes that hold the entry of some cluster, in any copy.
EntryBytes == {At(copy, c, i) : copy \in 0 .. vol.num_fats - 1, c \in Clusters,
                                i \in 0 .. (IF vol.type = 32 THEN 3 ELSE 1)}

\* The fourth byte of FAT32 entries, whose top nybble is kept.
TopBytes == IF vol.type # 32 THEN {}
            ELSE {At(copy, c, 3) : copy \in 0 .. vol.num_fats - 1, c \in Clusters}

\* What a formatted volume has in a byte: 0 for a free cluster, some pattern in
\* the top nybbles and outside of the entries.
Formatted(s, o) ==
    IF <<s, o>> \in TopBytes THEN 160 ELSE IF <<s, o>> \in EntryBytes THEN 0 ELSE 165

Init ==
    /\ bpb \in Boots
    /\ vol = fat_vol_init(bpb)
    /\ disk = [s \in 0 .. vol.first_data_sector |->
                  [o \in 0 .. vol.bytes_per_sector - 1 |-> Formatted(s, o)]]
    /\ link = [c \in Clusters |-> 0]

\* Cluster numbers of a large volume, to have every bit of an entry at stake.
Pattern == [t \in {12, 16, 32} |-> CASE t = 12 -> 1443 [] t = 16 -> 23100 [] t = 32 -> 94619617]

Next ==
    \/ Allocate
    \/ \E c \in Clusters, next \in {0, Pattern[vol.type]} : Relink(c, next)

Spec == Init /\ [][Next]_vars

-----------------------------------------------------------------------------
(* Properties *)

\* Every byte written is a byte.
TableTypeOK ==
    /\ bpb \in Boots
    /\ disk \in [0 .. vol.first_data_sector -> [0 .. bpb.bytes_per_sector - 1 -> Byte]]
    /\ link \in [Clusters -> {0, fat_eoc[vol.type], Pattern[vol.type]}]
    /\ vol.last_cluster_alloc \in Clusters

\* Each cluster's entry reads as it was last set, whatever was set next to it,
\* in the same byte or across the end of its sector.
EntriesApart == \A c \in Clusters : fat_get_next_cluster(c) = link[c]

\* What has been written to one copy of the FAT has been written to all.
CopiesAgree ==
    \A s \in 0 .. vol.fat_size - 1, copy \in 1 .. vol.num_fats - 1 :
        disk[vol.reserved_sector_count + copy * vol.fat_size + s]
            = disk[vol.reserved_sector_count + s]

\* Nothing but entries of the FAT is ever written: not the boot sector, the
\* reserved entries, the root directory or the data, nor a top nybble.
RestUntouched ==
    LET entries == EntryBytes
    IN  /\ \A s \in DOMAIN disk : \A o \in DOMAIN disk[s] :
              <<s, o>> \notin entries => disk[s][o] = 165
        /\ \A t \in TopBytes : disk[t[1]][t[2]] \div 16 = 10

\* The clusters lie behind the FATs and the root directory, to the end of the
\* volume and not beyond it, and each has an entry in the FAT.  The handle has
\* the root directory right behind the FATs, if that sector's number fits.
VolumeCovered ==
    LET last == fat_first_sector_of_cluster(vol.cluster_count + 1) + vol.sectors_per_cluster
        root == vol.reserved_sector_count + vol.num_fats * vol.fat_size
    IN  /\ last <= TotalSectors(bpb) /\ TotalSectors(bpb) < last + vol.sectors_per_cluster
        /\ (fat_first_sector_of_cluster(2) - root) * vol.bytes_per_sector
               >= bpb.root_entry_count * DirentLen
        /\ vol.type # 32 /\ root < Short => vol.root_first_sector = root
        /\ \A c \in Clusters : At(0, c, IF vol.type = 32 THEN 3 ELSE 1)[1]
                                 < vol.reserved_sector_count + vol.fat_size

\* An allocation fails only when no cluster but the last two is free.
OnlyTwoWasted ==
    (\A c \in Clusters : ~fat_find_free_cluster(c))
        => \A c \in Clusters : link[c] = 0 => c >= vol.cluster_count

=============================================================================
