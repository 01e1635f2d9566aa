----------------------------- MODULE MCFatTable -----------------------------
(***************************************************************************)
(* FatTable for TLC: volumes of six to eight clusters in sectors of four    *)
(* bytes, with limits that make them FAT12, FAT16 and FAT32.               *)
(***************************************************************************)
EXTENDS FatTable

BPS == 4

EntryBits(count) == IF count < Fat12Limit THEN 12 ELSE IF count < Fat16Limit THEN 16 ELSE 32

CeilDiv(a, b) == (a + b - 1) \div b

\* What a formatter writes for a volume of count clusters and spare sectors;
\* wide: with the 32 bit field of the size in sectors.
Format(count, spc, fats, spare, wide) ==
    LET bits == EntryBits(count)
        size == CeilDiv((count + 2) * bits, BPS * 8)
        root == IF bits = 32 THEN 0 ELSE 3
        total == 1 + fats * size + CeilDiv(root * DirentLen, BPS) + count * spc + spare
    IN  [bytes_per_sector |-> BPS,
         sectors_per_cluster |-> spc,
         reserved_sector_count |-> 1,
         num_fats |-> fats,
         root_entry_count |-> root,
         total_sectors_16 |-> IF wide THEN 0 ELSE total,
         total_sectors_32 |-> IF wide THEN total ELSE 0,
         fat_size_16 |-> IF bits = 32 THEN 0 ELSE size,
         fat_size_32 |-> IF bits = 32 THEN size ELSE 0]

MCBoots ==
    {Format(count, 1, 2, 0, FALSE) : count \in 6 .. 8}
        \cup {Format(6, 2, 1, 1, TRUE), Format(7, 3, 1, 2, TRUE)}

=============================================================================
