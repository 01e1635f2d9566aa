---------------------------- MODULE SectorCache -----------------------------
(***************************************************************************)
(* The one sector buffer of openfat between the file system and the card:  *)
(* FAT_GET_SECTOR, FAT_PUT_SECTOR and FAT_FLUSH_SECTOR, on a partition of  *)
(* the card.  A power cut may undo the sector that was written last, which *)
(* the card reports as written before it has programmed it.                *)
(***************************************************************************)
EXTENDS Integers, Sequences

CONSTANT NoSector   \* the tag of a buffer that caches no sector

VARIABLES
    card,       \* card[l]: the contents of block l of the card
    undo,       \* what a power cut may bring back: a function on the block written last
    first_lba,  \* the first block of the partition
    buf,        \* _fat_sector_buf
    sector,     \* _fat_cache.sector
    dirty       \* _fat_cache.dirty

cache == <<card, undo, first_lba, buf, sector, dirty>>

Mbr == 0

\* mbr_read_sectors and mbr_write_sectors go to this block of the card.
Lba(s) == first_lba + s

\* What the card may hold after a power cut.
Survivors ==
    {card, [l \in DOMAIN card |-> IF l \in DOMAIN undo THEN undo[l] ELSE card[l]]}

WriteSector(s, contents) ==
    /\ card' = [card EXCEPT ![Lba(s)] = contents]
    /\ undo' = [l \in {Lba(s)} |-> card[l]]

WriteBack ==
    IF dirty THEN WriteSector(sector, buf) ELSE UNCHANGED <<card, undo>>

\* The card after the buffer has been made to hold sector s.
MakeRoom(s) == IF sector = s THEN UNCHANGED <<card, undo>> ELSE WriteBack

\* What FAT_GET_SECTOR puts in the buffer.
Loaded(s) == IF sector = s THEN buf ELSE card[Lba(s)]

\* FAT_GET_SECTOR.
Get(s) ==
    /\ MakeRoom(s)
    /\ buf' = Loaded(s)
    /\ sector' = s
    /\ dirty' = (dirty /\ sector = s)
    /\ UNCHANGED first_lba

\* FAT_GET_SECTOR of a sector beyond the card: the buffer keeps its contents.
GetFails ==
    /\ MakeRoom(NoSector)
    /\ sector' = NoSector
    /\ dirty' = FALSE
    /\ UNCHANGED <<first_lba, buf>>

\* FAT_GET_SECTOR, a change of the buffer, and FAT_PUT_SECTOR.
Change(s, contents) ==
    /\ MakeRoom(s)
    /\ buf' = contents
    /\ sector' = s
    /\ dirty' = TRUE
    /\ UNCHANGED first_lba

\* FAT_FLUSH_SECTOR, a buffer filled anew, and FAT_PUT_SECTOR.
Fill(s, contents) ==
    /\ WriteBack
    /\ buf' = contents
    /\ sector' = s
    /\ dirty' = TRUE
    /\ UNCHANGED first_lba

\* FAT_FLUSH_SECTOR.
Flush ==
    /\ WriteBack
    /\ dirty' = FALSE
    /\ UNCHANGED <<first_lba, buf, sector>>

\* block_write_sectors from the buffer, past the cache: the tag stays.
WriteThrough(s, contents) ==
    /\ WriteSector(s, contents)
    /\ buf' = contents
    /\ UNCHANGED <<first_lba, sector, dirty>>

\* The newest contents of sector s.
Current(s) == IF dirty /\ sector = s THEN buf ELSE card[Lba(s)]

=============================================================================
