----------------------------- MODULE FatVolume ------------------------------
(***************************************************************************)
(* openfat's volume: cluster allocation (write.c), fat_write, fat_read and *)
(* fat_lseek over cluster chains, fat_create and fat_unlink in the current *)
(* directory.  Every loop of the code is a sequence of steps, one for each *)
(* iteration; op is the call in progress.                                  *)
(*                                                                         *)
(* A unit is the size of a directory entry: BPS of them are a sector.  A   *)
(* name takes two, a long name entry and then the short one.  The          *)
(* directory is a cluster chain, as it is on FAT32.  All copies of the     *)
(* FAT are equal: fat stands for each.  Sectors are read and written       *)
(* without errors, through a cache that hides none of its effects.         *)
(* Definitions named Bug_... are plausible mistakes in the definition that *)
(* follows them; no specification uses them.                               *)
(***************************************************************************)
EXTENDS Integers, Sequences, FiniteSets

CONSTANTS
    Files,          \* names in the directory
    Values,         \* what a unit of data holds
    NoFile,         \* the file of a zeroed handle
    Zero,           \* a cleared unit
    LongName, Deleted, \* a long name entry, a deleted short entry
    cluster_count,
    SPC,            \* sectors_per_cluster
    BPS,            \* units in a sector
    first_data_sector,
    Root,           \* first cluster of the directory
    Occupied        \* clusters of other files of the card

Clusters == 2 .. cluster_count + 1
Eoc      == cluster_count + 2       \* fat_eoc: beyond every cluster
Dir      == "cwd"                   \* the directory, as the owner of a chain
Owners   == Files \cup {Dir}

ASSUME VolumeAssumption ==
    /\ cluster_count \in Nat
    /\ SPC \in Nat \ {0}
    /\ BPS \in Nat \ {0}
    /\ first_data_sector \in Nat
    /\ Root \in Clusters
    /\ Occupied \subseteq Clusters \ {Root}
    /\ Dir \notin Files
    /\ NoFile \notin Owners
    /\ NoFile \notin Seq(Values \cup Files \cup {Zero, LongName, Deleted})
    /\ Zero \notin Files \cup {LongName, Deleted}
    /\ LongName \notin Files \cup {Deleted}
    /\ Deleted \notin Files

VARIABLES
    fat,        \* fat[c]: 0 (free), the next cluster of the chain, or Eoc
    last_cluster_alloc,
    entry,      \* entry[f]: the directory entry of f
    disk,       \* the units of the data area
    file, cwd,  \* the caller's handle and the volume's
    op,         \* the call in progress
    chain,      \* history: the clusters of each owner, in order
    clipped     \* history: a write has ended for want of a cluster

vars == <<fat, last_cluster_alloc, entry, disk, file, cwd, op, chain, clipped>>

fat_first_sector_of_cluster(c) == (c - 2) * SPC + first_data_sector

Unit(sector, offset) == sector * BPS + offset
Units == Unit(first_data_sector, 0) .. Unit(fat_first_sector_of_cluster(Eoc), 0) - 1

\* entry[f]: first cluster, size, and the unit of the short entry (dirent_sector
\* and dirent_offset).  They are fields of that unit, so a lookup that rereads it
\* finds them as long as it is still in place: EntriesIntact says that it is, if
\* the volume is aligned and its caller heeds the free space.  Where it has been
\* written over, fat_open and fat_unlink do not find f, and that f could then be
\* created once more is not modelled.
NoEntry   == [first |-> 0, size |-> 0, at |-> -1]
Exists(f) == entry[f] # NoEntry
InDirectory(f) == disk[entry[f].at] = f

\* _fat_file_init
Handle(f, e) == [of |-> f, first |-> e.first, cur |-> e.first, pos |-> 0, size |-> e.size]

\* Every lookup in the directory first rewinds its handle, so where the handle
\* is left by a call is not modelled: between calls it is rewound.
Rewound == Handle(Dir, [first |-> Root, size |-> 0])

Idle == [pc |-> "idle", h |-> NoFile, name |-> NoFile, n |-> 0, sector |-> 0,
         offset |-> 0, val |-> Zero, at |-> 0, cluster |-> 0]

Init ==
    /\ fat = [c \in Clusters |-> IF c = Root \/ c \in Occupied THEN Eoc ELSE 0]
    /\ last_cluster_alloc = 2
    /\ entry = [f \in Files |-> NoEntry]
    /\ disk = [u \in Units |-> Zero]
    /\ file = Handle(NoFile, NoEntry)
    /\ cwd = Rewound
    /\ op = Idle
    /\ chain = [o \in Owners |-> IF o = Dir THEN <<Root>> ELSE <<>>]
    /\ clipped = FALSE

-----------------------------------------------------------------------------
(* Allocation                                                              *)

\* _fat_get_next_cluster and fat_set_next_cluster
NextCluster(c) == fat[c]
Linked(table, c, next) == [table EXCEPT ![c] = next]

\* The last two clusters of the card are never considered.
Free(c) == c \in 2 .. cluster_count - 1 /\ NextCluster(c) = 0

Bug_ExistingIgnored(c) == c \in 2 .. cluster_count - 1 /\ c >= last_cluster_alloc

\* c is the next free cluster from last_cluster_alloc on, or from 2 on.
fat_find_free_cluster(c) ==
    /\ Free(c)
    /\ \/ c >= last_cluster_alloc /\ \A d \in last_cluster_alloc .. c - 1 : ~Free(d)
       \/ /\ \A d \in 2 .. c - 1 : ~Free(d)
          /\ \A d \in last_cluster_alloc .. cluster_count - 1 : ~Free(d)

NoFreeCluster == \A c \in 2 .. cluster_count - 1 : ~Free(c)

\* c becomes the first cluster of o.
StartChain(o, c) ==
    /\ fat_find_free_cluster(c)
    /\ fat' = Linked(fat, c, Eoc)
    /\ last_cluster_alloc' = c
    /\ chain' = [chain EXCEPT ![o] = <<c>>]

Bug_LinkFirst(o, cluster, c) ==
    /\ fat_find_free_cluster(c)
    /\ fat' = Linked(fat, cluster, c)
    /\ last_cluster_alloc' = c
    /\ chain' = [chain EXCEPT ![o] = Append(@, c)]

\* c is linked behind cluster, the last one of o.
ExtendChain(o, cluster, c) ==
    /\ fat_find_free_cluster(c)
    /\ fat' = Linked(Linked(fat, c, Eoc), cluster, c)
    /\ last_cluster_alloc' = c
    /\ chain' = [chain EXCEPT ![o] = Append(@, c)]

-----------------------------------------------------------------------------
(* The call in progress and its handle                                     *)

h == IF op.h = Dir THEN cwd ELSE file

\* The handle of the call becomes x.
SetHandle(x) ==
    IF op.h = Dir THEN cwd' = x /\ UNCHANGED file ELSE file' = x /\ UNCHANGED cwd

\* _fat_file_sector_offset
SectorOf(x) == fat_first_sector_of_cluster(x.cur) + ((x.pos \div BPS) % SPC)
OffsetOf(x) == x.pos % BPS

\* The loop of fat_write or fat_read starts at handle x, n units to go.
Loop(pc, x, n, v) ==
    op' = [op EXCEPT !.pc = pc, !.h = x.of, !.n = n, !.sector = SectorOf(x),
                     !.offset = OffsetOf(x), !.val = v, !.at = Unit(SectorOf(x), OffsetOf(x))]

Least(S) == CHOOSE i \in S : \A j \in S : i <= j

-----------------------------------------------------------------------------
(* fat_open, fat_create, fat_unlink                                        *)

fat_open(f) ==
    /\ op = Idle
    /\ Exists(f) /\ InDirectory(f)
    /\ file' = Handle(f, entry[f])
    /\ UNCHANGED <<fat, last_cluster_alloc, entry, disk, cwd, op, chain, clipped>>

\* The unit that holds position p of o.
Place(o, p) ==
    Unit(fat_first_sector_of_cluster(chain[o][(p \div (SPC * BPS)) + 1]), 0) + (p % (SPC * BPS))

Placed(o, p) == p \div (SPC * BPS) < Len(chain[o])

DirUnit(i) == IF Placed(Dir, i) THEN disk[Place(Dir, i)] ELSE Zero

Bug_AnyDeleted == Least({i \in 0 .. Len(chain[Dir]) * SPC * BPS : DirUnit(i) \in {Zero, Deleted}})

\* _fat_dir_seek_empty: the end of the directory, less a deleted entry just
\* before it, or two deleted entries.  The long name of a deleted file is
\* never removed and keeps its unit.
EmptySlot == Least({i \in 0 .. Len(chain[Dir]) * SPC * BPS :
                       \/ DirUnit(i) = Zero
                       \/ DirUnit(i) = Deleted /\ DirUnit(i + 1) \in {Zero, Deleted}})

\* _fat_dir_create_file finds no f and seeks to the place for its entry.
fat_create(f) ==
    /\ op = Idle
    /\ ~Exists(f)
    /\ cwd' = [cwd EXCEPT !.pos = EmptySlot, !.cur = cwd.first]
    /\ op' = [Idle EXCEPT !.pc = "seek", !.h = Dir, !.name = f, !.n = EmptySlot]
    /\ UNCHANGED <<fat, last_cluster_alloc, entry, disk, file, chain, clipped>>

\* fat_write on the directory: a cluster for the long name entry, or -EIO ...
WriteLongName ==
    /\ op.pc = "seek" /\ op.h = Dir
    /\ op.n < SPC * BPS
    /\ IF cwd.cur \in Clusters
       THEN Loop("write", cwd, 1, LongName) /\ UNCHANGED cwd
       ELSE op' = Idle /\ cwd' = Rewound
    /\ UNCHANGED <<fat, last_cluster_alloc, entry, disk, file, chain, clipped>>

\* ... fat_write of the short entry ...
WriteShortName ==
    /\ op.pc = "write" /\ op.h = Dir
    /\ op.n = 0 /\ op.val = LongName
    /\ Loop("write", cwd, 1, op.name)
    /\ UNCHANGED <<fat, last_cluster_alloc, entry, disk, file, cwd, chain, clipped>>

\* ... and the final fat_open.
CreateReturns ==
    /\ op.pc = "write" /\ op.h = Dir
    /\ op.n = 0 /\ op.val = op.name
    /\ entry' = [entry EXCEPT ![op.name] = [first |-> 0, size |-> 0, at |-> op.at]]
    /\ file' = Handle(op.name, entry'[op.name])
    /\ cwd' = Rewound
    /\ op' = Idle
    /\ UNCHANGED <<fat, last_cluster_alloc, disk, chain, clipped>>

\* Not on the open file: openfat does not know of other handles.
fat_unlink(f) ==
    /\ op = Idle
    /\ Exists(f) /\ InDirectory(f) /\ f # file.of
    /\ op' = [Idle EXCEPT !.pc = "unlink", !.name = f, !.cluster = entry[f].first]
    /\ UNCHANGED <<fat, last_cluster_alloc, entry, disk, file, cwd, chain, clipped>>

Bug_NextAfterFree ==
    /\ op.pc = "unlink"
    /\ op.cluster \in Clusters
    /\ fat' = Linked(fat, op.cluster, 0)
    /\ op' = [op EXCEPT !.cluster = fat'[op.cluster]]
    /\ chain' = [chain EXCEPT ![op.name] = Tail(@)]
    /\ UNCHANGED <<last_cluster_alloc, entry, disk, file, cwd, clipped>>

\* An iteration of fat_chain_unlink.
fat_chain_unlink ==
    /\ op.pc = "unlink"
    /\ op.cluster \in Clusters
    /\ fat' = Linked(fat, op.cluster, 0)
    /\ op' = [op EXCEPT !.cluster = NextCluster(op.cluster)]
    /\ chain' = [chain EXCEPT ![op.name] = Tail(@)]
    /\ UNCHANGED <<last_cluster_alloc, entry, disk, file, cwd, clipped>>

UnlinkReturns ==
    /\ op.pc = "unlink"
    /\ op.cluster \notin Clusters
    /\ disk' = [disk EXCEPT ![entry[op.name].at] = Deleted]
    /\ entry' = [entry EXCEPT ![op.name] = NoEntry]
    /\ op' = Idle
    /\ UNCHANGED <<fat, last_cluster_alloc, file, cwd, chain, clipped>>

-----------------------------------------------------------------------------
(* fat_lseek                                                               *)

Bug_SeekOnward(p) ==
    /\ op = Idle
    /\ file.of # NoFile
    /\ p <= file.size
    /\ file' = [file EXCEPT !.pos = p]
    /\ op' = [Idle EXCEPT !.pc = "seek", !.h = file.of, !.n = p]
    /\ UNCHANGED <<fat, last_cluster_alloc, entry, disk, cwd, chain, clipped>>

fat_lseek(p) ==
    /\ op = Idle
    /\ file.of # NoFile
    /\ p <= file.size
    /\ file' = [file EXCEPT !.pos = p, !.cur = file.first]
    /\ op' = [Idle EXCEPT !.pc = "seek", !.h = file.of, !.n = p]
    /\ UNCHANGED <<fat, last_cluster_alloc, entry, disk, cwd, chain, clipped>>

\* "Iterate over cluster chain to find cluster"
SeekCluster ==
    /\ op.pc = "seek"
    /\ op.n >= SPC * BPS
    /\ h.cur \in Clusters
    /\ SetHandle([h EXCEPT !.cur = NextCluster(h.cur)])
    /\ op' = [op EXCEPT !.n = @ - SPC * BPS]
    /\ UNCHANGED <<fat, last_cluster_alloc, entry, disk, chain, clipped>>

LseekReturns ==
    /\ op.pc = "seek" /\ op.h # Dir
    /\ op.n < SPC * BPS
    /\ op' = Idle
    /\ UNCHANGED <<fat, last_cluster_alloc, entry, disk, file, cwd, chain, clipped>>

-----------------------------------------------------------------------------
(* The loops of fat_write and fat_read                                     *)

Bug_ToSectorEnd == BPS - op.offset

\* The piece of an iteration: what is left, or what fits into the sector.
Piece == IF op.n < BPS - op.offset THEN op.n ELSE BPS - op.offset

\* The handle after it.
Moved == [h EXCEPT !.pos = @ + Piece]

EndsSector  == Moved.pos % BPS = 0

Bug_BeforeIncrement == EndsSector /\ op.sector % SPC = 0

EndsCluster == EndsSector /\ (op.sector + 1) % SPC = 0

ClusterUnits(c) ==
    Unit(fat_first_sector_of_cluster(c), 0) .. Unit(fat_first_sector_of_cluster(c + 1), 0) - 1

\* The piece is written, then the units of cleared are zeroed.
Transfer(cleared) ==
    disk' = [u \in Units |->
        IF u \in cleared THEN Zero
        ELSE IF u - Unit(op.sector, op.offset) \in 0 .. Piece - 1 THEN op.val
        ELSE disk[u]]

\* An iteration that does not reach the end of a cluster.
PieceInCluster ==
    /\ ~EndsCluster
    /\ SetHandle(Moved)
    /\ op' = [op EXCEPT !.n = @ - Piece, !.offset = (@ + Piece) % BPS,
                        !.sector = IF EndsSector THEN @ + 1 ELSE @]

\* One that does, and goes on in cluster next.
PieceToCluster(next) ==
    /\ EndsCluster
    /\ SetHandle([Moved EXCEPT !.cur = next])
    /\ op' = [op EXCEPT !.n = @ - Piece, !.offset = 0,
                        !.sector = fat_first_sector_of_cluster(next)]

\* One that does and is the last, in cluster cur.
PieceThenBreak(cur) ==
    /\ EndsCluster
    /\ SetHandle([Moved EXCEPT !.cur = cur])
    /\ op' = [op EXCEPT !.n = 0]

\* fat_write on the open file.  Without a cluster to start in it returns 0.
fat_write(n, v) ==
    /\ op = Idle
    /\ file.of # NoFile
    /\ \/ /\ file.cur \in Clusters
          /\ Loop("write", file, n, v)
          /\ UNCHANGED <<fat, last_cluster_alloc, file, chain>>
       \/ /\ file.cur = 0
          /\ \E c \in Clusters :
                /\ StartChain(file.of, c)
                /\ file' = [file EXCEPT !.first = c, !.cur = c]
          /\ Loop("write", file', n, v)
    /\ UNCHANGED <<entry, disk, cwd, clipped>>

WriteInCluster ==
    /\ op.pc = "write" /\ op.n > 0
    /\ PieceInCluster
    /\ Transfer({})
    /\ UNCHANGED <<fat, last_cluster_alloc, entry, chain, clipped>>

\* "Return next if already allocated"
WriteToNext ==
    /\ op.pc = "write" /\ op.n > 0
    /\ NextCluster(h.cur) \notin {0, Eoc}
    /\ PieceToCluster(NextCluster(h.cur))
    /\ Transfer({})
    /\ UNCHANGED <<fat, last_cluster_alloc, entry, chain, clipped>>

\* fat_alloc_next_cluster links a free cluster, cleared if the file is empty.
WriteToNew ==
    /\ op.pc = "write" /\ op.n > 0
    /\ NextCluster(h.cur) = Eoc
    /\ \E c \in Clusters :
          /\ PieceToCluster(c)
          /\ ExtendChain(op.h, h.cur, c)
          /\ Transfer(IF h.size = 0 THEN ClusterUnits(c) ELSE {})
    /\ UNCHANGED <<entry, clipped>>

\* "No more free clusters": the position stays behind the last one.
WriteClipped ==
    /\ op.pc = "write" /\ op.n > 0
    /\ NextCluster(h.cur) \in {0, Eoc}
    /\ NextCluster(h.cur) = Eoc => NoFreeCluster
    /\ PieceThenBreak(h.cur)
    /\ Transfer({})
    /\ clipped' = TRUE
    /\ UNCHANGED <<fat, last_cluster_alloc, entry, chain>>

Bug_SizeNotSynced ==
    /\ op.pc = "write" /\ op.h # Dir
    /\ op.n = 0
    /\ file' = [file EXCEPT !.size = IF file.pos > @ THEN file.pos ELSE @]
    /\ op' = Idle
    /\ UNCHANGED <<fat, last_cluster_alloc, entry, disk, cwd, chain, clipped>>

\* The end of fat_write, with fat_file_sync if the file has grown.
WriteReturns ==
    /\ op.pc = "write" /\ op.h # Dir
    /\ op.n = 0
    /\ IF file.pos > file.size
       THEN /\ file' = [file EXCEPT !.size = file.pos]
            /\ entry' = [entry EXCEPT ![file.of].first = file.first, ![file.of].size = file.pos]
       ELSE UNCHANGED <<file, entry>>
    /\ op' = Idle
    /\ UNCHANGED <<fat, last_cluster_alloc, disk, cwd, chain, clipped>>

\* "Don't read past end of file"; an empty file is not read.
fat_read(n) ==
    /\ op = Idle
    /\ file.size > 0
    /\ file.cur \in Clusters
    /\ Loop("read", file, IF file.pos + n > file.size THEN file.size - file.pos ELSE n, Zero)
    /\ UNCHANGED <<fat, last_cluster_alloc, entry, disk, file, cwd, chain, clipped>>

ReadPiece ==
    /\ op.pc = "read" /\ op.n > 0
    /\ \/ PieceInCluster
       \/ NextCluster(h.cur) # Eoc /\ PieceToCluster(NextCluster(h.cur))
       \/ NextCluster(h.cur) = Eoc /\ PieceThenBreak(Eoc)
    /\ UNCHANGED <<fat, last_cluster_alloc, entry, disk, chain, clipped>>

ReadReturns ==
    /\ op.pc = "read"
    /\ op.n = 0
    /\ op' = Idle
    /\ UNCHANGED <<fat, last_cluster_alloc, entry, disk, file, cwd, chain, clipped>>

Next ==
    \/ \E f \in Files : fat_open(f) \/ fat_create(f) \/ fat_unlink(f)
    \/ WriteLongName \/ WriteShortName \/ CreateReturns \/ fat_chain_unlink \/ UnlinkReturns
    \/ \E p \in 0 .. file.size : fat_lseek(p)
    \/ SeekCluster \/ LseekReturns
    \/ \E n \in Nat \ {0}, v \in Values : fat_write(n, v)
    \/ WriteInCluster \/ WriteToNext \/ WriteToNew \/ WriteClipped \/ WriteReturns
    \/ \E n \in Nat \ {0} : fat_read(n)
    \/ ReadPiece \/ ReadReturns

Spec == Init /\ [][Next]_vars

\* A caller that heeds the free space: no more writes once one has used up the
\* card, no new file without a free cluster.
CallerHeeds ==
    /\ op.pc = "idle" /\ op'.pc = "write" => ~clipped
    /\ op.pc = "idle" /\ op'.h = Dir => ~NoFreeCluster

HeedingSpec == Spec /\ [][CallerHeeds]_vars

-----------------------------------------------------------------------------
(* Properties                                                              *)

HandleOK(x) ==
    /\ x.first \in Clusters \cup {0}
    /\ x.cur \in Clusters \cup {0, Eoc}
    /\ x.pos \in Nat
    /\ x.size \in Nat

(* Every FAT entry names a cluster of the volume or ends a chain, and the     *)
(* open handles and directory entries stay within the volume.                 *)
FatTypeOK ==
    /\ fat \in [Clusters -> 0 .. Eoc]
    /\ last_cluster_alloc \in Clusters
    /\ disk \in [Units -> Values \cup Files \cup {Zero, LongName, Deleted}]
    /\ file.of \in Files \cup {NoFile} /\ HandleOK(file)
    /\ cwd.of = Dir /\ HandleOK(cwd)
    /\ op.pc \in {"idle", "seek", "write", "read", "unlink"}
    /\ op.n \in Nat
    /\ \A f \in Files : entry[f].first \in Clusters \cup {0} /\ entry[f].size \in Nat
    /\ chain \in [Owners -> Seq(Clusters)]

\* The clusters of owner o.
In(o) == {chain[o][i] : i \in 1 .. Len(chain[o])}

\* No cluster belongs to two files, or twice to one.
ChainsDisjoint ==
    \A o, p \in Owners : \A i \in 1 .. Len(chain[o]), j \in 1 .. Len(chain[p]) :
        chain[o][i] = chain[p][j] => o = p /\ i = j

\* The FAT holds the chains of the files and the directory, each ended by
\* Eoc, and nothing else is allocated: no cluster is lost.
FatHoldsChains ==
    /\ \A o \in Owners : \A i \in 1 .. Len(chain[o]) :
          fat[chain[o][i]] = IF i = Len(chain[o]) THEN Eoc ELSE chain[o][i + 1]
    /\ \A c \in Clusters : fat[c] # 0 => c \in Occupied \/ \E o \in Owners : c \in In(o)

\* The sector and cluster that the loops of fat_write and fat_read carry from
\* one iteration to the next are those of the position in the file.
InPlace ==
    op.pc \in {"write", "read"} /\ op.n > 0
        => Placed(op.h, h.pos) /\ Unit(op.sector, op.offset) = Place(op.h, h.pos)

\* The short entry of every file is in the directory, behind a long name entry,
\* at the unit where fat_file_sync and fat_unlink will change it and nowhere else.
EntriesIntact ==
    \A f \in Files : Exists(f) =>
        \A i \in 0 .. Len(chain[Dir]) * SPC * BPS - 1 :
            /\ DirUnit(i) = f <=> Place(Dir, i) = entry[f].at
            /\ DirUnit(i) = f => i > 0 /\ DirUnit(i - 1) = LongName

\* What a file holds, by its entry, its chain and, if it is open, its handle.
SizeOf(f) ==
    IF file.of # f THEN entry[f].size
    ELSE IF file.pos > file.size THEN file.pos ELSE file.size

Content(f) ==
    IF ~Exists(f) \/ (op.pc = "unlink" /\ op.name = f) THEN NoFile
    ELSE [i \in 1 .. SizeOf(f) |-> IF Placed(f, i - 1) THEN disk[Place(f, i - 1)] ELSE Zero]

\* The volume keeps the promise of openfat.h: files hold what was written to
\* them, whatever the calls, the chains and the freed clusters.
Promise == INSTANCE FatFiles WITH
    NoContent <- NoFile,
    content   <- [f \in Files |-> Content(f)],
    open      <- file.of,
    position  <- file.pos

KeepsPromise == Promise!FilesSpec

=============================================================================
