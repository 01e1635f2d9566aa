----------------------------- MODULE FatUpdates -----------------------------
(***************************************************************************)
(* The order in which mounting, CreateDir, CreateFile and WriteToFile read *)
(* and write the sectors of the card, through the sector buffer, and what  *)
(* a power cut between two sectors leaves.  A step reads or changes one    *)
(* sector.  Clusters are of one sector; a sector of data or of a directory *)
(* has Slots items, a line or an entry each; a copy of the FAT is one      *)
(* sector; every directory is a chain of clusters.  The searches for a     *)
(* free 8.3 name are left out: they read what the first search has read.   *)
(* Definitions named Bug_... are plausible mistakes in the definition that *)
(* follows them; no specification uses them.                               *)
(***************************************************************************)
EXTENDS SectorCache, FiniteSets, Functions

CONSTANTS
    Files,          \* names of log files
    SubDir,         \* the name that CreateDir uses
    NoName,         \* no long name, no open file
    Slots,          \* items of a sector
    cluster_count,  \* as in the volume handle
    num_fats,       \* copies of the FAT
    RootLabels,     \* entries that the root directory has from the start
    FirstLba        \* where the partition begins

ASSUME UpdatesAssumption ==
    /\ {Slots, cluster_count, num_fats, FirstLba} \subseteq Nat \ {0}
    /\ RootLabels \in 0 .. Slots - 1
    /\ NoSector \notin Nat
    /\ SubDir \notin Files /\ NoName \notin Files \cup {SubDir}

VARIABLES
    last_cluster_alloc,
    handle,     \* the handles: the working directory, the log file, fat_mkdir's directory
    op,         \* the call in progress
    lines,      \* lines[f]: how many lines fat_write was given for f (history)
    acked,      \* acked[f]: how many it has returned for (history)
    before,     \* acked before the last call that returned (history)
    torn,       \* a power cut has left an uncleared directory (history)
    cuts        \* the power cuts so far (history)

calls == <<last_cluster_alloc, handle, op>>
history == <<lines, acked, before, torn, cuts>>
vars == <<cache, calls, history>>

-----------------------------------------------------------------------------
(* Sectors and what they hold *)

Clusters == 2 .. cluster_count + 1
Eoc == cluster_count + 2
Root == 2

BootSector == 0
FatSector(copy) == 1 + copy
DataSector(c) == 1 + num_fats + c - 2

Zero == <<"zero">>
Junk == <<"junk">>      \* left on a free cluster by an earlier use
Label == <<"label">>    \* an entry with FAT_ATTR_VOLUME_ID
Dot == <<"dot">>        \* "." and ".."
Long(n) == <<"long", n>>
Short(n, first, size) == <<"short", n, first, size>>
Line(f, i) == <<"line", f, i>>

\* Of the partition table and the boot sector, what is used here.
PartitionAt(l) == <<l>>
RootAt(c) == <<c>>

Zeros == [i \in 1 .. Slots |-> Zero]

\* The long name that fat_readdir has collected before slot i of a sector.
LongBefore(items, name, i) ==
    LET seen == {j \in 1 .. i - 1 : items[j][1] \in {"long", "short", "dot"}}
        j == CHOOSE k \in seen : \A l \in seen : l <= k
    IN  IF seen = {} THEN name
        ELSE IF items[j][1] = "long" THEN items[j][2] ELSE NoName

\* The entries of a sector before the end of the directory.
Entries(items) == {i \in 1 .. Slots : \A j \in 1 .. i : items[j] # Zero}

\* The slots with the short entry of n behind its long name.
Matches(items, name, n) ==
    {i \in Entries(items) : items[i][1] = "short" /\ items[i][2] = n
                               /\ LongBefore(items, name, i) = n}

-----------------------------------------------------------------------------
(* Calls *)

\* A call goes through the stages of todo.  Within a stage, pc is the place in
\* fat_write or in the search of a directory; links are FAT entries to set,
\* items are left to write through handle h, cluster and long are where a
\* search is, first is the cluster of a new directory.
Idle == [call |-> "none", name |-> NoName, todo |-> <<>>, pc |-> "start", links |-> <<>>,
         items |-> <<>>, h |-> "file", cluster |-> 0, long |-> NoName, first |-> 0]

Stage == IF op.todo = <<>> \/ op.links # <<>> THEN "none" ELSE Head(op.todo)

At(stages, pc) == Stage \in stages /\ op.pc = pc

NoHandle == [of |-> NoName, first |-> 0, cur |-> 0, pos |-> 0, size |-> 0, at |-> <<>>]

DirHandle(c) == [NoHandle EXCEPT !.first = c, !.cur = c]

NextStage(o) ==
    IF Len(o.todo) = 1 THEN Idle
    ELSE [o EXCEPT !.todo = Tail(@), !.pc = "start", !.cluster = 0, !.long = NoName]

\* The call fails; CreateDir goes on with fat_chdir.
Failed == IF op.call = "CreateDir" THEN [Idle EXCEPT !.call = op.call, !.name = op.name, !.todo = <<"chdir">>]
          ELSE Idle

Bug_FirstCopyOnly(c, next) == <<[copy |-> 0, cluster |-> c, next |-> next]>>

\* fat_set_next_cluster: the same entry in copy after copy.
SetInCopies(c, next) == [i \in 1 .. num_fats |-> [copy |-> i - 1, cluster |-> c, next |-> next]]

SetLink ==
    /\ op.links # <<>>
    /\ LET l == Head(op.links)
       IN  Change(FatSector(l.copy), [Loaded(FatSector(l.copy)) EXCEPT ![l.cluster] = l.next])
    /\ op' = [op EXCEPT !.links = Tail(@)]
    /\ UNCHANGED <<last_cluster_alloc, handle, history>>

\* The sector that is searched for a free cluster, or for the next one.
Fat == Loaded(FatSector(0))

\* fat_find_free_cluster, or 0.
FreeCluster ==
    LET free == {c \in 2 .. cluster_count - 1 : Fat[c] = 0}
        onward == {c \in free : c >= last_cluster_alloc}
        from == IF onward # {} THEN onward ELSE free
    IN  IF free = {} THEN 0 ELSE CHOOSE c \in from : \A d \in from : c <= d

Took(c) == last_cluster_alloc' = IF c = 0 THEN last_cluster_alloc ELSE c

-----------------------------------------------------------------------------
(* fat_open, fat_chdir, _fat_dir_seek_empty: a walk over the directory *)

Search == {"exists", "open", "chdir"}

Here == IF op.cluster = 0 THEN handle["cwd"].first ELSE op.cluster

\* The entry's handle goes to the caller of fat_open.
Opened(i) ==
    LET e == Loaded(DataSector(Here))[i]
        h == [NoHandle EXCEPT !.of = op.name, !.first = e[3], !.cur = e[3], !.size = e[4],
                              !.at = <<DataSector(Here), i>>]
    IN  handle' = IF Stage = "chdir" THEN [handle EXCEPT !["cwd"] = DirHandle(e[3])]
                  ELSE IF op.name = SubDir THEN [handle EXCEPT !["dir"] = DirHandle(e[3])]
                  ELSE [handle EXCEPT !["file"] = h]

FindEntry ==
    /\ At(Search, "start")
    /\ Get(DataSector(Here))
    /\ \E i \in Matches(Loaded(DataSector(Here)), op.long, op.name) :
          Opened(i)
    /\ op' = IF Stage = "exists" THEN Failed ELSE NextStage(op)
    /\ UNCHANGED <<last_cluster_alloc, history>>

\* The name is not there: what _fat_dir_create_file wants of its first search.
NotFound == IF Stage = "open" THEN Failed ELSE NextStage(op)

EndOfDirectory ==
    /\ At(Search, "start")
    /\ Get(DataSector(Here))
    /\ LET items == Loaded(DataSector(Here))
       IN  Matches(items, op.long, op.name) = {} /\ Cardinality(Entries(items)) < Slots
    /\ op' = NotFound
    /\ UNCHANGED <<last_cluster_alloc, handle, history>>

SeekEmpty ==
    /\ At({"seek"}, "start")
    /\ Get(DataSector(Here))
    /\ LET used == Cardinality(Entries(Loaded(DataSector(Here))))
       IN  /\ used < Slots
           /\ handle' = [handle EXCEPT !["cwd"].cur = Here, !["cwd"].pos = used]
    /\ op' = NextStage(op)
    /\ UNCHANGED <<last_cluster_alloc, history>>

SearchOn ==
    /\ At(Search \cup {"seek"}, "start")
    /\ Get(DataSector(Here))
    /\ LET items == Loaded(DataSector(Here))
       IN  /\ Cardinality(Entries(items)) = Slots
           /\ Stage \in Search => Matches(items, op.long, op.name) = {}
           /\ op' = [op EXCEPT !.pc = "walk", !.cluster = Here,
                               !.long = LongBefore(items, @, Slots + 1)]
    /\ UNCHANGED <<last_cluster_alloc, handle, history>>

Bug_SameCluster ==
    /\ At(Search \cup {"seek"}, "walk")
    /\ Get(FatSector(0))
    /\ op' = IF Fat[op.cluster] = Eoc THEN [op EXCEPT !.pc = "end"]
             ELSE [op EXCEPT !.pc = "start"]
    /\ UNCHANGED <<last_cluster_alloc, handle, history>>

WalkOn ==
    /\ At(Search \cup {"seek"}, "walk")
    /\ Get(FatSector(0))
    /\ op' = IF Fat[op.cluster] = Eoc THEN [op EXCEPT !.pc = "end"]
             ELSE [op EXCEPT !.pc = "start", !.cluster = Fat[@]]
    /\ UNCHANGED <<last_cluster_alloc, handle, history>>

\* A read beyond the chain fails, as its sector is beyond the card.  A search
\* ends; there is no place for a new entry, as the first write of it fails too.
PastEnd ==
    /\ At(Search \cup {"seek"}, "end")
    /\ GetFails
    /\ op' = IF Stage = "seek" THEN Failed ELSE NotFound
    /\ UNCHANGED <<last_cluster_alloc, handle, history>>

-----------------------------------------------------------------------------
(* fat_write *)

H == handle[op.h]

\* What the stages write, and through which handle.
Writing == {"long", "short", "dots", "lines"}

Output(o, stage) ==
    CASE stage = "long" -> [o EXCEPT !.h = "cwd", !.items = <<Long(o.name)>>]
      [] stage = "short" -> [o EXCEPT !.h = "cwd", !.items = <<Short(o.name, o.first, 0)>>]
      [] stage = "dots" -> [o EXCEPT !.h = "dir", !.items = <<Dot, Dot>>]
      [] stage = "lines" -> [o EXCEPT !.h = "file"]

StartWrite ==
    /\ At(Writing, "start")
    /\ op' = [Output(op, Stage) EXCEPT !.pc = IF handle[Output(op, Stage).h].cur = 0
                                              THEN "first" ELSE "item"]
    /\ UNCHANGED <<cache, last_cluster_alloc, handle, history>>

\* The call has returned for all lines of its file.
Acknowledge(h) ==
    IF op.call = "fat_write"
    THEN acked' = [acked EXCEPT ![h.of] = lines[h.of]] /\ before' = acked /\ UNCHANGED <<lines, torn, cuts>>
    ELSE UNCHANGED history

FirstCluster ==
    /\ At(Writing, "first")
    /\ Get(FatSector(0))
    /\ FreeCluster # 0
    /\ Took(FreeCluster)
    /\ handle' = [handle EXCEPT ![op.h].first = FreeCluster, ![op.h].cur = FreeCluster]
    /\ op' = [op EXCEPT !.links = SetInCopies(FreeCluster, Eoc), !.pc = "item"]
    /\ UNCHANGED history

\* The next item, and whether its sector, and so its cluster, is full.
WriteItem ==
    /\ At(Writing, "item")
    /\ LET s == DataSector(H.cur)
       IN  Change(s, [Loaded(s) EXCEPT ![(H.pos % Slots) + 1] = Head(op.items)])
    /\ handle' = [handle EXCEPT ![op.h].pos = @ + 1]
    /\ op' = [op EXCEPT !.items = Tail(@),
                        !.pc = IF (H.pos + 1) % Slots = 0 THEN "next"
                               ELSE IF Len(op.items) > 1 THEN "item" ELSE "size"]
    /\ UNCHANGED <<last_cluster_alloc, history>>

AfterNext == IF op.items = <<>> THEN "size" ELSE "item"

Bug_LinkFirst ==
    /\ At(Writing, "next")
    /\ Get(FatSector(0))
    /\ FreeCluster # 0 /\ Took(FreeCluster)
    /\ handle' = [handle EXCEPT ![op.h].cur = FreeCluster]
    /\ op' = [op EXCEPT !.links = SetInCopies(H.cur, FreeCluster) \o SetInCopies(FreeCluster, Eoc),
                        !.pc = IF H.size = 0 THEN "flush0" ELSE AfterNext]
    /\ UNCHANGED history

\* fat_alloc_next_cluster: the cluster that follows, or else a new one, which
\* gets its end of chain before it is linked, and is cleared behind both if
\* the entry of the file does not have a size yet.
NextCluster ==
    /\ At(Writing, "next")
    /\ Get(FatSector(0))
    /\ LET linked == Fat[H.cur] # Eoc
           next == IF linked THEN Fat[H.cur] ELSE FreeCluster
           links == SetInCopies(next, Eoc) \o SetInCopies(H.cur, next)
       IN  /\ next # 0
           /\ Took(IF linked THEN 0 ELSE next)
           /\ handle' = [handle EXCEPT ![op.h].cur = next]
           /\ op' = [op EXCEPT !.links = IF linked THEN <<>> ELSE links,
                               !.pc = IF ~linked /\ H.size = 0 THEN "flush0" ELSE AfterNext]
    /\ UNCHANGED history

FlushBeforeClear ==
    /\ At(Writing, "flush0")
    /\ Flush
    /\ op' = [op EXCEPT !.pc = "clear"]
    /\ UNCHANGED <<last_cluster_alloc, handle, history>>

ClearCluster ==
    /\ At(Writing, "clear")
    /\ WriteThrough(DataSector(H.cur), Zeros)
    /\ op' = [op EXCEPT !.pc = AfterNext]
    /\ UNCHANGED <<last_cluster_alloc, handle, history>>

Bug_SizeStaysDirty ==
    /\ At(Writing, "size")
    /\ H.at # <<>>
    /\ Change(H.at[1], [Loaded(H.at[1]) EXCEPT ![H.at[2]] = Short(H.of, H.first, H.pos)])
    /\ handle' = [handle EXCEPT ![op.h].size = H.pos]
    /\ op' = NextStage(op)
    /\ Acknowledge(H)
    /\ UNCHANGED last_cluster_alloc

Bug_SizeOfSector ==
    /\ At(Writing, "size")
    /\ H.at # <<>> /\ H.pos > H.size
    /\ Change(H.at[1], [Loaded(H.at[1]) EXCEPT ![H.at[2]] =
                          Short(H.of, H.first, ((H.pos + Slots - 1) \div Slots) * Slots)])
    /\ handle' = [handle EXCEPT ![op.h].size = H.pos]
    /\ op' = [op EXCEPT !.pc = "flush"]
    /\ UNCHANGED <<last_cluster_alloc, history>>

Bug_PastTheBuffer ==
    /\ At(Writing, "size")
    /\ H.at # <<>> /\ H.pos > H.size
    /\ WriteSector(H.at[1], [Current(H.at[1]) EXCEPT ![H.at[2]] = Short(H.of, H.first, H.pos)])
    /\ handle' = [handle EXCEPT ![op.h].size = H.pos]
    /\ op' = [op EXCEPT !.pc = "flush"]
    /\ UNCHANGED <<first_lba, buf, sector, dirty, last_cluster_alloc, history>>

\* fat_file_sync of a file that has grown: the entry in the buffer ...
SyncEntry ==
    /\ At(Writing, "size")
    /\ H.at # <<>> /\ H.pos > H.size
    /\ Change(H.at[1], [Loaded(H.at[1]) EXCEPT ![H.at[2]] = Short(H.of, H.first, H.pos)])
    /\ handle' = [handle EXCEPT ![op.h].size = H.pos]
    /\ op' = [op EXCEPT !.pc = "flush"]
    /\ UNCHANGED <<last_cluster_alloc, history>>

\* ... and on the card, before fat_write returns.
SyncFlush ==
    /\ At(Writing, "flush")
    /\ Flush
    /\ op' = NextStage(op)
    /\ Acknowledge(H)
    /\ UNCHANGED <<last_cluster_alloc, handle>>

\* A directory has no entry to update, nor has a file that has not grown.
WriteReturns ==
    /\ At(Writing, "size")
    /\ ~(H.at # <<>> /\ H.pos > H.size)
    /\ op' = NextStage(op)
    /\ UNCHANGED <<cache, last_cluster_alloc, handle, history>>

-----------------------------------------------------------------------------
(* fat_mkdir *)

\* The cluster of a new directory, between its long and its short name.
DirectoryCluster ==
    /\ At({"cluster"}, "start")
    /\ Get(FatSector(0))
    /\ FreeCluster # 0
    /\ Took(FreeCluster)
    /\ op' = [NextStage(op) EXCEPT !.first = FreeCluster, !.links = SetInCopies(FreeCluster, Eoc)]
    /\ UNCHANGED <<handle, history>>

Bug_NotBlanked ==
    /\ At({"blank"}, "start")
    /\ Flush
    /\ op' = NextStage(op)
    /\ UNCHANGED <<last_cluster_alloc, handle, history>>

\* The entry goes to the card; its cluster is only cleared in the buffer.
BlankDirectory ==
    /\ At({"blank"}, "start")
    /\ Fill(DataSector(handle["dir"].first), Zeros)
    /\ op' = NextStage(op)
    /\ UNCHANGED <<last_cluster_alloc, handle, history>>

-----------------------------------------------------------------------------
(* The callers *)

\* mbr_partition_init reads into the buffer without a tag.
mbr_partition_init ==
    /\ At({"mbr"}, "start")
    /\ buf' = card[Mbr]
    /\ first_lba' = card[Mbr][1]
    /\ op' = NextStage(op)
    /\ UNCHANGED <<card, undo, sector, dirty, last_cluster_alloc, handle, history>>

fat_vol_init ==
    /\ At({"volume"}, "start")
    /\ Get(BootSector)
    /\ last_cluster_alloc' = 2
    /\ handle' = [handle EXCEPT !["cwd"] = DirHandle(Loaded(BootSector)[1])]
    /\ op' = NextStage(op)
    /\ UNCHANGED history

Call(name, n, todo) == op' = [Idle EXCEPT !.call = name, !.name = n, !.todo = todo]

Mounted == first_lba # 0 /\ handle["cwd"].first # 0

OpenFatInit ==
    /\ op = Idle /\ ~Mounted
    /\ Call("OpenFatInit", NoName, <<"mbr", "volume">>)
    /\ UNCHANGED <<cache, last_cluster_alloc, handle, history>>

\* fat_mkdir and fat_chdir, whatever fat_mkdir returns.
CreateDir ==
    /\ op = Idle /\ Mounted /\ handle["cwd"].first = Root
    /\ Call("CreateDir", SubDir,
            <<"exists", "seek", "long", "cluster", "short", "open", "blank", "dots", "chdir">>)
    /\ UNCHANGED <<cache, last_cluster_alloc, handle, history>>

\* In the directory, or in the root if the timeout comes before CreateDir.
CreateFile(f) ==
    /\ op = Idle /\ Mounted
    /\ Call("CreateFile", f, <<"exists", "seek", "long", "short", "open">>)
    /\ UNCHANGED <<cache, last_cluster_alloc, handle, history>>

fat_write(n) ==
    LET f == handle["file"].of
    IN  /\ op = Idle /\ f # NoName
        /\ op' = [Idle EXCEPT !.call = "fat_write", !.name = f, !.todo = <<"lines">>,
                              !.items = [i \in 1 .. n |-> Line(f, lines[f] + i)]]
        /\ lines' = [lines EXCEPT ![f] = @ + n]
        /\ UNCHANGED <<cache, last_cluster_alloc, handle, acked, before, torn, cuts>>

-----------------------------------------------------------------------------
(* The files on a card *)

FatOn(img) == img[FirstLba + FatSector(0)]

ItemsOf(img, c) == img[FirstLba + DataSector(c)]

\* The clusters from c on, of at most as many as there are.
ChainOn(img, c) ==
    LET fat == FatOn(img)
        from[n \in 1 .. cluster_count] == [d \in Clusters |->
            IF n > 1 /\ fat[d] \in Clusters THEN <<d>> \o from[n - 1][fat[d]] ELSE <<d>>]
    IN  IF c \in Clusters THEN from[cluster_count][c] ELSE <<>>

\* The clusters of the chain c1, c2, ... hold these items.
ItemsAlong(img, chain) ==
    [i \in 1 .. Len(chain) * Slots |->
        ItemsOf(img, chain[(i - 1) \div Slots + 1])[((i - 1) % Slots) + 1]]

\* The entry of n that a search of the directory from c finds, if any.
EntryOn(img, c, n) ==
    LET items == ItemsAlong(img, ChainOn(img, c))
        found == {i \in DOMAIN items :
                    /\ items[i][1] = "short" /\ items[i][2] = n
                    /\ i > 1 /\ items[i - 1] = Long(n)
                    /\ \A j \in 1 .. i : items[j] # Zero}
    IN  {items[i] : i \in found}

Directories(img) == {Root} \cup {e[3] : e \in EntryOn(img, Root, SubDir)}

FileEntries(img, f) == UNION {EntryOn(img, d, f) : d \in Directories(img)}

\* A directory has leftovers of an earlier use of its clusters.
Uncleared(img) ==
    \E d \in Directories(img) : \E c \in Range(ChainOn(img, d)) : Junk \in Range(ItemsOf(img, c))

\* The chains that a search reaches, each with its entry.
Chains(img) ==
    LET entries == {Short(NoName, Root, 0)} \cup EntryOn(img, Root, SubDir)
                       \cup UNION {FileEntries(img, f) : f \in Files}
    IN  {<<e, ChainOn(img, e[3])>> : e \in {d \in entries : d[3] # 0}}

SizeOn(img, f) ==
    LET sizes == {e[4] : e \in FileEntries(img, f)} \cup {0}
    IN  CHOOSE n \in sizes : \A m \in sizes : m <= n

-----------------------------------------------------------------------------

FreshCard ==
    [l \in 0 .. FirstLba + DataSector(cluster_count + 1) |->
        IF l = Mbr THEN PartitionAt(FirstLba)
        ELSE IF l < FirstLba THEN Zeros
        ELSE IF l = FirstLba + BootSector THEN RootAt(Root)
        ELSE IF l < FirstLba + DataSector(2)
        THEN [c \in Clusters |-> IF c = Root THEN Eoc ELSE 0]
        ELSE IF l = FirstLba + DataSector(Root)
        THEN [i \in 1 .. Slots |-> IF i <= RootLabels THEN Label ELSE Zero]
        ELSE [i \in 1 .. Slots |-> Junk]]

PowerUp ==
    /\ undo' = <<>> /\ first_lba' = 0
    /\ buf' = Zeros /\ sector' = NoSector /\ dirty' = FALSE
    /\ last_cluster_alloc' = 0
    /\ handle' = [h \in {"cwd", "file", "dir"} |-> NoHandle]
    /\ op' = Idle

Init ==
    /\ card = FreshCard
    /\ undo = <<>> /\ first_lba = 0
    /\ buf = Zeros /\ sector = NoSector /\ dirty = FALSE
    /\ last_cluster_alloc = 0
    /\ handle = [h \in {"cwd", "file", "dir"} |-> NoHandle]
    /\ op = Idle
    /\ lines = [f \in Files |-> 0]
    /\ acked = lines /\ before = lines
    /\ torn = FALSE /\ cuts = 0

\* Power goes and comes back.  What is acknowledged from here on is what can
\* be read.
PowerCut ==
    /\ card' \in Survivors
    /\ PowerUp
    /\ acked' = [f \in Files |-> SizeOn(card', f)]
    /\ before' = acked'
    /\ cuts' = cuts + 1
    /\ torn' = (torn \/ Uncleared(card'))
    /\ UNCHANGED lines

Step ==
    \/ SetLink
    \/ FindEntry \/ EndOfDirectory \/ SeekEmpty \/ SearchOn \/ WalkOn \/ PastEnd
    \/ StartWrite \/ FirstCluster \/ WriteItem \/ NextCluster
    \/ FlushBeforeClear \/ ClearCluster \/ SyncEntry \/ SyncFlush \/ WriteReturns
    \/ DirectoryCluster \/ BlankDirectory
    \/ mbr_partition_init \/ fat_vol_init

\* A file that has lines is not created again: LogFiles has what that does.
Next ==
    \/ Step
    \/ OpenFatInit \/ CreateDir
    \/ \E f \in Files : lines[f] = 0 /\ CreateFile(f)
    \/ \E n \in 1 .. 2 : fat_write(n)
    \/ PowerCut

Spec == Init /\ [][Next]_vars

\* A call that has begun goes on: the driver returns from every block.
Fairness == WF_vars(Step)

-----------------------------------------------------------------------------
(* Properties *)

\* The volume and its handles keep their types: mounting, the buffer's tag and
\* flag, cluster numbers; and no more lines are acknowledged than were written.
UpdatesTypeOK ==
    /\ DOMAIN card = DOMAIN FreshCard
    /\ DOMAIN undo \subseteq DOMAIN card
    /\ sector \in {NoSector} \cup (0 .. DataSector(cluster_count + 1))
    /\ dirty \in BOOLEAN /\ (dirty => sector # NoSector)
    /\ last_cluster_alloc \in {0} \cup Clusters
    /\ \A h \in DOMAIN handle :
          /\ handle[h].first \in {0} \cup Clusters
          /\ handle[h].cur \in {0} \cup Clusters
          /\ handle[h].size \in Nat /\ handle[h].pos \in Nat
    /\ op.cluster \in {0} \cup Clusters
    /\ \A f \in Files : before[f] <= acked[f] /\ acked[f] <= lines[f]

\* The sector that the next step looks at.
Wanted ==
    CASE op.links # <<>> -> FatSector(Head(op.links).copy)
      [] Stage \in Search \cup {"seek"} /\ op.pc = "start" -> DataSector(Here)
      [] Stage \in Writing /\ op.pc = "item" -> DataSector(H.cur)
      [] Stage \in Writing /\ op.pc = "size" /\ H.at # <<>> -> H.at[1]
      [] Stage = "volume" -> BootSector
      [] OTHER -> FatSector(0)

\* A step that takes a sector from the buffer finds its newest contents there,
\* although clearing a cluster goes through the buffer without changing its tag.
NeverStale == first_lba # 0 => Loaded(Wanted) = Current(Wanted)

\* However the power goes, an entry that can be found has no line that the
\* caller did not write there, nor more than its chain holds.
EntriesBehindData ==
    \A img \in Survivors : \A f \in Files : \A e \in FileEntries(img, f) :
        LET items == ItemsAlong(img, ChainOn(img, e[3]))
        IN  /\ e[4] <= Len(items) /\ e[4] <= lines[f]
            /\ \A i \in 1 .. e[4] : items[i] = Line(f, i)

\* What fat_write has returned for can be read after a power cut: all of it if
\* the card has programmed its last sector, all but the last call's otherwise.
Durable ==
    /\ \A f \in Files : SizeOn(card, f) >= acked[f]
    /\ \A img \in Survivors : \A f \in Files : SizeOn(img, f) >= before[f]

\* At every moment the chains on the card end properly and share no cluster.
ChainsApart ==
    \A img \in Survivors :
        LET chains == Chains(img)
        IN  \A p \in chains :
                /\ p[2] # <<>> /\ FatOn(img)[p[2][Len(p[2])]] = Eoc
                /\ Cardinality(Range(p[2])) = Len(p[2])
                /\ \A q \in chains : p # q => Range(p[2]) \cap Range(q[2]) = {}

\* The copies of the FAT on the card never differ in more than the cluster
\* whose entry is being set, and one for each power cut: nothing repairs them.
CopiesOneApart ==
    \A img \in Survivors : \A copy \in 1 .. num_fats - 1 :
        Cardinality({c \in Clusters :
            img[FirstLba + FatSector(copy)][c] # FatOn(img)[c]}) <= cuts + 1

\* Between calls, the newest state of every directory has no leftovers of an
\* earlier use of its clusters, unless a power cut left them.
DirectoriesCleared ==
    op = Idle /\ Mounted /\ ~torn =>
        ~Uncleared([l \in DOMAIN card |-> IF l >= FirstLba THEN Current(l - FirstLba) ELSE card[l]])

\* Every call ends, unless the power goes: no search of a directory runs in
\* circles, none waits for a sector.
CallsEnd == op # Idle ~> op = Idle

=============================================================================
