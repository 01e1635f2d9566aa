-------------------------- MODULE FatUpdatesProofs --------------------------
(***************************************************************************)
(* The sector buffer always holds the newest contents of what is looked    *)
(* at, and what is on the card keeps its kind, for every volume with more  *)
(* than one copy of the FAT, whenever the power goes.  The copies differ   *)
(* in one entry more than there were power cuts, at most.                  *)
(***************************************************************************)
EXTENDS FatUpdates, NatLemmas, SequenceTheorems, FiniteSetTheorems

\* With a single copy the buffer that ClearCluster leaves behind has the tag
\* of the FAT that is searched.
TwoCopies == num_fats > 1

-----------------------------------------------------------------------------
(* What is in the sectors                                                  *)

Opt == {0} \cup Clusters
Links == {0, Eoc} \cup Clusters
Names == Files \cup {SubDir}
Handles == {"cwd", "file", "dir"}

Last == DataSector(cluster_count + 1)
Sectors == 0 .. Last
LastFat == FatSector(num_fats - 1)

\* An entry is of a file, with no more lines than were written, or of the
\* directory, with its cluster.
Sound(x) ==
    /\ x[1] = "long" => x[2] \in Names
    /\ x[1] = "short" =>
          \/ x[2] = SubDir /\ x[3] \in Clusters /\ x[4] = 0
          \/ x[2] \in Files /\ x[3] \in Opt /\ x[4] \in 0 .. lines[x[2]]

FatHolds(d) == d \in [Clusters -> Links]
DataHolds(d) == DOMAIN d = 1 .. Slots /\ \A i \in 1 .. Slots : Sound(d[i])

Holds(s, d) ==
    IF s = BootSector THEN d = RootAt(Root)
    ELSE IF s <= num_fats THEN FatHolds(d) ELSE DataHolds(d)

CardHolds(img) ==
    /\ DOMAIN img = 0 .. FirstLba + Last
    /\ img[Mbr] = PartitionAt(FirstLba)
    /\ \A s \in Sectors : Holds(s, img[FirstLba + s])

UndoHolds ==
    /\ DOMAIN undo \subseteq DOMAIN card
    /\ \A l \in DOMAIN undo : l - FirstLba \in Sectors /\ Holds(l - FirstLba, undo[l])

CacheInv ==
    /\ CardHolds(card) /\ UndoHolds
    /\ first_lba \in {0, FirstLba}
    /\ sector \in {NoSector} \cup Sectors
    /\ dirty \in BOOLEAN
    /\ first_lba = 0 => sector = NoSector /\ ~dirty
    /\ dirty => sector # NoSector /\ Holds(sector, buf)

\* The buffer is not what its tag says.
Stale == ~dirty /\ sector # NoSector /\ buf # card[Lba(sector)]

-----------------------------------------------------------------------------
(* Handles, counts and calls                                               *)

Counts ==
    /\ lines \in [Files -> Nat] /\ acked \in [Files -> Nat] /\ before \in [Files -> Nat]
    /\ \A f \in Files : before[f] <= acked[f] /\ acked[f] <= lines[f]

Places == {<<DataSector(c), i>> : c \in Clusters, i \in 1 .. Slots}

HandleRecords ==
    [of : Files \cup {NoName}, first : Opt, cur : Opt, pos : Nat, size : Nat, at : {<<>>} \cup Places]

HandlesInv ==
    /\ handle \in [Handles -> HandleRecords]
    /\ \A h \in {"cwd", "dir"} : handle[h].of = NoName /\ handle[h].at = <<>>
    /\ LET h == handle["file"]
       IN  /\ h.of = NoName => h.at = <<>>
           /\ h.of # NoName =>
                 h.pos + (IF op.call = "fat_write" THEN Len(op.items) ELSE 0) <= lines[h.of]

StagesOf(call) ==
    CASE call = "OpenFatInit" -> <<"mbr", "volume">>
      [] call = "CreateDir" ->
            <<"exists", "seek", "long", "cluster", "short", "open", "blank", "dots", "chdir">>
      [] call = "CreateFile" -> <<"exists", "seek", "long", "short", "open">>
      [] call = "fat_write" -> <<"lines">>

Stages == Search \cup Writing \cup {"mbr", "volume", "seek", "cluster", "blank"}
Pcs == {"start", "walk", "end", "first", "item", "next", "flush0", "clear", "size", "flush"}
Calls == {"OpenFatInit", "CreateDir", "CreateFile", "fat_write"}

\* What fat_write is given to write.
Written ==
    {Dot} \cup {Long(n) : n \in Names}
      \cup {Short(f, c, 0) : f \in Files, c \in Opt} \cup {Short(SubDir, c, 0) : c \in Clusters}
      \cup {Line(f, i) : f \in Files, i \in Nat}

Link == [copy : 0 .. num_fats - 1, cluster : Clusters, next : Clusters \cup {Eoc}]

Ops ==
    [call : Calls \cup {"none"}, name : Names \cup {NoName}, todo : Seq(Stages), pc : Pcs,
     links : Seq(Link), items : Seq(Written), h : Handles, cluster : Opt,
     long : Names \cup {NoName}, first : Opt]

\* The stage that the call is at, links or not.
Due == IF op.todo = <<>> THEN "none" ELSE Head(op.todo)

HandleOf(stage) ==
    CASE stage \in {"long", "short"} -> "cwd" [] stage = "dots" -> "dir" [] OTHER -> "file"

InCall ==
    /\ op.call = "none" => op = Idle
    /\ op.call # "none" =>
          \E i \in 1 .. Len(StagesOf(op.call)) :
              op.todo = SubSeq(StagesOf(op.call), i, Len(StagesOf(op.call)))
    /\ op.call = "CreateDir" => op.name = SubDir
    /\ op.call \in {"CreateFile", "fat_write"} => op.name \in Files
    /\ op.call = "fat_write" => handle["file"].of # NoName
    /\ op.call = "OpenFatInit" => op.links = <<>>

\* The volume is mounted, and a call has the clusters it needs.
Mounting ==
    /\ Due = "mbr" <=> first_lba = 0 /\ op # Idle
    /\ op = Idle \/ Due = "mbr" => (first_lba = 0 <=> handle["cwd"].first = 0)
    /\ op # Idle /\ op.call # "OpenFatInit" => handle["cwd"].first # 0
    /\ handle["cwd"].first # 0 => handle["cwd"].cur # 0
    /\ handle["file"].of # NoName => handle["cwd"].first # 0
    /\ Due = "short" /\ op.name = SubDir => op.first # 0
    /\ Due \in {"blank", "dots"} => handle["dir"].first # 0 /\ handle["dir"].cur # 0

AtPlace ==
    /\ op.pc = "start" \/ Due \in Search \cup {"seek"} \cup Writing
    /\ Due \in Search \cup {"seek"} => op.pc \in {"start", "walk", "end"}
    /\ op.pc = "walk" => op.cluster # 0
    /\ Due \in Writing => op.pc \notin {"walk", "end"}
    /\ Due \in Writing /\ op.pc # "start" => op.h = HandleOf(Due)
    /\ op.pc \in {"first", "item"} \/ (Due = "lines" /\ op.pc = "start") => op.items # <<>>
    /\ op.pc \in {"item", "next", "flush0", "clear"} => H.cur # 0
    /\ op.pc = "flush" => H.of # NoName
    /\ op.pc = "flush0" => IF op.links = <<>> THEN sector = LastFat
                           ELSE op.links[Len(op.links)].copy = num_fats - 1
    /\ op.pc = "clear" => op.links = <<>> /\ ~dirty /\ sector = LastFat

\* The buffer is only not what its tag says behind ClearCluster, under the tag
\* of the last copy of the FAT.
StaleInv == Stale => sector = LastFat /\ op.links = <<>>

UpdatesInv ==
    /\ CacheInv /\ Counts /\ HandlesInv /\ op \in Ops /\ InCall /\ Mounting /\ AtPlace /\ StaleInv
    /\ last_cluster_alloc \in Opt

-----------------------------------------------------------------------------
(* Sectors, items and stages                                               *)

LEMMA ConstantsAre ==
    /\ cluster_count \in Nat \ {0} /\ Slots \in Nat \ {0}
    /\ num_fats \in Nat \ {0} /\ FirstLba \in Nat \ {0}
    /\ NoSector \notin Nat /\ SubDir \notin Files /\ NoName \notin Names
    /\ \A c \in Clusters : c \in Nat /\ c # 0 /\ c # Eoc
    /\ 0 \notin Clusters /\ Eoc \notin Clusters /\ Eoc # 0 /\ Root \in Clusters
BY UpdatesAssumption DEF Clusters, Eoc, Root, Names

LEMMA SectorsAre ==
    /\ Sectors \subseteq Nat /\ NoSector \notin Sectors
    /\ BootSector \in Sectors /\ \A d : Holds(BootSector, d) <=> d = RootAt(Root)
    /\ \A copy \in 0 .. num_fats - 1 :
          /\ FatSector(copy) \in Sectors
          /\ \A d : Holds(FatSector(copy), d) <=> FatHolds(d)
    /\ \A c \in Clusters :
          /\ DataSector(c) \in Sectors
          /\ \A d : Holds(DataSector(c), d) <=> DataHolds(d)
          /\ \A copy \in 0 .. num_fats - 1 : DataSector(c) # FatSector(copy)
          /\ DataSector(c) # BootSector
    /\ \A copy \in 0 .. num_fats - 1 : FatSector(copy) # BootSector
    /\ 0 \in 0 .. num_fats - 1 /\ num_fats - 1 \in 0 .. num_fats - 1
BY UpdatesAssumption
DEF Sectors, Last, BootSector, FatSector, DataSector, Clusters, Holds

LEMMA ItemsSound ==
    ASSUME Counts
    PROVE  /\ Sound(Zero) /\ Sound(Junk) /\ Sound(Label) /\ Sound(Dot)
           /\ \A x \in Written : Sound(x)
           /\ \A f \in Files, c \in Opt, n \in Nat : n <= lines[f] => Sound(Short(f, c, n))
<1>1. Sound(Zero) /\ Sound(Junk) /\ Sound(Label) /\ Sound(Dot)
    BY DEF Sound, Zero, Junk, Label, Dot
<1>2. \A n \in Names : Sound(Long(n))
    BY DEF Sound, Long
<1>3. \A f \in Files, i \in Nat : Sound(Line(f, i))
    BY DEF Sound, Line
<1>4. \A f \in Files, c \in Opt, n \in Nat : n <= lines[f] => Sound(Short(f, c, n))
    BY DEF Sound, Short, Counts
<1>5. \A c \in Clusters : Sound(Short(SubDir, c, 0))
    BY DEF Sound, Short
<1>6. \A f \in Files, c \in Opt : Sound(Short(f, c, 0))
    BY <1>4 DEF Counts
<1> QED
    BY <1>1, <1>2, <1>3, <1>4, <1>5, <1>6 DEF Written

LEMMA ZerosHold == ASSUME Counts PROVE DataHolds(Zeros)
BY ItemsSound DEF DataHolds, Zeros

LEMMA StagesKnown ==
    /\ StagesOf("OpenFatInit") \in Seq(Stages)
    /\ StagesOf("CreateDir") \in Seq(Stages)
    /\ StagesOf("CreateFile") \in Seq(Stages)
    /\ StagesOf("fat_write") \in Seq(Stages)
<1>1. StagesOf("OpenFatInit") \in Seq(Stages)
    BY DEF StagesOf, Stages
<1>2. StagesOf("CreateDir") \in Seq(Stages)
    BY DEF StagesOf, Stages, Search, Writing
<1>3. StagesOf("CreateFile") \in Seq(Stages)
    BY DEF StagesOf, Stages, Search, Writing
<1>4. StagesOf("fat_write") \in Seq(Stages)
    BY DEF StagesOf, Stages, Writing
<1> QED
    BY <1>1, <1>2, <1>3, <1>4

LEMMA StagesAre ==
    ASSUME InCall, op.call \in Calls \cup {"none"}, op.todo # <<>> \/ op.call # "none"
    PROVE  /\ op.call \in Calls /\ op.todo # <<>> /\ op # Idle
           /\ \E i \in 1 .. Len(StagesOf(op.call)) :
                 /\ op.todo = SubSeq(StagesOf(op.call), i, Len(StagesOf(op.call)))
                 /\ Due = StagesOf(op.call)[i]
                 /\ Len(op.todo) = 1 <=> i = Len(StagesOf(op.call))
                 /\ i < Len(StagesOf(op.call)) =>
                       /\ Tail(op.todo) = SubSeq(StagesOf(op.call), i + 1, Len(StagesOf(op.call)))
                       /\ Tail(op.todo) # <<>> /\ Head(Tail(op.todo)) = StagesOf(op.call)[i + 1]
<1> DEFINE s == StagesOf(op.call)
<1> DEFINE n == Len(s)
<1>1. op.call \in Calls
    BY DEF InCall, Idle
<1>2. s \in Seq(Stages) /\ n \in Nat
    BY <1>1, StagesKnown DEF Calls
<1>3. PICK i \in 1 .. n : op.todo = SubSeq(s, i, n)
    BY <1>1 DEF InCall, Calls
<1> HIDE DEF s, n
<1>4. Head(SubSeq(s, i, n)) = s[i] /\ Tail(SubSeq(s, i, n)) = SubSeq(s, i + 1, n)
    BY <1>2, <1>3, HeadTailOfSubSeq DEF n
<1>5. \A j \in 1 .. n : /\ SubSeq(s, j, n) \in Seq(Stages) /\ Len(SubSeq(s, j, n)) = n - j + 1
    <2> SUFFICES ASSUME NEW j \in 1 .. n
                 PROVE  SubSeq(s, j, n) \in Seq(Stages) /\ Len(SubSeq(s, j, n)) = n - j + 1
        OBVIOUS
    <2>1. j \in Int /\ n \in Int /\ j <= n /\ \A k \in j .. n : s[k] \in Stages
        BY <1>2 DEF n
    <2>2. /\ SubSeq(s, j, n) \in Seq(Stages)
          /\ Len(SubSeq(s, j, n)) = IF j <= n THEN n - j + 1 ELSE 0
        BY <2>1, SubSeqProperties
    <2> QED
        BY <2>1, <2>2
<1>6. \A j \in 1 .. n : SubSeq(s, j, n) # <<>>
    <2>1. \A j \in 1 .. n : Len(SubSeq(s, j, n)) > 0
        BY <1>2, <1>5
    <2>2. ~(Len(<<>>) > 0)
        OBVIOUS
    <2> QED
        BY <2>1, <2>2
<1>7. op.todo # <<>> /\ Due = s[i]
    BY <1>3, <1>4, <1>6 DEF Due
<1>8. Len(op.todo) = 1 <=> i = n
    BY <1>2, <1>3, <1>5
<1>9. i < n => /\ Tail(op.todo) = SubSeq(s, i + 1, n)
               /\ Tail(op.todo) # <<>> /\ Head(Tail(op.todo)) = s[i + 1]
    <2> SUFFICES ASSUME i < n PROVE Tail(op.todo) # <<>> /\ Head(Tail(op.todo)) = s[i + 1]
        BY <1>3, <1>4
    <2>1. i + 1 \in 1 .. n /\ n \in i + 1 .. Len(s)
        BY <1>2, <1>3 DEF n
    <2>2. Head(SubSeq(s, i + 1, n)) = s[i + 1]
        BY <1>2, <2>1, HeadTailOfSubSeq DEF n
    <2> QED
        BY <1>3, <1>4, <1>6, <2>1, <2>2
<1>10. op # Idle
    BY <1>7 DEF Idle
<1> QED
    BY <1>1, <1>3, <1>7, <1>8, <1>9, <1>10 DEF s, n

-----------------------------------------------------------------------------
(* The sector buffer                                                       *)

LEMMA CurrentHolds ==
    ASSUME CacheInv, first_lba = FirstLba, NEW s \in Sectors
    PROVE  /\ Holds(s, Current(s)) /\ Lba(s) \in DOMAIN card /\ Lba(s) = FirstLba + s
           /\ Lba(s) - FirstLba = s
<1>1. s \in Nat /\ FirstLba \in Nat /\ Last \in Nat
    BY ConstantsAre DEF Sectors, Last, DataSector
<1>2. Lba(s) \in DOMAIN card /\ Lba(s) = FirstLba + s /\ Lba(s) - FirstLba = s
    BY <1>1 DEF Lba, CacheInv, CardHolds, Sectors
<1> QED
    BY <1>2 DEF CacheInv, CardHolds, Current

\* What a step takes from the buffer is of the right kind.
LEMMA LoadedHolds ==
    ASSUME CacheInv, StaleInv, first_lba = FirstLba, NEW s \in Sectors,
           s # LastFat \/ op.links # <<>>
    PROVE  Loaded(s) = Current(s) /\ Holds(s, Loaded(s))
<1>1. Loaded(s) = Current(s)
    BY SectorsAre DEF StaleInv, Stale, Loaded, Current, CacheInv
<1> QED
    BY <1>1, CurrentHolds

\* A block of the partition is written with contents of its kind.
LEMMA WriteKeepsCard ==
    ASSUME CacheInv, first_lba = FirstLba, NEW s \in Sectors, NEW d, Holds(s, d),
           WriteSector(s, d), UNCHANGED lines
    PROVE  /\ CardHolds(card)' /\ DOMAIN card' = DOMAIN card
           /\ UndoHolds'
           /\ \A t \in Sectors : card'[FirstLba + t] = IF t = s THEN d ELSE card[FirstLba + t]
<1>1. Lba(s) \in DOMAIN card /\ Lba(s) = FirstLba + s /\ Lba(s) - FirstLba = s
    BY CurrentHolds
<1>2. card' = [card EXCEPT ![FirstLba + s] = d] /\ undo' = [l \in {FirstLba + s} |-> card[l]]
    BY <1>1 DEF WriteSector
<1>3. \A t \in Sectors : t \in Nat /\ FirstLba + t \in DOMAIN card
    BY CurrentHolds, SectorsAre DEF Lba
<1>4. FirstLba \in Nat \ {0} /\ Mbr # FirstLba + s
    BY <1>3, ConstantsAre DEF Mbr
<1>5. DOMAIN card' = DOMAIN card
    BY <1>2
<1>6. \A t \in Sectors : card'[FirstLba + t] = IF t = s THEN d ELSE card[FirstLba + t]
    BY <1>2, <1>3, <1>4
<1>7. \A t, x : Holds(t, x)' <=> Holds(t, x)
    BY DEF Holds, FatHolds, DataHolds, Sound
<1>8. \A t \in Sectors : Holds(t, card'[FirstLba + t])
    BY <1>6 DEF CacheInv, CardHolds
<1>9. card'[Mbr] = card[Mbr]
    BY <1>2, <1>4 DEF CacheInv, CardHolds, Mbr
<1>10. CardHolds(card)'
    BY <1>5, <1>7, <1>8, <1>9 DEF CacheInv, CardHolds
<1>11. Holds(s, card[FirstLba + s])
    BY DEF CacheInv, CardHolds
<1>12. UndoHolds'
    <2>1. DOMAIN undo' = {FirstLba + s} /\ undo'[FirstLba + s] = card[FirstLba + s]
        BY <1>2
    <2>2. (FirstLba + s) - FirstLba = s /\ FirstLba + s \in DOMAIN card'
        BY <1>1, <1>5
    <2> QED
        BY <1>7, <1>11, <2>1, <2>2 DEF UndoHolds
<1> QED
    BY <1>5, <1>6, <1>10, <1>12

\* The buffer is written back if it must be.
LEMMA RoomKeepsCard ==
    ASSUME CacheInv, first_lba = FirstLba, UNCHANGED lines, WriteBack \/ UNCHANGED <<card, undo>>
    PROVE  /\ CardHolds(card)' /\ DOMAIN card' = DOMAIN card
           /\ UndoHolds'
           /\ \A t \in Sectors : t # sector => card'[FirstLba + t] = card[FirstLba + t]
           /\ WriteBack /\ dirty => card'[FirstLba + sector] = buf
           /\ ~dirty => UNCHANGED card
<1>1. CASE UNCHANGED <<card, undo>> /\ ~(WriteBack /\ dirty)
    <2>1. \A t, x : Holds(t, x)' <=> Holds(t, x)
        BY DEF Holds, FatHolds, DataHolds, Sound
    <2> QED
        BY <1>1, <2>1 DEF CacheInv, CardHolds, UndoHolds, WriteBack
<1>2. CASE WriteBack /\ dirty
    <2>1. sector \in Sectors /\ Holds(sector, buf) /\ WriteSector(sector, buf)
        BY <1>2 DEF CacheInv, WriteBack
    <2> QED
        BY <1>2, <2>1, WriteKeepsCard
<1> QED
    BY <1>1, <1>2 DEF WriteBack

LEMMA GetKeeps ==
    ASSUME CacheInv, StaleInv, first_lba = FirstLba, UNCHANGED lines, NEW s \in Sectors,
           s # LastFat \/ op.links # <<>>, Get(s)
    PROVE  CacheInv' /\ ~Stale' /\ first_lba' = FirstLba
<1>1. Loaded(s) = Current(s) /\ Holds(s, Loaded(s)) /\ NoSector \notin Sectors
    BY LoadedHolds, SectorsAre
<1>2. /\ buf' = Loaded(s) /\ sector' = s /\ dirty' = (dirty /\ sector = s)
      /\ first_lba' = FirstLba /\ (WriteBack \/ UNCHANGED <<card, undo>>)
      /\ sector = s => UNCHANGED card
    BY DEF Get, MakeRoom
<1>3. \A t, x : Holds(t, x)' <=> Holds(t, x)
    BY DEF Holds, FatHolds, DataHolds, Sound
<1>4. CacheInv'
    BY <1>1, <1>2, <1>3, RoomKeepsCard, ConstantsAre DEF CacheInv
<1>5. card'[FirstLba + s] = card[FirstLba + s]
    BY <1>2, RoomKeepsCard
<1>6. ~Stale'
    BY <1>1, <1>2, <1>5 DEF Stale, Loaded, Current, Lba
<1> QED
    BY <1>2, <1>4, <1>6

LEMMA ChangeKeeps ==
    ASSUME CacheInv, first_lba = FirstLba, UNCHANGED lines, NEW s \in Sectors, NEW d, Holds(s, d),
           Change(s, d) \/ Fill(s, d)
    PROVE  CacheInv' /\ ~Stale' /\ first_lba' = FirstLba
<1>1. /\ buf' = d /\ sector' = s /\ dirty' = TRUE /\ first_lba' = FirstLba
      /\ WriteBack \/ UNCHANGED <<card, undo>>
    BY DEF Change, Fill, MakeRoom
<1>2. Holds(s, d)'
    BY DEF Holds, FatHolds, DataHolds, Sound
<1> QED
    BY <1>1, <1>2, RoomKeepsCard, ConstantsAre, SectorsAre DEF CacheInv, Stale

LEMMA FailKeeps ==
    ASSUME CacheInv, first_lba = FirstLba, UNCHANGED lines, GetFails
    PROVE  CacheInv' /\ ~Stale' /\ first_lba' = FirstLba
<1>1. /\ sector' = NoSector /\ dirty' = FALSE /\ first_lba' = FirstLba
      /\ WriteBack \/ UNCHANGED <<card, undo>>
    BY DEF GetFails, MakeRoom
<1> QED
    BY <1>1, RoomKeepsCard, ConstantsAre DEF CacheInv, Stale

LEMMA FlushKeeps ==
    ASSUME CacheInv, first_lba = FirstLba, UNCHANGED lines, Flush
    PROVE  CacheInv' /\ (Stale' => Stale) /\ first_lba' = FirstLba /\ sector' = sector /\ ~dirty'
<1>1. /\ sector' = sector /\ dirty' = FALSE /\ first_lba' = FirstLba /\ buf' = buf /\ WriteBack
    BY DEF Flush
<1>2. CacheInv'
    BY <1>1, RoomKeepsCard, ConstantsAre DEF CacheInv
<1>3. Stale' => Stale
    BY <1>1, RoomKeepsCard DEF CacheInv, Stale, Lba
<1> QED
    BY <1>1, <1>2, <1>3

LEMMA ClearKeeps ==
    ASSUME CacheInv, first_lba = FirstLba, UNCHANGED lines, ~dirty,
           NEW s \in Sectors, NEW d, Holds(s, d), WriteThrough(s, d)
    PROVE  CacheInv' /\ first_lba' = FirstLba /\ sector' = sector
<1>1. /\ sector' = sector /\ ~dirty' /\ first_lba' = FirstLba /\ WriteSector(s, d) /\ dirty' = dirty
    BY DEF WriteThrough
<1> QED
    BY <1>1, WriteKeepsCard, ConstantsAre DEF CacheInv

-----------------------------------------------------------------------------
(* From stage to stage                                                     *)

LEMMA StagesFollow ==
    ASSUME NEW call \in Calls, NEW i \in 1 .. Len(StagesOf(call)),
           NEW a, a = StagesOf(call)[i], NEW b, b = StagesOf(call)[i + 1]
    PROVE  /\ a \in Stages
           /\ a \in {"mbr", "volume"} <=> call = "OpenFatInit"
           /\ a = "lines" <=> call = "fat_write"
           /\ a \in {"cluster", "blank", "dots", "chdir"} => call = "CreateDir"
           /\ i = Len(StagesOf(call)) => a \in {"volume", "chdir", "open", "lines"}
           /\ i < Len(StagesOf(call)) =>
                 /\ b \in Stages /\ b \notin {"mbr", "lines"}
                 /\ a = "mbr" <=> b = "volume"
                 /\ a = "cluster" => b = "short"
                 /\ b = "short" => a = "cluster" \/ call = "CreateFile"
                 /\ b = "blank" => a = "open"
                 /\ b = "dots" => a = "blank"
                 /\ b \in {"blank", "dots"} => call = "CreateDir"
                 /\ call # "fat_write"
<1>1. CASE call = "OpenFatInit"
    <2>1. StagesOf(call) = <<"mbr", "volume">>
        BY <1>1 DEF StagesOf
    <2>2. i \in 1 .. 2 /\ Len(StagesOf(call)) = 2
        BY <2>1
    <2> QED
        BY <1>1, <2>1, <2>2 DEF Stages
<1>2. CASE call = "CreateDir"
    <2>1. StagesOf(call) =
              <<"exists", "seek", "long", "cluster", "short", "open", "blank", "dots", "chdir">>
        BY <1>2 DEF StagesOf
    <2>2. i \in 1 .. 9 /\ Len(StagesOf(call)) = 9
        BY <2>1
    <2> QED
        BY <1>2, <2>1, <2>2 DEF Stages, Search, Writing
<1>3. CASE call = "CreateFile"
    <2>1. StagesOf(call) = <<"exists", "seek", "long", "short", "open">>
        BY <1>3 DEF StagesOf
    <2>2. i \in 1 .. 5 /\ Len(StagesOf(call)) = 5
        BY <2>1
    <2> QED
        BY <1>3, <2>1, <2>2 DEF Stages, Search, Writing
<1>4. CASE call = "fat_write"
    <2>1. StagesOf(call) = <<"lines">>
        BY <1>4 DEF StagesOf
    <2>2. i = 1 /\ Len(StagesOf(call)) = 1
        BY <2>1
    <2> QED
        BY <1>4, <2>1, <2>2 DEF Stages, Writing
<1> QED
    BY <1>1, <1>2, <1>3, <1>4 DEF Calls

\* Which call a stage belongs to.
LEMMA DueIs ==
    ASSUME op \in Ops, InCall, op.todo # <<>>
    PROVE  /\ op.call \in Calls /\ op # Idle /\ Due \in Stages
           /\ Due \in {"mbr", "volume"} <=> op.call = "OpenFatInit"
           /\ Due = "lines" <=> op.call = "fat_write"
           /\ Due \in {"cluster", "blank", "dots", "chdir"} => op.call = "CreateDir"
<1>1. op.call \in Calls \cup {"none"}
    BY DEF Ops
<1>2. op.call \in Calls /\ op # Idle
    BY <1>1, StagesAre
<1>3. PICK i \in 1 .. Len(StagesOf(op.call)) : Due = StagesOf(op.call)[i]
    BY <1>1, StagesAre
<1> QED
    BY <1>2, <1>3, StagesFollow

\* The call ends, or goes on with the stage that follows.
LEMMA NextStageIs ==
    ASSUME op \in Ops, InCall, op.todo # <<>>, NEW n, n = NextStage(op)
    PROVE  \/ n = Idle /\ Due \in {"volume", "chdir", "open", "lines"}
           \/ /\ n.call = op.call /\ n.name = op.name /\ n.pc = "start" /\ n.cluster = 0
              /\ n.links = op.links /\ n.items = op.items /\ n.first = op.first
              /\ n \in Ops /\ n.todo # <<>> /\ op.call # "fat_write"
              /\ \E j \in 1 .. Len(StagesOf(op.call)) :
                    n.todo = SubSeq(StagesOf(op.call), j, Len(StagesOf(op.call)))
              /\ \E b \in Stages :
                    /\ b = Head(n.todo) /\ b \notin {"mbr", "lines"}
                    /\ Due = "mbr" <=> b = "volume"
                    /\ Due = "cluster" => b = "short"
                    /\ b = "short" => Due = "cluster" \/ op.call = "CreateFile"
                    /\ b = "blank" => Due = "open"
                    /\ b = "dots" => Due = "blank"
                    /\ b \in {"blank", "dots"} => op.call = "CreateDir"
<1>1. op.call \in Calls
    BY DueIs
<1> DEFINE s == StagesOf(op.call)
<1>2. PICK i \in 1 .. Len(s) :
          /\ Due = s[i]
          /\ Len(op.todo) = 1 <=> i = Len(s)
          /\ i < Len(s) => /\ Tail(op.todo) = SubSeq(s, i + 1, Len(s))
                           /\ Tail(op.todo) # <<>> /\ Head(Tail(op.todo)) = s[i + 1]
    BY <1>1, StagesAre
<1>3. CASE i = Len(s)
    BY <1>1, <1>2, <1>3, StagesFollow DEF NextStage
<1>4. CASE i # Len(s)
    <2>1. i < Len(s) /\ i + 1 \in 1 .. Len(s)
        BY <1>1, <1>2, <1>4, StagesKnown DEF Calls
    <2>2. n = [op EXCEPT !.todo = Tail(@), !.pc = "start", !.cluster = 0, !.long = NoName]
        BY <1>2, <1>4 DEF NextStage
    <2>3. /\ n.todo = Tail(op.todo)
          /\ n.call = op.call /\ n.name = op.name /\ n.pc = "start" /\ n.cluster = 0
          /\ n.links = op.links /\ n.items = op.items /\ n.first = op.first
        BY <2>2 DEF Ops
    <2>4. Tail(op.todo) \in Seq(Stages)
        BY HeadTailProperties DEF Ops
    <2>5. n \in Ops
        BY <2>2, <2>4 DEF Ops, Pcs, Opt
    <2>6. PICK a, b : a = s[i] /\ b = s[i + 1]
        OBVIOUS
    <2>7. /\ b \in Stages /\ op.call # "fat_write"
          /\ b \notin {"mbr", "lines"}
          /\ Due = "mbr" <=> b = "volume"
          /\ Due = "cluster" => b = "short"
          /\ b = "short" => Due = "cluster" \/ op.call = "CreateFile"
          /\ b = "blank" => Due = "open"
          /\ b = "dots" => Due = "blank"
          /\ b \in {"blank", "dots"} => op.call = "CreateDir"
        BY <1>1, <1>2, <2>1, <2>6, StagesFollow
    <2>8. b = Head(n.todo)
        BY <1>2, <2>1, <2>3, <2>6
    <2> QED
        BY <1>2, <2>1, <2>3, <2>5, <2>7, <2>8
<1> QED
    BY <1>3, <1>4

LEMMA IdleIs ==
    /\ Idle \in Ops /\ Idle.call = "none" /\ Idle.todo = <<>> /\ Idle.links = <<>>
    /\ Idle.pc = "start" /\ Idle.items = <<>> /\ Idle.name = NoName /\ Idle.first = 0
<1>1. <<>> \in Seq(Stages) /\ <<>> \in Seq(Link) /\ <<>> \in Seq(Written)
    OBVIOUS
<1> QED
    BY <1>1 DEF Idle, Ops, Pcs, Handles, Opt

\* What the places of a call need of the handles.
Ready(cwd, dir) == cwd.first # 0 /\ cwd.cur # 0 /\ (Due \in {"open", "blank"} /\ op.name = SubDir
                                                      => dir.first # 0 /\ dir.cur # 0)

LEMMA NextStageKeeps ==
    ASSUME op \in Ops, InCall, op.todo # <<>>, op.links = <<>>, op' = NextStage(op),
           first_lba # 0, first_lba' # 0, Due # "cluster",
           Ready(handle'["cwd"], handle'["dir"])
    PROVE  op' \in Ops /\ InCall' /\ Mounting' /\ AtPlace' /\ op'.links = <<>>
<1>1. /\ op.call \in Calls /\ op # Idle
      /\ Due \in {"mbr", "volume"} <=> op.call = "OpenFatInit"
      /\ Due = "lines" <=> op.call = "fat_write"
      /\ Due \in {"cluster", "blank", "dots", "chdir"} => op.call = "CreateDir"
    BY DueIs
<1>2. CASE op' = Idle
    <2>1. /\ op' \in Ops /\ op'.call = "none" /\ op'.todo = <<>> /\ op'.links = <<>>
          /\ op'.pc = "start" /\ op'.items = <<>>
        BY <1>2, IdleIs
    <2>2. Due' = "none"
        BY <2>1 DEF Due
    <2>3. InCall' /\ Mounting'
        BY <1>2, <2>1, <2>2 DEF InCall, Mounting, Ready
    <2>4. AtPlace'
        BY <2>1, <2>2 DEF AtPlace, Search, Writing
    <2> QED
        BY <2>1, <2>3, <2>4
<1>3. CASE op' # Idle
    <2>1. /\ op' \in Ops /\ op'.todo # <<>>
          /\ \E j \in 1 .. Len(StagesOf(op.call)) :
                op'.todo = SubSeq(StagesOf(op.call), j, Len(StagesOf(op.call)))
        BY <1>3, NextStageIs
    <2>2. /\ Due' \in Stages /\ Due' \notin {"mbr", "lines"}
          /\ Due = "mbr" <=> Due' = "volume"
          /\ Due' = "short" => Due = "cluster" \/ op.call = "CreateFile"
          /\ Due' = "blank" => Due = "open"
          /\ Due' = "dots" => Due = "blank"
          /\ Due' \in {"blank", "dots"} => op.call = "CreateDir"
        BY <1>3, <2>1, NextStageIs DEF Due
    <2>3. /\ op'.call = op.call /\ op'.name = op.name /\ op'.pc = "start" /\ op'.links = <<>>
          /\ op'.first = op.first
        BY <1>3, NextStageIs
    <2>4. op.call # "fat_write"
        BY <1>3, NextStageIs
    <2>5. InCall'
        <3>1. op'.call # "none" /\ StagesOf(op'.call) = StagesOf(op.call)
            BY <1>1, <2>3 DEF Calls
        <3> QED
            BY <2>1, <2>3, <2>4, <3>1 DEF InCall
    <2>6. Mounting'
        BY <1>1, <1>3, <2>2, <2>3, ConstantsAre DEF Mounting, Ready, InCall
    <2>7. AtPlace'
        BY <2>2, <2>3 DEF AtPlace
    <2> QED
        BY <2>1, <2>3, <2>5, <2>6, <2>7
<1> QED
    BY <1>2, <1>3

LEMMA FailedKeeps ==
    ASSUME op \in Ops, InCall, op.todo # <<>>, Due \in Search \cup {"seek"}, op' = Failed,
           first_lba # 0, first_lba' # 0, handle'["cwd"].first # 0, handle'["cwd"].cur # 0
    PROVE  op' \in Ops /\ InCall' /\ Mounting' /\ AtPlace' /\ op'.links = <<>>
<1>1. CASE op.call = "CreateDir"
    <2>1. op' = [Idle EXCEPT !.call = op.call, !.name = op.name, !.todo = <<"chdir">>]
        BY <1>1 DEF Failed
    <2>2. /\ op'.call = "CreateDir" /\ op'.name = SubDir /\ op'.todo = <<"chdir">>
          /\ op'.pc = "start" /\ op'.links = <<>> /\ op'.items = <<>>
        BY <1>1, <2>1 DEF Idle, InCall
    <2>3. <<"chdir">> \in Seq(Stages) /\ <<"chdir">> # <<>> /\ Head(<<"chdir">>) = "chdir"
        BY DEF Stages, Search
    <2>4. op' \in Ops
        <3> HIDE DEF Idle
        <3>1. Idle \in Ops /\ SubDir \in Names
            BY IdleIs DEF Names
        <3> QED
            BY <1>1, <2>1, <2>2, <2>3, <3>1 DEF Ops, Calls
    <2>5. Due' = "chdir"
        BY <2>2, <2>3 DEF Due
    <2>6. \E i \in 1 .. Len(StagesOf("CreateDir")) :
              <<"chdir">> = SubSeq(StagesOf("CreateDir"), i, Len(StagesOf("CreateDir")))
        <3> DEFINE s == StagesOf("CreateDir")
        <3>1. s = <<"exists", "seek", "long", "cluster", "short", "open", "blank", "dots", "chdir">>
            BY DEF StagesOf
        <3>2. Len(s) = 9 /\ s[9] = "chdir"
            BY <3>1
        <3> HIDE DEF s
        <3>3. /\ SubSeq(s, 9, 9) \in Seq({"chdir"}) /\ Len(SubSeq(s, 9, 9)) = 1
              /\ SubSeq(s, 9, 9)[1] = "chdir"
            <4>1. 9 \in Int /\ \A i \in 9 .. 9 : s[i] \in {"chdir"}
                BY <3>2
            <4>2. /\ SubSeq(s, 9, 9) \in Seq({"chdir"})
                  /\ Len(SubSeq(s, 9, 9)) = IF 9 <= 9 THEN 9 - 9 + 1 ELSE 0
                  /\ \A i \in 1 .. 9 - 9 + 1 : SubSeq(s, 9, 9)[i] = s[9 + i - 1]
                BY <4>1, SubSeqProperties
            <4> QED
                BY <3>2, <4>2
        <3>4. SubSeq(s, 9, 9) = <<"chdir">>
            <4>1. /\ <<"chdir">> \in Seq({"chdir"}) /\ Len(<<"chdir">>) = 1
                  /\ <<"chdir">>[1] = "chdir"
                OBVIOUS
            <4>2. /\ Len(SubSeq(s, 9, 9)) = Len(<<"chdir">>)
                  /\ \A i \in 1 .. Len(SubSeq(s, 9, 9)) : SubSeq(s, 9, 9)[i] = <<"chdir">>[i]
                BY <3>3, <4>1
            <4> QED
                BY <3>3, <4>1, <4>2, SeqEqual
        <3> QED
            BY <3>2, <3>4 DEF s
    <2>7. InCall'
        BY <2>2, <2>6 DEF InCall
    <2>8. Mounting'
        BY <2>2, <2>3, <2>5 DEF Mounting, Idle
    <2>9. AtPlace'
        BY <2>2, <2>5 DEF AtPlace, Search, Writing
    <2> QED
        BY <2>2, <2>4, <2>7, <2>8, <2>9
<1>2. CASE op.call # "CreateDir"
    <2>1. op' = Idle
        BY <1>2 DEF Failed
    <2>2. /\ op' \in Ops /\ op'.call = "none" /\ op'.todo = <<>> /\ op'.links = <<>>
          /\ op'.pc = "start" /\ op'.items = <<>>
        BY <2>1, IdleIs
    <2>3. Due' = "none"
        BY <2>2 DEF Due
    <2>4. InCall' /\ Mounting' /\ AtPlace'
        BY <2>1, <2>2, <2>3 DEF InCall, Mounting, AtPlace, Search, Writing
    <2> QED
        BY <2>2, <2>4
<1> QED
    BY <1>1, <1>2

\* A step within a stage.
LEMMA StayKeeps ==
    ASSUME op \in Ops, InCall, Mounting, op.todo # <<>>, op.call # "OpenFatInit", op' \in Ops,
           op'.call = op.call, op'.name = op.name, op'.todo = op.todo, op'.first = op.first,
           first_lba' = first_lba, handle'["file"].of = handle["file"].of,
           \A h \in {"cwd", "dir"} : /\ handle[h].first # 0 => handle'[h].first # 0
                                     /\ handle[h].cur # 0 => handle'[h].cur # 0
    PROVE  InCall' /\ Mounting' /\ Due' = Due
<1>1. op # Idle /\ op.call \in Calls /\ op.call # "none" /\ op' # Idle
    BY DueIs DEF Calls, Idle
<1>2. Due' = Due
    BY DEF Due
<1>3. StagesOf(op'.call) = StagesOf(op.call)
    OBVIOUS
<1>4. InCall'
    BY <1>1, <1>3 DEF InCall
<1>5. Mounting'
    BY <1>1, <1>2, DueIs DEF Mounting
<1> QED
    BY <1>2, <1>4, <1>5

LEMMA AtIs ==
    ASSUME NEW stages, NEW pc, At(stages, pc), "none" \notin stages
    PROVE  op.links = <<>> /\ op.todo # <<>> /\ Due \in stages /\ Stage = Due /\ op.pc = pc
BY DEF At, Stage, Due

\* In a call on a mounted volume.
LEMMA Busy ==
    ASSUME UpdatesInv, op.todo # <<>>, Due \notin {"mbr", "volume"}
    PROVE  /\ first_lba = FirstLba /\ first_lba # 0 /\ op.call # "OpenFatInit" /\ op # Idle
           /\ handle["cwd"].first \in Clusters /\ handle["cwd"].cur \in Clusters
           /\ Here \in Clusters
<1>1. op # Idle /\ op.call # "OpenFatInit" /\ op.call \in Calls
    BY DueIs DEF UpdatesInv
<1>2. first_lba = FirstLba /\ first_lba # 0
    BY <1>1, ConstantsAre DEF UpdatesInv, Mounting, CacheInv
<1>3. handle["cwd"].first # 0 /\ handle["cwd"].cur # 0
    BY <1>1 DEF UpdatesInv, Mounting
<1>4. handle["cwd"] \in HandleRecords
    BY DEF UpdatesInv, HandlesInv, Handles
<1>5. handle["cwd"].first \in Clusters /\ handle["cwd"].cur \in Clusters
    BY <1>3, <1>4 DEF HandleRecords, Opt
<1>6. op.cluster \in Opt
    BY DEF UpdatesInv, Ops
<1> QED
    BY <1>1, <1>2, <1>5, <1>6 DEF Here, Opt

LEMMA HandlesStay ==
    ASSUME HandlesInv, Counts, op \in Ops, UNCHANGED <<handle, lines>>,
           (op'.call = op.call /\ op'.items = op.items) \/ op'.call # "fat_write"
    PROVE  HandlesInv'
<1>1. Len(op.items) \in Nat
    BY DEF Ops
<1>2. handle["file"] \in HandleRecords /\ handle["file"].pos \in Nat
    BY DEF HandlesInv, Handles, HandleRecords
<1>3. handle["file"].of # NoName =>
          handle["file"].of \in Files /\ lines[handle["file"].of] \in Nat
    BY <1>2 DEF HandleRecords, Counts
<1>4. handle["file"].of # NoName =>
          handle["file"].pos + (IF op'.call = "fat_write" THEN Len(op'.items) ELSE 0)
              <= lines[handle["file"].of]
    BY <1>1, <1>2, <1>3 DEF HandlesInv
<1> QED
    BY <1>4 DEF HandlesInv

-----------------------------------------------------------------------------
(* The steps                                                               *)

LEMMA NotLastFat ==
    ASSUME TwoCopies
    PROVE  /\ FatSector(0) # LastFat /\ BootSector # LastFat /\ LastFat \in Sectors
           /\ \A c \in Clusters : DataSector(c) # LastFat
BY SectorsAre, ConstantsAre DEF TwoCopies, LastFat, FatSector

LEMMA SetLinkKeeps ==
    ASSUME UpdatesInv, SetLink
    PROVE  UpdatesInv'
<1> DEFINE l == Head(op.links)
<1> DEFINE s == FatSector(l.copy)
<1>1. op.links \in Seq(Link) /\ op.links # <<>> /\ op \in Ops /\ op' = [op EXCEPT !.links = Tail(@)]
    BY DEF UpdatesInv, SetLink, Ops
<1>2. /\ l \in Link /\ Tail(op.links) \in Seq(Link) /\ Len(op.links) \in Nat \ {0}
      /\ Len(Tail(op.links)) = Len(op.links) - 1
      /\ \A i \in 1 .. Len(Tail(op.links)) : Tail(op.links)[i] = op.links[i + 1]
    BY <1>1, HeadTailProperties
<1>3. /\ op' \in Ops /\ op'.call = op.call /\ op'.name = op.name /\ op'.todo = op.todo
      /\ op'.pc = op.pc /\ op'.h = op.h /\ op'.items = op.items /\ op'.first = op.first
      /\ op'.cluster = op.cluster /\ op'.links = Tail(op.links)
    BY <1>1, <1>2 DEF Ops
<1>4. op.call # "none" /\ op.call # "OpenFatInit"
    BY <1>1, IdleIs DEF UpdatesInv, InCall
<1>5. op.todo # <<>> /\ Due \notin {"mbr", "volume"}
    BY <1>1, <1>4, StagesAre, DueIs DEF UpdatesInv, Ops
<1>6. first_lba = FirstLba /\ first_lba # 0
    BY <1>5, Busy
<1>7. s \in Sectors /\ FatHolds(Loaded(s))
    BY <1>1, <1>2, <1>6, SectorsAre, LoadedHolds DEF UpdatesInv, Link
<1>8. FatHolds([Loaded(s) EXCEPT ![l.cluster] = l.next])
    BY <1>2, <1>7 DEF FatHolds, Link, Links
<1>9. UNCHANGED <<last_cluster_alloc, handle, lines, acked, before>>
    BY DEF SetLink, history
<1>10. CacheInv' /\ ~Stale' /\ first_lba' = FirstLba
    BY <1>2, <1>6, <1>7, <1>8, <1>9, SectorsAre, ChangeKeeps DEF UpdatesInv, SetLink, Link
<1>11. sector' = s
    BY DEF SetLink, Change
<1>12. InCall' /\ Mounting' /\ Due' = Due
    BY <1>3, <1>4, <1>5, <1>6, <1>9, <1>10, StayKeeps DEF UpdatesInv
<1>13. HandlesInv' /\ Counts'
    BY <1>3, <1>9, HandlesStay DEF UpdatesInv, Counts
<1>14. op.pc = "flush0" => IF op'.links = <<>> THEN s = LastFat
                           ELSE op'.links[Len(op'.links)].copy = num_fats - 1
    <2> SUFFICES ASSUME op.pc = "flush0"
                 PROVE  IF Tail(op.links) = <<>> THEN s = LastFat
                        ELSE Tail(op.links)[Len(Tail(op.links))].copy = num_fats - 1
        BY <1>3
    <2>1. op.links[Len(op.links)].copy = num_fats - 1
        BY <1>1 DEF UpdatesInv, AtPlace
    <2>2. CASE Tail(op.links) = <<>>
        <3>1. Len(<<>>) = 0
            OBVIOUS
        <3>2. Len(Tail(op.links)) = 0
            BY <2>2, <3>1
        <3>3. Len(op.links) = 1
            BY <1>2, <3>2
        <3> QED
            BY <1>1, <2>1, <2>2, <3>3 DEF LastFat
    <2>3. CASE Tail(op.links) # <<>>
        <3>1. Len(Tail(op.links)) \in 1 .. Len(Tail(op.links))
            BY <1>2, <2>3, EmptySeq
        <3> QED
            BY <1>2, <2>1, <2>3, <3>1
    <2> QED
        BY <2>2, <2>3
<1>15. AtPlace'
    BY <1>1, <1>3, <1>9, <1>11, <1>12, <1>14 DEF UpdatesInv, AtPlace, H
<1> QED
    BY <1>3, <1>9, <1>10, <1>12, <1>13, <1>15 DEF UpdatesInv, StaleInv

\* A search reads a sector of the directory.
LEMMA DirectoryRead ==
    ASSUME TwoCopies, UpdatesInv, NEW stages, At(stages, "start"), stages \subseteq Search \cup {"seek"},
           Get(DataSector(Here)), UNCHANGED lines
    PROVE  /\ op.links = <<>> /\ op.todo # <<>> /\ Due \in stages /\ Stage = Due
           /\ first_lba # 0 /\ first_lba' = first_lba /\ op.call \in {"CreateDir", "CreateFile"}
           /\ handle["cwd"].first \in Clusters /\ handle["cwd"].cur \in Clusters /\ Here \in Clusters
           /\ DataHolds(Loaded(DataSector(Here))) /\ CacheInv' /\ ~Stale'
<1>1. /\ op.links = <<>> /\ op.todo # <<>> /\ Due \in stages /\ Stage = Due
      /\ Due \notin {"mbr", "volume", "lines"}
    BY AtIs DEF Search
<1>2. /\ first_lba = FirstLba /\ first_lba # 0 /\ op.call # "OpenFatInit" /\ Here \in Clusters
      /\ handle["cwd"].first \in Clusters /\ handle["cwd"].cur \in Clusters
    BY <1>1, Busy
<1>3. op.call \in {"CreateDir", "CreateFile"}
    BY <1>1, <1>2, DueIs DEF UpdatesInv, Calls
<1>4. DataSector(Here) \in Sectors /\ DataSector(Here) # LastFat
    BY <1>2, SectorsAre, NotLastFat
<1>5. DataHolds(Loaded(DataSector(Here)))
    BY <1>2, <1>4, SectorsAre, LoadedHolds DEF UpdatesInv
<1>6. CacheInv' /\ ~Stale' /\ first_lba' = FirstLba
    BY <1>2, <1>4, GetKeeps DEF UpdatesInv
<1> QED
    BY <1>1, <1>2, <1>3, <1>5, <1>6

\* A search that ends without its entry.
LEMMA SearchEnds ==
    ASSUME UpdatesInv, op.links = <<>>, op.todo # <<>>, Due \in Search \cup {"seek"},
           op.call \in {"CreateDir", "CreateFile"}, first_lba # 0, first_lba' = first_lba,
           handle["cwd"].first \in Clusters, handle["cwd"].cur \in Clusters,
           UNCHANGED <<last_cluster_alloc, handle, lines, acked, before>>, CacheInv', ~Stale',
           op' = Failed \/ (Due \in {"exists", "chdir"} /\ op' = NextStage(op))
    PROVE  UpdatesInv'
<1>1. op \in Ops /\ InCall /\ handle'["cwd"].first # 0 /\ handle'["cwd"].cur # 0
    BY ConstantsAre DEF UpdatesInv
<1>2. op' \in Ops /\ InCall' /\ Mounting' /\ AtPlace'
    <2>1. CASE op' = Failed
        BY <1>1, <2>1, FailedKeeps
    <2>2. CASE Due \in {"exists", "chdir"} /\ op' = NextStage(op)
        <3>1. Due \notin {"open", "blank", "cluster"} /\ Ready(handle'["cwd"], handle'["dir"])
            BY <1>1, <2>2 DEF Ready
        <3> QED
            BY <1>1, <2>2, <3>1, NextStageKeeps
    <2> QED
        BY <2>1, <2>2
<1>3. op'.call # "fat_write"
    <2>1. op'.call \in {op.call, "none"}
        BY <1>1, NextStageIs, IdleIs DEF Failed, Idle
    <2> QED
        BY <2>1
<1>4. HandlesInv' /\ Counts'
    BY <1>3, HandlesStay DEF UpdatesInv, Counts
<1> QED
    BY <1>2, <1>4 DEF UpdatesInv, StaleInv

LEMMA EndOfDirectoryKeeps ==
    ASSUME TwoCopies, UpdatesInv, EndOfDirectory
    PROVE  UpdatesInv'
<1>1. /\ At(Search, "start") /\ Get(DataSector(Here)) /\ op' = NotFound
      /\ UNCHANGED <<last_cluster_alloc, handle, lines, acked, before>>
    BY DEF EndOfDirectory, history
<1>2. /\ op.links = <<>> /\ op.todo # <<>> /\ Due \in Search /\ Stage = Due
      /\ first_lba # 0 /\ first_lba' = first_lba /\ op.call \in {"CreateDir", "CreateFile"}
      /\ handle["cwd"].first \in Clusters /\ handle["cwd"].cur \in Clusters
      /\ CacheInv' /\ ~Stale'
    BY <1>1, DirectoryRead
<1>3. op' = Failed \/ (Due \in {"exists", "chdir"} /\ op' = NextStage(op))
    BY <1>1, <1>2 DEF NotFound, Search
<1> QED
    BY <1>1, <1>2, <1>3, SearchEnds

LEMMA PastEndKeeps ==
    ASSUME TwoCopies, UpdatesInv, PastEnd
    PROVE  UpdatesInv'
<1>1. /\ At(Search \cup {"seek"}, "end") /\ GetFails
      /\ op' = IF Stage = "seek" THEN Failed ELSE NotFound
      /\ UNCHANGED <<last_cluster_alloc, handle, lines, acked, before>>
    BY DEF PastEnd, history
<1>2. /\ op.links = <<>> /\ op.todo # <<>> /\ Due \in Search \cup {"seek"} /\ Stage = Due
      /\ Due \notin {"mbr", "volume", "lines"}
    BY <1>1, AtIs DEF Search
<1>3. /\ first_lba = FirstLba /\ first_lba # 0 /\ op.call # "OpenFatInit"
      /\ handle["cwd"].first \in Clusters /\ handle["cwd"].cur \in Clusters
    BY <1>2, Busy
<1>4. op.call \in {"CreateDir", "CreateFile"}
    BY <1>2, <1>3, DueIs DEF UpdatesInv, Calls
<1>5. CacheInv' /\ ~Stale' /\ first_lba' = FirstLba
    BY <1>1, <1>3, FailKeeps DEF UpdatesInv
<1>6. op' = Failed \/ (Due \in {"exists", "chdir"} /\ op' = NextStage(op))
    BY <1>1, <1>2 DEF NotFound, Search
<1> QED
    BY <1>1, <1>2, <1>3, <1>4, <1>5, <1>6, SearchEnds

\* Without lines to write, the position stays within the lines.
LEMMA FileFits ==
    ASSUME UpdatesInv
    PROVE  /\ handle["file"].of # NoName => handle["file"].pos <= lines[handle["file"].of]
           /\ handle["file"].of = NoName => handle["file"].at = <<>>
<1>1. handle["file"] \in HandleRecords /\ handle["file"].pos \in Nat /\ Len(op.items) \in Nat
    BY DEF UpdatesInv, HandlesInv, Handles, HandleRecords, Ops
<1>2. handle["file"].of # NoName =>
          handle["file"].of \in Files /\ lines[handle["file"].of] \in Nat
    BY <1>1 DEF HandleRecords, UpdatesInv, Counts
<1> QED
    BY <1>1, <1>2 DEF UpdatesInv, HandlesInv

LEMMA GreatestOfNat ==
    ASSUME NEW n \in Nat, NEW T \in SUBSET (0 .. n), T # {}
    PROVE  \E x \in T : \A y \in T : y <= x
<1> DEFINE R == {n - k : k \in T}
<1>1. R \in SUBSET Nat /\ R # {}
    <2>1. \A k \in T : n - k \in Nat
        OBVIOUS
    <2>2. PICK k \in T : TRUE
        OBVIOUS
    <2>3. n - k \in R
        OBVIOUS
    <2> QED
        BY <2>1, <2>3
<1>2. PICK r \in R : \A t \in R : r <= t
    BY <1>1, LeastOfNat
<1>3. PICK x \in T : r = n - x
    BY <1>2
<1>4. \A y \in T : n - x <= n - y
    BY <1>2, <1>3
<1> QED
    BY <1>3, <1>4

LEMMA EntriesCounted ==
    ASSUME NEW items
    PROVE  Cardinality(Entries(items)) \in 0 .. Slots
<1>1. IsFiniteSet(1 .. Slots) /\ Cardinality(1 .. Slots) = Slots
    BY ConstantsAre, FS_Interval
<1>2. Entries(items) \subseteq 1 .. Slots
    BY DEF Entries
<1>3. IsFiniteSet(Entries(items)) /\ Cardinality(Entries(items)) <= Slots
    BY <1>1, <1>2, FS_Subset
<1> QED
    BY <1>3, ConstantsAre, FS_CardinalityType

LEMMA LongKnown ==
    ASSUME NEW items, DataHolds(items), NEW name \in Names \cup {NoName}, NEW i \in 1 .. Slots + 1
    PROVE  LongBefore(items, name, i) \in Names \cup {NoName}
<1> DEFINE seen == {j \in 1 .. i - 1 : items[j][1] \in {"long", "short", "dot"}}
<1> DEFINE j == CHOOSE k \in seen : \A l \in seen : l <= k
<1>1. CASE seen # {}
    <2>1. seen \in SUBSET (0 .. Slots) /\ seen \subseteq 1 .. Slots
        BY ConstantsAre
    <2>2. \E k \in seen : \A l \in seen : l <= k
        BY <1>1, <2>1, ConstantsAre, GreatestOfNat
    <2>3. j \in seen
        BY <2>2
    <2> HIDE DEF j
    <2>4. items[j][1] = "long" => items[j][2] \in Names
        BY <2>1, <2>3 DEF DataHolds, Sound
    <2>5. LongBefore(items, name, i) = IF items[j][1] = "long" THEN items[j][2] ELSE NoName
        BY <1>1 DEF LongBefore, j
    <2> QED
        BY <2>4, <2>5
<1>2. CASE seen = {}
    BY <1>2 DEF LongBefore
<1> QED
    BY <1>1, <1>2

\* A call that reads the directory for a name.
LEMMA NameSought ==
    ASSUME UpdatesInv, op.call \in {"CreateDir", "CreateFile"}
    PROVE  /\ op.name \in Names
           /\ op.call = "CreateDir" <=> op.name = SubDir
           /\ op.call = "CreateFile" <=> op.name \in Files
BY ConstantsAre DEF UpdatesInv, InCall, Names

\* What the directory has under the name is the entry of a file or directory.
LEMMA EntryFound ==
    ASSUME UpdatesInv, NEW items, DataHolds(items), NEW i \in Matches(items, op.long, op.name),
           op.call \in {"CreateDir", "CreateFile"}
    PROVE  /\ i \in 1 .. Slots
           /\ op.name = SubDir => items[i][3] \in Clusters
           /\ op.name # SubDir =>
                 /\ op.name \in Files
                 /\ items[i][3] \in Opt /\ items[i][4] \in 0 .. lines[op.name]
<1>1. i \in 1 .. Slots /\ items[i][1] = "short" /\ items[i][2] = op.name
    BY DEF Matches, Entries
<1>2. Sound(items[i])
    BY <1>1 DEF DataHolds
<1> QED
    BY <1>1, <1>2, NameSought, ConstantsAre DEF Sound, Names

LEMMA DirHandleIs ==
    ASSUME NEW c \in Clusters
    PROVE  /\ DirHandle(c) \in HandleRecords /\ DirHandle(c).first = c /\ DirHandle(c).cur = c
           /\ DirHandle(c).of = NoName /\ DirHandle(c).at = <<>>
BY DEF DirHandle, NoHandle, HandleRecords, Opt

LEMMA NoHandleIs == NoHandle \in HandleRecords /\ NoHandle.pos = 0
BY DEF HandleRecords, NoHandle, Opt

LEMMA FindEntryKeeps ==
    ASSUME TwoCopies, UpdatesInv, FindEntry
    PROVE  UpdatesInv'
<1> DEFINE items == Loaded(DataSector(Here))
<1>1. /\ At(Search, "start") /\ Get(DataSector(Here))
      /\ op' = IF Stage = "exists" THEN Failed ELSE NextStage(op)
      /\ UNCHANGED <<last_cluster_alloc, lines, acked, before>>
    BY DEF FindEntry, history
<1>2. PICK i \in Matches(items, op.long, op.name) : Opened(i)
    BY DEF FindEntry
<1>3. /\ op.links = <<>> /\ op.todo # <<>> /\ Due \in Search /\ Stage = Due
      /\ first_lba # 0 /\ first_lba' = first_lba /\ op.call \in {"CreateDir", "CreateFile"}
      /\ handle["cwd"].first \in Clusters /\ handle["cwd"].cur \in Clusters /\ Here \in Clusters
      /\ DataHolds(items) /\ CacheInv' /\ ~Stale'
    BY <1>1, DirectoryRead
<1> HIDE DEF items
<1>4. /\ i \in 1 .. Slots
      /\ op.name = SubDir => items[i][3] \in Clusters
      /\ op.name # SubDir => /\ op.name \in Files
                             /\ items[i][3] \in Opt /\ items[i][4] \in 0 .. lines[op.name]
    BY <1>2, <1>3, EntryFound
<1>5. Due = "chdir" => op.name = SubDir
    BY <1>3, DueIs DEF UpdatesInv, InCall
<1>6. handle \in [Handles -> HandleRecords]
    BY DEF UpdatesInv, HandlesInv
<1>7. op'.call # "fat_write"
    <2>1. op'.call \in {op.call, "none", "CreateDir"}
        BY <1>1, <1>3, NextStageIs, IdleIs DEF Failed, Idle, UpdatesInv
    <2> QED
        BY <1>3, <2>1
<1>8. /\ HandlesInv' /\ handle'["cwd"].first # 0 /\ handle'["cwd"].cur # 0
      /\ op.name = SubDir /\ Due # "chdir" => handle'["dir"].first # 0 /\ handle'["dir"].cur # 0
    <2> DEFINE e == items[i]
    <2>1. CASE Due = "chdir"
        <3>1. handle' = [handle EXCEPT !["cwd"] = DirHandle(e[3])] /\ e[3] \in Clusters
            BY <1>2, <1>3, <1>4, <1>5, <2>1 DEF Opened, items
        <3>2. /\ handle' \in [Handles -> HandleRecords] /\ handle'["cwd"] = DirHandle(e[3])
              /\ handle'["file"] = handle["file"] /\ handle'["dir"] = handle["dir"]
            BY <1>6, <3>1, DirHandleIs DEF Handles
        <3> QED
            BY <1>1, <1>3, <1>7, <2>1, <3>1, <3>2, DirHandleIs, ConstantsAre, FileFits DEF UpdatesInv, HandlesInv
    <2>2. CASE Due # "chdir" /\ op.name = SubDir
        <3>1. handle' = [handle EXCEPT !["dir"] = DirHandle(e[3])] /\ e[3] \in Clusters
            BY <1>2, <1>3, <1>4, <2>2 DEF Opened, items
        <3>2. /\ handle' \in [Handles -> HandleRecords] /\ handle'["dir"] = DirHandle(e[3])
              /\ handle'["file"] = handle["file"] /\ handle'["cwd"] = handle["cwd"]
            BY <1>6, <3>1, DirHandleIs DEF Handles
        <3> QED
            BY <1>1, <1>3, <1>7, <2>2, <3>1, <3>2, DirHandleIs, ConstantsAre, FileFits DEF UpdatesInv, HandlesInv
    <2>3. CASE Due # "chdir" /\ op.name # SubDir
        <3> DEFINE h == [NoHandle EXCEPT !.of = op.name, !.first = e[3], !.cur = e[3], !.size = e[4],
                                         !.at = <<DataSector(Here), i>>]
        <3>1. handle' = [handle EXCEPT !["file"] = h]
            BY <1>2, <1>3, <2>3 DEF Opened, items
        <3>2. lines[op.name] \in Nat /\ op.name \in Files /\ op.name # NoName
            BY <1>4, <2>3, ConstantsAre DEF UpdatesInv, Counts, Names
        <3>3. <<DataSector(Here), i>> \in Places
            BY <1>3, <1>4 DEF Places
        <3>4. e[3] \in Opt /\ e[4] \in Nat /\ e[4] <= lines[op.name]
            BY <1>4, <2>3, <3>2
        <3> HIDE DEF e
        <3>5. h \in HandleRecords /\ h.of = op.name /\ h.pos = 0
            <4>1. PICK c \in Opt, n \in Nat, a \in Places :
                      c = e[3] /\ n = e[4] /\ a = <<DataSector(Here), i>>
                BY <3>3, <3>4
            <4>2. PICK f \in Files, r \in HandleRecords : f = op.name /\ r = NoHandle
                BY <3>2, NoHandleIs
            <4>3. PICK k : k = h
                OBVIOUS
            <4>4. k = [r EXCEPT !.of = f, !.first = c, !.cur = c, !.size = n, !.at = a]
                BY <4>1, <4>2, <4>3
            <4> HIDE DEF h
            <4>5. k \in HandleRecords /\ k.of = f /\ k.pos = r.pos
                BY <4>4 DEF HandleRecords
            <4> QED
                BY <4>2, <4>3, <4>5, NoHandleIs
        <3> HIDE DEF h
        <3>6. /\ handle' \in [Handles -> HandleRecords] /\ handle'["file"] = h
              /\ handle'["dir"] = handle["dir"] /\ handle'["cwd"] = handle["cwd"]
            BY <1>6, <3>1, <3>5 DEF Handles
        <3> QED
            BY <1>1, <1>3, <1>7, <2>3, <3>2, <3>5, <3>6, ConstantsAre DEF UpdatesInv, HandlesInv
    <2> QED
        BY <2>1, <2>2, <2>3
<1>9. op' \in Ops /\ InCall' /\ Mounting' /\ AtPlace'
    <2>1. CASE Due = "exists"
        BY <1>1, <1>3, <1>8, <2>1, FailedKeeps DEF UpdatesInv
    <2>2. CASE Due # "exists"
        <3>1. Ready(handle'["cwd"], handle'["dir"]) /\ Due # "cluster"
            BY <1>3, <1>8, <2>2 DEF Ready, Search
        <3> QED
            BY <1>1, <1>3, <2>2, <3>1, NextStageKeeps DEF UpdatesInv
    <2> QED
        BY <2>1, <2>2
<1> QED
    BY <1>1, <1>3, <1>8, <1>9 DEF UpdatesInv, StaleInv, Counts

\* A handle moves on along its chain.
LEMMA HandlesMove ==
    ASSUME UpdatesInv, NEW h \in Handles, NEW r \in HandleRecords,
           r.of = handle[h].of, r.at = handle[h].at,
           handle' = [handle EXCEPT ![h] = r], UNCHANGED lines,
           h = "file" /\ r.of # NoName =>
               r.pos + (IF op'.call = "fat_write" THEN Len(op'.items) ELSE 0) <= lines[r.of],
           h # "file" => (op'.call = op.call /\ op'.items = op.items) \/ op'.call # "fat_write"
    PROVE  /\ HandlesInv' /\ handle'[h] = r
           /\ \A k \in Handles : k # h => handle'[k] = handle[k]
           /\ \A k \in Handles : handle'[k].of = handle[k].of
<1>1. /\ handle' \in [Handles -> HandleRecords] /\ handle'[h] = r
      /\ \A k \in Handles : k # h => handle'[k] = handle[k]
    BY DEF UpdatesInv, HandlesInv
<1>2. \A k \in Handles : handle'[k].of = handle[k].of /\ handle'[k].at = handle[k].at
    BY <1>1
<1>3. handle'["file"].of # NoName =>
          handle'["file"].pos + (IF op'.call = "fat_write" THEN Len(op'.items) ELSE 0)
              <= lines[handle'["file"].of]
    <2>1. CASE h = "file"
        BY <1>1, <2>1
    <2>2. CASE h # "file"
        <3>1. handle'["file"] = handle["file"]
            BY <1>1, <2>2 DEF Handles
        <3>2. CASE op'.call = op.call /\ op'.items = op.items
            BY <3>1, <3>2 DEF UpdatesInv, HandlesInv
        <3>3. CASE op'.call # "fat_write"
            <4>1. handle["file"].pos + 0 = handle["file"].pos
                BY DEF UpdatesInv, HandlesInv, Handles, HandleRecords
            <4> QED
                BY <3>1, <3>3, <4>1, FileFits
        <3> QED
            BY <2>2, <3>2, <3>3
    <2> QED
        BY <2>1, <2>2
<1>4. \A k \in {"cwd", "dir"} : handle'[k].of = NoName /\ handle'[k].at = <<>>
    BY <1>2 DEF UpdatesInv, HandlesInv, Handles
<1>5. handle'["file"].of = NoName => handle'["file"].at = <<>>
    BY <1>2 DEF UpdatesInv, HandlesInv, Handles
<1>6. UNCHANGED lines
    OBVIOUS
<1> QED
    BY <1>1, <1>2, <1>3, <1>4, <1>5, <1>6 DEF HandlesInv

LEMMA SeekEmptyKeeps ==
    ASSUME TwoCopies, UpdatesInv, SeekEmpty
    PROVE  UpdatesInv'
<1> DEFINE used == Cardinality(Entries(Loaded(DataSector(Here))))
<1>1. /\ At({"seek"}, "start") /\ Get(DataSector(Here)) /\ op' = NextStage(op)
      /\ handle' = [handle EXCEPT !["cwd"].cur = Here, !["cwd"].pos = used]
      /\ UNCHANGED <<last_cluster_alloc, lines, acked, before>>
    BY DEF SeekEmpty, history
<1>2. used \in Nat
    BY EntriesCounted, ConstantsAre
<1> HIDE DEF used
<1>3. /\ op.links = <<>> /\ op.todo # <<>> /\ Due = "seek" /\ Stage = Due
      /\ first_lba # 0 /\ first_lba' = first_lba /\ op.call \in {"CreateDir", "CreateFile"}
      /\ handle["cwd"].first \in Clusters /\ handle["cwd"].cur \in Clusters /\ Here \in Clusters
      /\ CacheInv' /\ ~Stale'
    BY <1>1, DirectoryRead
<1>4. op'.call # "fat_write"
    <2>1. op'.call \in {op.call, "none"}
        BY <1>1, <1>3, NextStageIs, IdleIs DEF UpdatesInv
    <2> QED
        BY <1>3, <2>1
<1>5. PICK k : k = handle["cwd"]
    OBVIOUS
<1>6. PICK r : r = [k EXCEPT !.cur = Here, !.pos = used]
    OBVIOUS
<1>7. k \in HandleRecords
    BY <1>5 DEF UpdatesInv, HandlesInv, Handles
<1>8. r \in HandleRecords /\ r.of = k.of /\ r.at = k.at /\ r.first = k.first /\ r.cur = Here
    BY <1>2, <1>3, <1>6, <1>7 DEF HandleRecords, Opt
<1>9. handle' = [handle EXCEPT !["cwd"] = r]
    BY <1>1, <1>5, <1>6
<1>10. HandlesInv' /\ handle'["cwd"] = r
    BY <1>1, <1>4, <1>5, <1>8, <1>9, HandlesMove DEF Handles
<1>11. Ready(handle'["cwd"], handle'["dir"])
    BY <1>3, <1>5, <1>8, <1>10, ConstantsAre DEF Ready
<1>12. op' \in Ops /\ InCall' /\ Mounting' /\ AtPlace'
    BY <1>1, <1>3, <1>11, NextStageKeeps DEF UpdatesInv
<1> QED
    BY <1>1, <1>3, <1>10, <1>12 DEF UpdatesInv, StaleInv, Counts

LEMMA SearchOnKeeps ==
    ASSUME TwoCopies, UpdatesInv, SearchOn
    PROVE  UpdatesInv'
<1> DEFINE items == Loaded(DataSector(Here))
<1> DEFINE long == LongBefore(items, op.long, Slots + 1)
<1>1. /\ At(Search \cup {"seek"}, "start") /\ Get(DataSector(Here))
      /\ op' = [op EXCEPT !.pc = "walk", !.cluster = Here, !.long = long]
      /\ UNCHANGED <<last_cluster_alloc, handle, lines, acked, before>>
    BY DEF SearchOn, history
<1>2. /\ op.links = <<>> /\ op.todo # <<>> /\ Due \in Search \cup {"seek"} /\ Stage = Due
      /\ first_lba # 0 /\ first_lba' = first_lba /\ op.call \in {"CreateDir", "CreateFile"}
      /\ Here \in Clusters /\ DataHolds(items) /\ CacheInv' /\ ~Stale'
    BY <1>1, DirectoryRead
<1>3. long \in Names \cup {NoName}
    <2>1. op.long \in Names \cup {NoName} /\ Slots + 1 \in 1 .. Slots + 1
        BY ConstantsAre DEF UpdatesInv, Ops
    <2> QED
        BY <1>2, <2>1, LongKnown
<1> HIDE DEF long
<1>4. /\ op' \in Ops /\ op'.call = op.call /\ op'.name = op.name /\ op'.todo = op.todo
      /\ op'.first = op.first /\ op'.links = op.links /\ op'.items = op.items
      /\ op'.pc = "walk" /\ op'.cluster = Here
    BY <1>1, <1>2, <1>3 DEF UpdatesInv, Ops, Opt, Pcs
<1>5. InCall' /\ Mounting' /\ Due' = Due
    BY <1>1, <1>2, <1>4, StayKeeps DEF UpdatesInv
<1>6. AtPlace'
    BY <1>2, <1>4, <1>5, ConstantsAre DEF AtPlace, Search, Writing
<1>7. HandlesInv' /\ Counts'
    BY <1>1, <1>4, HandlesStay DEF UpdatesInv, Counts
<1> QED
    BY <1>1, <1>2, <1>4, <1>5, <1>6, <1>7 DEF UpdatesInv, StaleInv

\* A step reads the FAT.
LEMMA FatRead ==
    ASSUME TwoCopies, UpdatesInv, op.todo # <<>>, Due \notin {"mbr", "volume"},
           Get(FatSector(0)), UNCHANGED lines
    PROVE  /\ FatHolds(Fat) /\ CacheInv' /\ ~Stale' /\ first_lba # 0 /\ first_lba' = first_lba
           /\ op.call # "OpenFatInit" /\ op # Idle
<1>1. first_lba = FirstLba /\ first_lba # 0 /\ op.call # "OpenFatInit" /\ op # Idle
    BY Busy
<1>2. FatSector(0) \in Sectors /\ FatSector(0) # LastFat
    BY SectorsAre, NotLastFat
<1>3. FatHolds(Fat)
    BY <1>1, <1>2, SectorsAre, LoadedHolds DEF UpdatesInv, Fat
<1>4. CacheInv' /\ ~Stale' /\ first_lba' = FirstLba
    BY <1>1, <1>2, GetKeeps DEF UpdatesInv
<1> QED
    BY <1>1, <1>3, <1>4

LEMMA WalkOnKeeps ==
    ASSUME TwoCopies, UpdatesInv, WalkOn
    PROVE  UpdatesInv'
<1>1. /\ At(Search \cup {"seek"}, "walk") /\ Get(FatSector(0))
      /\ op' = IF Fat[op.cluster] = Eoc THEN [op EXCEPT !.pc = "end"]
               ELSE [op EXCEPT !.pc = "start", !.cluster = Fat[op.cluster]]
      /\ UNCHANGED <<last_cluster_alloc, handle, lines, acked, before>>
    BY DEF WalkOn, history
<1>2. /\ op.links = <<>> /\ op.todo # <<>> /\ Due \in Search \cup {"seek"} /\ op.pc = "walk"
      /\ Due \notin {"mbr", "volume"}
    BY <1>1, AtIs DEF Search
<1>3. /\ FatHolds(Fat) /\ CacheInv' /\ ~Stale' /\ first_lba # 0 /\ first_lba' = first_lba
      /\ op.call # "OpenFatInit"
    BY <1>1, <1>2, FatRead
<1>4. op \in Ops /\ op.cluster \in Clusters
    BY <1>2 DEF UpdatesInv, AtPlace, Ops, Opt
<1>5. Fat[op.cluster] \in Links
    BY <1>3, <1>4 DEF FatHolds
<1>6. /\ op' \in Ops /\ op'.call = op.call /\ op'.name = op.name /\ op'.todo = op.todo
      /\ op'.first = op.first /\ op'.links = op.links /\ op'.items = op.items
      /\ op'.pc \in {"start", "end"}
    BY <1>1, <1>4, <1>5 DEF Ops, Opt, Pcs, Links
<1>7. InCall' /\ Mounting' /\ Due' = Due
    BY <1>1, <1>2, <1>3, <1>6, StayKeeps DEF UpdatesInv
<1>8. AtPlace'
    BY <1>2, <1>6, <1>7 DEF AtPlace, Search, Writing
<1>9. HandlesInv' /\ Counts'
    BY <1>1, <1>6, HandlesStay DEF UpdatesInv, Counts
<1> QED
    BY <1>1, <1>3, <1>6, <1>7, <1>8, <1>9 DEF UpdatesInv, StaleInv

\* A step of fat_write: the handle that is written through, and its place.
LEMMA WritingAt ==
    ASSUME UpdatesInv, NEW pc, At(Writing, pc)
    PROVE  /\ op.links = <<>> /\ op.todo # <<>> /\ Due \in Writing /\ Stage = Due /\ op.pc = pc
           /\ Due \notin {"mbr", "volume"} /\ op \in Ops /\ first_lba = FirstLba /\ first_lba # 0
           /\ op.call # "OpenFatInit" /\ (op.call = "fat_write" <=> Due = "lines")
           /\ handle["cwd"].first # 0 /\ handle["cwd"].cur # 0
           /\ op.h \in Handles /\ H \in HandleRecords
           /\ pc # "start" => op.h = HandleOf(Due) /\ (op.h = "file" <=> op.call = "fat_write")
<1>1. /\ op.links = <<>> /\ op.todo # <<>> /\ Due \in Writing /\ Stage = Due /\ op.pc = pc
      /\ Due \notin {"mbr", "volume"}
    BY AtIs DEF Writing
<1>2. op \in Ops /\ InCall /\ op.h \in Handles /\ handle \in [Handles -> HandleRecords]
    BY DEF UpdatesInv, Ops, HandlesInv
<1>3. /\ first_lba = FirstLba /\ first_lba # 0 /\ op.call # "OpenFatInit"
      /\ handle["cwd"].first # 0 /\ handle["cwd"].cur # 0
    BY <1>1, Busy, ConstantsAre
<1>4. op.call = "fat_write" <=> Due = "lines"
    BY <1>1, <1>2, DueIs
<1>5. pc # "start" => op.h = HandleOf(Due) /\ (op.h = "file" <=> op.call = "fat_write")
    BY <1>1, <1>4 DEF UpdatesInv, AtPlace, HandleOf, Writing
<1> QED
    BY <1>1, <1>2, <1>3, <1>4, <1>5 DEF H

LEMMA CacheStays ==
    ASSUME CacheInv, UNCHANGED <<cache, lines>>
    PROVE  CacheInv' /\ (Stale' <=> Stale) /\ first_lba' = first_lba /\ sector' = sector
<1>1. \A t, x : Holds(t, x)' <=> Holds(t, x)
    BY DEF Holds, FatHolds, DataHolds, Sound
<1>2. UNCHANGED <<card, undo, first_lba, buf, sector, dirty>>
    BY DEF cache
<1> QED
    BY <1>1, <1>2 DEF CacheInv, CardHolds, UndoHolds, Stale, Lba

LEMMA StartWriteKeeps ==
    ASSUME UpdatesInv, StartWrite
    PROVE  UpdatesInv'
<1>1. /\ At(Writing, "start")
      /\ op' = [Output(op, Stage) EXCEPT
                  !.pc = IF handle[Output(op, Stage).h].cur = 0 THEN "first" ELSE "item"]
      /\ UNCHANGED <<cache, last_cluster_alloc, handle, lines, acked, before>>
    BY DEF StartWrite, history
<1>2. /\ op.links = <<>> /\ op.todo # <<>> /\ Due \in Writing /\ Stage = Due
      /\ Due \notin {"mbr", "volume"} /\ op \in Ops /\ first_lba = FirstLba /\ first_lba # 0
      /\ op.call # "OpenFatInit" /\ (op.call = "fat_write" <=> Due = "lines")
    BY <1>1, WritingAt
<1> DEFINE o == Output(op, Due)
<1>3. /\ o \in Ops /\ o.call = op.call /\ o.name = op.name /\ o.todo = op.todo /\ o.first = op.first
      /\ o.links = op.links /\ o.items # <<>> /\ o.h = HandleOf(Due) /\ o.cluster = op.cluster
      /\ Due = "lines" => o.items = op.items
    <2>1. Due \in {"long", "short"} => op.name \in Names /\ (op.name # SubDir => op.name \in Files)
        BY <1>2, DueIs, NameSought DEF UpdatesInv, Calls, Names
    <2>2. CASE Due = "long"
        <3>1. o = [op EXCEPT !.h = "cwd", !.items = <<Long(op.name)>>]
            BY <2>2 DEF Output
        <3>2. Long(op.name) \in Written
            BY <2>1, <2>2 DEF Written
        <3>3. <<Long(op.name)>> \in Seq(Written) /\ <<Long(op.name)>> # <<>>
            BY <3>2
        <3> HIDE DEF o
        <3> QED
            BY <1>2, <2>2, <3>1, <3>3 DEF Ops, HandleOf, Handles
    <2>3. CASE Due = "short"
        <3>1. o = [op EXCEPT !.h = "cwd", !.items = <<Short(op.name, op.first, 0)>>]
            BY <2>3 DEF Output
        <3>2. op.first \in Opt /\ (op.name = SubDir => op.first \in Clusters)
            BY <1>2, <2>3 DEF UpdatesInv, Mounting, Ops, Opt
        <3>3. Short(op.name, op.first, 0) \in Written
            BY <2>1, <2>3, <3>2 DEF Written
        <3>4. /\ <<Short(op.name, op.first, 0)>> \in Seq(Written)
              /\ <<Short(op.name, op.first, 0)>> # <<>>
            BY <3>3
        <3> HIDE DEF o
        <3> QED
            BY <1>2, <2>3, <3>1, <3>4 DEF Ops, HandleOf, Handles
    <2>4. CASE Due = "dots"
        <3>1. o = [op EXCEPT !.h = "dir", !.items = <<Dot, Dot>>]
            BY <2>4 DEF Output
        <3>2. <<Dot, Dot>> \in Seq(Written) /\ <<Dot, Dot>> # <<>>
            BY DEF Written
        <3> HIDE DEF o
        <3> QED
            BY <1>2, <2>4, <3>1, <3>2 DEF Ops, HandleOf, Handles
    <2>5. CASE Due = "lines"
        <3>1. o = [op EXCEPT !.h = "file"]
            BY <2>5 DEF Output
        <3>2. op.items # <<>>
            BY <1>1, <1>2, <2>5 DEF UpdatesInv, AtPlace, At
        <3> HIDE DEF o
        <3> QED
            BY <1>2, <2>5, <3>1, <3>2 DEF Ops, HandleOf, Handles
    <2> QED
        BY <1>2, <2>2, <2>3, <2>4, <2>5 DEF Writing
<1>4. op' = [o EXCEPT !.pc = IF handle[o.h].cur = 0 THEN "first" ELSE "item"]
    BY <1>1, <1>2
<1> HIDE DEF o
<1>5. /\ op' \in Ops /\ op'.call = op.call /\ op'.name = op.name /\ op'.todo = op.todo
      /\ op'.first = op.first /\ op'.links = op.links /\ op'.items # <<>> /\ op'.h = HandleOf(Due)
      /\ Due = "lines" => op'.items = op.items
      /\ op'.pc = IF handle[op'.h].cur = 0 THEN "first" ELSE "item"
    BY <1>3, <1>4 DEF Ops, Pcs
<1>6. CacheInv' /\ (Stale' <=> Stale) /\ first_lba' = first_lba /\ sector' = sector
    BY <1>1, CacheStays DEF UpdatesInv
<1>7. InCall' /\ Mounting' /\ Due' = Due
    BY <1>1, <1>2, <1>5, <1>6, StayKeeps DEF UpdatesInv
<1>8. AtPlace'
    BY <1>1, <1>2, <1>5, <1>7 DEF AtPlace, H, Writing, Search
<1>9. HandlesInv' /\ Counts'
    BY <1>1, <1>2, <1>5, HandlesStay DEF UpdatesInv, Counts
<1> QED
    BY <1>1, <1>2, <1>5, <1>6, <1>7, <1>8, <1>9 DEF UpdatesInv, StaleInv

LEMMA FreeClusterIs ==
    ASSUME FatHolds(Fat)
    PROVE  FreeCluster \in Opt
<1> DEFINE free == {c \in 2 .. cluster_count - 1 : Fat[c] = 0}
<1> DEFINE onward == {c \in free : c >= last_cluster_alloc}
<1> DEFINE from == IF onward # {} THEN onward ELSE free
<1>1. CASE free = {}
    BY <1>1 DEF FreeCluster, Opt
<1>2. CASE free # {}
    <2>1. free \subseteq Clusters /\ free \subseteq Nat
        BY ConstantsAre DEF Clusters
    <2>2. from \subseteq free /\ from # {}
        BY <1>2
    <2> DEFINE least == CHOOSE c \in from : \A d \in from : c <= d
    <2>3. FreeCluster = least
        BY <1>2 DEF FreeCluster
    <2> HIDE DEF free, from
    <2>4. \E c \in from : \A d \in from : c <= d
        BY <2>1, <2>2, LeastOfNat
    <2>5. least \in from
        BY <2>4
    <2> QED
        BY <2>1, <2>2, <2>3, <2>5 DEF Opt
<1> QED
    BY <1>1, <1>2

\* A FAT entry is set in every copy, in the last one last.
LEMMA SetInCopiesIs ==
    ASSUME NEW c \in Clusters, NEW next \in Clusters \cup {Eoc}
    PROVE  /\ SetInCopies(c, next) \in Seq(Link) /\ Len(SetInCopies(c, next)) = num_fats
           /\ SetInCopies(c, next)[num_fats].copy = num_fats - 1
<1> DEFINE entry(i) == [copy |-> i - 1, cluster |-> c, next |-> next]
<1>1. num_fats \in Nat \ {0}
    BY ConstantsAre
<1>2. \A i \in 1 .. num_fats : entry(i) \in Link
    BY <1>1 DEF Link
<1>3. SetInCopies(c, next) = [i \in 1 .. num_fats |-> entry(i)]
    BY DEF SetInCopies
<1>4. entry(num_fats).copy = num_fats - 1
    OBVIOUS
<1> HIDE DEF entry
<1> QED
    BY <1>1, <1>2, <1>3, <1>4

LEMMA FirstClusterKeeps ==
    ASSUME TwoCopies, UpdatesInv, FirstCluster
    PROVE  UpdatesInv'
<1>1. /\ At(Writing, "first") /\ Get(FatSector(0)) /\ FreeCluster # 0 /\ Took(FreeCluster)
      /\ handle' = [handle EXCEPT ![op.h].first = FreeCluster, ![op.h].cur = FreeCluster]
      /\ op' = [op EXCEPT !.links = SetInCopies(FreeCluster, Eoc), !.pc = "item"]
      /\ UNCHANGED <<lines, acked, before>>
    BY DEF FirstCluster, history
<1>2. /\ op.links = <<>> /\ op.todo # <<>> /\ Due \in Writing /\ op.pc = "first"
      /\ Due \notin {"mbr", "volume"} /\ op \in Ops
      /\ op.h \in Handles /\ H \in HandleRecords /\ op.h = HandleOf(Due)
      /\ op.h = "file" <=> op.call = "fat_write"
    BY <1>1, WritingAt
<1>3. /\ FatHolds(Fat) /\ CacheInv' /\ ~Stale' /\ first_lba # 0 /\ first_lba' = first_lba
      /\ op.call # "OpenFatInit"
    BY <1>1, <1>2, FatRead
<1>4. PICK c \in Clusters : c = FreeCluster
    BY <1>1, <1>3, FreeClusterIs DEF Opt
<1>5. SetInCopies(c, Eoc) \in Seq(Link)
    BY SetInCopiesIs
<1>6. /\ op' \in Ops /\ op'.call = op.call /\ op'.name = op.name /\ op'.todo = op.todo
      /\ op'.first = op.first /\ op'.items = op.items /\ op'.h = op.h /\ op'.pc = "item"
    BY <1>1, <1>2, <1>4, <1>5 DEF Ops, Pcs
<1>7. op.items # <<>>
    BY <1>2 DEF UpdatesInv, AtPlace
<1>8. PICK r : r = [H EXCEPT !.first = c, !.cur = c]
    OBVIOUS
<1>9. /\ r \in HandleRecords /\ r.of = H.of /\ r.at = H.at /\ r.pos = H.pos
      /\ r.first = c /\ r.cur = c
    BY <1>2, <1>8 DEF HandleRecords, Opt
<1>10. handle' = [handle EXCEPT ![op.h] = r]
    BY <1>1, <1>2, <1>4, <1>8 DEF H, UpdatesInv, HandlesInv
<1>11. op.h = "file" /\ r.of # NoName =>
           r.pos + (IF op'.call = "fat_write" THEN Len(op'.items) ELSE 0) <= lines[r.of]
    BY <1>6, <1>9 DEF H, UpdatesInv, HandlesInv
<1>12. /\ HandlesInv' /\ handle'[op.h] = r
       /\ \A k \in Handles : k # op.h => handle'[k] = handle[k]
       /\ \A k \in Handles : handle'[k].of = handle[k].of
    BY <1>1, <1>2, <1>6, <1>9, <1>10, <1>11, HandlesMove DEF H
<1>13. InCall' /\ Mounting' /\ Due' = Due
    <2>1. \A k \in {"cwd", "dir"} : /\ handle[k].first # 0 => handle'[k].first # 0
                                    /\ handle[k].cur # 0 => handle'[k].cur # 0
        BY <1>9, <1>12, ConstantsAre DEF Handles
    <2> QED
        BY <1>2, <1>3, <1>6, <1>12, <2>1, StayKeeps DEF UpdatesInv, Handles
<1>14. AtPlace'
    <2>1. H'.cur # 0
        BY <1>6, <1>9, <1>12, ConstantsAre DEF H
    <2> QED
        BY <1>2, <1>6, <1>7, <1>13, <2>1 DEF AtPlace, Writing, Search
<1>15. Counts' /\ last_cluster_alloc' \in Opt
    BY <1>1, <1>4 DEF UpdatesInv, Counts, Took, Opt
<1> QED
    BY <1>3, <1>6, <1>12, <1>13, <1>14, <1>15 DEF UpdatesInv, StaleInv

LEMMA NextClusterKeeps ==
    ASSUME TwoCopies, UpdatesInv, NextCluster
    PROVE  UpdatesInv'
<1> DEFINE linked == Fat[H.cur] # Eoc
<1> DEFINE next == IF linked THEN Fat[H.cur] ELSE FreeCluster
<1> DEFINE links == SetInCopies(next, Eoc) \o SetInCopies(H.cur, next)
<1>1. /\ At(Writing, "next") /\ Get(FatSector(0)) /\ next # 0
      /\ Took(IF linked THEN 0 ELSE next)
      /\ handle' = [handle EXCEPT ![op.h].cur = next]
      /\ op' = [op EXCEPT !.links = IF linked THEN <<>> ELSE links,
                          !.pc = IF ~linked /\ H.size = 0 THEN "flush0" ELSE AfterNext]
      /\ UNCHANGED <<lines, acked, before>>
    BY DEF NextCluster, history
<1>2. /\ op.links = <<>> /\ op.todo # <<>> /\ Due \in Writing /\ op.pc = "next"
      /\ Due \notin {"mbr", "volume"} /\ op \in Ops
      /\ op.h \in Handles /\ H \in HandleRecords /\ op.h = HandleOf(Due)
      /\ op.h = "file" <=> op.call = "fat_write"
    BY <1>1, WritingAt
<1>3. /\ FatHolds(Fat) /\ CacheInv' /\ ~Stale' /\ first_lba # 0 /\ first_lba' = first_lba
      /\ op.call # "OpenFatInit"
    BY <1>1, <1>2, FatRead
<1>4. H.cur \in Clusters
    BY <1>2 DEF UpdatesInv, AtPlace, HandleRecords, Opt
<1>5. next \in Clusters
    <2>1. Fat[H.cur] \in Links /\ FreeCluster \in Opt
        BY <1>3, <1>4, FreeClusterIs DEF FatHolds
    <2> QED
        BY <1>1, <2>1 DEF Links, Opt
<1>6. PICK c \in Clusters : c = next
    BY <1>5
<1>7. links \in Seq(Link) /\ Len(links) \in Nat \ {0} /\ links[Len(links)].copy = num_fats - 1
    <2> DEFINE a == SetInCopies(c, Eoc)
    <2> DEFINE b == SetInCopies(H.cur, c)
    <2>1. /\ a \in Seq(Link) /\ Len(a) = num_fats /\ b \in Seq(Link) /\ Len(b) = num_fats
          /\ b[num_fats].copy = num_fats - 1 /\ num_fats \in Nat \ {0}
        BY <1>4, SetInCopiesIs, ConstantsAre
    <2>2. links = a \o b
        BY <1>6
    <2> HIDE DEF links, a, b
    <2>3. Len(a \o b) = num_fats + num_fats /\ (a \o b)[num_fats + num_fats] = b[num_fats]
        BY <2>1
    <2> QED
        BY <2>1, <2>2, <2>3
<1> HIDE DEF links, next
<1>8. AfterNext \in {"size", "item"} /\ (AfterNext = "item" => op.items # <<>>)
    BY DEF AfterNext
<1> HIDE DEF linked
<1>9. /\ op' \in Ops /\ op'.call = op.call /\ op'.name = op.name /\ op'.todo = op.todo
      /\ op'.first = op.first /\ op'.items = op.items /\ op'.h = op.h
      /\ op'.pc = IF ~linked /\ H.size = 0 THEN "flush0" ELSE AfterNext
      /\ op'.links = IF linked THEN <<>> ELSE links
    <2>1. <<>> \in Seq(Link)
        OBVIOUS
    <2> QED
        BY <1>1, <1>2, <1>7, <1>8, <2>1 DEF Ops, Pcs
<1>10. PICK r : r = [H EXCEPT !.cur = c]
    OBVIOUS
<1>11. /\ r \in HandleRecords /\ r.of = H.of /\ r.at = H.at /\ r.pos = H.pos
       /\ r.first = H.first /\ r.cur = c
    BY <1>2, <1>10 DEF HandleRecords, Opt
<1>12. handle' = [handle EXCEPT ![op.h] = r]
    BY <1>1, <1>2, <1>6, <1>10 DEF H, UpdatesInv, HandlesInv
<1>13. op.h = "file" /\ r.of # NoName =>
           r.pos + (IF op'.call = "fat_write" THEN Len(op'.items) ELSE 0) <= lines[r.of]
    BY <1>9, <1>11 DEF H, UpdatesInv, HandlesInv
<1>14. /\ HandlesInv' /\ handle'[op.h] = r
       /\ \A k \in Handles : k # op.h => handle'[k] = handle[k]
       /\ \A k \in Handles : handle'[k].of = handle[k].of
    BY <1>1, <1>2, <1>9, <1>11, <1>12, <1>13, HandlesMove DEF H
<1>15. InCall' /\ Mounting' /\ Due' = Due
    <2>1. \A k \in {"cwd", "dir"} : /\ handle[k].first # 0 => handle'[k].first # 0
                                    /\ handle[k].cur # 0 => handle'[k].cur # 0
        BY <1>11, <1>14, ConstantsAre DEF Handles, H
    <2> QED
        BY <1>2, <1>3, <1>9, <1>14, <2>1, StayKeeps DEF UpdatesInv, Handles
<1>16. AtPlace'
    <2>1. H'.cur # 0
        BY <1>9, <1>11, <1>14, ConstantsAre DEF H
    <2>2. op'.pc = "flush0" => op'.links = links /\ links # <<>>
        <3>1. Len(<<>>) = 0
            OBVIOUS
        <3>2. links # <<>>
            BY <1>7, <3>1
        <3> QED
            BY <1>8, <1>9, <3>2
    <2> QED
        BY <1>2, <1>7, <1>8, <1>9, <1>15, <2>1, <2>2 DEF AtPlace, Writing, Search
<1>17. Counts' /\ last_cluster_alloc' \in Opt
    BY <1>1, <1>6 DEF UpdatesInv, Counts, Took, Opt
<1> QED
    BY <1>3, <1>9, <1>14, <1>15, <1>16, <1>17 DEF UpdatesInv, StaleInv

LEMMA WriteItemKeeps ==
    ASSUME TwoCopies, UpdatesInv, WriteItem
    PROVE  UpdatesInv'
<1> DEFINE s == DataSector(H.cur)
<1> DEFINE slot == (H.pos % Slots) + 1
<1>1. /\ At(Writing, "item") /\ Change(s, [Loaded(s) EXCEPT ![slot] = Head(op.items)])
      /\ handle' = [handle EXCEPT ![op.h].pos = @ + 1]
      /\ op' = [op EXCEPT !.items = Tail(@),
                          !.pc = IF (H.pos + 1) % Slots = 0 THEN "next"
                                 ELSE IF Len(op.items) > 1 THEN "item" ELSE "size"]
      /\ UNCHANGED <<last_cluster_alloc, lines, acked, before>>
    BY DEF WriteItem, history
<1>2. /\ op.links = <<>> /\ op.todo # <<>> /\ Due \in Writing /\ op.pc = "item"
      /\ Due \notin {"mbr", "volume"} /\ op \in Ops /\ first_lba = FirstLba /\ first_lba # 0
      /\ op.call # "OpenFatInit" /\ op.h \in Handles /\ H \in HandleRecords /\ op.h = HandleOf(Due)
      /\ op.h = "file" <=> op.call = "fat_write"
    BY <1>1, WritingAt
<1>3. H.cur \in Clusters /\ op.items # <<>> /\ op.items \in Seq(Written) /\ H.pos \in Nat
    BY <1>2 DEF UpdatesInv, AtPlace, HandleRecords, Opt, Ops
<1>4. /\ Head(op.items) \in Written /\ Tail(op.items) \in Seq(Written)
      /\ Len(op.items) \in Nat \ {0} /\ Len(Tail(op.items)) = Len(op.items) - 1
    BY <1>3, HeadTailProperties
<1>5. s \in Sectors /\ s # LastFat /\ DataHolds(Loaded(s)) /\ \A d : Holds(s, d) <=> DataHolds(d)
    <2>1. s \in Sectors /\ s # LastFat /\ \A d : Holds(s, d) <=> DataHolds(d)
        BY <1>3, SectorsAre, NotLastFat
    <2> HIDE DEF s
    <2> QED
        BY <1>2, <2>1, LoadedHolds DEF UpdatesInv
<1>6. slot \in 1 .. Slots
    <2>1. H.pos % Slots \in 0 .. Slots - 1
        BY <1>3, ConstantsAre, DivisionIs
    <2> QED
        BY <2>1, ConstantsAre
<1> HIDE DEF s, slot
<1>7. Sound(Head(op.items))
    BY <1>4, ItemsSound DEF UpdatesInv
<1>8. DataHolds([Loaded(s) EXCEPT ![slot] = Head(op.items)])
    BY <1>5, <1>6, <1>7 DEF DataHolds
<1>9. CacheInv' /\ ~Stale' /\ first_lba' = FirstLba
    <2> DEFINE d == [Loaded(s) EXCEPT ![slot] = Head(op.items)]
    <2>1. Holds(s, d) /\ Change(s, d) /\ UNCHANGED lines
        BY <1>1, <1>5, <1>8
    <2> HIDE DEF d
    <2> QED
        BY <1>2, <1>5, <2>1, ChangeKeeps DEF UpdatesInv
<1>10. /\ op'.call = op.call /\ op'.name = op.name /\ op'.todo = op.todo
       /\ op'.first = op.first /\ op'.items = Tail(op.items) /\ op'.h = op.h /\ op'.links = op.links
       /\ op'.pc \in {"next", "item", "size"} /\ (op'.pc = "item" => Len(op.items) > 1)
    BY <1>1, <1>2 DEF Ops
<1>11. op' \in Ops
    BY <1>1, <1>2, <1>4 DEF Ops, Pcs
<1>12. PICK r : r = [H EXCEPT !.pos = H.pos + 1]
    OBVIOUS
<1>13. /\ r \in HandleRecords /\ r.of = H.of /\ r.at = H.at /\ r.pos = H.pos + 1
       /\ r.first = H.first /\ r.cur = H.cur
    BY <1>2, <1>3, <1>12 DEF HandleRecords
<1>14. handle' = [handle EXCEPT ![op.h] = r]
    BY <1>1, <1>2, <1>12 DEF H, UpdatesInv, HandlesInv
<1>15. op.h = "file" /\ r.of # NoName =>
           r.pos + (IF op'.call = "fat_write" THEN Len(op'.items) ELSE 0) <= lines[r.of]
    <2> SUFFICES ASSUME op.h = "file", r.of # NoName
                 PROVE  (H.pos + 1) + Len(Tail(op.items)) <= lines[H.of]
        BY <1>2, <1>10, <1>13
    <2>1. H.pos + Len(op.items) <= lines[H.of]
        BY <1>2, <1>13 DEF H, UpdatesInv, HandlesInv
    <2>2. (H.pos + 1) + Len(Tail(op.items)) = H.pos + Len(op.items)
        <3>1. PICK m, n \in Nat : m = Len(Tail(op.items)) /\ n = Len(op.items) /\ m = n - 1
            BY <1>4
        <3>2. (H.pos + 1) + m = H.pos + n
            BY <1>3, <3>1
        <3> QED
            BY <3>1, <3>2
    <2> QED
        BY <2>1, <2>2
<1>16. op.h # "file" => op'.call # "fat_write"
    BY <1>2, <1>10
<1>17. /\ HandlesInv' /\ handle'[op.h] = r
       /\ \A k \in Handles : k # op.h => handle'[k] = handle[k]
       /\ \A k \in Handles : handle'[k].of = handle[k].of
    BY <1>1, <1>2, <1>13, <1>14, <1>15, <1>16, HandlesMove DEF H
<1>18. InCall' /\ Mounting' /\ Due' = Due
    <2>1. \A k \in {"cwd", "dir"} : /\ handle[k].first # 0 => handle'[k].first # 0
                                    /\ handle[k].cur # 0 => handle'[k].cur # 0
        BY <1>13, <1>17 DEF Handles, H
    <2> QED
        BY <1>2, <1>9, <1>10, <1>11, <1>17, <2>1, StayKeeps DEF UpdatesInv, Handles
<1>19. AtPlace'
    <2>1. H'.cur # 0
        BY <1>3, <1>10, <1>13, <1>17, ConstantsAre DEF H
    <2>2. op'.pc = "item" => op'.items # <<>>
        <3>1. op'.pc = "item" => Len(Tail(op.items)) > 0
            BY <1>4, <1>10
        <3>2. ~(Len(<<>>) > 0)
            OBVIOUS
        <3> QED
            BY <1>10, <3>1, <3>2
    <2> QED
        BY <1>2, <1>10, <1>18, <2>1, <2>2 DEF AtPlace, Writing, Search
<1> QED
    BY <1>1, <1>9, <1>11, <1>17, <1>18, <1>19 DEF UpdatesInv, StaleInv, Counts

LEMMA FlushBeforeClearKeeps ==
    ASSUME UpdatesInv, FlushBeforeClear
    PROVE  UpdatesInv'
<1>1. /\ At(Writing, "flush0") /\ Flush /\ op' = [op EXCEPT !.pc = "clear"]
      /\ UNCHANGED <<last_cluster_alloc, handle, lines, acked, before>>
    BY DEF FlushBeforeClear, history
<1>2. /\ op.links = <<>> /\ op.todo # <<>> /\ Due \in Writing /\ op.pc = "flush0"
      /\ op \in Ops /\ first_lba = FirstLba /\ first_lba # 0
      /\ op.call # "OpenFatInit" /\ op.h = HandleOf(Due)
    BY <1>1, WritingAt
<1>3. CacheInv' /\ (Stale' => Stale) /\ first_lba' = FirstLba /\ sector' = sector /\ ~dirty'
    BY <1>1, <1>2, FlushKeeps DEF UpdatesInv
<1>4. /\ op' \in Ops /\ op'.call = op.call /\ op'.name = op.name /\ op'.todo = op.todo
      /\ op'.first = op.first /\ op'.items = op.items /\ op'.h = op.h /\ op'.links = op.links
      /\ op'.pc = "clear"
    BY <1>1, <1>2 DEF Ops, Pcs
<1>5. InCall' /\ Mounting' /\ Due' = Due
    BY <1>1, <1>2, <1>3, <1>4, StayKeeps DEF UpdatesInv
<1>6. AtPlace'
    <2>1. sector = LastFat /\ H.cur # 0
        BY <1>2 DEF UpdatesInv, AtPlace
    <2> QED
        BY <1>1, <1>2, <1>3, <1>4, <1>5, <2>1 DEF AtPlace, Writing, Search, H
<1>7. HandlesInv' /\ Counts'
    BY <1>1, <1>2, <1>4, HandlesStay DEF UpdatesInv, Counts
<1> QED
    BY <1>1, <1>2, <1>3, <1>4, <1>5, <1>6, <1>7 DEF UpdatesInv, StaleInv

LEMMA ClearClusterKeeps ==
    ASSUME UpdatesInv, ClearCluster
    PROVE  UpdatesInv'
<1>1. /\ At(Writing, "clear") /\ WriteThrough(DataSector(H.cur), Zeros)
      /\ op' = [op EXCEPT !.pc = AfterNext]
      /\ UNCHANGED <<last_cluster_alloc, handle, lines, acked, before>>
    BY DEF ClearCluster, history
<1>2. /\ op.links = <<>> /\ op.todo # <<>> /\ Due \in Writing /\ op.pc = "clear"
      /\ op \in Ops /\ first_lba = FirstLba /\ first_lba # 0 /\ H \in HandleRecords
      /\ op.call # "OpenFatInit" /\ op.h = HandleOf(Due)
    BY <1>1, WritingAt
<1>3. H.cur # 0 /\ H.cur \in Clusters /\ ~dirty /\ sector = LastFat
    BY <1>2 DEF UpdatesInv, AtPlace, HandleRecords, Opt
<1>4. DataSector(H.cur) \in Sectors /\ Holds(DataSector(H.cur), Zeros)
    BY <1>3, SectorsAre, ZerosHold DEF UpdatesInv
<1>5. CacheInv' /\ first_lba' = FirstLba /\ sector' = sector
    BY <1>1, <1>2, <1>3, <1>4, ClearKeeps DEF UpdatesInv
<1>6. AfterNext \in {"size", "item"} /\ (AfterNext = "item" => op.items # <<>>)
    BY DEF AfterNext
<1>7. /\ op' \in Ops /\ op'.call = op.call /\ op'.name = op.name /\ op'.todo = op.todo
      /\ op'.first = op.first /\ op'.items = op.items /\ op'.h = op.h /\ op'.links = op.links
      /\ op'.pc = AfterNext
    BY <1>1, <1>2, <1>6 DEF Ops, Pcs
<1>8. InCall' /\ Mounting' /\ Due' = Due
    BY <1>1, <1>2, <1>5, <1>7, StayKeeps DEF UpdatesInv
<1>9. AtPlace'
    BY <1>1, <1>2, <1>3, <1>6, <1>7, <1>8 DEF AtPlace, Writing, Search, H
<1>10. HandlesInv' /\ Counts'
    BY <1>1, <1>2, <1>7, HandlesStay DEF UpdatesInv, Counts
<1> QED
    BY <1>1, <1>2, <1>3, <1>5, <1>7, <1>8, <1>9, <1>10 DEF UpdatesInv, StaleInv

LEMMA SyncEntryKeeps ==
    ASSUME TwoCopies, UpdatesInv, SyncEntry
    PROVE  UpdatesInv'
<1> DEFINE entry == Short(H.of, H.first, H.pos)
<1>1. /\ At(Writing, "size") /\ H.at # <<>>
      /\ Change(H.at[1], [Loaded(H.at[1]) EXCEPT ![H.at[2]] = entry])
      /\ handle' = [handle EXCEPT ![op.h].size = H.pos]
      /\ op' = [op EXCEPT !.pc = "flush"]
      /\ UNCHANGED <<last_cluster_alloc, lines, acked, before>>
    BY DEF SyncEntry, history
<1>2. /\ op.links = <<>> /\ op.todo # <<>> /\ Due \in Writing /\ op.pc = "size"
      /\ Due \notin {"mbr", "volume"} /\ op \in Ops /\ first_lba = FirstLba /\ first_lba # 0
      /\ op.call # "OpenFatInit" /\ op.h \in Handles /\ H \in HandleRecords /\ op.h = HandleOf(Due)
      /\ op.h = "file" <=> op.call = "fat_write"
    BY <1>1, WritingAt
<1>3. op.h = "file" /\ H = handle["file"]
    BY <1>1, <1>2 DEF H, Handles, UpdatesInv, HandlesInv
<1>4. H.of # NoName /\ H.of \in Files /\ H.pos \in Nat /\ H.pos <= lines[H.of] /\ H.first \in Opt
    <2>1. H.of # NoName
        BY <1>1, <1>3, FileFits
    <2> QED
        BY <1>2, <1>3, <2>1, FileFits DEF HandleRecords
<1>5. PICK c \in Clusters, i \in 1 .. Slots : H.at = <<DataSector(c), i>>
    BY <1>1, <1>2 DEF HandleRecords, Places
<1>6. PICK s \in Sectors : s = DataSector(c)
    BY SectorsAre
<1>7. s # LastFat /\ DataHolds(Loaded(s)) /\ \A d : Holds(s, d) <=> DataHolds(d)
    <2>1. s # LastFat /\ \A d : Holds(s, d) <=> DataHolds(d)
        BY <1>6, SectorsAre, NotLastFat
    <2> QED
        BY <1>2, <2>1, LoadedHolds DEF UpdatesInv
<1>8. Sound(entry)
    BY <1>4, ItemsSound DEF UpdatesInv
<1> HIDE DEF entry
<1>9. DataHolds([Loaded(s) EXCEPT ![i] = entry])
    BY <1>7, <1>8 DEF DataHolds
<1>10. CacheInv' /\ ~Stale' /\ first_lba' = FirstLba
    <2> DEFINE d == [Loaded(s) EXCEPT ![i] = entry]
    <2>1. Holds(s, d) /\ Change(s, d) /\ UNCHANGED lines
        BY <1>1, <1>5, <1>6, <1>7, <1>9
    <2> HIDE DEF d
    <2> QED
        BY <1>2, <2>1, ChangeKeeps DEF UpdatesInv
<1>11. /\ op' \in Ops /\ op'.call = op.call /\ op'.name = op.name /\ op'.todo = op.todo
       /\ op'.first = op.first /\ op'.items = op.items /\ op'.h = op.h /\ op'.links = op.links
       /\ op'.pc = "flush"
    BY <1>1, <1>2 DEF Ops, Pcs
<1>12. PICK r : r = [H EXCEPT !.size = H.pos]
    OBVIOUS
<1>13. /\ r \in HandleRecords /\ r.of = H.of /\ r.at = H.at /\ r.pos = H.pos
       /\ r.first = H.first /\ r.cur = H.cur
    BY <1>2, <1>4, <1>12 DEF HandleRecords
<1>14. handle' = [handle EXCEPT ![op.h] = r]
    BY <1>1, <1>2, <1>12 DEF H, UpdatesInv, HandlesInv
<1>15. op.h = "file" /\ r.of # NoName =>
           r.pos + (IF op'.call = "fat_write" THEN Len(op'.items) ELSE 0) <= lines[r.of]
    BY <1>11, <1>13 DEF H, UpdatesInv, HandlesInv
<1>16. /\ HandlesInv' /\ handle'[op.h] = r
       /\ \A k \in Handles : k # op.h => handle'[k] = handle[k]
       /\ \A k \in Handles : handle'[k].of = handle[k].of
    BY <1>1, <1>2, <1>3, <1>13, <1>14, <1>15, HandlesMove DEF H
<1>17. InCall' /\ Mounting' /\ Due' = Due
    <2>1. \A k \in {"cwd", "dir"} : /\ handle[k].first # 0 => handle'[k].first # 0
                                    /\ handle[k].cur # 0 => handle'[k].cur # 0
        BY <1>3, <1>16 DEF Handles
    <2> QED
        BY <1>2, <1>10, <1>11, <1>16, <2>1, StayKeeps DEF UpdatesInv, Handles
<1>18. AtPlace'
    <2>1. H'.of # NoName
        BY <1>4, <1>11, <1>13, <1>16 DEF H
    <2> QED
        BY <1>2, <1>11, <1>17, <2>1 DEF AtPlace, Writing, Search
<1> QED
    BY <1>1, <1>10, <1>11, <1>16, <1>17, <1>18 DEF UpdatesInv, StaleInv, Counts

\* The call goes on from a stage that writes.
LEMMA WriteEnds ==
    ASSUME UpdatesInv, op.links = <<>>, op.todo # <<>>, Due \in Writing \cup {"blank"},
           op' = NextStage(op), first_lba # 0, first_lba' # 0,
           CacheInv', Stale' => Stale /\ sector' = sector,
           UNCHANGED <<last_cluster_alloc, handle, lines>>,
           handle["cwd"].first # 0, handle["cwd"].cur # 0,
           Due = "blank" => handle["dir"].first # 0 /\ handle["dir"].cur # 0, Counts'
    PROVE  UpdatesInv'
<1>1. op \in Ops /\ InCall
    BY DEF UpdatesInv
<1>2. Ready(handle'["cwd"], handle'["dir"]) /\ Due # "cluster"
    BY DEF Ready, Writing
<1>3. op' \in Ops /\ InCall' /\ Mounting' /\ AtPlace' /\ op'.links = <<>>
    BY <1>1, <1>2, NextStageKeeps
<1>4. op'.call # "fat_write"
    <2>1. op' = Idle \/ (op'.call = op.call /\ op.call # "fat_write")
        BY <1>1, NextStageIs
    <2> QED
        BY <2>1, IdleIs
<1>5. HandlesInv'
    BY <1>1, <1>4, HandlesStay DEF UpdatesInv
<1> QED
    BY <1>3, <1>5 DEF UpdatesInv, StaleInv

LEMMA SyncFlushKeeps ==
    ASSUME UpdatesInv, SyncFlush
    PROVE  UpdatesInv'
<1>1. /\ At(Writing, "flush") /\ Flush /\ op' = NextStage(op) /\ Acknowledge(H)
      /\ UNCHANGED <<last_cluster_alloc, handle>>
    BY DEF SyncFlush
<1>2. /\ op.links = <<>> /\ op.todo # <<>> /\ Due \in Writing /\ op.pc = "flush"
      /\ first_lba = FirstLba /\ first_lba # 0 /\ H \in HandleRecords
      /\ handle["cwd"].first # 0 /\ handle["cwd"].cur # 0
    BY <1>1, WritingAt
<1>3. H.of \in Files
    BY <1>2 DEF UpdatesInv, AtPlace, HandleRecords
<1>4. UNCHANGED lines /\ Counts'
    <2>1. CASE op.call = "fat_write"
        <3>1. UNCHANGED lines /\ acked' = [acked EXCEPT ![H.of] = lines[H.of]] /\ before' = acked
            BY <1>1, <2>1 DEF Acknowledge
        <3>2. \A f \in Files : lines[f] \in Nat /\ acked[f] \in Nat /\ acked[f] <= lines[f]
            BY DEF UpdatesInv, Counts
        <3>3. acked' \in [Files -> Nat] /\ before' \in [Files -> Nat] /\ lines' \in [Files -> Nat]
            BY <1>3, <3>1, <3>2 DEF UpdatesInv, Counts
        <3>4. \A f \in Files : before'[f] <= acked'[f] /\ acked'[f] <= lines'[f]
            BY <1>3, <3>1, <3>2 DEF UpdatesInv, Counts
        <3> QED
            BY <3>1, <3>3, <3>4 DEF Counts
    <2>2. CASE op.call # "fat_write"
        BY <1>1, <2>2 DEF Acknowledge, history, UpdatesInv, Counts
    <2> QED
        BY <2>1, <2>2
<1>5. CacheInv' /\ (Stale' => Stale) /\ first_lba' = FirstLba /\ sector' = sector
    BY <1>1, <1>2, <1>4, FlushKeeps DEF UpdatesInv
<1>6. Due # "blank"
    BY <1>2 DEF Writing
<1> QED
    BY <1>1, <1>2, <1>4, <1>5, <1>6, WriteEnds

LEMMA WriteReturnsKeeps ==
    ASSUME UpdatesInv, WriteReturns
    PROVE  UpdatesInv'
<1>1. /\ At(Writing, "size") /\ op' = NextStage(op)
      /\ UNCHANGED <<cache, last_cluster_alloc, handle, lines, acked, before>>
    BY DEF WriteReturns, history
<1>2. /\ op.links = <<>> /\ op.todo # <<>> /\ Due \in Writing
      /\ first_lba = FirstLba /\ first_lba # 0
      /\ handle["cwd"].first # 0 /\ handle["cwd"].cur # 0
    BY <1>1, WritingAt
<1>3. CacheInv' /\ (Stale' <=> Stale) /\ first_lba' = first_lba /\ sector' = sector
    BY <1>1, CacheStays DEF UpdatesInv
<1>4. Due # "blank" /\ Counts'
    BY <1>1, <1>2 DEF Writing, UpdatesInv, Counts
<1> QED
    BY <1>1, <1>2, <1>3, <1>4, WriteEnds

LEMMA BlankDirectoryKeeps ==
    ASSUME UpdatesInv, BlankDirectory
    PROVE  UpdatesInv'
<1>1. /\ At({"blank"}, "start") /\ op' = NextStage(op)
      /\ Fill(DataSector(handle["dir"].first), Zeros)
      /\ UNCHANGED <<last_cluster_alloc, handle, lines, acked, before>>
    BY DEF BlankDirectory, history
<1>2. /\ op.links = <<>> /\ op.todo # <<>> /\ Due = "blank" /\ Due \notin {"mbr", "volume"}
    BY <1>1, AtIs
<1>3. /\ first_lba = FirstLba /\ first_lba # 0
      /\ handle["cwd"].first # 0 /\ handle["cwd"].cur # 0
    BY <1>2, Busy, ConstantsAre
<1>4. handle["dir"].first # 0 /\ handle["dir"].cur # 0 /\ handle["dir"] \in HandleRecords
    BY <1>2 DEF UpdatesInv, Mounting, HandlesInv, Handles
<1>5. PICK c \in Clusters : c = handle["dir"].first
    BY <1>4 DEF HandleRecords, Opt
<1>6. DataSector(c) \in Sectors /\ Holds(DataSector(c), Zeros)
    BY SectorsAre, ZerosHold DEF UpdatesInv
<1>7. CacheInv' /\ ~Stale' /\ first_lba' = FirstLba
    BY <1>1, <1>3, <1>5, <1>6, ChangeKeeps DEF UpdatesInv
<1>8. Counts'
    BY <1>1 DEF UpdatesInv, Counts
<1> QED
    BY <1>1, <1>2, <1>3, <1>4, <1>7, <1>8, WriteEnds

LEMMA DirectoryClusterKeeps ==
    ASSUME TwoCopies, UpdatesInv, DirectoryCluster
    PROVE  UpdatesInv'
<1>1. /\ At({"cluster"}, "start") /\ Get(FatSector(0)) /\ FreeCluster # 0 /\ Took(FreeCluster)
      /\ op' = [NextStage(op) EXCEPT !.first = FreeCluster, !.links = SetInCopies(FreeCluster, Eoc)]
      /\ UNCHANGED <<handle, lines, acked, before>>
    BY DEF DirectoryCluster, history
<1>2. /\ op.links = <<>> /\ op.todo # <<>> /\ Due = "cluster" /\ Due \notin {"mbr", "volume"}
      /\ op \in Ops /\ InCall
    BY <1>1, AtIs DEF UpdatesInv
<1>3. /\ FatHolds(Fat) /\ CacheInv' /\ ~Stale' /\ first_lba # 0 /\ first_lba' = first_lba
    BY <1>1, <1>2, FatRead
<1>4. handle["cwd"].first # 0 /\ handle["cwd"].cur # 0 /\ op.call = "CreateDir"
    BY <1>2, Busy, DueIs, ConstantsAre
<1>5. PICK c \in Clusters : c = FreeCluster
    BY <1>1, <1>3, FreeClusterIs DEF Opt
<1>6. SetInCopies(c, Eoc) \in Seq(Link)
    BY SetInCopiesIs
<1>7. PICK n : n = NextStage(op)
    OBVIOUS
<1>8. /\ n.call = op.call /\ n.name = op.name /\ n.pc = "start"
      /\ n \in Ops /\ n.todo # <<>> /\ Head(n.todo) = "short"
      /\ \E j \in 1 .. Len(StagesOf(op.call)) :
            n.todo = SubSeq(StagesOf(op.call), j, Len(StagesOf(op.call)))
    BY <1>2, <1>7, NextStageIs
<1>9. op' = [n EXCEPT !.first = c, !.links = SetInCopies(c, Eoc)]
    BY <1>1, <1>5, <1>7
<1>10. /\ op' \in Ops /\ op'.call = op.call /\ op'.name = op.name /\ op'.pc = "start"
       /\ op'.todo = n.todo /\ op'.first = c
    BY <1>6, <1>8, <1>9 DEF Ops, Opt
<1>11. Due' = "short" /\ op' # Idle
    BY <1>8, <1>10, IdleIs DEF Due
<1>12. InCall'
    <2>1. StagesOf(op'.call) = StagesOf(op.call)
        BY <1>10
    <2> QED
        BY <1>2, <1>4, <1>8, <1>10, <2>1 DEF InCall
<1>13. Mounting'
    BY <1>1, <1>3, <1>4, <1>10, <1>11, ConstantsAre DEF Mounting, UpdatesInv
<1>14. AtPlace'
    BY <1>10, <1>11 DEF AtPlace, Search, Writing
<1>15. HandlesInv' /\ Counts' /\ last_cluster_alloc' \in Opt
    BY <1>1, <1>2, <1>4, <1>5, <1>10, HandlesStay DEF UpdatesInv, Counts, Took, Opt
<1> QED
    BY <1>3, <1>10, <1>12, <1>13, <1>14, <1>15 DEF UpdatesInv, StaleInv

LEMMA MbrKeeps ==
    ASSUME UpdatesInv, mbr_partition_init
    PROVE  UpdatesInv'
<1>1. /\ At({"mbr"}, "start") /\ first_lba' = card[Mbr][1] /\ op' = NextStage(op)
      /\ UNCHANGED <<card, undo, sector, dirty, last_cluster_alloc, handle, lines, acked, before>>
    BY DEF mbr_partition_init, history
<1>2. /\ op.links = <<>> /\ op.todo # <<>> /\ Due = "mbr" /\ op \in Ops /\ InCall
    BY <1>1, AtIs DEF UpdatesInv
<1>3. first_lba = 0 /\ sector = NoSector /\ ~dirty
    BY <1>2 DEF UpdatesInv, Mounting, CacheInv
<1>4. first_lba' = FirstLba /\ FirstLba # 0
    BY <1>1, ConstantsAre DEF UpdatesInv, CacheInv, CardHolds, PartitionAt
<1>5. \A t, x : Holds(t, x)' <=> Holds(t, x)
    BY <1>1 DEF Holds, FatHolds, DataHolds, Sound
<1>6. CacheInv' /\ ~Stale'
    BY <1>1, <1>3, <1>4, <1>5 DEF UpdatesInv, CacheInv, CardHolds, UndoHolds, Stale
<1>7. op.call = "OpenFatInit"
    BY <1>2, DueIs
<1>8. /\ op'.call = op.call /\ op'.name = op.name /\ op'.pc = "start" /\ op'.links = op.links
      /\ op' \in Ops /\ op'.todo # <<>> /\ Head(op'.todo) = "volume"
      /\ \E j \in 1 .. Len(StagesOf(op.call)) :
            op'.todo = SubSeq(StagesOf(op.call), j, Len(StagesOf(op.call)))
    BY <1>1, <1>2, NextStageIs
<1>9. Due' = "volume" /\ op' # Idle
    BY <1>8, IdleIs DEF Due
<1>10. InCall'
    <2>1. StagesOf(op'.call) = StagesOf(op.call)
        BY <1>8
    <2> QED
        BY <1>2, <1>7, <1>8, <2>1 DEF InCall
<1>11. Mounting'
    BY <1>1, <1>4, <1>7, <1>8, <1>9 DEF Mounting, UpdatesInv
<1>12. AtPlace'
    BY <1>8, <1>9 DEF AtPlace, Search, Writing
<1>13. HandlesInv' /\ Counts'
    BY <1>1, <1>2, <1>7, <1>8, HandlesStay DEF UpdatesInv, Counts
<1> QED
    BY <1>1, <1>6, <1>8, <1>10, <1>11, <1>12, <1>13 DEF UpdatesInv, StaleInv

LEMMA VolumeKeeps ==
    ASSUME TwoCopies, UpdatesInv, fat_vol_init
    PROVE  UpdatesInv'
<1>1. /\ At({"volume"}, "start") /\ Get(BootSector) /\ last_cluster_alloc' = 2
      /\ handle' = [handle EXCEPT !["cwd"] = DirHandle(Loaded(BootSector)[1])]
      /\ op' = NextStage(op) /\ UNCHANGED <<lines, acked, before>>
    BY DEF fat_vol_init, history
<1>2. /\ op.links = <<>> /\ op.todo # <<>> /\ Due = "volume" /\ op \in Ops /\ InCall
    BY <1>1, AtIs DEF UpdatesInv
<1>3. op # Idle /\ op.call = "OpenFatInit"
    BY <1>2, DueIs
<1>4. first_lba = FirstLba /\ first_lba # 0
    BY <1>2, <1>3, ConstantsAre DEF UpdatesInv, Mounting, CacheInv
<1>5. BootSector \in Sectors /\ BootSector # LastFat /\ \A d : Holds(BootSector, d) <=> d = RootAt(Root)
    BY SectorsAre, NotLastFat
<1>6. Loaded(BootSector) = RootAt(Root)
    BY <1>4, <1>5, LoadedHolds DEF UpdatesInv
<1>7. CacheInv' /\ ~Stale' /\ first_lba' = FirstLba
    BY <1>1, <1>4, <1>5, GetKeeps DEF UpdatesInv
<1>8. handle' = [handle EXCEPT !["cwd"] = DirHandle(Root)] /\ Root \in Clusters
    BY <1>1, <1>6, ConstantsAre DEF RootAt
<1>9. op'.call # "fat_write"
    BY <1>1, <1>2, <1>3, NextStageIs, IdleIs
<1>10. /\ HandlesInv' /\ handle'["cwd"] = DirHandle(Root) /\ handle'["file"] = handle["file"]
    <2>1. handle["cwd"].of = NoName /\ handle["cwd"].at = <<>>
        BY DEF UpdatesInv, HandlesInv
    <2> QED
        BY <1>1, <1>8, <1>9, <2>1, DirHandleIs, HandlesMove DEF Handles
<1>11. Ready(handle'["cwd"], handle'["dir"]) /\ Due # "cluster"
    BY <1>2, <1>8, <1>10, DirHandleIs, ConstantsAre DEF Ready
<1>12. op' \in Ops /\ InCall' /\ Mounting' /\ AtPlace'
    BY <1>1, <1>2, <1>4, <1>7, <1>11, NextStageKeeps
<1>13. Counts' /\ last_cluster_alloc' \in Opt
    BY <1>1, ConstantsAre DEF UpdatesInv, Counts, Opt, Root
<1> QED
    BY <1>7, <1>10, <1>12, <1>13 DEF UpdatesInv, StaleInv

\* A call begins with its first stage.
LEMMA CallBegins ==
    ASSUME NEW call \in Calls, op'.call = call, op'.todo = StagesOf(call)
    PROVE  /\ op'.todo \in Seq(Stages) /\ op' # Idle
           /\ \E i \in 1 .. Len(StagesOf(op'.call)) :
                 op'.todo = SubSeq(StagesOf(op'.call), i, Len(StagesOf(op'.call)))
           /\ Due' = CASE call = "OpenFatInit" -> "mbr" [] call = "fat_write" -> "lines"
                       [] OTHER -> "exists"
<1> DEFINE s == StagesOf(call)
<1>1. s \in Seq(Stages)
    BY StagesKnown DEF Calls
<1>2. s # <<>> /\ Head(s) = CASE call = "OpenFatInit" -> "mbr" [] call = "fat_write" -> "lines"
                              [] OTHER -> "exists"
    BY DEF StagesOf, Calls
<1>3. op' # Idle
    BY IdleIs DEF Calls
<1> HIDE DEF s
<1>4. Len(s) \in Nat \ {0} /\ SubSeq(s, 1, Len(s)) = s
    BY <1>1, <1>2, EmptySeq, SubSeqFull
<1>5. 1 \in 1 .. Len(s)
    BY <1>4
<1>6. StagesOf(op'.call) = s
    BY DEF s
<1>7. op'.todo = s
    BY DEF s
<1> QED
    BY <1>1, <1>2, <1>3, <1>4, <1>5, <1>6, <1>7 DEF Due

LEMMA CallKeeps ==
    ASSUME UpdatesInv, op = Idle, NEW call \in Calls \ {"fat_write"}, NEW n \in Names \cup {NoName},
           op' = [Idle EXCEPT !.call = call, !.name = n, !.todo = StagesOf(call)],
           call = "CreateDir" => n = SubDir, call = "CreateFile" => n \in Files,
           call = "OpenFatInit" <=> ~Mounted,
           UNCHANGED <<cache, last_cluster_alloc, handle, lines, acked, before>>
    PROVE  UpdatesInv'
<1>1. /\ Idle \in Ops /\ Idle.links = <<>> /\ Idle.pc = "start" /\ Idle.items = <<>>
    BY IdleIs
<1>2. StagesOf(call) \in Seq(Stages)
    BY StagesKnown DEF Calls
<1>3. /\ op'.call = call /\ op'.name = n /\ op'.todo = StagesOf(call) /\ op'.links = <<>>
      /\ op'.pc = "start" /\ op'.items = <<>>
    <2> HIDE DEF Idle
    <2> QED
        BY <1>1 DEF Ops
<1>4. op' \in Ops
    <2> HIDE DEF Idle
    <2> QED
        BY <1>1, <1>2 DEF Ops
<1>5. /\ op' # Idle
      /\ \E i \in 1 .. Len(StagesOf(op'.call)) :
            op'.todo = SubSeq(StagesOf(op'.call), i, Len(StagesOf(op'.call)))
      /\ Due' = IF call = "OpenFatInit" THEN "mbr" ELSE "exists"
    BY <1>3, CallBegins
<1>6. CacheInv' /\ (Stale' <=> Stale) /\ first_lba' = first_lba /\ sector' = sector
    BY CacheStays DEF UpdatesInv
<1>7. first_lba = 0 <=> handle["cwd"].first = 0
    BY DEF UpdatesInv, Mounting
<1>8. InCall'
    BY <1>3, <1>5 DEF InCall, Calls
<1>9. Mounting'
    BY <1>3, <1>5, <1>6, <1>7 DEF Mounting, Mounted, UpdatesInv
<1>10. AtPlace'
    BY <1>3, <1>5 DEF AtPlace, Search, Writing
<1>11. HandlesInv' /\ Counts'
    <2>1. op \in Ops /\ HandlesInv /\ Counts
        BY DEF UpdatesInv
    <2> QED
        BY <1>3, <2>1, HandlesStay DEF Counts
<1>12. StaleInv'
    BY <1>1, <1>3, <1>6 DEF UpdatesInv, StaleInv
<1> QED
    BY <1>4, <1>6, <1>8, <1>9, <1>10, <1>11, <1>12 DEF UpdatesInv

LEMMA CallersKeep ==
    ASSUME UpdatesInv, OpenFatInit \/ CreateDir \/ \E f \in Files : CreateFile(f)
    PROVE  UpdatesInv'
<1>1. UNCHANGED <<cache, last_cluster_alloc, handle, lines, acked, before>> /\ op = Idle
    BY DEF OpenFatInit, CreateDir, CreateFile, history
<1>2. CASE OpenFatInit
    <2>1. /\ ~Mounted
          /\ op' = [Idle EXCEPT !.call = "OpenFatInit", !.name = NoName, !.todo = StagesOf("OpenFatInit")]
        BY <1>2 DEF OpenFatInit, Call, StagesOf
    <2> QED
        BY <1>1, <2>1, CallKeeps DEF Calls
<1>3. CASE CreateDir
    <2>1. /\ Mounted /\ SubDir \in Names
          /\ op' = [Idle EXCEPT !.call = "CreateDir", !.name = SubDir, !.todo = StagesOf("CreateDir")]
        BY <1>3 DEF CreateDir, Call, StagesOf, Names
    <2>2. PICK call \in Calls \ {"fat_write"}, n \in Names \cup {NoName} :
              call = "CreateDir" /\ n = SubDir
        BY <2>1 DEF Calls
    <2>3. op' = [Idle EXCEPT !.call = call, !.name = n, !.todo = StagesOf(call)]
        BY <2>1, <2>2
    <2> QED
        BY <1>1, <2>1, <2>2, <2>3, CallKeeps
<1>4. ASSUME NEW f \in Files, CreateFile(f) PROVE UpdatesInv'
    <2>1. /\ Mounted /\ f \in Names
          /\ op' = [Idle EXCEPT !.call = "CreateFile", !.name = f, !.todo = StagesOf("CreateFile")]
        BY <1>4 DEF CreateFile, Call, StagesOf, Names
    <2>2. PICK call \in Calls \ {"fat_write"}, n \in Names \cup {NoName} :
              call = "CreateFile" /\ n = f
        BY <2>1 DEF Calls
    <2>3. op' = [Idle EXCEPT !.call = call, !.name = n, !.todo = StagesOf(call)]
        BY <2>1, <2>2
    <2> QED
        BY <1>1, <1>4, <2>1, <2>2, <2>3, CallKeeps
<1> QED
    BY <1>2, <1>3, <1>4

\* More lines have been written than before.
LEMMA SoundGrows ==
    ASSUME Counts, \A f \in Files : lines'[f] \in Nat /\ lines[f] <= lines'[f],
           NEW x, Sound(x)
    PROVE  Sound(x)'
BY DEF Sound, Counts

LEMMA fat_writeKeeps ==
    ASSUME UpdatesInv, NEW n \in 1 .. 2, fat_write(n)
    PROVE  UpdatesInv'
<1> DEFINE f == handle["file"].of
<1> DEFINE items == [i \in 1 .. n |-> Line(f, lines[f] + i)]
<1>1. /\ op = Idle /\ f # NoName
      /\ op' = [Idle EXCEPT !.call = "fat_write", !.name = f, !.todo = <<"lines">>, !.items = items]
      /\ lines' = [lines EXCEPT ![f] = @ + n]
      /\ UNCHANGED <<cache, last_cluster_alloc, handle, acked, before>>
    BY DEF fat_write
<1>2. handle["file"] \in HandleRecords /\ handle["file"].pos \in Nat
    BY DEF UpdatesInv, HandlesInv, Handles, HandleRecords
<1>3. f \in Files /\ lines[f] \in Nat
    BY <1>1, <1>2 DEF HandleRecords, UpdatesInv, Counts
<1>4. handle["file"].pos <= lines[f]
    BY <1>1, FileFits
<1>5. items \in Seq(Written) /\ Len(items) = n /\ items # <<>>
    <2>1. \A i \in 1 .. n : Line(f, lines[f] + i) \in Written
        BY <1>3 DEF Written
    <2>2. items \in Seq(Written) /\ Len(items) = n
        BY <2>1
    <2>3. Len(<<>>) = 0
        OBVIOUS
    <2> QED
        BY <2>2, <2>3
<1> HIDE DEF items
<1>6. /\ Idle \in Ops /\ Idle.links = <<>> /\ Idle.pc = "start"
    BY IdleIs
<1>7. <<"lines">> = StagesOf("fat_write") /\ StagesOf("fat_write") \in Seq(Stages)
    BY StagesKnown DEF StagesOf
<1>8. /\ op'.call = "fat_write" /\ op'.name = f /\ op'.todo = StagesOf("fat_write")
      /\ op'.links = <<>> /\ op'.pc = "start" /\ op'.items = items
    <2> HIDE DEF Idle
    <2> QED
        BY <1>1, <1>6, <1>7 DEF Ops
<1>9. op' \in Ops
    <2> HIDE DEF Idle, f
    <2>1. f \in Names /\ <<"lines">> \in Seq(Stages)
        BY <1>3, <1>7 DEF Names
    <2> QED
        BY <1>1, <1>5, <1>6, <2>1 DEF Ops, Calls
<1>10. /\ op' # Idle /\ Due' = "lines"
       /\ \E i \in 1 .. Len(StagesOf(op'.call)) :
            op'.todo = SubSeq(StagesOf(op'.call), i, Len(StagesOf(op'.call)))
    BY <1>8, CallBegins DEF Calls
<1>11. /\ lines' \in [Files -> Nat] /\ lines'[f] = lines[f] + n
       /\ \A g \in Files : lines'[g] \in Nat /\ lines[g] <= lines'[g]
    BY <1>1, <1>3 DEF UpdatesInv, Counts
<1>12. \A s, d : Holds(s, d) => Holds(s, d)'
    BY <1>11, SoundGrows DEF UpdatesInv, Holds, FatHolds, DataHolds
<1>13. UNCHANGED <<card, undo, first_lba, buf, sector, dirty>>
    BY <1>1 DEF cache
<1>14. CacheInv' /\ (Stale' <=> Stale)
    BY <1>12, <1>13 DEF UpdatesInv, CacheInv, CardHolds, UndoHolds, Stale, Lba
<1>15. Counts'
    <2>1. \A g \in Files : acked[g] <= lines'[g]
        BY <1>11 DEF UpdatesInv, Counts
    <2> QED
        BY <1>1, <1>11, <2>1 DEF UpdatesInv, Counts
<1>16. HandlesInv'
    <2>1. handle["file"].pos + Len(items) <= lines'[f]
        BY <1>2, <1>3, <1>4, <1>5, <1>11
    <2> QED
        BY <1>1, <1>8, <2>1 DEF UpdatesInv, HandlesInv
<1>17. InCall'
    BY <1>1, <1>3, <1>8, <1>10 DEF InCall
<1>18. Mounting'
    <2>1. handle["cwd"].first # 0 /\ first_lba # 0
        BY <1>1 DEF UpdatesInv, Mounting
    <2> QED
        BY <1>1, <1>8, <1>10, <1>13, <2>1 DEF Mounting, UpdatesInv
<1>19. AtPlace'
    BY <1>5, <1>8, <1>10 DEF AtPlace, Search, Writing
<1>20. StaleInv'
    BY <1>1, <1>6, <1>8, <1>13, <1>14 DEF UpdatesInv, StaleInv
<1> QED
    BY <1>1, <1>9, <1>14, <1>15, <1>16, <1>17, <1>18, <1>19, <1>20 DEF UpdatesInv

-----------------------------------------------------------------------------
(* What a power cut leaves                                                 *)

\* The chains of at most n clusters, given those of at most n - 1.
ChainsOf(fat, n, g) ==
    [d \in Clusters |->
        IF n > 1 /\ fat[d] \in Clusters THEN <<d>> \o g[n - 1][fat[d]] ELSE <<d>>]

AreChains(fat, g, m) == g = [n \in 1 .. m |-> ChainsOf(fat, n, g)]

LEMMA ChainsExist ==
    ASSUME NEW fat
    PROVE  \E g : AreChains(fat, g, cluster_count)
<1> DEFINE T == {m \in 1 .. cluster_count : ~ \E g : AreChains(fat, g, m)}
<1>1. CASE T = {}
    BY <1>1, ConstantsAre
<1>2. CASE T # {}
    <2>1. T \in SUBSET Nat
        BY ConstantsAre
    <2>2. PICK m \in T : \A j \in T : m <= j
        BY <1>2, <2>1, LeastOfNat
    <2>3. m \in 1 .. cluster_count /\ ~ \E g : AreChains(fat, g, m)
        BY <2>2
    <2>4. \E h : m > 1 => AreChains(fat, h, m - 1)
        <3>1. CASE m > 1
            <4>1. m - 1 \in 1 .. cluster_count /\ m - 1 \notin T
                BY <2>2, <2>3, <3>1, ConstantsAre
            <4> QED
                BY <4>1
        <3> QED
            BY <3>1
    <2>5. PICK h : m > 1 => AreChains(fat, h, m - 1)
        BY <2>4
    <2> DEFINE g == [n \in 1 .. m |-> IF n = m THEN ChainsOf(fat, m, h) ELSE h[n]]
    <2>6. \A n \in 1 .. m : g[n] = ChainsOf(fat, n, g)
        <3> SUFFICES ASSUME NEW n \in 1 .. m PROVE g[n] = ChainsOf(fat, n, g)
            OBVIOUS
        <3>1. ChainsOf(fat, n, g) = ChainsOf(fat, n, h)
            <4>1. n > 1 => g[n - 1] = h[n - 1]
                BY <2>3, ConstantsAre
            <4> HIDE DEF g
            <4> QED
                BY <4>1 DEF ChainsOf
        <3>2. CASE n = m
            BY <3>1, <3>2
        <3>3. CASE n # m
            <4>1. m > 1 /\ n \in 1 .. m - 1
                BY <3>3, <2>3, ConstantsAre
            <4>2. h[n] = ChainsOf(fat, n, h)
                BY <2>5, <4>1 DEF AreChains
            <4> QED
                BY <3>1, <3>3, <4>2
        <3> QED
            BY <3>2, <3>3
    <2>7. AreChains(fat, g, m)
        <3>1. g = [n \in 1 .. m |-> g[n]]
            OBVIOUS
        <3> HIDE DEF g
        <3> QED
            BY <2>6, <3>1 DEF AreChains
    <2> QED
        BY <2>3, <2>7
<1> QED
    BY <1>1, <1>2

LEMMA ChainIs ==
    ASSUME NEW img, NEW c
    PROVE  ChainOn(img, c) \in Seq(Clusters)
<1> DEFINE fat == FatOn(img)
<1> DEFINE g == CHOOSE x : AreChains(fat, x, cluster_count)
<1>1. ChainOn(img, c) = IF c \in Clusters THEN g[cluster_count][c] ELSE <<>>
    BY DEF ChainOn, AreChains, ChainsOf
<1>2. AreChains(fat, g, cluster_count)
    BY ChainsExist
<1> HIDE DEF g, fat
<1>3. \A n \in 1 .. cluster_count : g[n] = ChainsOf(fat, n, g)
    BY <1>2 DEF AreChains
<1> DEFINE T == {n \in 1 .. cluster_count : ~ \A d \in Clusters : g[n][d] \in Seq(Clusters)}
<1>4. T = {}
    <2> SUFFICES ASSUME T # {} PROVE FALSE
        OBVIOUS
    <2>1. T \in SUBSET Nat
        BY ConstantsAre
    <2>2. PICK n \in T : \A j \in T : n <= j
        BY <2>1, LeastOfNat
    <2>3. PICK d \in Clusters : g[n][d] \notin Seq(Clusters)
        BY <2>2
    <2>4. g[n][d] = IF n > 1 /\ fat[d] \in Clusters THEN <<d>> \o g[n - 1][fat[d]] ELSE <<d>>
        <3>1. n \in 1 .. cluster_count
            BY <2>2
        <3>2. g[n] = ChainsOf(fat, n, g)
            BY <1>3, <3>1
        <3> HIDE DEF T
        <3> QED
            BY <3>2 DEF ChainsOf
    <2>5. CASE n > 1 /\ fat[d] \in Clusters
        <3>1. n - 1 \in 1 .. cluster_count /\ n - 1 \notin T
            BY <2>2, <2>5, ConstantsAre
        <3>2. PICK t \in Seq(Clusters) : t = g[n - 1][fat[d]]
            BY <2>5, <3>1
        <3>3. <<d>> \o t \in Seq(Clusters)
            OBVIOUS
        <3> QED
            BY <2>3, <2>4, <2>5, <3>2, <3>3
    <2>6. CASE ~(n > 1 /\ fat[d] \in Clusters)
        <3>1. <<d>> \in Seq(Clusters)
            OBVIOUS
        <3> QED
            BY <2>3, <2>4, <2>6, <3>1
    <2> QED
        BY <2>5, <2>6
<1>5. <<>> \in Seq(Clusters) /\ cluster_count \in 1 .. cluster_count
    BY ConstantsAre
<1> QED
    BY <1>1, <1>4, <1>5

LEMMA ItemsAlongSound ==
    ASSUME NEW img, CardHolds(img), NEW chain \in Seq(Clusters)
    PROVE  \A i \in DOMAIN ItemsAlong(img, chain) : Sound(ItemsAlong(img, chain)[i])
<1> SUFFICES ASSUME NEW i \in 1 .. Len(chain) * Slots
             PROVE  Sound(ItemsAlong(img, chain)[i])
    BY DEF ItemsAlong
<1>1. Slots \in Nat \ {0} /\ Len(chain) \in Nat
    BY ConstantsAre
<1>2. PICK p \in Nat : p = i - 1 /\ p < Slots * Len(chain)
    <2>1. Len(chain) * Slots = Slots * Len(chain)
        BY <1>1
    <2>2. PICK n \in Nat : n = Len(chain) * Slots
        BY <1>1
    <2> QED
        BY <2>1, <2>2
<1>3. p \div Slots \in Nat /\ p % Slots \in 0 .. Slots - 1 /\ p \div Slots < Len(chain)
    BY <1>1, <1>2, DivisionIs
<1>4. PICK j, k : j = p \div Slots /\ k = p % Slots
    OBVIOUS
<1>5. j + 1 \in 1 .. Len(chain) /\ k + 1 \in 1 .. Slots
    BY <1>1, <1>3, <1>4
<1>6. PICK c \in Clusters : c = chain[j + 1]
    BY <1>5
<1>7. ItemsAlong(img, chain)[i] = ItemsOf(img, c)[k + 1]
    BY <1>2, <1>4, <1>6 DEF ItemsAlong
<1>8. DataHolds(ItemsOf(img, c))
    BY SectorsAre DEF CardHolds, ItemsOf
<1> QED
    BY <1>5, <1>7, <1>8 DEF DataHolds

\* No size in a directory is more than the lines of the file.
LEMMA SizeIs ==
    ASSUME Counts, NEW img, CardHolds(img), NEW f \in Files
    PROVE  SizeOn(img, f) \in 0 .. lines[f]
<1>1. \A c : \A e \in EntryOn(img, c, f) : e[4] \in 0 .. lines[f]
    <2> SUFFICES ASSUME NEW c, NEW e \in EntryOn(img, c, f) PROVE e[4] \in 0 .. lines[f]
        OBVIOUS
    <2> DEFINE items == ItemsAlong(img, ChainOn(img, c))
    <2>1. \A i \in DOMAIN items : Sound(items[i])
        BY ChainIs, ItemsAlongSound
    <2>2. PICK i \in DOMAIN items : e = items[i] /\ items[i][1] = "short" /\ items[i][2] = f
        BY DEF EntryOn
    <2> QED
        BY <2>1, <2>2, ConstantsAre DEF Sound
<1> DEFINE sizes == {e[4] : e \in FileEntries(img, f)} \cup {0}
<1>2. sizes \in SUBSET (0 .. lines[f]) /\ sizes # {} /\ lines[f] \in Nat
    BY <1>1 DEF FileEntries, Counts
<1> DEFINE size == CHOOSE n \in sizes : \A m \in sizes : m <= n
<1>3. SizeOn(img, f) = size
    BY DEF SizeOn
<1> HIDE DEF sizes
<1>4. \E n \in sizes : \A m \in sizes : m <= n
    BY <1>2, GreatestOfNat
<1>5. size \in sizes
    BY <1>4
<1> QED
    BY <1>2, <1>3, <1>5

\* What the card may hold after a power cut.
LEMMA SurvivorsHold ==
    ASSUME CacheInv, NEW img \in Survivors
    PROVE  CardHolds(img)
<1>1. CASE img = card
    BY <1>1 DEF CacheInv
<1>2. CASE img = [l \in DOMAIN card |-> IF l \in DOMAIN undo THEN undo[l] ELSE card[l]]
    <2>1. \A s \in Sectors : /\ FirstLba + s \in DOMAIN card /\ (FirstLba + s) - FirstLba = s
                             /\ Holds(s, card[FirstLba + s])
        <3>1. \A s \in Sectors : s \in Nat /\ s <= Last /\ FirstLba \in Nat /\ Last \in Nat
            BY ConstantsAre DEF Sectors, Last, DataSector
        <3>2. \A s \in Sectors : FirstLba + s \in 0 .. FirstLba + Last /\ (FirstLba + s) - FirstLba = s
            BY <3>1
        <3> QED
            BY <3>2 DEF CacheInv, CardHolds
    <2>2. \A l \in DOMAIN undo : l - FirstLba \in Sectors /\ Holds(l - FirstLba, undo[l])
        BY DEF CacheInv, UndoHolds
    <2>3. Mbr \in DOMAIN card /\ Mbr \notin DOMAIN undo
        <3>1. 0 - FirstLba \notin Sectors /\ FirstLba + Last \in Nat /\ 0 \in 0 .. FirstLba + Last
            BY ConstantsAre DEF Sectors, Last, DataSector
        <3> QED
            BY <2>2, <3>1 DEF Mbr, CacheInv, CardHolds
    <2>4. \A s \in Sectors : Holds(s, img[FirstLba + s])
        <3> SUFFICES ASSUME NEW s \in Sectors PROVE Holds(s, img[FirstLba + s])
            OBVIOUS
        <3>1. CASE FirstLba + s \in DOMAIN undo
            <4>1. img[FirstLba + s] = undo[FirstLba + s]
                BY <1>2, <2>1, <3>1
            <4> QED
                BY <2>1, <2>2, <3>1, <4>1
        <3>2. CASE FirstLba + s \notin DOMAIN undo
            <4>1. img[FirstLba + s] = card[FirstLba + s]
                BY <1>2, <2>1, <3>2
            <4> QED
                BY <2>1, <4>1
        <3> QED
            BY <3>1, <3>2
    <2>5. DOMAIN img = DOMAIN card /\ img[Mbr] = card[Mbr]
        BY <1>2, <2>3
    <2> QED
        BY <2>4, <2>5 DEF CacheInv, CardHolds
<1> QED
    BY <1>1, <1>2 DEF Survivors

\* Nothing is mounted, no call runs: after power-up and at first.
Unmounted ==
    /\ first_lba = 0 /\ sector = NoSector /\ dirty = FALSE /\ last_cluster_alloc = 0
    /\ undo = <<>> /\ handle = [h \in Handles |-> NoHandle] /\ op = Idle

LEMMA PoweredUp == Unmounted /\ CardHolds(card) /\ Counts => UpdatesInv
<1> SUFFICES ASSUME Unmounted, CardHolds(card), Counts PROVE UpdatesInv
    OBVIOUS
<1> USE DEF Unmounted
<1>1. /\ op \in Ops /\ op.call = "none" /\ op.todo = <<>> /\ op.links = <<>>
      /\ op.pc = "start" /\ op.items = <<>> /\ op = Idle
    BY IdleIs
<1>2. Due = "none"
    BY <1>1 DEF Due
<1>3. /\ NoHandle \in HandleRecords /\ NoHandle.of = NoName /\ NoHandle.at = <<>>
      /\ NoHandle.first = 0 /\ NoHandle.cur = 0 /\ NoHandle.pos = 0
    BY DEF NoHandle, HandleRecords, Opt
<1>4. HandlesInv
    BY <1>3 DEF HandlesInv, Handles
<1>5. UndoHolds
    BY DEF UndoHolds
<1>6. CacheInv /\ StaleInv
    BY <1>5 DEF CacheInv, StaleInv, Stale
<1>7. InCall /\ AtPlace
    BY <1>1, <1>2 DEF InCall, AtPlace, Search, Writing
<1>8. Mounting
    <2>1. handle["cwd"].first = 0 /\ handle["file"].of = NoName
        BY <1>3 DEF Handles
    <2> QED
        BY <1>1, <1>2, <2>1 DEF Mounting
<1> QED
    BY <1>1, <1>4, <1>6, <1>7, <1>8 DEF UpdatesInv, Opt

LEMMA PowerCutKeeps ==
    ASSUME UpdatesInv, PowerCut
    PROVE  UpdatesInv'
<1>1. /\ card' \in Survivors /\ UNCHANGED lines /\ before' = acked'
      /\ acked' = [f \in Files |-> SizeOn(card', f)]
      /\ first_lba' = 0 /\ sector' = NoSector /\ dirty' = FALSE /\ last_cluster_alloc' = 0
      /\ undo' = <<>> /\ handle' = [h \in Handles |-> NoHandle] /\ op' = Idle
    BY DEF PowerCut, PowerUp, Handles
<1>2. PICK img \in Survivors : img = card'
    BY <1>1
<1>3. CardHolds(img)
    BY SurvivorsHold DEF UpdatesInv
<1>4. \A t, x : Holds(t, x)' <=> Holds(t, x)
    BY <1>1 DEF Holds, FatHolds, DataHolds, Sound
<1>5. CardHolds(card)'
    BY <1>2, <1>3, <1>4 DEF CardHolds
<1>6. \A f \in Files : acked'[f] \in 0 .. lines[f]
    <2>1. \A f \in Files : SizeOn(img, f) \in 0 .. lines[f]
        BY <1>3, SizeIs DEF UpdatesInv
    <2> QED
        BY <1>1, <1>2, <2>1
<1>7. Counts'
    <2>1. \A f \in Files : lines[f] \in Nat
        BY DEF UpdatesInv, Counts
    <2>2. \A f \in Files : acked'[f] \in Nat /\ acked'[f] <= lines'[f]
        BY <1>1, <1>6, <2>1
    <2>3. acked' \in [Files -> Nat] /\ before' \in [Files -> Nat] /\ lines' \in [Files -> Nat]
        BY <1>1, <2>2 DEF UpdatesInv, Counts
    <2> QED
        BY <1>1, <2>2, <2>3 DEF Counts
<1> QED
    <2>1. Unmounted'
        BY <1>1 DEF Unmounted
    <2>2. (Unmounted /\ CardHolds(card) /\ Counts => UpdatesInv)'
        BY PoweredUp, PTL
    <2> QED
        BY <1>5, <1>7, <2>1, <2>2

LEMMA InitHolds ==
    ASSUME Init
    PROVE  UpdatesInv
<1>1. /\ card = FreshCard /\ lines = [f \in Files |-> 0] /\ acked = lines /\ before = lines
      /\ first_lba = 0 /\ sector = NoSector /\ dirty = FALSE /\ last_cluster_alloc = 0
      /\ undo = <<>> /\ handle = [h \in Handles |-> NoHandle] /\ op = Idle
    BY DEF Init, Handles
<1>2. Counts
    BY <1>1 DEF Counts
<1>3. CardHolds(FreshCard)
    <2>1. DOMAIN FreshCard = 0 .. FirstLba + Last
        BY DEF FreshCard, Last
    <2>2. \A s \in Sectors : /\ s \in Nat /\ FirstLba + s \in 0 .. FirstLba + Last
                             /\ FirstLba + s # Mbr /\ ~(FirstLba + s < FirstLba)
        BY ConstantsAre DEF Sectors, Last, DataSector, Mbr
    <2>3. FreshCard[Mbr] = PartitionAt(FirstLba)
        <3>1. Mbr \in 0 .. FirstLba + Last
            BY ConstantsAre DEF Last, DataSector, Mbr
        <3> QED
            BY <2>1, <3>1 DEF FreshCard, Last
    <2>4. \A s \in Sectors : FreshCard[FirstLba + s] =
              IF s = BootSector THEN RootAt(Root)
              ELSE IF s < DataSector(2) THEN [c \in Clusters |-> IF c = Root THEN Eoc ELSE 0]
              ELSE IF s = DataSector(Root) THEN [i \in 1 .. Slots |-> IF i <= RootLabels THEN Label ELSE Zero]
              ELSE [i \in 1 .. Slots |-> Junk]
        <3> SUFFICES ASSUME NEW s \in Sectors
                     PROVE  FreshCard[FirstLba + s] =
              IF s = BootSector THEN RootAt(Root)
              ELSE IF s < DataSector(2) THEN [c \in Clusters |-> IF c = Root THEN Eoc ELSE 0]
              ELSE IF s = DataSector(Root) THEN [i \in 1 .. Slots |-> IF i <= RootLabels THEN Label ELSE Zero]
              ELSE [i \in 1 .. Slots |-> Junk]
            OBVIOUS
        <3>1. /\ DataSector(2) \in Int /\ DataSector(Root) \in Int /\ BootSector \in Int
              /\ s \in Nat /\ FirstLba \in Nat
            BY <2>2, ConstantsAre DEF DataSector, Root, BootSector
        <3>2. /\ FirstLba + s = FirstLba + BootSector <=> s = BootSector
              /\ FirstLba + s < FirstLba + DataSector(2) <=> s < DataSector(2)
              /\ FirstLba + s = FirstLba + DataSector(Root) <=> s = DataSector(Root)
            BY <3>1
        <3>3. FirstLba + s \in 0 .. FirstLba + DataSector(cluster_count + 1)
            BY <2>2 DEF Last
        <3> QED
            BY <2>2, <3>2, <3>3 DEF FreshCard
    <2>5. FatHolds([c \in Clusters |-> IF c = Root THEN Eoc ELSE 0])
        BY DEF FatHolds, Links
    <2>6. /\ DataHolds([i \in 1 .. Slots |-> IF i <= RootLabels THEN Label ELSE Zero])
          /\ DataHolds([i \in 1 .. Slots |-> Junk])
        BY <1>2, ItemsSound DEF DataHolds
    <2>7. \A s \in Sectors : s < DataSector(2) <=> s <= num_fats
        BY <2>2, ConstantsAre DEF DataSector
    <2> QED
        BY <2>1, <2>3, <2>4, <2>5, <2>6, <2>7 DEF CardHolds, Holds
<1> QED
    BY <1>1, <1>2, <1>3, PoweredUp DEF Unmounted

LEMMA StutterKeeps ==
    ASSUME UpdatesInv, UNCHANGED vars
    PROVE  UpdatesInv'
<1>1. UNCHANGED <<cache, last_cluster_alloc, handle, op, lines, acked, before>>
    BY DEF vars, calls, history
<1>2. CacheInv' /\ (Stale' <=> Stale) /\ first_lba' = first_lba /\ sector' = sector
    BY <1>1, CacheStays DEF UpdatesInv
<1>3. UNCHANGED dirty
    BY <1>1 DEF cache
<1>4. Due' = Due
    BY <1>1 DEF Due
<1>5. Counts' /\ HandlesInv' /\ InCall'
    BY <1>1 DEF UpdatesInv, Counts, HandlesInv, InCall
<1>6. Mounting' /\ AtPlace'
    BY <1>1, <1>2, <1>3, <1>4 DEF UpdatesInv, Mounting, AtPlace, H
<1> QED
    BY <1>1, <1>2, <1>5, <1>6 DEF UpdatesInv, StaleInv

\* The last copy of the FAT is only looked at to set a link.
LEMMA WantedIs ==
    ASSUME TwoCopies, UpdatesInv, first_lba # 0
    PROVE  Wanted \in Sectors /\ (Wanted # LastFat \/ op.links # <<>>)
<1>1. CASE op.links # <<>>
    <2>1. Wanted = FatSector(Head(op.links).copy)
        BY <1>1 DEF Wanted, Stage, Search, Writing
    <2>2. op.links \in Seq(Link) /\ Head(op.links) \in Link
        BY <1>1, HeadTailProperties DEF UpdatesInv, Ops
    <2> QED
        BY <1>1, <2>1, <2>2, SectorsAre DEF Link
<1>2. CASE op.links = <<>>
    <2>1. Stage = Due
        BY <1>2 DEF Stage, Due
    <2>2. CASE Due \in Search \cup {"seek"} /\ op.pc = "start"
        <3>1. op.todo # <<>> /\ Due \notin {"mbr", "volume"} /\ Due \notin Writing
            BY <2>2 DEF Due, Search, Writing
        <3>2. Wanted = DataSector(Here)
            BY <1>2, <2>1, <2>2, <3>1 DEF Wanted
        <3> QED
            BY <3>1, <3>2, Busy, SectorsAre, NotLastFat
    <2>3. CASE Due \in Writing /\ op.pc = "item"
        <3>1. op.todo # <<>> /\ Due # "volume" /\ Due \notin Search \cup {"seek"}
            BY <2>3 DEF Due, Search, Writing
        <3>2. Wanted = DataSector(H.cur)
            BY <1>2, <2>1, <2>3, <3>1 DEF Wanted
        <3>3. H.cur \in Clusters
            BY <2>3 DEF UpdatesInv, AtPlace, Ops, HandlesInv, HandleRecords, H, Opt
        <3> QED
            BY <3>2, <3>3, SectorsAre, NotLastFat
    <2>4. CASE Due \in Writing /\ op.pc = "size" /\ H.at # <<>>
        <3>1. op.todo # <<>> /\ Due # "volume" /\ Due \notin Search \cup {"seek"}
            BY <2>4 DEF Due, Search, Writing
        <3>2. Wanted = H.at[1]
            BY <1>2, <2>1, <2>4, <3>1 DEF Wanted
        <3>3. H \in HandleRecords
            BY DEF UpdatesInv, Ops, HandlesInv, H
        <3>4. PICK c \in Clusters, i \in 1 .. Slots : H.at = <<DataSector(c), i>>
            BY <2>4, <3>3 DEF HandleRecords, Places
        <3> QED
            BY <3>2, <3>4, SectorsAre, NotLastFat
    <2>5. CASE Due = "volume"
        <3>1. Due \notin Search \cup {"seek"} /\ Due \notin Writing
            BY <2>5 DEF Search, Writing
        <3>2. Wanted = BootSector
            BY <1>2, <2>1, <2>5, <3>1 DEF Wanted
        <3> QED
            BY <3>2, SectorsAre, NotLastFat
    <2>6. CASE /\ ~(Due \in Search \cup {"seek"} /\ op.pc = "start")
               /\ ~(Due \in Writing /\ op.pc = "item")
               /\ ~(Due \in Writing /\ op.pc = "size" /\ H.at # <<>>) /\ Due # "volume"
        <3>1. Wanted = FatSector(0)
            BY <1>2, <2>1, <2>6 DEF Wanted
        <3> QED
            BY <3>1, SectorsAre, NotLastFat
    <2> QED
        BY <2>2, <2>3, <2>4, <2>5, <2>6
<1> QED
    BY <1>1, <1>2

-----------------------------------------------------------------------------
(* How far the copies of the FAT are apart                                 *)

Copies == 0 .. num_fats - 1

FatsOf(img) == [copy \in Copies |-> img[FirstLba + FatSector(copy)]]

NewestFats ==
    [copy \in Copies |->
        IF dirty /\ sector = FatSector(copy) THEN buf ELSE card[FirstLba + FatSector(copy)]]

Differ(fats, copy) == {c \in Clusters : fats[copy][c] # fats[0][c]}

\* The cluster whose entry is set in some copies and not yet in the others.
Setting ==
    IF op.links # <<>> /\ Head(op.links).copy # 0 THEN {Head(op.links).cluster} ELSE {}

\* An entry is set in one copy after the other, to the last.
InOrder(links) ==
    /\ links # <<>> => links[Len(links)].copy = num_fats - 1
    /\ \A i \in 1 .. Len(links) - 1 :
          IF links[i].copy = num_fats - 1 THEN links[i + 1].copy = 0
          ELSE /\ links[i + 1].copy = links[i].copy + 1
               /\ links[i + 1].cluster = links[i].cluster /\ links[i + 1].next = links[i].next

Halfway ==
    op.links # <<>> =>
        LET l == Head(op.links)
        IN  \A copy \in Copies : copy < l.copy => NewestFats[copy][l.cluster] = l.next

\* The entries that differ for good, one for each power cut, and besides them
\* one at a time.
Explains(old) ==
    /\ \A copy \in Copies \ {0} :
          /\ old[copy] \subseteq Clusters /\ Cardinality(old[copy]) <= cuts
          /\ Differ(NewestFats, copy) \subseteq old[copy] \cup Setting
    /\ \A img \in Survivors : \E e \in Clusters : \A copy \in Copies \ {0} :
          Differ(FatsOf(img), copy) \subseteq old[copy] \cup {e}

CopiesInv ==
    /\ cuts \in Nat /\ InOrder(op.links) /\ Halfway
    /\ \E old : Explains(old)

\* What a power cut may leave is as before, or what was the newest.
Kept ==
    /\ NewestFats' = NewestFats
    /\ \A img \in Survivors' :
          FatsOf(img) = NewestFats \/ \E i \in Survivors : FatsOf(img) = FatsOf(i)

LEMMA CopiesAre ==
    /\ \A copy \in Copies : FatSector(copy) \in Sectors
    /\ \A k, copy \in Copies : FatSector(k) = FatSector(copy) => k = copy
    /\ 0 \in Copies /\ num_fats - 1 \in Copies
BY SectorsAre, ConstantsAre DEF Copies, FatSector

LEMMA FatsHold ==
    ASSUME CacheInv, NEW copy \in Copies
    PROVE  FatHolds(NewestFats[copy])
<1>1. FatSector(copy) \in Sectors /\ \A d : Holds(FatSector(copy), d) <=> FatHolds(d)
    BY SectorsAre DEF Copies
<1> QED
    BY <1>1 DEF CacheInv, CardHolds, NewestFats

\* After the buffer is written back the card has the newest copies.
LEMMA BackOnCard ==
    ASSUME CacheInv, first_lba = FirstLba, UNCHANGED lines, WriteBack
    PROVE  FatsOf(card)' = NewestFats
<1>1. /\ \A t \in Sectors : t # sector => card'[FirstLba + t] = card[FirstLba + t]
      /\ dirty => card'[FirstLba + sector] = buf
      /\ ~dirty => UNCHANGED card
    BY RoomKeepsCard
<1>2. \A copy \in Copies : card'[FirstLba + FatSector(copy)] = NewestFats[copy]
    BY <1>1, CopiesAre DEF NewestFats
<1>3. NewestFats = [copy \in Copies |-> NewestFats[copy]]
    BY DEF NewestFats
<1> QED
    BY <1>2, <1>3 DEF FatsOf

\* The block at risk is then the one written back.
LEMMA BackAtRisk ==
    ASSUME CacheInv, first_lba = FirstLba, UNCHANGED lines, WriteBack
    PROVE  \A img \in Survivors' :
               FatsOf(img) = NewestFats \/ \E i \in Survivors : FatsOf(img) = FatsOf(i)
<1>1. CASE ~dirty
    <2>1. UNCHANGED <<card, undo>>
        BY <1>1 DEF WriteBack
    <2>2. Survivors' = Survivors
        BY <2>1 DEF Survivors
    <2> QED
        BY <2>2
<1>2. CASE dirty
    <2>1. WriteSector(sector, buf) /\ sector \in Sectors
        BY <1>2 DEF WriteBack, CacheInv
    <2>2. undo' = [l \in {FirstLba + sector} |-> card[l]]
        BY <2>1 DEF WriteSector, Lba
    <2>3. /\ DOMAIN card' = DOMAIN card
          /\ \A t \in Sectors : t # sector => card'[FirstLba + t] = card[FirstLba + t]
        BY RoomKeepsCard
    <2> DEFINE undone == [l \in DOMAIN card' |-> IF l \in DOMAIN undo' THEN undo'[l] ELSE card'[l]]
    <2>4. \A copy \in Copies : undone[FirstLba + FatSector(copy)] = card[FirstLba + FatSector(copy)]
        <3> SUFFICES ASSUME NEW copy \in Copies
                     PROVE  undone[FirstLba + FatSector(copy)] = card[FirstLba + FatSector(copy)]
            OBVIOUS
        <3>1. FatSector(copy) \in Sectors
            BY CopiesAre
        <3>2. FirstLba + FatSector(copy) \in DOMAIN card
            BY <3>1, CurrentHolds
        <3>3. FatSector(copy) # sector =>
                  card'[FirstLba + FatSector(copy)] = card[FirstLba + FatSector(copy)]
            BY <2>3, <3>1
        <3>4. FirstLba + FatSector(copy) \in DOMAIN undo' <=>
                  FirstLba + FatSector(copy) = FirstLba + sector
            BY <2>2
        <3>5. FirstLba + FatSector(copy) = FirstLba + sector <=> FatSector(copy) = sector
            <4>1. sector \in Nat /\ FatSector(copy) \in Nat /\ FirstLba \in Nat
                BY <2>1, <3>1, ConstantsAre, SectorsAre
            <4> QED
                BY <4>1
        <3> QED
            BY <2>2, <2>3, <3>2, <3>3, <3>4, <3>5
    <2>5. FatsOf(undone) = FatsOf(card)
        <3> HIDE DEF undone
        <3> QED
            BY <2>4 DEF FatsOf
    <2>6. FatsOf(card') = NewestFats
        BY BackOnCard DEF FatsOf
    <2>7. Survivors' = {card', undone} /\ card \in Survivors
        BY DEF Survivors
    <2> QED
        BY <2>5, <2>6, <2>7
<1> QED
    BY <1>1, <1>2

LEMMA GetIsKept ==
    ASSUME CacheInv, first_lba = FirstLba, UNCHANGED lines, NEW s, Get(s)
    PROVE  Kept
<1>1. CASE sector = s
    <2>1. UNCHANGED <<card, undo>> /\ sector' = sector /\ buf' = buf /\ dirty' = dirty
        BY <1>1 DEF Get, MakeRoom, Loaded, CacheInv
    <2>2. Survivors' = Survivors
        BY <2>1 DEF Survivors
    <2> QED
        BY <2>1, <2>2 DEF Kept, NewestFats
<1>2. CASE sector # s
    <2>1. WriteBack /\ ~dirty'
        BY <1>2 DEF Get, MakeRoom
    <2>2. NewestFats' = FatsOf(card)'
        BY <2>1 DEF NewestFats, FatsOf
    <2> QED
        BY <2>1, <2>2, BackOnCard, BackAtRisk DEF Kept
<1> QED
    BY <1>1, <1>2

LEMMA FlushIsKept ==
    ASSUME CacheInv, first_lba = FirstLba, UNCHANGED lines, Flush \/ GetFails
    PROVE  Kept
<1>1. WriteBack /\ ~dirty'
    BY DEF Flush, GetFails, MakeRoom, WriteBack, CacheInv
<1>2. NewestFats' = FatsOf(card)'
    BY <1>1 DEF NewestFats, FatsOf
<1> QED
    BY <1>1, <1>2, BackOnCard, BackAtRisk DEF Kept

\* What becomes of the newest copies when a sector is changed in the buffer.
LEMMA ChangedFats ==
    ASSUME CacheInv, first_lba = FirstLba, UNCHANGED lines, NEW s, NEW d,
           Change(s, d) \/ Fill(s, d)
    PROVE  /\ \A copy \in Copies :
                  NewestFats'[copy] = IF FatSector(copy) = s THEN d ELSE NewestFats[copy]
           /\ \A img \in Survivors' :
                  FatsOf(img) = NewestFats \/ \E i \in Survivors : FatsOf(img) = FatsOf(i)
<1>1. buf' = d /\ sector' = s /\ dirty' = TRUE
    BY DEF Change, Fill
<1>2. CASE WriteBack
    <2>1. \A copy \in Copies : card'[FirstLba + FatSector(copy)] = NewestFats[copy]
        <3>1. \A copy \in Copies : FatsOf(card)'[copy] = card'[FirstLba + FatSector(copy)]
            BY DEF FatsOf
        <3> QED
            BY <1>2, <3>1, BackOnCard
    <2> QED
        BY <1>1, <1>2, <2>1, BackAtRisk DEF NewestFats
<1>3. CASE UNCHANGED <<card, undo>> /\ sector = s
    <2>1. Survivors' = Survivors
        BY <1>3 DEF Survivors
    <2> QED
        BY <1>1, <1>3, <2>1 DEF NewestFats
<1> QED
    BY <1>2, <1>3 DEF Change, Fill, MakeRoom

LEMMA DataIsKept ==
    ASSUME CacheInv, first_lba = FirstLba, UNCHANGED lines, NEW c \in Clusters, NEW d,
           Change(DataSector(c), d) \/ Fill(DataSector(c), d)
    PROVE  Kept
<1>1. \A copy \in Copies : FatSector(copy) # DataSector(c)
    BY SectorsAre DEF Copies
<1>2. \A copy \in Copies : NewestFats'[copy] = NewestFats[copy]
    BY <1>1, ChangedFats
<1>3. NewestFats' = NewestFats
    <2>1. /\ NewestFats = [copy \in Copies |-> NewestFats[copy]]
          /\ NewestFats' = [copy \in Copies |-> NewestFats'[copy]]
        BY DEF NewestFats
    <2> QED
        BY <1>2, <2>1
<1> QED
    BY <1>3, ChangedFats DEF Kept

LEMMA ClearIsKept ==
    ASSUME CacheInv, Counts, first_lba = FirstLba, UNCHANGED lines, ~dirty, NEW c \in Clusters,
           WriteThrough(DataSector(c), Zeros)
    PROVE  Kept
<1> DEFINE s == DataSector(c)
<1>1. s \in Sectors /\ Holds(s, Zeros) /\ \A copy \in Copies : FatSector(copy) # s
    BY SectorsAre, ZerosHold DEF Copies
<1>2. WriteSector(s, Zeros) /\ ~dirty'
    BY DEF WriteThrough
<1> HIDE DEF s
<1>3. /\ DOMAIN card' = DOMAIN card
      /\ \A t \in Sectors : card'[FirstLba + t] = IF t = s THEN Zeros ELSE card[FirstLba + t]
    BY <1>1, <1>2, WriteKeepsCard
<1>4. undo' = [l \in {FirstLba + s} |-> card[l]]
    BY <1>2 DEF WriteSector, Lba
<1>5. \A copy \in Copies : card'[FirstLba + FatSector(copy)] = card[FirstLba + FatSector(copy)]
    BY <1>1, <1>3, CopiesAre
<1> DEFINE undone == [l \in DOMAIN card' |-> IF l \in DOMAIN undo' THEN undo'[l] ELSE card'[l]]
<1>6. \A copy \in Copies : undone[FirstLba + FatSector(copy)] = card[FirstLba + FatSector(copy)]
    <2> SUFFICES ASSUME NEW copy \in Copies
                 PROVE  undone[FirstLba + FatSector(copy)] = card[FirstLba + FatSector(copy)]
        OBVIOUS
    <2>1. FatSector(copy) \in Sectors /\ FirstLba + FatSector(copy) \in DOMAIN card
        BY CopiesAre, CurrentHolds
    <2>2. FirstLba + FatSector(copy) # FirstLba + s
        <3>1. s \in Nat /\ FatSector(copy) \in Nat /\ FirstLba \in Nat
            BY <1>1, <2>1, ConstantsAre, SectorsAre
        <3> QED
            BY <1>1, <3>1
    <2>3. FirstLba + FatSector(copy) \notin DOMAIN undo'
        BY <1>4, <2>2
    <2> QED
        BY <1>3, <1>5, <2>1, <2>3
<1>7. FatsOf(undone) = FatsOf(card) /\ FatsOf(card') = FatsOf(card)
    <2> HIDE DEF undone
    <2> QED
        BY <1>5, <1>6 DEF FatsOf
<1>8. NewestFats' = NewestFats
    BY <1>2, <1>5 DEF NewestFats
<1>9. Survivors' = {card', undone} /\ card \in Survivors
    BY DEF Survivors
<1> QED
    BY <1>7, <1>8, <1>9 DEF Kept

LEMMA UntouchedIsKept ==
    ASSUME UNCHANGED <<card, undo, sector, dirty>>, buf' = buf \/ ~dirty
    PROVE  Kept
<1>1. Survivors' = Survivors
    BY DEF Survivors
<1> QED
    BY <1>1 DEF Kept, NewestFats

LEMMA QuietKeeps ==
    ASSUME CopiesInv, Kept, op.links = <<>>, UNCHANGED cuts, InOrder(op'.links),
           op'.links # <<>> => Head(op'.links).copy = 0
    PROVE  CopiesInv'
<1>1. Setting = {} /\ Setting' = {}
    BY DEF Setting
<1>2. Halfway'
    BY DEF Halfway, Copies
<1>3. PICK old : Explains(old)
    BY DEF CopiesInv
<1>4. \A copy \in Copies \ {0} :
          /\ old[copy] \subseteq Clusters /\ Cardinality(old[copy]) <= cuts
          /\ Differ(NewestFats, copy) \subseteq old[copy]
    BY <1>1, <1>3 DEF Explains
<1>5. ASSUME NEW img \in Survivors'
      PROVE  \E e \in Clusters : \A copy \in Copies \ {0} :
                 Differ(FatsOf(img), copy) \subseteq old[copy] \cup {e}
    <2>1. CASE FatsOf(img) = NewestFats
        <3>1. \A copy \in Copies \ {0} : Differ(FatsOf(img), copy) \subseteq old[copy] \cup {Root}
            BY <1>4, <2>1
        <3> QED
            BY <3>1, ConstantsAre
    <2>2. CASE \E i \in Survivors : FatsOf(img) = FatsOf(i)
        BY <1>3, <2>2 DEF Explains
    <2> QED
        BY <2>1, <2>2 DEF Kept
<1>6. Explains(old)'
    <2>1. \A copy : Differ(NewestFats, copy)' = Differ(NewestFats, copy)
        BY DEF Kept, Differ
    <2>2. \A img, copy : Differ(FatsOf(img), copy)' = Differ(FatsOf(img), copy)
        BY DEF Differ, FatsOf
    <2> QED
        BY <1>1, <1>4, <1>5, <2>1, <2>2 DEF Explains
<1> QED
    BY <1>2, <1>6 DEF CopiesInv

LEMMA NoneInOrder == InOrder(<<>>)
BY DEF InOrder

LEMMA CopiesInOrder ==
    ASSUME NEW c \in Clusters, NEW next \in Clusters \cup {Eoc}
    PROVE  InOrder(SetInCopies(c, next)) /\ Head(SetInCopies(c, next)).copy = 0
<1> DEFINE a == SetInCopies(c, next)
<1>1. num_fats \in Nat \ {0}
    BY ConstantsAre
<1>2. a \in Seq(Link) /\ Len(a) = num_fats /\ a[num_fats].copy = num_fats - 1
    BY SetInCopiesIs
<1>3. \A i \in 1 .. num_fats : a[i] = [copy |-> i - 1, cluster |-> c, next |-> next]
    BY DEF SetInCopies
<1> HIDE DEF a
<1>4. ASSUME NEW i \in 1 .. num_fats
      PROVE  a[i].copy = i - 1 /\ a[i].cluster = c /\ a[i].next = next
    <2>1. a[i] = [copy |-> i - 1, cluster |-> c, next |-> next]
        BY <1>3
    <2> QED
        BY <2>1
<1>5. \A i \in 1 .. num_fats - 1 : i \in 1 .. num_fats /\ i + 1 \in 1 .. num_fats
    BY <1>1
<1>6. InOrder(a)
    BY <1>1, <1>2, <1>4, <1>5 DEF InOrder
<1>7. Head(a) = a[1]
    BY <1>1, <1>2
<1> QED
    BY <1>1, <1>4, <1>6, <1>7 DEF a

\* Two entries after each other.
LEMMA BothInOrder ==
    ASSUME NEW a \in Seq(Link), NEW b \in Seq(Link), InOrder(a), InOrder(b),
           a # <<>>, b # <<>>, Head(a).copy = 0, Head(b).copy = 0
    PROVE  InOrder(a \o b) /\ Head(a \o b).copy = 0
<1>1. PICK m \in Nat, n \in Nat : m = Len(a) /\ n = Len(b)
    OBVIOUS
<1>2. m > 0 /\ n > 0
    BY <1>1, EmptySeq
<1>3. /\ Len(a \o b) = m + n
      /\ \A i \in 1 .. m : (a \o b)[i] = a[i]
      /\ \A i \in 1 .. n : (a \o b)[m + i] = b[i]
    BY <1>1
<1>4. Head(a \o b) = (a \o b)[1] /\ Head(a) = a[1] /\ Head(b) = b[1]
    BY <1>1, <1>2, <1>3
<1>5. (a \o b)[m + n] = b[n]
    BY <1>2, <1>3
<1>6. ASSUME NEW i \in 1 .. m + n - 1
      PROVE  LET s == a \o b
             IN  IF s[i].copy = num_fats - 1 THEN s[i + 1].copy = 0
                 ELSE /\ s[i + 1].copy = s[i].copy + 1
                      /\ s[i + 1].cluster = s[i].cluster /\ s[i + 1].next = s[i].next
    <2>1. CASE i < m
        <3>1. i \in 1 .. m - 1 /\ i \in 1 .. m /\ i + 1 \in 1 .. m
            BY <2>1
        <3> QED
            BY <1>1, <1>3, <3>1 DEF InOrder
    <2>2. CASE i = m
        <3>1. (a \o b)[i] = a[m] /\ (a \o b)[i + 1] = b[1]
            BY <1>2, <1>3, <2>2
        <3> QED
            BY <1>1, <1>4, <3>1 DEF InOrder
    <2>3. CASE i > m
        <3>1. PICK j \in 1 .. n - 1 : i = m + j
            <4>1. i - m \in 1 .. n - 1 /\ i = m + (i - m)
                BY <1>2, <2>3
            <4> QED
                BY <4>1
        <3>2. (a \o b)[i] = b[j] /\ (a \o b)[i + 1] = b[j + 1]
            <4>1. j \in 1 .. n /\ j + 1 \in 1 .. n /\ i + 1 = m + (j + 1)
                BY <3>1
            <4> QED
                BY <1>3, <3>1, <4>1
        <3> QED
            BY <1>1, <3>1, <3>2 DEF InOrder
    <2>4. i < m \/ i = m \/ i > m
        OBVIOUS
    <2> QED
        BY <2>1, <2>2, <2>3, <2>4, Zenon
<1>7. b[n].copy = num_fats - 1
    BY <1>1 DEF InOrder
<1> QED
    BY <1>3, <1>4, <1>5, <1>6, <1>7, <1>2 DEF InOrder

\* The next copy gets its entry.
LEMMA SetLinkCopies ==
    ASSUME UpdatesInv, CopiesInv, SetLink
    PROVE  CopiesInv'
<1>1. PICK l \in Link : l = Head(op.links)
    BY HeadTailProperties DEF UpdatesInv, SetLink, Ops
<1>2. PICK k \in Copies, c \in Clusters, n \in Clusters \cup {Eoc} :
          k = l.copy /\ c = l.cluster /\ n = l.next
    BY DEF Link, Copies
<1>3. PICK links \in Seq(Link) : links = op.links /\ links # <<>>
    BY DEF UpdatesInv, SetLink, Ops
<1>4. PICK rest \in Seq(Link) : rest = Tail(links)
    BY <1>3, HeadTailProperties
<1>5. op'.links = rest /\ UNCHANGED <<cuts, lines>>
    BY <1>3, <1>4 DEF SetLink, UpdatesInv, Ops, history
<1>6. first_lba = FirstLba
    <2>1. op.call # "none" /\ op.call # "OpenFatInit" /\ op \in Ops
        BY <1>3, IdleIs DEF UpdatesInv, InCall
    <2>2. op.todo # <<>> /\ Due \notin {"mbr", "volume"}
        BY <2>1, StagesAre, DueIs DEF UpdatesInv, Ops
    <2> QED
        BY <2>2, Busy
<1> DEFINE s == FatSector(k)
<1>7. Loaded(s) = NewestFats[k]
    <2>1. s \in Sectors
        BY CopiesAre
    <2>2. Loaded(s) = Current(s)
        BY <1>3, <1>6, <2>1, LoadedHolds DEF UpdatesInv
    <2> QED
        BY <1>6, <2>2 DEF Current, Lba, NewestFats
<1>8. PICK d : d = [Loaded(s) EXCEPT ![c] = n] /\ Change(s, d)
    BY <1>1, <1>2 DEF SetLink
<1>9. /\ \A copy \in Copies : NewestFats'[copy] = IF copy = k THEN d ELSE NewestFats[copy]
      /\ \A img \in Survivors' :
             FatsOf(img) = NewestFats \/ \E i \in Survivors : FatsOf(img) = FatsOf(i)
    <2>1. \A copy \in Copies : FatSector(copy) = s <=> copy = k
        BY CopiesAre
    <2> QED
        BY <1>5, <1>6, <1>8, <2>1, ChangedFats DEF UpdatesInv
<1> HIDE DEF s
<1>10. \A e \in Clusters : d[e] = IF e = c THEN n ELSE NewestFats[k][e]
    BY <1>7, <1>8, FatsHold DEF UpdatesInv, FatHolds
<1>11. \A copy \in Copies : \A e \in Clusters :
           NewestFats'[copy][e] = IF copy = k /\ e = c THEN n ELSE NewestFats[copy][e]
    BY <1>9, <1>10
<1>12. \A copy \in Copies : copy < k => NewestFats[copy][c] = n
    BY <1>1, <1>2, <1>3 DEF CopiesInv, Halfway
<1>13. /\ InOrder(rest)
       /\ rest # <<>> => IF k = num_fats - 1 THEN Head(rest).copy = 0
                         ELSE /\ Head(rest).copy = k + 1
                              /\ Head(rest).cluster = c /\ Head(rest).next = n
       /\ rest = <<>> => k = num_fats - 1
    <2>1. PICK m \in Nat : m = Len(links)
        BY <1>3
    <2>2. m > 0
        BY <1>3, <2>1, EmptySeq
    <2>3. Len(rest) = m - 1 /\ \A i \in 1 .. m - 1 : rest[i] = links[i + 1]
        BY <1>3, <1>4, <2>1, HeadTailProperties
    <2>4. links[1] = l
        BY <1>1, <1>3
    <2>5. InOrder(links)
        BY <1>3 DEF CopiesInv
    <2>6. rest # <<>> <=> m > 1
        BY <2>1, <2>2, <2>3, EmptySeq
    <2>7. CASE m > 1
        <3>1. Head(rest) = rest[1] /\ rest[1] = links[2]
            BY <2>3, <2>6, <2>7
        <3>2. IF links[1].copy = num_fats - 1 THEN links[2].copy = 0
              ELSE /\ links[2].copy = links[1].copy + 1
                   /\ links[2].cluster = links[1].cluster /\ links[2].next = links[1].next
            <4>1. 1 \in 1 .. m - 1 /\ 1 + 1 = 2
                BY <2>7
            <4> QED
                BY <2>1, <2>5, <4>1 DEF InOrder
        <3>3. rest[m - 1] = links[m]
            BY <2>3, <2>7
        <3>4. \A i \in 1 .. m - 2 : rest[i] = links[i + 1] /\ rest[i + 1] = links[i + 2]
            BY <2>3
        <3>5. \A i \in 1 .. m - 2 : i + 1 \in 1 .. m - 1 /\ (i + 1) + 1 = i + 2
            OBVIOUS
        <3>6. InOrder(rest)
            <4>1. rest[Len(rest)].copy = num_fats - 1
                BY <1>3, <2>1, <2>3, <2>5, <3>3 DEF InOrder
            <4>2. Len(rest) - 1 = m - 2
                BY <2>3
            <4>3. \A i \in 1 .. m - 1 :
                      IF links[i].copy = num_fats - 1 THEN links[i + 1].copy = 0
                      ELSE /\ links[i + 1].copy = links[i].copy + 1
                           /\ links[i + 1].cluster = links[i].cluster
                           /\ links[i + 1].next = links[i].next
                BY <2>1, <2>5 DEF InOrder
            <4>4. \A i \in 1 .. m - 2 :
                      IF links[i + 1].copy = num_fats - 1 THEN links[i + 2].copy = 0
                      ELSE /\ links[i + 2].copy = links[i + 1].copy + 1
                           /\ links[i + 2].cluster = links[i + 1].cluster
                           /\ links[i + 2].next = links[i + 1].next
                BY <3>5, <4>3
            <4> QED
                BY <3>4, <4>1, <4>2, <4>4 DEF InOrder
        <3> QED
            BY <1>2, <2>4, <2>6, <2>7, <3>1, <3>2, <3>6
    <2>8. CASE ~(m > 1)
        <3>1. m = 1 /\ rest = <<>>
            BY <2>2, <2>6, <2>8
        <3>2. links[1].copy = num_fats - 1
            BY <1>3, <2>1, <2>5, <3>1 DEF InOrder
        <3> QED
            BY <1>2, <2>4, <3>1, <3>2, NoneInOrder
    <2> QED
        BY <2>7, <2>8
<1>14. k = num_fats - 1 => \A copy \in Copies : NewestFats'[copy][c] = n
    BY <1>11, <1>12, ConstantsAre DEF Copies
<1>15. Setting \subseteq {c} /\ (k = 0 => Setting = {})
    BY <1>1, <1>2, <1>3 DEF Setting
<1>16. k # num_fats - 1 => Setting' = {c}
    BY <1>5, <1>13 DEF Setting, Copies
<1>17. Halfway'
    <2> SUFFICES ASSUME rest # <<>>, NEW copy \in Copies, copy < Head(rest).copy
                 PROVE  NewestFats'[copy][Head(rest).cluster] = Head(rest).next
        BY <1>5 DEF Halfway, Copies
    <2>1. Head(rest).copy = k + 1 /\ Head(rest).cluster = c /\ Head(rest).next = n
        BY <1>13 DEF Copies
    <2>2. copy < k \/ copy = k
        BY <2>1 DEF Copies
    <2> QED
        BY <1>11, <1>12, <2>1, <2>2
<1>18. PICK old : Explains(old)
    BY DEF CopiesInv
<1>19. ASSUME NEW copy \in Copies \ {0}
       PROVE  Differ(NewestFats', copy) \subseteq old[copy] \cup Setting'
    <2>1. \A e \in Clusters \ {c} : NewestFats'[copy][e] # NewestFats'[0][e] => e \in old[copy]
        <3>1. Differ(NewestFats, copy) \subseteq old[copy] \cup {c}
            BY <1>15, <1>18 DEF Explains
        <3>2. \A e \in Clusters \ {c} : /\ NewestFats'[copy][e] = NewestFats[copy][e]
                                        /\ NewestFats'[0][e] = NewestFats[0][e]
            BY <1>11, CopiesAre
        <3> QED
            BY <3>1, <3>2 DEF Differ
    <2>2. NewestFats'[copy][c] # NewestFats'[0][c] => c \in Setting'
        BY <1>14, <1>16, CopiesAre
    <2> QED
        BY <2>1, <2>2 DEF Differ
<1>20. ASSUME NEW img \in Survivors'
       PROVE  \E e \in Clusters : \A copy \in Copies \ {0} :
                  Differ(FatsOf(img), copy) \subseteq old[copy] \cup {e}
    <2>1. CASE FatsOf(img) = NewestFats
        BY <1>15, <1>18, <2>1 DEF Explains
    <2>2. CASE \E i \in Survivors : FatsOf(img) = FatsOf(i)
        BY <1>18, <2>2 DEF Explains
    <2> QED
        BY <1>9, <2>1, <2>2
<1>21. Explains(old)'
    <2>1. \A fats, copy : Differ(fats, copy)' = Differ(fats, copy)
        BY DEF Differ
    <2>2. \A img : FatsOf(img)' = FatsOf(img)
        BY DEF FatsOf
    <2>3. \A copy : Differ(NewestFats, copy)' = Differ(NewestFats', copy)
        BY DEF Differ
    <2>4. \A img, copy : Differ(FatsOf(img), copy)' = Differ(FatsOf(img), copy)
        BY DEF Differ, FatsOf
    <2> QED
        BY <1>5, <1>18, <1>19, <1>20, <2>3, <2>4 DEF Explains
<1> QED
    BY <1>5, <1>13, <1>17, <1>21 DEF CopiesInv

\* A step that finds no entry to set and sets none.
LEMMA StaysInOrder ==
    ASSUME CopiesInv, Kept, op.links = <<>>, op'.links = <<>>, UNCHANGED cuts
    PROVE  CopiesInv'
BY QuietKeeps, NoneInOrder

LEMMA NextStageLinks ==
    ASSUME op \in Ops, InCall, op.todo # <<>>, op.links = <<>>
    PROVE  NextStage(op).links = <<>> /\ Failed.links = <<>>
<1>1. NextStage(op).links = <<>>
    BY NextStageIs, IdleIs
<1>2. Failed.links = <<>>
    BY DEF Failed, Idle
<1> QED
    BY <1>1, <1>2

LEMMA SearchCopies ==
    ASSUME TwoCopies, UpdatesInv, CopiesInv,
           FindEntry \/ EndOfDirectory \/ SeekEmpty \/ SearchOn \/ WalkOn \/ PastEnd
    PROVE  CopiesInv'
<1>1. /\ \E pc : At(Search \cup {"seek"}, pc)
      /\ (\E s : Get(s)) \/ GetFails
      /\ UNCHANGED history
      /\ \/ op' \in {NextStage(op), Failed}
         \/ \E long : op' = [op EXCEPT !.pc = "walk", !.cluster = Here, !.long = long]
         \/ op' = [op EXCEPT !.pc = "end"]
         \/ op' = [op EXCEPT !.pc = "start", !.cluster = Fat[op.cluster]]
    <2>1. CASE FindEntry
        BY <2>1 DEF FindEntry, At
    <2>2. CASE EndOfDirectory
        BY <2>2 DEF EndOfDirectory, At, NotFound
    <2>3. CASE SeekEmpty
        BY <2>3 DEF SeekEmpty, At
    <2>4. CASE SearchOn
        BY <2>4 DEF SearchOn
    <2>5. CASE WalkOn
        BY <2>5 DEF WalkOn
    <2>6. CASE PastEnd
        BY <2>6 DEF PastEnd, NotFound
    <2> QED
        BY <2>1, <2>2, <2>3, <2>4, <2>5, <2>6
<1>2. /\ op.links = <<>> /\ op.todo # <<>> /\ Due \in Search \cup {"seek"}
      /\ Due \notin {"mbr", "volume"} /\ op \in Ops /\ InCall
    <2>1. PICK pc : At(Search \cup {"seek"}, pc)
        BY <1>1
    <2> QED
        BY <2>1, AtIs DEF Search, UpdatesInv
<1>3. first_lba = FirstLba /\ UNCHANGED <<lines, cuts>>
    BY <1>1, <1>2, Busy DEF history
<1>4. Kept
    BY <1>1, <1>3, GetIsKept, FlushIsKept DEF UpdatesInv
<1>5. op'.links = <<>>
    BY <1>1, <1>2, NextStageLinks DEF Ops
<1> QED
    BY <1>2, <1>3, <1>4, <1>5, StaysInOrder

LEMMA NewClusterCopies ==
    ASSUME TwoCopies, UpdatesInv, CopiesInv, FirstCluster \/ DirectoryCluster
    PROVE  CopiesInv'
<1>1. /\ Get(FatSector(0)) /\ FreeCluster # 0 /\ UNCHANGED history
      /\ \/ /\ At(Writing, "first")
            /\ op' = [op EXCEPT !.links = SetInCopies(FreeCluster, Eoc), !.pc = "item"]
         \/ /\ At({"cluster"}, "start")
            /\ op' = [NextStage(op) EXCEPT !.first = FreeCluster,
                                           !.links = SetInCopies(FreeCluster, Eoc)]
    BY DEF FirstCluster, DirectoryCluster
<1>2. /\ op.links = <<>> /\ op.todo # <<>> /\ Due \in Writing \cup {"cluster"}
      /\ Due \notin {"mbr", "volume"} /\ op \in Ops /\ InCall
    BY <1>1, AtIs DEF Writing, UpdatesInv
<1>3. first_lba = FirstLba /\ UNCHANGED <<lines, cuts>>
    BY <1>1, <1>2, Busy DEF history
<1>4. Kept
    BY <1>1, <1>3, GetIsKept DEF UpdatesInv
<1>5. PICK c \in Clusters : c = FreeCluster
    BY <1>1, <1>2, <1>3, FatRead, FreeClusterIs DEF Opt
<1>6. NextStage(op) \in Ops
    BY <1>2, NextStageIs, IdleIs
<1>7. op'.links = SetInCopies(c, Eoc)
    BY <1>1, <1>2, <1>5, <1>6 DEF Ops
<1>8. InOrder(op'.links) /\ Head(op'.links).copy = 0
    BY <1>7, CopiesInOrder
<1> QED
    BY <1>2, <1>3, <1>4, <1>8, QuietKeeps

LEMMA NextClusterCopies ==
    ASSUME TwoCopies, UpdatesInv, CopiesInv, NextCluster
    PROVE  CopiesInv'
<1> DEFINE linked == Fat[H.cur] # Eoc
<1> DEFINE next == IF linked THEN Fat[H.cur] ELSE FreeCluster
<1> DEFINE links == SetInCopies(next, Eoc) \o SetInCopies(H.cur, next)
<1>1. /\ At(Writing, "next") /\ Get(FatSector(0)) /\ next # 0
      /\ op' = [op EXCEPT !.links = IF linked THEN <<>> ELSE links,
                          !.pc = IF ~linked /\ H.size = 0 THEN "flush0" ELSE AfterNext]
      /\ UNCHANGED history
    BY DEF NextCluster
<1>2. /\ op.links = <<>> /\ op.todo # <<>> /\ Due \in Writing /\ op.pc = "next"
      /\ Due \notin {"mbr", "volume"} /\ op \in Ops
      /\ op.h \in Handles /\ H \in HandleRecords
    BY <1>1, WritingAt
<1>3. first_lba = FirstLba /\ UNCHANGED <<lines, cuts>>
    BY <1>1, <1>2, Busy DEF history
<1>4. Kept
    BY <1>1, <1>3, GetIsKept DEF UpdatesInv
<1>5. H.cur \in Clusters
    BY <1>2 DEF UpdatesInv, AtPlace, HandleRecords, Opt
<1>6. next \in Clusters
    <2>1. FatHolds(Fat)
        BY <1>1, <1>2, <1>3, FatRead
    <2>2. Fat[H.cur] \in Links /\ FreeCluster \in Opt
        BY <1>5, <2>1, FreeClusterIs DEF FatHolds
    <2> QED
        BY <1>1, <2>2 DEF Links, Opt
<1>7. PICK c \in Clusters : c = next
    BY <1>6
<1>8. InOrder(links) /\ Head(links).copy = 0
    <2> DEFINE a == SetInCopies(c, Eoc)
    <2> DEFINE b == SetInCopies(H.cur, c)
    <2>1. /\ a \in Seq(Link) /\ Len(a) = num_fats /\ b \in Seq(Link) /\ Len(b) = num_fats
          /\ num_fats > 0
        BY <1>5, SetInCopiesIs, ConstantsAre
    <2>2. InOrder(a) /\ Head(a).copy = 0 /\ InOrder(b) /\ Head(b).copy = 0
        BY <1>5, CopiesInOrder
    <2>3. links = a \o b
        BY <1>7
    <2> HIDE DEF links, a, b
    <2>4. a # <<>> /\ b # <<>>
        BY <2>1, EmptySeq
    <2> QED
        BY <2>1, <2>2, <2>3, <2>4, BothInOrder
<1> HIDE DEF links, next, linked
<1>9. op'.links = IF linked THEN <<>> ELSE links
    BY <1>1, <1>2 DEF Ops
<1> QED
    BY <1>2, <1>3, <1>4, <1>8, <1>9, QuietKeeps, NoneInOrder

LEMMA OneMore ==
    ASSUME NEW n \in Nat, NEW S, S \subseteq Clusters, Cardinality(S) <= n, NEW e,
           NEW T, T \subseteq S \cup {e}
    PROVE  Cardinality(T) <= n + 1
<1>1. IsFiniteSet(Clusters)
    BY ConstantsAre, FS_Interval DEF Clusters
<1>2. IsFiniteSet(S) /\ Cardinality(S) \in Nat
    BY <1>1, FS_Subset, FS_CardinalityType
<1>3. /\ IsFiniteSet(S \cup {e})
      /\ Cardinality(S \cup {e}) = IF e \in S THEN Cardinality(S) ELSE Cardinality(S) + 1
    BY <1>2, FS_AddElement
<1>4. Cardinality(T) <= Cardinality(S \cup {e}) /\ Cardinality(T) \in Nat
    BY <1>3, FS_Subset, FS_CardinalityType
<1> QED
    BY <1>2, <1>3, <1>4

LEMMA WriteCopies ==
    ASSUME UpdatesInv, CopiesInv,
           \/ StartWrite \/ WriteItem \/ FlushBeforeClear \/ ClearCluster
           \/ SyncEntry \/ SyncFlush \/ WriteReturns
    PROVE  CopiesInv'
<1>1. PICK pc : At(Writing, pc)
    BY DEF StartWrite, WriteItem, FlushBeforeClear, ClearCluster, SyncEntry, SyncFlush, WriteReturns
<1>2. /\ op.links = <<>> /\ op.todo # <<>> /\ Due \in Writing /\ Stage = Due /\ op.pc = pc
      /\ op \in Ops /\ InCall /\ CacheInv /\ Counts /\ first_lba = FirstLba /\ H \in HandleRecords
    BY <1>1, WritingAt DEF UpdatesInv
<1>3. NextStage(op).links = <<>>
    BY <1>2, NextStageLinks
<1>4. CASE StartWrite
    <2>1. /\ op' = [Output(op, Due) EXCEPT
                      !.pc = IF handle[Output(op, Due).h].cur = 0 THEN "first" ELSE "item"]
          /\ UNCHANGED <<cache, history>>
        BY <1>2, <1>4 DEF StartWrite
    <2>2. \E h, items : \/ Output(op, Due) = [op EXCEPT !.h = h, !.items = items]
                        \/ Output(op, Due) = [op EXCEPT !.h = h]
        BY <1>2 DEF Output, Writing
    <2>3. op'.links = <<>>
        BY <1>2, <2>1, <2>2 DEF Ops
    <2> QED
        BY <1>2, <2>1, <2>3, UntouchedIsKept, StaysInOrder DEF cache, history
<1>5. CASE WriteItem
    <2>1. /\ \E d : Change(DataSector(H.cur), d)
          /\ \E items, p : op' = [op EXCEPT !.items = items, !.pc = p]
          /\ op.pc = "item" /\ UNCHANGED history
        BY <1>5 DEF WriteItem, At
    <2>2. H.cur \in Clusters
        BY <1>2, <2>1 DEF UpdatesInv, AtPlace, HandleRecords, Opt
    <2>3. Kept
        BY <1>2, <2>1, <2>2, DataIsKept DEF history
    <2>4. op'.links = <<>>
        BY <1>2, <2>1 DEF Ops
    <2> QED
        BY <1>2, <2>1, <2>3, <2>4, StaysInOrder DEF history
<1>6. CASE FlushBeforeClear
    <2>1. Flush /\ op' = [op EXCEPT !.pc = "clear"] /\ UNCHANGED history
        BY <1>6 DEF FlushBeforeClear
    <2>2. op'.links = <<>>
        BY <1>2, <2>1 DEF Ops
    <2> QED
        BY <1>2, <2>1, <2>2, FlushIsKept, StaysInOrder DEF history
<1>7. CASE ClearCluster
    <2>1. /\ WriteThrough(DataSector(H.cur), Zeros) /\ op' = [op EXCEPT !.pc = AfterNext]
          /\ op.pc = "clear" /\ UNCHANGED history
        BY <1>7 DEF ClearCluster, At
    <2>2. H.cur \in Clusters /\ ~dirty
        BY <1>2, <2>1 DEF UpdatesInv, AtPlace, HandleRecords, Opt
    <2>3. op'.links = <<>>
        BY <1>2, <2>1 DEF Ops
    <2> QED
        BY <1>2, <2>1, <2>2, <2>3, ClearIsKept, StaysInOrder DEF history
<1>8. CASE SyncEntry
    <2>1. /\ H.at # <<>> /\ \E d : Change(H.at[1], d)
          /\ op' = [op EXCEPT !.pc = "flush"] /\ UNCHANGED history
        BY <1>8 DEF SyncEntry
    <2>2. PICK c \in Clusters, i \in 1 .. Slots : H.at = <<DataSector(c), i>>
        BY <1>2, <2>1 DEF HandleRecords, Places
    <2>3. Kept
        BY <1>2, <2>1, <2>2, DataIsKept DEF history
    <2>4. op'.links = <<>>
        BY <1>2, <2>1 DEF Ops
    <2> QED
        BY <1>2, <2>1, <2>3, <2>4, StaysInOrder DEF history
<1>9. CASE SyncFlush
    <2>1. Flush /\ op' = NextStage(op) /\ UNCHANGED <<lines, cuts>>
        BY <1>9 DEF SyncFlush, Acknowledge, history
    <2> QED
        BY <1>2, <1>3, <2>1, FlushIsKept, StaysInOrder
<1>10. CASE WriteReturns
    <2>1. op' = NextStage(op) /\ UNCHANGED <<cache, history>>
        BY <1>10 DEF WriteReturns
    <2> QED
        BY <1>2, <1>3, <2>1, UntouchedIsKept, StaysInOrder DEF cache, history
<1> QED
    BY <1>4, <1>5, <1>6, <1>7, <1>8, <1>9, <1>10

LEMMA MountCopies ==
    ASSUME UpdatesInv, CopiesInv, BlankDirectory \/ mbr_partition_init \/ fat_vol_init
    PROVE  CopiesInv'
<1>1. \E stage \in {"blank", "mbr", "volume"} : At({stage}, "start")
    BY DEF BlankDirectory, mbr_partition_init, fat_vol_init
<1>2. PICK stage \in {"blank", "mbr", "volume"} : At({stage}, "start")
    BY <1>1
<1>3. /\ op.links = <<>> /\ op.todo # <<>> /\ Due = stage /\ Stage = Due
      /\ op \in Ops /\ InCall /\ CacheInv
    BY <1>2, AtIs DEF UpdatesInv
<1>4. op' = NextStage(op) /\ op'.links = <<>> /\ UNCHANGED <<lines, cuts>>
    BY <1>3, NextStageLinks DEF BlankDirectory, mbr_partition_init, fat_vol_init, history
<1>5. CASE BlankDirectory
    <2>1. Due = "blank" /\ Due \notin {"mbr", "volume"}
        BY <1>3, <1>5 DEF BlankDirectory, At
    <2>2. handle["dir"] \in HandleRecords /\ handle["dir"].first # 0
        BY <2>1 DEF UpdatesInv, Mounting, HandlesInv, Handles
    <2>3. handle["dir"].first \in Clusters
        BY <2>2 DEF HandleRecords, Opt
    <2>4. Kept
        BY <1>3, <1>4, <1>5, <2>1, <2>3, Busy, DataIsKept DEF BlankDirectory
    <2> QED
        BY <1>3, <1>4, <2>4, StaysInOrder
<1>6. CASE mbr_partition_init
    <2>1. Due = "mbr"
        BY <1>3, <1>6 DEF mbr_partition_init, At
    <2>2. ~dirty
        BY <2>1 DEF UpdatesInv, Mounting, CacheInv
    <2>3. Kept
        BY <1>6, <2>2, UntouchedIsKept DEF mbr_partition_init
    <2> QED
        BY <1>3, <1>4, <2>3, StaysInOrder
<1>7. CASE fat_vol_init
    <2>1. Due = "volume" /\ Get(BootSector)
        BY <1>3, <1>7 DEF fat_vol_init, At
    <2>2. op # Idle
        BY <1>3, DueIs
    <2>3. first_lba = FirstLba
        BY <2>1, <2>2 DEF UpdatesInv, Mounting, CacheInv
    <2> QED
        BY <1>3, <1>4, <2>1, <2>3, GetIsKept, StaysInOrder
<1> QED
    BY <1>5, <1>6, <1>7

LEMMA CallerCopies ==
    ASSUME CopiesInv,
           \/ OpenFatInit \/ CreateDir \/ \E f \in Files : CreateFile(f)
           \/ \E n \in 1 .. 2 : fat_write(n)
    PROVE  CopiesInv'
<1>1. op = Idle /\ UNCHANGED <<cache, cuts>>
    BY DEF OpenFatInit, CreateDir, CreateFile, fat_write, history
<1>2. op'.links = Idle.links
    BY DEF OpenFatInit, CreateDir, CreateFile, fat_write, Call, Idle
<1> QED
    BY <1>1, <1>2, IdleIs, UntouchedIsKept, StaysInOrder DEF cache

\* The copies stay as the power cut leaves them.
LEMMA PowerCutCopies ==
    ASSUME UpdatesInv, CopiesInv, PowerCut
    PROVE  CopiesInv'
<1>1. /\ card' \in Survivors /\ undo' = <<>> /\ dirty' = FALSE /\ op' = Idle /\ cuts' = cuts + 1
      /\ cuts \in Nat
    BY DEF PowerCut, PowerUp, CopiesInv
<1>2. op'.links = <<>>
    BY <1>1, IdleIs
<1>3. Setting' = {} /\ Halfway'
    BY <1>2 DEF Setting, Halfway
<1>4. NewestFats' = FatsOf(card')
    BY <1>1 DEF NewestFats, FatsOf
<1>5. DOMAIN card' = DOMAIN card /\ \A copy \in Copies : FirstLba + FatSector(copy) \in DOMAIN card
    <2>1. DOMAIN card' = DOMAIN card
        BY <1>1 DEF Survivors
    <2>2. \A t \in Sectors : FirstLba + t \in DOMAIN card
        <3>1. Last \in Nat /\ FirstLba \in Nat
            BY ConstantsAre DEF Last, DataSector
        <3> QED
            BY <3>1 DEF UpdatesInv, CacheInv, CardHolds, Sectors
    <2> QED
        BY <2>1, <2>2, CopiesAre
<1>6. \A img \in Survivors' : FatsOf(img) = FatsOf(card')
    <2> DEFINE same == [l \in DOMAIN card' |-> IF l \in DOMAIN undo' THEN undo'[l] ELSE card'[l]]
    <2>1. \A l \in DOMAIN card' : same[l] = card'[l]
        BY <1>1
    <2>2. FatsOf(same) = FatsOf(card')
        <3> HIDE DEF same
        <3> QED
            BY <1>5, <2>1 DEF FatsOf
    <2>3. Survivors' = {card', same}
        BY DEF Survivors
    <2> QED
        BY <2>2, <2>3
<1>7. PICK old : Explains(old)
    BY DEF CopiesInv
<1>8. PICK e \in Clusters : \A copy \in Copies \ {0} :
          Differ(FatsOf(card'), copy) \subseteq old[copy] \cup {e}
    BY <1>1, <1>7 DEF Explains
<1>9. PICK new : new = [copy \in Copies \ {0} |-> Differ(FatsOf(card'), copy)]
    OBVIOUS
<1>10. ASSUME NEW copy \in Copies \ {0}
       PROVE  new[copy] \subseteq Clusters /\ Cardinality(new[copy]) <= cuts + 1
    <2>1. new[copy] \subseteq old[copy] \cup {e} /\ new[copy] \subseteq Clusters
        BY <1>8, <1>9 DEF Differ
    <2>2. old[copy] \subseteq Clusters /\ Cardinality(old[copy]) <= cuts
        BY <1>7 DEF Explains
    <2>3. Cardinality(new[copy]) <= cuts + 1
        BY <1>1, <2>1, <2>2, OneMore
    <2> QED
        BY <2>1, <2>3
<1>11. Explains(new)'
    <2>1. \A copy : Differ(NewestFats, copy)' = Differ(NewestFats', copy)
        BY DEF Differ
    <2>2. \A img, copy : Differ(FatsOf(img), copy)' = Differ(FatsOf(img), copy)
        BY DEF Differ, FatsOf
    <2>3. \A copy \in Copies \ {0} : Differ(NewestFats', copy) \subseteq new[copy]
        BY <1>4, <1>9
    <2>4. \A img \in Survivors' : \A copy \in Copies \ {0} :
              Differ(FatsOf(img), copy) \subseteq new[copy] \cup {Root}
        BY <1>6, <1>9
    <2>5. \A copy \in Copies \ {0} :
              /\ new[copy] \subseteq Clusters /\ Cardinality(new[copy]) <= cuts'
              /\ Differ(NewestFats, copy)' \subseteq new[copy] \cup Setting'
        BY <1>1, <1>10, <2>1, <2>3
    <2>6. \A img \in Survivors' : \E c \in Clusters : \A copy \in Copies \ {0} :
              Differ(FatsOf(img), copy)' \subseteq new[copy] \cup {c}
        BY <2>2, <2>4, ConstantsAre
    <2> QED
        BY <2>5, <2>6 DEF Explains
<1> QED
    BY <1>1, <1>2, <1>3, <1>11, NoneInOrder DEF CopiesInv

LEMMA InitialCopies ==
    ASSUME Init
    PROVE  CopiesInv
<1>1. op.links = <<>> /\ ~dirty /\ undo = <<>> /\ cuts = 0
    BY IdleIs DEF Init
<1>2. Setting = {} /\ Halfway
    BY <1>1 DEF Setting, Halfway
<1>3. DOMAIN card = 0 .. FirstLba + Last /\ \A copy \in Copies : FirstLba + FatSector(copy) \in DOMAIN card
    <2>1. Last \in Nat /\ FirstLba \in Nat
        BY ConstantsAre DEF Last, DataSector
    <2>2. DOMAIN card = 0 .. FirstLba + Last
        BY DEF Init, FreshCard, Last
    <2> QED
        BY <2>1, <2>2, CopiesAre DEF Sectors
<1>4. \A copy \in Copies : card[FirstLba + FatSector(copy)] =
          [c \in Clusters |-> IF c = Root THEN Eoc ELSE 0]
    <2> SUFFICES ASSUME NEW copy \in Copies
                 PROVE  card[FirstLba + FatSector(copy)] =
                            [c \in Clusters |-> IF c = Root THEN Eoc ELSE 0]
        OBVIOUS
    <2> DEFINE l == FirstLba + FatSector(copy)
    <2>1. l \in Nat /\ l # Mbr /\ ~(l < FirstLba) /\ l # FirstLba + BootSector /\ l < FirstLba + DataSector(2)
        BY ConstantsAre DEF Copies, FatSector, DataSector, BootSector, Mbr
    <2>2. l \in 0 .. FirstLba + DataSector(cluster_count + 1)
        BY <1>3 DEF Last
    <2> HIDE DEF l
    <2>3. FreshCard[l] = [c \in Clusters |-> IF c = Root THEN Eoc ELSE 0]
        BY <2>1, <2>2 DEF FreshCard
    <2> QED
        BY <2>3 DEF Init, l
<1>5. \A img \in Survivors : FatsOf(img) = FatsOf(card)
    <2> DEFINE same == [l \in DOMAIN card |-> IF l \in DOMAIN undo THEN undo[l] ELSE card[l]]
    <2>1. \A l \in DOMAIN card : same[l] = card[l]
        BY <1>1
    <2>2. FatsOf(same) = FatsOf(card)
        <3> HIDE DEF same
        <3> QED
            BY <1>3, <2>1 DEF FatsOf
    <2>3. Survivors = {card, same}
        BY DEF Survivors
    <2> QED
        BY <2>2, <2>3
<1>6. \A copy \in Copies \ {0} : Differ(FatsOf(card), copy) = {}
    BY <1>4, CopiesAre DEF Differ, FatsOf
<1>7. NewestFats = FatsOf(card)
    BY <1>1 DEF NewestFats, FatsOf
<1> DEFINE old == [copy \in Copies \ {0} |-> {}]
<1>8. Explains(old)
    <2>1. \A copy \in Copies \ {0} : old[copy] = {}
        OBVIOUS
    <2>2. Cardinality({}) = 0
        BY FS_EmptySet
    <2> HIDE DEF old
    <2>3. \A copy \in Copies \ {0} :
              /\ old[copy] \subseteq Clusters /\ Cardinality(old[copy]) <= cuts
              /\ Differ(NewestFats, copy) \subseteq old[copy] \cup Setting
        <3> SUFFICES ASSUME NEW copy \in Copies \ {0}
                     PROVE  Cardinality(old[copy]) <= cuts /\ Differ(NewestFats, copy) = {}
            BY <2>1
        <3>1. Cardinality(old[copy]) = 0
            BY <2>1, <2>2
        <3> QED
            BY <1>1, <1>6, <1>7, <3>1
    <2>4. \A img \in Survivors : \E e \in Clusters : \A copy \in Copies \ {0} :
              Differ(FatsOf(img), copy) \subseteq old[copy] \cup {e}
        BY <1>5, <1>6, ConstantsAre
    <2> QED
        BY <2>3, <2>4 DEF Explains
<1> QED
    BY <1>1, <1>2, <1>8, NoneInOrder DEF CopiesInv

LEMMA StepCopies ==
    ASSUME TwoCopies, UpdatesInv, CopiesInv, [Next]_vars
    PROVE  CopiesInv'
<1>1. CASE Step
    <2>1. CASE SetLink
        BY <2>1, SetLinkCopies
    <2>2. CASE FindEntry \/ EndOfDirectory \/ SeekEmpty \/ SearchOn \/ WalkOn \/ PastEnd
        BY <2>2, SearchCopies
    <2>3. CASE FirstCluster \/ DirectoryCluster
        BY <2>3, NewClusterCopies
    <2>4. CASE NextCluster
        BY <2>4, NextClusterCopies
    <2>5. CASE \/ StartWrite \/ WriteItem \/ FlushBeforeClear \/ ClearCluster
               \/ SyncEntry \/ SyncFlush \/ WriteReturns
        BY <2>5, WriteCopies
    <2>6. CASE BlankDirectory \/ mbr_partition_init \/ fat_vol_init
        BY <2>6, MountCopies
    <2> QED
        BY <1>1, <2>1, <2>2, <2>3, <2>4, <2>5, <2>6 DEF Step
<1>2. CASE \/ OpenFatInit \/ CreateDir \/ \E f \in Files : CreateFile(f)
           \/ \E n \in 1 .. 2 : fat_write(n)
    BY <1>2, CallerCopies
<1>3. CASE PowerCut
    BY <1>3, PowerCutCopies
<1>4. CASE UNCHANGED vars
    <2>1. UNCHANGED <<cache, op, cuts>>
        BY <1>4 DEF vars, calls, history
    <2>2. /\ Setting' = Setting /\ NewestFats' = NewestFats /\ Survivors' = Survivors
        BY <2>1 DEF Setting, NewestFats, Survivors, cache
    <2>3. (InOrder(op.links) <=> InOrder(op.links)') /\ (Halfway <=> Halfway')
        BY <2>1, <2>2 DEF InOrder, Halfway
    <2>4. \A old : Explains(old)' <=> Explains(old)
        BY <2>1, <2>2 DEF Explains, Differ, FatsOf
    <2> QED
        BY <2>1, <2>3, <2>4 DEF CopiesInv
<1> QED
    BY <1>1, <1>2, <1>3, <1>4 DEF Next

-----------------------------------------------------------------------------
(* The theorems                                                            *)

LEMMA UpdatesInvHolds ==
    ASSUME TwoCopies
    PROVE  Spec => []UpdatesInv
<1>1. Init => UpdatesInv
    BY InitHolds
<1>2. UpdatesInv /\ [Next]_vars => UpdatesInv'
    <2> SUFFICES ASSUME UpdatesInv, [Next]_vars PROVE UpdatesInv'
        OBVIOUS
    <2>1. CASE Step
        <3>1. CASE SetLink \/ WalkOn \/ EndOfDirectory \/ FindEntry
            BY <3>1, SetLinkKeeps, WalkOnKeeps, EndOfDirectoryKeeps, FindEntryKeeps
        <3>2. CASE SeekEmpty \/ SearchOn \/ PastEnd
            BY <3>2, SeekEmptyKeeps, SearchOnKeeps, PastEndKeeps
        <3>3. CASE StartWrite \/ FirstCluster \/ WriteItem \/ NextCluster
            BY <3>3, StartWriteKeeps, FirstClusterKeeps, WriteItemKeeps, NextClusterKeeps
        <3>4. CASE FlushBeforeClear \/ ClearCluster \/ SyncEntry
            BY <3>4, FlushBeforeClearKeeps, ClearClusterKeeps, SyncEntryKeeps
        <3>5. CASE SyncFlush \/ WriteReturns \/ DirectoryCluster \/ BlankDirectory
            BY <3>5, SyncFlushKeeps, WriteReturnsKeeps, DirectoryClusterKeeps, BlankDirectoryKeeps
        <3>6. CASE mbr_partition_init \/ fat_vol_init
            BY <3>6, MbrKeeps, VolumeKeeps
        <3> QED
            BY <2>1, <3>1, <3>2, <3>3, <3>4, <3>5, <3>6 DEF Step
    <2>2. CASE OpenFatInit \/ CreateDir \/ \E f \in Files : lines[f] = 0 /\ CreateFile(f)
        BY <2>2, CallersKeep
    <2>3. CASE \E n \in 1 .. 2 : fat_write(n)
        BY <2>3, fat_writeKeeps
    <2>4. CASE PowerCut
        BY <2>4, PowerCutKeeps
    <2>5. CASE UNCHANGED vars
        BY <2>5, StutterKeeps
    <2> QED
        BY <2>1, <2>2, <2>3, <2>4, <2>5 DEF Next
<1> QED
    BY <1>1, <1>2, PTL DEF Spec

\* Mounting, the buffer, the handles and the calls keep their types, and no
\* more lines are acknowledged than were written, however often the power goes.
THEOREM UpdatesTypeCorrect ==
    ASSUME TwoCopies
    PROVE  Spec => []UpdatesTypeOK
<1>1. UpdatesInv => UpdatesTypeOK
    <2> SUFFICES ASSUME UpdatesInv PROVE UpdatesTypeOK
        OBVIOUS
    <2>1. DOMAIN card = DOMAIN FreshCard /\ DOMAIN undo \subseteq DOMAIN card
        BY DEF UpdatesInv, CacheInv, CardHolds, UndoHolds, FreshCard, Last
    <2>2. /\ sector \in {NoSector} \cup (0 .. DataSector(cluster_count + 1))
          /\ dirty \in BOOLEAN /\ (dirty => sector # NoSector)
        BY DEF UpdatesInv, CacheInv, Sectors, Last
    <2>3. \A h \in DOMAIN handle : handle[h] \in HandleRecords
        BY DEF UpdatesInv, HandlesInv
    <2>4. \A h \in DOMAIN handle :
              /\ handle[h].first \in {0} \cup Clusters /\ handle[h].cur \in {0} \cup Clusters
              /\ handle[h].size \in Nat /\ handle[h].pos \in Nat
        BY <2>3 DEF HandleRecords, Opt
    <2>5. last_cluster_alloc \in {0} \cup Clusters /\ op.cluster \in {0} \cup Clusters
        BY DEF UpdatesInv, Ops, Opt
    <2>6. \A f \in Files : before[f] <= acked[f] /\ acked[f] <= lines[f]
        BY DEF UpdatesInv, Counts
    <2> QED
        BY <2>1, <2>2, <2>4, <2>5, <2>6 DEF UpdatesTypeOK
<1> QED
    BY <1>1, UpdatesInvHolds, PTL

\* A step of fat_write, of a search or of mounting that takes a sector from
\* the buffer takes its newest contents, although FAT_FLUSH_SECTOR and
\* block_write_sectors leave the tag of the last copy of the FAT on a cleared
\* cluster.
THEOREM BufferNeverStale ==
    ASSUME TwoCopies
    PROVE  Spec => []NeverStale
<1>1. UpdatesInv => NeverStale
    <2> SUFFICES ASSUME UpdatesInv, first_lba # 0 PROVE Loaded(Wanted) = Current(Wanted)
        BY DEF NeverStale
    <2>1. first_lba = FirstLba /\ CacheInv /\ StaleInv
        BY DEF UpdatesInv, CacheInv
    <2>2. Wanted \in Sectors /\ (Wanted # LastFat \/ op.links # <<>>)
        BY <2>1, WantedIs
    <2> QED
        BY <2>1, <2>2, LoadedHolds
<1> QED
    BY <1>1, UpdatesInvHolds, PTL

\* The copies of the FAT, which fat_set_next_cluster changes one after the
\* other in the buffer and nothing ever compares or repairs, are at no moment
\* further apart than one entry, and one more for each time the power went.
THEOREM CopiesStayTogether == Spec => []CopiesOneApart
<1>1. CopiesInv => CopiesOneApart
    <2> SUFFICES ASSUME CopiesInv, NEW img \in Survivors, NEW copy \in 1 .. num_fats - 1
                 PROVE  Cardinality({c \in Clusters :
                            img[FirstLba + FatSector(copy)][c] # FatOn(img)[c]}) <= cuts + 1
        BY DEF CopiesOneApart
    <2>1. copy \in Copies \ {0} /\ 0 \in Copies
        BY ConstantsAre DEF Copies
    <2>2. PICK old : Explains(old)
        BY DEF CopiesInv
    <2>3. PICK e \in Clusters : Differ(FatsOf(img), copy) \subseteq old[copy] \cup {e}
        BY <2>1, <2>2 DEF Explains
    <2>4. Differ(FatsOf(img), copy) =
              {c \in Clusters : img[FirstLba + FatSector(copy)][c] # FatOn(img)[c]}
        BY <2>1 DEF Differ, FatsOf, FatOn
    <2>5. cuts \in Nat /\ old[copy] \subseteq Clusters /\ Cardinality(old[copy]) <= cuts
        BY <2>1, <2>2 DEF Explains, CopiesInv
    <2> QED
        BY <2>3, <2>4, <2>5, OneMore
<1>2. CASE TwoCopies
    <2>1. Init => CopiesInv
        BY InitialCopies
    <2>2. UpdatesInv /\ CopiesInv /\ [Next]_vars => CopiesInv'
        BY <1>2, StepCopies
    <2>3. Spec => []UpdatesInv
        BY <1>2, UpdatesInvHolds
    <2> QED
        BY <1>1, <2>1, <2>2, <2>3, PTL DEF Spec
<1>3. CASE ~TwoCopies
    <2>1. 1 .. num_fats - 1 = {}
        BY <1>3, ConstantsAre DEF TwoCopies
    <2>2. CopiesOneApart
        BY <2>1 DEF CopiesOneApart
    <2> QED
        BY <2>2, PTL
<1> QED
    BY <1>2, <1>3

=============================================================================
