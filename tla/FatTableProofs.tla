--------------------------- MODULE FatTableProofs ---------------------------
(***************************************************************************)
(* What the file allocation table promises holds of every formatted volume *)
(* and through every sequence of allocations and links: an entry is read   *)
(* back as it was set, the copies agree, nothing else is written, and the  *)
(* search for a free cluster misses at most the last two.                  *)
(***************************************************************************)
EXTENDS FatTable, NatLemmas

-----------------------------------------------------------------------------
(* The layout as the proofs use it *)

Copies == 0 .. vol.num_fats - 1

\* The bytes of an entry, counted from 0.
EntryIndex == 0 .. (IF vol.type = 32 THEN 3 ELSE 1)

\* What an entry is set to.
Values == {0, fat_eoc[vol.type], Pattern[vol.type]}

DiskType == [0 .. vol.first_data_sector -> [0 .. vol.bytes_per_sector - 1 -> Byte]]

VolType ==
    [type : {12, 16, 32}, cluster_count : Nat \ {0}, bytes_per_sector : Nat \ {0},
     sectors_per_cluster : Nat \ {0}, first_data_sector : Nat, reserved_sector_count : Nat,
     num_fats : Nat \ {0}, fat_size : Nat, root_first_sector : Nat, last_cluster_alloc : Nat]

\* The handle is the one of its boot sector, but for the cluster allocated last.
Layout ==
    /\ bpb \in Boots
    /\ vol \in VolType
    /\ vol = [fat_vol_init(bpb) EXCEPT !.last_cluster_alloc = vol.last_cluster_alloc]
    /\ vol.last_cluster_alloc \in Clusters

\* The FATs lie before the data, and every entry in its FAT.
FatsFit ==
    /\ vol.reserved_sector_count + vol.num_fats * vol.fat_size <= vol.first_data_sector
    /\ \A c \in Clusters, i \in EntryIndex :
          EntryOffset(c) + i \in Nat /\ EntryOffset(c) + i < vol.bytes_per_sector * vol.fat_size

Shape == vol \in VolType /\ FatsFit

\* Byte p of a copy of the FAT.
FatByte(d, copy, p) ==
    d[vol.reserved_sector_count + copy * vol.fat_size + p \div vol.bytes_per_sector]
        [p % vol.bytes_per_sector]

-----------------------------------------------------------------------------
(* Geometry: the boot sector of a formatted volume                         *)

\* A quotient that leaves a remainder is known from both.
LEMMA QuotientOf ==
    ASSUME NEW k \in Nat \ {0}, NEW q \in Nat, NEW n \in Int, n - q * k \in 0 .. k - 1
    PROVE  n \div k = q
<1> DEFINE r == n - q * k
<1>1. r \in 0 .. k - 1 /\ n = k * q + r
    OBVIOUS
<1> HIDE DEF r
<1>2. (k * q + r) \div k = q
    BY <1>1, QuotientIs
<1> QED
    BY <1>1, <1>2

\* bpb.h finds the root directory and the clusters that the formatter made room for.
LEMMA Geometry ==
    ASSUME NEW b \in Boots
    PROVE  /\ {b.bytes_per_sector, b.sectors_per_cluster, b.num_fats} \subseteq Nat \ {0}
           /\ {b.reserved_sector_count, b.root_entry_count, TotalSectors(b), bpb_fat_size(b),
               bpb_root_dir_sectors(b), bpb_first_data_sector(b)} \subseteq Nat
           /\ bpb_cluster_count(b) \in Nat \ {0}
           /\ Fits(b, bpb_root_dir_sectors(b), bpb_cluster_count(b))
<1>1. /\ b.bytes_per_sector \in Nat \ {0} /\ b.sectors_per_cluster \in Nat \ {0}
      /\ b.num_fats \in Nat \ {0} /\ b.reserved_sector_count \in Nat
      /\ b.root_entry_count \in Nat /\ DirentLen \in Nat
    BY TableAssumption
<1>2. TotalSectors(b) \in Nat /\ bpb_fat_size(b) \in Nat
    BY TableAssumption DEF TotalSectors, bpb_fat_size
<1>3. PICK root \in 0 .. TotalSectors(b), clusters \in 1 .. TotalSectors(b) : Fits(b, root, clusters)
    BY TableAssumption
<1>4. root \in Nat /\ clusters \in Nat \ {0}
    BY <1>2, <1>3
<1>5. bpb_root_dir_sectors(b) = root
    <2> DEFINE e == b.root_entry_count * DirentLen
    <2> DEFINE k == b.bytes_per_sector
    <2>1. root * k - e \in 0 .. k - 1
        BY <1>3 DEF Fits
    <2>2. e \in Nat /\ k \in Nat \ {0} /\ root * k \in Nat
        BY <1>1, <1>4
    <2> HIDE DEF e
    <2>3. (e + k - 1) - root * k \in 0 .. k - 1 /\ e + k - 1 \in Int
        BY <2>1, <2>2
    <2>4. (e + k - 1) \div k = root
        BY <1>4, <2>2, <2>3, QuotientOf
    <2> QED
        BY <2>4 DEF bpb_root_dir_sectors, e
<1>6. bpb_cluster_count(b) = clusters
    <2> DEFINE n == TotalSectors(b) - b.reserved_sector_count - b.num_fats * bpb_fat_size(b) - root
    <2>1. n - clusters * b.sectors_per_cluster \in 0 .. b.sectors_per_cluster - 1
        BY <1>3 DEF Fits
    <2>2. n \in Int
        BY <1>1, <1>2, <1>4
    <2> HIDE DEF n
    <2>3. n \div b.sectors_per_cluster = clusters
        BY <1>1, <1>4, <2>1, <2>2, QuotientOf
    <2> QED
        BY <1>5, <2>3 DEF bpb_cluster_count, n
<1>7. bpb_first_data_sector(b) \in Nat
    BY <1>1, <1>2, <1>4, <1>5 DEF bpb_first_data_sector
<1> QED
    BY <1>1, <1>2, <1>3, <1>4, <1>5, <1>6, <1>7

\* Where an entry ends in bytes, from the bits that the formatter counts.
LEMMA EntriesEnd ==
    ASSUME NEW c \in Nat, NEW n \in Nat, NEW room \in Nat, c <= n + 1
    PROVE  /\ (n + 2) * 12 <= 8 * room => c + c \div 2 + 1 < room
           /\ (n + 2) * 16 <= 8 * room => c * 2 + 1 < room
           /\ (n + 2) * 32 <= 8 * room => c * 4 + 3 < room
OBVIOUS

LEMMA EntryOffsets ==
    ASSUME vol.type \in {12, 16, 32}, NEW c \in Nat
    PROVE  /\ vol.type = 12 => EntryOffset(c) = c + c \div 2
           /\ vol.type = 16 => EntryOffset(c) = c * 2
           /\ vol.type = 32 => EntryOffset(c) = c * 4
           /\ EntryOffset(c) \in Nat
<1>1. c \div 2 \in Nat
    OBVIOUS
<1>2. CASE vol.type = 12
    BY <1>1, <1>2 DEF EntryOffset
<1>3. CASE vol.type = 16
    BY <1>3 DEF EntryOffset
<1>4. CASE vol.type = 32
    BY <1>4 DEF EntryOffset
<1> QED
    BY <1>2, <1>3, <1>4

LEMMA LayoutFields ==
    ASSUME Layout
    PROVE  /\ vol.type = fat_type(bpb)
           /\ vol.cluster_count = bpb_cluster_count(bpb)
           /\ vol.bytes_per_sector = bpb.bytes_per_sector
           /\ vol.sectors_per_cluster = bpb.sectors_per_cluster
           /\ vol.first_data_sector = bpb_first_data_sector(bpb)
           /\ vol.reserved_sector_count = bpb.reserved_sector_count
           /\ vol.num_fats = bpb.num_fats
           /\ vol.fat_size = bpb_fat_size(bpb)
           /\ vol.root_first_sector = (bpb_first_data_sector(bpb) - bpb_root_dir_sectors(bpb)) % Short
<1> DEFINE l == vol.last_cluster_alloc
<1>1. vol = [fat_vol_init(bpb) EXCEPT !.last_cluster_alloc = l]
    BY DEF Layout
<1> HIDE DEF l
<1> QED
    BY <1>1 DEF fat_vol_init

LEMMA LayoutShapes ==
    ASSUME Layout
    PROVE  Shape
<1>1. bpb \in Boots /\ vol \in VolType
    BY DEF Layout
<1> DEFINE size == vol.fat_size
<1> DEFINE width == vol.bytes_per_sector
<1> DEFINE room == size * width
<1>2. /\ vol.type \in {12, 16, 32} /\ size \in Nat /\ width \in Nat \ {0}
      /\ vol.cluster_count \in Nat \ {0} /\ vol.num_fats \in Nat \ {0}
      /\ vol.reserved_sector_count \in Nat
    BY <1>1 DEF VolType
<1>3. room \in Nat /\ room = width * size
    BY <1>2
<1>4. vol.reserved_sector_count + vol.num_fats * size <= vol.first_data_sector
    <2>1. bpb_root_dir_sectors(bpb) \in Nat
        BY <1>1, Geometry
    <2>2. vol.first_data_sector = vol.reserved_sector_count + vol.num_fats * size + bpb_root_dir_sectors(bpb)
        BY LayoutFields DEF bpb_first_data_sector
    <2>3. vol.num_fats * size \in Nat
        BY <1>2
    <2> QED
        BY <1>2, <2>1, <2>2, <2>3
<1>5. /\ vol.type = 12 => (vol.cluster_count + 2) * 12 <= 8 * room
      /\ vol.type = 16 => (vol.cluster_count + 2) * 16 <= 8 * room
      /\ vol.type = 32 => (vol.cluster_count + 2) * 32 <= 8 * room
    <2>1. Fits(bpb, bpb_root_dir_sectors(bpb), bpb_cluster_count(bpb))
        BY <1>1, Geometry
    <2>2. (vol.cluster_count + 2) * vol.type <= 8 * size * width
        BY <2>1, LayoutFields DEF Fits, fat_type
    <2>3. 8 * size * width = 8 * room
        BY <1>2
    <2> HIDE DEF room
    <2> QED
        BY <2>2, <2>3
<1>6. ASSUME NEW c \in Clusters, NEW i \in EntryIndex
      PROVE  EntryOffset(c) + i \in Nat /\ EntryOffset(c) + i < width * size
    <2>1. c \in Nat /\ c <= vol.cluster_count + 1
        BY <1>2 DEF Clusters
    <2>2. i \in Nat /\ (vol.type = 32 => i <= 3) /\ (vol.type # 32 => i <= 1)
        BY <1>2 DEF EntryIndex
    <2> HIDE DEF room
    <2>3. EntryOffset(c) + i < room /\ EntryOffset(c) \in Nat
        <3>1. CASE vol.type = 12
            BY <1>2, <1>3, <1>5, <2>1, <2>2, <3>1, EntriesEnd, EntryOffsets
        <3>2. CASE vol.type = 16
            BY <1>2, <1>3, <1>5, <2>1, <2>2, <3>2, EntriesEnd, EntryOffsets
        <3>3. CASE vol.type = 32
            BY <1>2, <1>3, <1>5, <2>1, <2>2, <3>3, EntriesEnd, EntryOffsets
        <3> QED
            BY <1>2, <3>1, <3>2, <3>3
    <2> QED
        BY <1>3, <2>2, <2>3
<1> QED
    BY <1>1, <1>4, <1>6 DEF Shape, FatsFit

-----------------------------------------------------------------------------
(* Bytes of the FATs                                                       *)

Places == 0 .. vol.bytes_per_sector * vol.fat_size - 1

Sector(copy, p) ==
    vol.reserved_sector_count + copy * vol.fat_size + p \div vol.bytes_per_sector

LEMMA PlaceIs ==
    ASSUME Shape, NEW k \in Copies, NEW p \in Places
    PROVE  /\ Sector(k, p) \in 0 .. vol.first_data_sector
           /\ p % vol.bytes_per_sector \in 0 .. vol.bytes_per_sector - 1
           /\ p \div vol.bytes_per_sector \in 0 .. vol.fat_size - 1
<1> DEFINE f == vol.fat_size
<1> DEFINE b == vol.bytes_per_sector
<1> DEFINE r == vol.reserved_sector_count
<1> DEFINE n == vol.num_fats
<1>1. /\ f \in Nat /\ b \in Nat \ {0} /\ r \in Nat /\ n \in Nat \ {0}
      /\ vol.first_data_sector \in Nat /\ r + n * f <= vol.first_data_sector
    BY DEF Shape, VolType, FatsFit
<1>2. p \in Nat /\ p < b * f
    <2>1. b * f \in Nat
        BY <1>1
    <2> QED
        BY <2>1 DEF Places
<1>3. k \in Nat /\ k + 1 <= n
    BY <1>1 DEF Copies
<1> DEFINE x == p \div b
<1>4. x \in Nat /\ p % b \in 0 .. b - 1 /\ x < f
    BY <1>1, <1>2, DivisionIs
<1>5. f * (k + 1) <= f * n
    BY <1>1, <1>3, ProductGrows
<1> HIDE DEF x
<1>6. k * f + x < n * f /\ k * f \in Nat
    BY <1>1, <1>3, <1>4, <1>5
<1>7. r + k * f + x \in 0 .. vol.first_data_sector
    BY <1>1, <1>4, <1>6
<1> QED
    BY <1>1, <1>4, <1>7 DEF Sector, x

LEMMA RowsApart ==
    ASSUME NEW f \in Nat \ {0}, NEW k \in Nat, NEW l \in Nat,
           NEW x \in 0 .. f - 1, NEW y \in 0 .. f - 1, NEW r \in Nat,
           r + k * f + x = r + l * f + y
    PROVE  k = l /\ x = y
<1>1. f * k + x = f * l + y
    OBVIOUS
<1>2. (f * k + x) \div f = k /\ (f * k + x) % f = x
    BY QuotientIs
<1>3. (f * l + y) \div f = l /\ (f * l + y) % f = y
    BY QuotientIs
<1> QED
    BY <1>1, <1>2, <1>3

LEMMA DividedAlike ==
    ASSUME NEW b \in Nat \ {0}, NEW p \in Nat, NEW q \in Nat, p \div b = q \div b, p % b = q % b
    PROVE  p = q
<1>1. p = b * (p \div b) + (p % b) /\ q = b * (q \div b) + (q % b)
    BY DivisionIs
<1> QED
    BY <1>1

\* No two bytes of the FATs share an address.
LEMMA PlacesApart ==
    ASSUME Shape, NEW k \in Copies, NEW l \in Copies, NEW p \in Places, NEW q \in Places,
           Sector(k, p) = Sector(l, q), p % vol.bytes_per_sector = q % vol.bytes_per_sector
    PROVE  k = l /\ p = q
<1> DEFINE f == vol.fat_size
<1> DEFINE b == vol.bytes_per_sector
<1> DEFINE x == p \div b
<1> DEFINE y == q \div b
<1>1. f \in Nat /\ b \in Nat \ {0} /\ vol.reserved_sector_count \in Nat /\ vol.num_fats \in Nat
    BY DEF Shape, VolType
<1>2. x \in 0 .. f - 1 /\ y \in 0 .. f - 1
    BY PlaceIs
<1>3. b * f \in Nat
    BY <1>1
<1>4. k \in Nat /\ l \in Nat /\ p \in Nat /\ q \in Nat
    BY <1>1, <1>3 DEF Copies, Places
<1>7. vol.reserved_sector_count + k * f + x = vol.reserved_sector_count + l * f + y
    BY DEF Sector
<1> HIDE DEF x, y
<1>8. f \in Nat \ {0}
    BY <1>1, <1>2
<1> HIDE DEF f
<1>9. k = l /\ x = y
    BY <1>1, <1>2, <1>4, <1>7, <1>8, RowsApart
<1> QED
    BY <1>1, <1>4, <1>9, DividedAlike DEF x, y

\* The bytes of an entry are bytes of the FATs.
LEMMA EntryPlaceIs ==
    ASSUME Shape, NEW k \in Copies, NEW c \in Clusters, NEW i \in EntryIndex
    PROVE  /\ EntryOffset(c) + i \in Places /\ EntryOffset(c) \in Nat
           /\ At(k, c, i) = <<Sector(k, EntryOffset(c) + i),
                              (EntryOffset(c) + i) % vol.bytes_per_sector>>
           /\ \A d : ByteAt(d, k, c, i) = FatByte(d, k, EntryOffset(c) + i)
<1>1. vol.fat_size \in Nat /\ vol.bytes_per_sector \in Nat /\ vol.type \in {12, 16, 32}
      /\ vol.cluster_count \in Nat
    BY DEF Shape, VolType
<1>2. c \in Nat /\ vol.bytes_per_sector * vol.fat_size \in Nat
    BY <1>1 DEF Clusters
<1>3. EntryOffset(c) \in Nat
    BY <1>1, <1>2, EntryOffsets
<1>4. EntryOffset(c) + i \in Places
    BY <1>2 DEF Shape, FatsFit, Places
<1> QED
    BY <1>3, <1>4 DEF At, ByteAt, FatByte, Sector

-----------------------------------------------------------------------------
(* Writing an entry                                                        *)

\* PutBytes sets the bytes of the entry in one copy, and no others.
LEMMA BytesPut ==
    ASSUME Shape, NEW d \in DiskType, NEW k \in Copies, NEW c \in Clusters,
           NEW new \in [EntryIndex -> Byte]
    PROVE  /\ PutBytes(d, k, c, new) \in DiskType
           /\ \A i \in EntryIndex :
                 FatByte(PutBytes(d, k, c, new), k, EntryOffset(c) + i) = new[i]
           /\ \A s \in 0 .. vol.first_data_sector, o \in 0 .. vol.bytes_per_sector - 1 :
                 (\A i \in EntryIndex : At(k, c, i) # <<s, o>>)
                     => PutBytes(d, k, c, new)[s][o] = d[s][o]
<1> DEFINE S == 0 .. vol.first_data_sector
<1> DEFINE O == 0 .. vol.bytes_per_sector - 1
<1> DEFINE e == PutBytes(d, k, c, new)
<1> DEFINE here(s) == {i \in EntryIndex : At(k, c, i)[1] = s}
<1>1. DOMAIN d = S /\ DOMAIN new = EntryIndex /\ \A s \in S : DOMAIN d[s] = O
    BY DEF DiskType
<1>2. e = [s \in S |-> [o \in O |-> IF \E i \in here(s) : At(k, c, i)[2] = o
                                    THEN new[CHOOSE i \in here(s) : At(k, c, i)[2] = o]
                                    ELSE d[s][o]]]
    BY <1>1 DEF PutBytes
<1>3. \A s \in S : \A o \in O :
         e[s][o] = IF \E i \in here(s) : At(k, c, i)[2] = o
                   THEN new[CHOOSE i \in here(s) : At(k, c, i)[2] = o]
                   ELSE d[s][o]
    BY <1>2
<1> HIDE DEF e, S, O
<1>4. ASSUME NEW s \in S, NEW o \in O
      PROVE  e[s][o] \in Byte
    <2>1. d[s][o] \in Byte
        BY DEF DiskType, S, O
    <2>2. \A i \in EntryIndex : new[i] \in Byte
        OBVIOUS
    <2>3. CASE \E i \in here(s) : At(k, c, i)[2] = o
        <3>1. (CHOOSE i \in here(s) : At(k, c, i)[2] = o) \in EntryIndex
            BY <2>3
        <3> QED
            BY <1>3, <2>2, <2>3, <3>1
    <2> QED
        BY <1>3, <2>1, <2>3
<1>5. e \in [S -> [O -> Byte]]
    <2>1. \A s \in S : e[s] = [o \in O |-> e[s][o]]
        BY <1>2
    <2>2. \A s \in S : e[s] \in [O -> Byte]
        BY <1>4, <2>1
    <2>3. e = [s \in S |-> e[s]]
        BY <1>2
    <2> QED
        BY <2>2, <2>3
<1>6. ASSUME NEW i \in EntryIndex
      PROVE  FatByte(e, k, EntryOffset(c) + i) = new[i]
    <2> DEFINE s == Sector(k, EntryOffset(c) + i)
    <2> DEFINE o == (EntryOffset(c) + i) % vol.bytes_per_sector
    <2>1. At(k, c, i) = <<s, o>> /\ s \in S /\ o \in O
        BY EntryPlaceIs, PlaceIs DEF S, O
    <2>2. ASSUME NEW j \in here(s), At(k, c, j)[2] = o
          PROVE  j = i
        <3>1. j \in EntryIndex /\ Sector(k, EntryOffset(c) + j) = s
              /\ (EntryOffset(c) + j) % vol.bytes_per_sector = o
            BY <2>2, EntryPlaceIs
        <3>2. EntryOffset(c) + j = EntryOffset(c) + i
            BY <3>1, EntryPlaceIs, PlacesApart
        <3>3. EntryOffset(c) \in Nat /\ i \in Int /\ j \in Int
            BY <3>1, EntryPlaceIs DEF EntryIndex
        <3> QED
            BY <3>2, <3>3
    <2>3. i \in here(s) /\ At(k, c, i)[2] = o
        BY <2>1
    <2>4. (CHOOSE j \in here(s) : At(k, c, j)[2] = o) = i
        BY <2>2, <2>3
    <2>5. e[s][o] = new[i]
        BY <1>3, <2>1, <2>3, <2>4
    <2> QED
        BY <2>5 DEF FatByte, Sector
<1>7. ASSUME NEW s \in S, NEW o \in O, \A i \in EntryIndex : At(k, c, i) # <<s, o>>
      PROVE  e[s][o] = d[s][o]
    <2>1. ~ \E i \in here(s) : At(k, c, i)[2] = o
        BY <1>7, EntryPlaceIs
    <2> QED
        BY <1>3, <2>1
<1> QED
    BY <1>5, <1>6, <1>7 DEF e, S, O, DiskType

\* What byte i of the entry of c becomes, from what it was.
NewByte(c, i, old, next) ==
    IF vol.type = 12
    THEN IF c % 2 = 1
         THEN IF i = 0 THEN (old % 16) + (next % 16) * 16 ELSE next \div 16
         ELSE IF i = 0 THEN next % 256 ELSE (old \div 16) * 16 + next \div 256
    ELSE IF vol.type = 16 THEN IF i = 0 THEN next % 256 ELSE next \div 256
    ELSE IF i = 0 THEN next % 256
    ELSE IF i = 1 THEN (next \div 256) % 256
    ELSE IF i = 2 THEN (next \div 65536) % 256
    ELSE (old \div 16) * 16 + next \div 16777216

\* An entry is set to values that fit in it.
LEMMA ValuesAre ==
    ASSUME Shape, NEW next \in Values
    PROVE  /\ next \in Nat
           /\ vol.type = 12 => next < 4096
           /\ vol.type = 16 => next < 65536
           /\ vol.type = 32 => next < 268435456
<1>1. vol.type \in {12, 16, 32}
    BY DEF Shape, VolType
<1>2. /\ fat_eoc[12] = 4088 /\ fat_eoc[16] = 65528 /\ fat_eoc[32] = 268435448
      /\ Pattern[12] = 1443 /\ Pattern[16] = 23100 /\ Pattern[32] = 94619617
    BY DEF fat_eoc, Pattern
<1> QED
    BY <1>1, <1>2 DEF Values

LEMMA NewBytesAre ==
    ASSUME Shape, NEW c \in Clusters, NEW i \in EntryIndex, NEW old \in Byte, NEW next \in Values
    PROVE  NewByte(c, i, old, next) \in Byte
<1>1. vol.type \in {12, 16, 32}
    BY DEF Shape, VolType
<1>2. old \in Nat /\ old < 256
    BY DEF Byte
<1>3. /\ next \in Nat
      /\ vol.type = 12 => next < 4096
      /\ vol.type = 16 => next < 65536
      /\ vol.type = 32 => next < 268435456
    BY ValuesAre
<1>4. CASE vol.type = 12
    <2>1. /\ (old % 16) + (next % 16) * 16 \in 0 .. 255 /\ next \div 16 \in 0 .. 255
          /\ next % 256 \in 0 .. 255 /\ (old \div 16) * 16 + next \div 256 \in 0 .. 255
        BY <1>2, <1>3, <1>4
    <2> QED
        BY <1>4, <2>1 DEF NewByte, Byte
<1>5. CASE vol.type = 16
    <2>1. next % 256 \in 0 .. 255 /\ next \div 256 \in 0 .. 255
        BY <1>3, <1>5
    <2> QED
        BY <1>5, <2>1 DEF NewByte, Byte
<1>6. CASE vol.type = 32
    <2>1. /\ next % 256 \in 0 .. 255 /\ (next \div 256) % 256 \in 0 .. 255
          /\ (next \div 65536) % 256 \in 0 .. 255
          /\ (old \div 16) * 16 + next \div 16777216 \in 0 .. 255
        BY <1>2, <1>3, <1>6
    <2> QED
        BY <1>6, <2>1 DEF NewByte, Byte
<1> QED
    BY <1>1, <1>4, <1>5, <1>6

\* The three ways to write an entry are one: each byte anew from what it was.
LEMMA SetIsPut ==
    ASSUME Shape, NEW d, NEW k, NEW c \in Clusters, NEW next
    PROVE  SetInCopy(d, k, c, next) =
             PutBytes(d, k, c, [i \in EntryIndex |-> NewByte(c, i, ByteAt(d, k, c, i), next)])
<1> DEFINE new == [i \in EntryIndex |-> NewByte(c, i, ByteAt(d, k, c, i), next)]
<1>1. vol.type \in {12, 16, 32}
    BY DEF Shape, VolType
<1>2. CASE vol.type = 12
    <2>1. EntryIndex = 0 .. 1
        BY <1>2 DEF EntryIndex
    <2>2. SetInCopy(d, k, c, next) = fat12_set_next_cluster(d, k, c, next)
        BY <1>2 DEF SetInCopy
    <2>3. CASE c % 2 = 1
        <3>1. new = [i \in 0 .. 1 |-> IF i = 0 THEN (ByteAt(d, k, c, 0) % 16) + (next % 16) * 16
                                      ELSE next \div 16]
            BY <1>2, <2>1, <2>3 DEF NewByte
        <3> QED
            BY <2>2, <2>3, <3>1 DEF fat12_set_next_cluster
    <2>4. CASE c % 2 # 1
        <3>1. new = [i \in 0 .. 1 |-> IF i = 0 THEN next % 256
                                      ELSE (ByteAt(d, k, c, 1) \div 16) * 16 + next \div 256]
            BY <1>2, <2>1, <2>4 DEF NewByte
        <3> QED
            BY <2>2, <2>4, <3>1 DEF fat12_set_next_cluster
    <2> QED
        BY <2>3, <2>4
<1>3. CASE vol.type = 16
    <2>1. EntryIndex = 0 .. 1
        BY <1>3 DEF EntryIndex
    <2>2. SetInCopy(d, k, c, next) = fat16_set_next_cluster(d, k, c, next)
        BY <1>3 DEF SetInCopy
    <2>3. new = [i \in 0 .. 1 |-> IF i = 0 THEN next % 256 ELSE next \div 256]
        BY <1>3, <2>1 DEF NewByte
    <2> QED
        BY <2>2, <2>3 DEF fat16_set_next_cluster
<1>4. CASE vol.type = 32
    <2>1. EntryIndex = 0 .. 3
        BY <1>4 DEF EntryIndex
    <2>2. SetInCopy(d, k, c, next) = fat32_set_next_cluster(d, k, c, next)
        BY <1>4 DEF SetInCopy
    <2> DEFINE asked == [i \in 0 .. 3 |->
            CASE i = 0 -> next % 256
              [] i = 1 -> (next \div 256) % 256
              [] i = 2 -> (next \div 65536) % 256
              [] i = 3 -> (ByteAt(d, k, c, 3) \div 16) * 16 + next \div 16777216]
    <2>3. ASSUME NEW i \in 0 .. 3
          PROVE  asked[i] = NewByte(c, i, ByteAt(d, k, c, i), next)
        <3>1. CASE i = 0
            BY <1>4, <3>1 DEF NewByte
        <3>2. CASE i = 1
            BY <1>4, <3>2 DEF NewByte
        <3>3. CASE i = 2
            BY <1>4, <3>3 DEF NewByte
        <3>4. CASE i = 3
            BY <1>4, <3>4 DEF NewByte
        <3> QED
            BY <3>1, <3>2, <3>3, <3>4
    <2>4. new = asked
        <3>1. asked = [i \in 0 .. 3 |-> asked[i]]
            OBVIOUS
        <3> HIDE DEF asked
        <3> QED
            BY <2>1, <2>3, <3>1
    <2> QED
        BY <2>2, <2>4 DEF fat32_set_next_cluster
<1> QED
    BY <1>1, <1>2, <1>3, <1>4

\* So setting an entry in a copy changes that entry there and nothing else.
LEMMA SetIs ==
    ASSUME Shape, NEW d \in DiskType, NEW k \in Copies, NEW c \in Clusters, NEW next \in Values
    PROVE  /\ SetInCopy(d, k, c, next) \in DiskType
           /\ \A i \in EntryIndex :
                 FatByte(SetInCopy(d, k, c, next), k, EntryOffset(c) + i)
                     = NewByte(c, i, FatByte(d, k, EntryOffset(c) + i), next)
           /\ \A s \in 0 .. vol.first_data_sector, o \in 0 .. vol.bytes_per_sector - 1 :
                 (\A i \in EntryIndex : At(k, c, i) # <<s, o>>)
                     => SetInCopy(d, k, c, next)[s][o] = d[s][o]
<1> DEFINE new == [i \in EntryIndex |-> NewByte(c, i, ByteAt(d, k, c, i), next)]
<1>1. SetInCopy(d, k, c, next) = PutBytes(d, k, c, new)
    BY SetIsPut
<1>2. ASSUME NEW i \in EntryIndex
      PROVE  /\ ByteAt(d, k, c, i) = FatByte(d, k, EntryOffset(c) + i)
             /\ FatByte(d, k, EntryOffset(c) + i) \in Byte
    <2>1. EntryOffset(c) + i \in Places /\ ByteAt(d, k, c, i) = FatByte(d, k, EntryOffset(c) + i)
        BY EntryPlaceIs
    <2>2. /\ Sector(k, EntryOffset(c) + i) \in 0 .. vol.first_data_sector
          /\ (EntryOffset(c) + i) % vol.bytes_per_sector \in 0 .. vol.bytes_per_sector - 1
        BY <2>1, PlaceIs
    <2> QED
        BY <2>1, <2>2 DEF FatByte, Sector, DiskType
<1>3. new \in [EntryIndex -> Byte]
    BY <1>2, NewBytesAre
<1>4. \A i \in EntryIndex : new[i] = NewByte(c, i, FatByte(d, k, EntryOffset(c) + i), next)
    BY <1>2
<1> HIDE DEF new
<1> QED
    BY <1>1, <1>3, <1>4, BytesPut

-----------------------------------------------------------------------------
(* Writing every copy                                                      *)

OneMore(g, n, c, next) == IF n = 0 THEN disk ELSE SetInCopy(g[n - 1], n - 1, c, next)

AreCopies(g, m, c, next) == g = [n \in 0 .. m |-> OneMore(g, n, c, next)]

LEMMA CopiesExist ==
    ASSUME NEW m \in Nat, NEW c, NEW next
    PROVE  \E g : AreCopies(g, m, c, next)
<1> DEFINE T == {n \in Nat : ~ \E g : AreCopies(g, n, c, next)}
<1>1. CASE T = {}
    BY <1>1
<1>2. CASE T # {}
    <2>1. PICK n \in T : \A j \in T : n <= j
        BY <1>2, LeastOfNat
    <2>2. n \in Nat /\ ~ \E g : AreCopies(g, n, c, next)
        BY <2>1
    <2>3. \E h : n > 0 => AreCopies(h, n - 1, c, next)
        <3>1. CASE n > 0
            <4>1. n - 1 \in Nat /\ n - 1 \notin T
                BY <2>1, <2>2, <3>1
            <4> QED
                BY <4>1
        <3> QED
            BY <3>1
    <2>4. PICK h : n > 0 => AreCopies(h, n - 1, c, next)
        BY <2>3
    <2> DEFINE g == [j \in 0 .. n |-> IF j = n THEN OneMore(h, n, c, next) ELSE h[j]]
    <2>5. ASSUME NEW j \in 0 .. n
          PROVE  g[j] = OneMore(g, j, c, next)
        <3>1. OneMore(g, j, c, next) = OneMore(h, j, c, next)
            <4>1. j > 0 => g[j - 1] = h[j - 1]
                BY <2>2
            <4>2. j > 0 \/ j = 0
                BY <2>2
            <4> HIDE DEF g
            <4> QED
                BY <4>1, <4>2 DEF OneMore
        <3>2. CASE j = n
            BY <3>1, <3>2
        <3>3. CASE j # n
            <4>1. n > 0 /\ j \in 0 .. n - 1
                BY <3>3, <2>2
            <4>2. h[j] = OneMore(h, j, c, next)
                BY <2>4, <4>1 DEF AreCopies
            <4> QED
                BY <3>1, <3>3, <4>2
        <3> QED
            BY <3>2, <3>3
    <2>6. AreCopies(g, n, c, next)
        <3>1. g = [j \in 0 .. n |-> g[j]]
            OBVIOUS
        <3> HIDE DEF g
        <3> QED
            BY <2>5, <3>1 DEF AreCopies
    <2> QED
        BY <2>2, <2>6
<1> QED
    BY <1>1, <1>2

\* d is the disk with the entry of c set in the first n copies.
SetInFirst(d, n, c, next) ==
    /\ d \in DiskType
    /\ \A k \in 0 .. n - 1, i \in EntryIndex :
          FatByte(d, k, EntryOffset(c) + i)
              = NewByte(c, i, FatByte(disk, k, EntryOffset(c) + i), next)
    /\ \A s \in 0 .. vol.first_data_sector, o \in 0 .. vol.bytes_per_sector - 1 :
          (\A k \in 0 .. n - 1, i \in EntryIndex : At(k, c, i) # <<s, o>>)
              => d[s][o] = disk[s][o]

\* A further copy.
LEMMA OneMoreIs ==
    ASSUME Shape, NEW c \in Clusters, NEW next \in Values, NEW k \in Copies, NEW d,
           SetInFirst(d, k, c, next)
    PROVE  SetInFirst(SetInCopy(d, k, c, next), k + 1, c, next)
<1> DEFINE e == SetInCopy(d, k, c, next)
<1> DEFINE p(i) == EntryOffset(c) + i
<1>1. d \in DiskType
    BY DEF SetInFirst
<1>2. /\ e \in DiskType
      /\ \A i \in EntryIndex : FatByte(e, k, p(i)) = NewByte(c, i, FatByte(d, k, p(i)), next)
      /\ \A s \in 0 .. vol.first_data_sector, o \in 0 .. vol.bytes_per_sector - 1 :
            (\A i \in EntryIndex : At(k, c, i) # <<s, o>>) => e[s][o] = d[s][o]
    BY <1>1, SetIs
<1>3. k \in Nat /\ vol.num_fats \in Nat /\ \A l \in 0 .. k : l \in Copies
    BY DEF Copies, Shape, VolType
<1> HIDE DEF e
<1>4. ASSUME NEW l \in Copies, NEW i \in EntryIndex
      PROVE  /\ At(l, c, i) = <<Sector(l, p(i)), p(i) % vol.bytes_per_sector>>
             /\ Sector(l, p(i)) \in 0 .. vol.first_data_sector
             /\ p(i) % vol.bytes_per_sector \in 0 .. vol.bytes_per_sector - 1
             /\ \A x : FatByte(x, l, p(i)) = x[Sector(l, p(i))][p(i) % vol.bytes_per_sector]
             /\ p(i) \in Places
    BY EntryPlaceIs, PlaceIs DEF FatByte, Sector
<1>5. ASSUME NEW l \in 0 .. k, NEW i \in EntryIndex
      PROVE  FatByte(e, l, p(i)) = NewByte(c, i, FatByte(disk, l, p(i)), next)
    <2>1. l \in Copies
        BY <1>3
    <2>2. CASE l = k
        <3>1. \A m \in 0 .. k - 1, j \in EntryIndex : At(m, c, j) # At(k, c, i)
            <4> SUFFICES ASSUME NEW m \in 0 .. k - 1, NEW j \in EntryIndex, At(m, c, j) = At(k, c, i)
                         PROVE  FALSE
                OBVIOUS
            <4>1. m \in Copies /\ m # k
                BY <1>3
            <4>2. Sector(m, p(j)) = Sector(k, p(i))
                  /\ p(j) % vol.bytes_per_sector = p(i) % vol.bytes_per_sector
                BY <1>4, <4>1
            <4> QED
                BY <1>4, <4>1, <4>2, PlacesApart
        <3>2. FatByte(d, k, p(i)) = FatByte(disk, k, p(i))
            BY <1>4, <3>1 DEF SetInFirst
        <3> QED
            BY <1>2, <2>2, <3>2
    <2>3. CASE l # k
        <3>1. l \in 0 .. k - 1
            BY <1>3, <2>3
        <3>2. \A j \in EntryIndex : At(k, c, j) # At(l, c, i)
            <4> SUFFICES ASSUME NEW j \in EntryIndex, At(k, c, j) = At(l, c, i)
                         PROVE  FALSE
                OBVIOUS
            <4>1. Sector(k, p(j)) = Sector(l, p(i))
                  /\ p(j) % vol.bytes_per_sector = p(i) % vol.bytes_per_sector
                BY <1>4, <2>1
            <4> QED
                BY <1>4, <2>1, <2>3, <4>1, PlacesApart
        <3>3. FatByte(e, l, p(i)) = FatByte(d, l, p(i))
            BY <1>2, <1>4, <2>1, <3>2
        <3>4. FatByte(d, l, p(i)) = NewByte(c, i, FatByte(disk, l, p(i)), next)
            BY <3>1 DEF SetInFirst
        <3> QED
            BY <3>3, <3>4
    <2> QED
        BY <2>2, <2>3
<1>6. ASSUME NEW s \in 0 .. vol.first_data_sector, NEW o \in 0 .. vol.bytes_per_sector - 1,
             \A l \in 0 .. k, i \in EntryIndex : At(l, c, i) # <<s, o>>
      PROVE  e[s][o] = disk[s][o]
    <2>1. e[s][o] = d[s][o]
        <3>1. k \in 0 .. k
            BY <1>3
        <3> QED
            BY <1>2, <1>6, <3>1
    <2>2. d[s][o] = disk[s][o]
        <3>1. \A l \in 0 .. k - 1 : l \in 0 .. k
            BY <1>3
        <3> QED
            BY <1>6, <3>1 DEF SetInFirst
    <2> QED
        BY <2>1, <2>2
<1>7. (k + 1) - 1 = k
    BY <1>3
<1> QED
    BY <1>2, <1>5, <1>6, <1>7 DEF SetInFirst, e

\* fat_set_next_cluster sets the entry in every copy, and nothing else.
LEMMA AllCopiesIs ==
    ASSUME Shape, disk \in DiskType, NEW c \in Clusters, NEW next \in Values
    PROVE  SetInFirst(AllCopies(c, next), vol.num_fats, c, next)
<1> DEFINE N == vol.num_fats
<1>1. N \in Nat \ {0} /\ Copies = 0 .. N - 1
    BY DEF Shape, VolType, Copies
<1> DEFINE g == CHOOSE h : AreCopies(h, N, c, next)
<1>2. AllCopies(c, next) = g[N]
    BY DEF AllCopies, AreCopies, OneMore
<1>3. AreCopies(g, N, c, next)
    BY <1>1, CopiesExist
<1> HIDE DEF g
<1>4. \A n \in 0 .. N : g[n] = OneMore(g, n, c, next)
    BY <1>3 DEF AreCopies
<1> DEFINE T == {n \in 0 .. N : ~ SetInFirst(g[n], n, c, next)}
<1>5. T = {}
    <2> SUFFICES ASSUME T # {} PROVE FALSE
        OBVIOUS
    <2>1. T \in SUBSET Nat
        BY <1>1
    <2>2. PICK n \in T : \A j \in T : n <= j
        BY <2>1, LeastOfNat
    <2>3. n \in 0 .. N /\ ~ SetInFirst(g[n], n, c, next) /\ n \in Nat
        BY <1>1, <2>2
    <2>4. CASE n = 0
        <3>1. g[n] = disk /\ 0 .. n - 1 = {}
            BY <1>4, <2>3, <2>4 DEF OneMore
        <3> QED
            BY <2>3, <3>1 DEF SetInFirst
    <2>5. CASE n # 0
        <3>1. n - 1 \in 0 .. N /\ n - 1 \in Copies /\ (n - 1) + 1 = n /\ ~(n <= n - 1)
            BY <1>1, <2>3, <2>5
        <3>2. SetInFirst(g[n - 1], n - 1, c, next)
            BY <2>2, <3>1
        <3>3. SetInFirst(SetInCopy(g[n - 1], n - 1, c, next), (n - 1) + 1, c, next)
            BY <3>1, <3>2, OneMoreIs
        <3>4. g[n] = SetInCopy(g[n - 1], n - 1, c, next)
            BY <1>4, <2>3, <2>5 DEF OneMore
        <3> QED
            BY <2>3, <3>1, <3>3, <3>4
    <2> QED
        BY <2>4, <2>5
<1>6. N \in 0 .. N
    BY <1>1
<1> QED
    BY <1>2, <1>5, <1>6

-----------------------------------------------------------------------------
(* Reading an entry                                                        *)

\* fat_get_next_cluster on a disk d.
ReadFrom(d, c) ==
    LET b(i) == FatByte(d, 0, EntryOffset(c) + i)
    IN  IF vol.type = 12 THEN IF c % 2 = 1 THEN (b(0) + 256 * b(1)) \div 16
                              ELSE (b(0) + 256 * b(1)) % 4096
        ELSE IF vol.type = 16 THEN b(0) + 256 * b(1)
        ELSE b(0) + 256 * b(1) + 65536 * b(2) + 16777216 * (b(3) % 16)

LEMMA ReadIs ==
    ASSUME Shape, NEW c \in Clusters
    PROVE  fat_get_next_cluster(c) = ReadFrom(disk, c)
<1>1. vol.type \in {12, 16, 32} /\ 0 \in Copies
    BY DEF Shape, VolType, Copies
<1>2. \A i \in EntryIndex : ByteAt(disk, 0, c, i) = FatByte(disk, 0, EntryOffset(c) + i)
    BY <1>1, EntryPlaceIs
<1>3. CASE vol.type = 12
    <2>1. 0 \in EntryIndex /\ 1 \in EntryIndex
        BY <1>3 DEF EntryIndex
    <2> QED
        BY <1>2, <1>3, <2>1 DEF fat_get_next_cluster, ReadFrom
<1>4. CASE vol.type = 16
    <2>1. 0 \in EntryIndex /\ 1 \in EntryIndex
        BY <1>4 DEF EntryIndex
    <2> QED
        BY <1>2, <1>4, <2>1 DEF fat_get_next_cluster, ReadFrom
<1>5. CASE vol.type = 32
    <2>1. 0 \in EntryIndex /\ 1 \in EntryIndex /\ 2 \in EntryIndex /\ 3 \in EntryIndex
        BY <1>5 DEF EntryIndex
    <2> QED
        BY <1>2, <1>5, <2>1 DEF fat_get_next_cluster, ReadFrom
<1> QED
    BY <1>1, <1>3, <1>4, <1>5

\* Every byte of the FATs after an entry has been set.
LEMMA ByteIs ==
    ASSUME Shape, disk \in DiskType, NEW c \in Clusters, NEW next \in Values, NEW d,
           SetInFirst(d, vol.num_fats, c, next), NEW k \in Copies, NEW p \in Places
    PROVE  /\ FatByte(disk, k, p) \in Byte
           /\ FatByte(d, k, p) = IF p - EntryOffset(c) \in EntryIndex
                                 THEN NewByte(c, p - EntryOffset(c), FatByte(disk, k, p), next)
                                 ELSE FatByte(disk, k, p)
<1> DEFINE s == Sector(k, p)
<1> DEFINE o == p % vol.bytes_per_sector
<1>1. s \in 0 .. vol.first_data_sector /\ o \in 0 .. vol.bytes_per_sector - 1
    BY PlaceIs
<1>2. \A x : FatByte(x, k, p) = x[s][o]
    BY DEF FatByte, Sector
<1>3. p \in Nat /\ EntryOffset(c) \in Nat
    <2>1. vol.bytes_per_sector * vol.fat_size \in Nat /\ 0 \in Copies /\ 0 \in EntryIndex
        BY DEF Shape, VolType, Copies, EntryIndex
    <2> QED
        BY <2>1, EntryPlaceIs DEF Places
<1>4. FatByte(disk, k, p) \in Byte
    <2> HIDE DEF s, o
    <2>1. disk[s] \in [0 .. vol.bytes_per_sector - 1 -> Byte]
        BY <1>1 DEF DiskType
    <2>2. disk[s][o] \in Byte
        BY <1>1, <2>1
    <2> QED
        BY <1>2, <2>2
<1>5. CASE p - EntryOffset(c) \in EntryIndex
    <2> DEFINE i == p - EntryOffset(c)
    <2>1. EntryOffset(c) + i = p
        BY <1>3
    <2>2. k \in 0 .. vol.num_fats - 1
        BY DEF Copies
    <2>3. FatByte(d, k, EntryOffset(c) + i) = NewByte(c, i, FatByte(disk, k, EntryOffset(c) + i), next)
        BY <1>5, <2>2 DEF SetInFirst
    <2> QED
        BY <1>4, <1>5, <2>1, <2>3
<1>6. CASE p - EntryOffset(c) \notin EntryIndex
    <2>1. ASSUME NEW l \in Copies, NEW i \in EntryIndex, At(l, c, i) = <<s, o>>
          PROVE  FALSE
        <3>1. Sector(l, EntryOffset(c) + i) = Sector(k, p)
              /\ (EntryOffset(c) + i) % vol.bytes_per_sector = p % vol.bytes_per_sector
              /\ EntryOffset(c) + i \in Places
            BY <2>1, EntryPlaceIs
        <3>2. EntryOffset(c) + i = p
            BY <3>1, PlacesApart
        <3>3. i \in Int
            BY DEF EntryIndex
        <3> QED
            BY <1>3, <1>6, <3>2, <3>3
    <2>2. d[s][o] = disk[s][o]
        BY <1>1, <2>1 DEF SetInFirst, Copies
    <2> QED
        BY <1>2, <1>4, <1>6, <2>2
<1> QED
    BY <1>5, <1>6

\* Two entries of FAT12 share a byte only when they are the two of a pair.
LEMMA TwelveOverlap ==
    ASSUME NEW c \in Nat, NEW x \in Nat, c # x, NEW i \in 0 .. 1, NEW j \in 0 .. 1,
           x + x \div 2 + j - (c + c \div 2) = i
    PROVE  \/ c % 2 = 1 /\ x % 2 # 1 /\ i = 0 /\ j = 1
           \/ c % 2 # 1 /\ x % 2 = 1 /\ i = 1 /\ j = 0
OBVIOUS

\* An entry of FAT12 reads as it was set, and so does the other one of its pair.
LEMMA TwelveOdd ==
    ASSUME NEW n \in Nat, n < 4096, NEW y \in Byte,
           NEW a, NEW b, a = (y % 16) + (n % 16) * 16, b = n \div 16
    PROVE  (a + 256 * b) \div 16 = n
BY DEF Byte

LEMMA TwelveEven ==
    ASSUME NEW n \in Nat, n < 4096, NEW z \in Byte,
           NEW a, NEW b, a = n % 256, b = (z \div 16) * 16 + n \div 256
    PROVE  (a + 256 * b) % 4096 = n
BY DEF Byte

LEMMA TwelveBefore ==
    ASSUME NEW n \in Nat, n < 4096, NEW y \in Byte, NEW z \in Byte,
           NEW b, b = (z % 16) + (n % 16) * 16
    PROVE  (y + 256 * b) % 4096 = (y + 256 * z) % 4096
BY DEF Byte

LEMMA TwelveBehind ==
    ASSUME NEW n \in Nat, n < 4096, NEW y \in Byte, NEW z \in Byte,
           NEW a, a = (y \div 16) * 16 + n \div 256
    PROVE  (a + 256 * z) \div 16 = (y + 256 * z) \div 16
BY DEF Byte

LEMMA SixteenReads ==
    ASSUME NEW n \in Nat, n < 65536, NEW a, NEW b, a = n % 256, b = n \div 256
    PROVE  a + 256 * b = n
OBVIOUS

\* An entry of FAT32 reads as it was set, under the top nybble it had.
LEMMA ThirtyTwoReads ==
    ASSUME NEW n \in Nat, n < 268435456, NEW z \in Byte,
           NEW a, NEW b, NEW e, NEW f,
           a = n % 256, b = (n \div 256) % 256, e = (n \div 65536) % 256,
           f = (z \div 16) * 16 + n \div 16777216
    PROVE  /\ a + 256 * b + 65536 * e + 16777216 * (f % 16) = n
           /\ f \div 16 = z \div 16
<1>0. z \in Nat
    BY DEF Byte
<1> DEFINE q == n \div 16777216
<1>1. q \in Nat /\ q < 16
    OBVIOUS
<1>2. (n % 256) + 256 * ((n \div 256) % 256) + 65536 * ((n \div 65536) % 256)
          + 16777216 * q = n
    OBVIOUS
<1> HIDE DEF q
<1>3. f = (z \div 16) * 16 + q
    BY DEF q
<1>4. f % 16 = q /\ f \div 16 = z \div 16
    BY <1>0, <1>1, <1>3
<1> QED
    BY SMT, <1>2, <1>4

\* Every entry reads as before, but for the one that was set.
LEMMA SetReads ==
    ASSUME Shape, disk \in DiskType, NEW c \in Clusters, NEW next \in Values, NEW d,
           SetInFirst(d, vol.num_fats, c, next), NEW x \in Clusters
    PROVE  ReadFrom(d, x) = IF x = c THEN next ELSE ReadFrom(disk, x)
<1>1. vol.type \in {12, 16, 32} /\ 0 \in Copies /\ vol.cluster_count \in Nat
    BY DEF Shape, VolType, Copies
<1>2. c \in Nat /\ x \in Nat
    BY <1>1 DEF Clusters
<1> DEFINE D(i) == FatByte(d, 0, EntryOffset(x) + i)
<1> DEFINE O(i) == FatByte(disk, 0, EntryOffset(x) + i)
<1> DEFINE at(i) == (EntryOffset(x) + i) - EntryOffset(c)
<1>3. \A i \in EntryIndex :
         /\ O(i) \in Byte
         /\ D(i) = IF at(i) \in EntryIndex THEN NewByte(c, at(i), O(i), next) ELSE O(i)
    <2> SUFFICES ASSUME NEW i \in EntryIndex
                 PROVE  /\ O(i) \in Byte
                        /\ D(i) = IF at(i) \in EntryIndex THEN NewByte(c, at(i), O(i), next) ELSE O(i)
        OBVIOUS
    <2> DEFINE p == EntryOffset(x) + i
    <2>1. p \in Places
        BY <1>1, EntryPlaceIs
    <2> HIDE DEF p
    <2>2. /\ FatByte(disk, 0, p) \in Byte
          /\ FatByte(d, 0, p) = IF p - EntryOffset(c) \in EntryIndex
                                THEN NewByte(c, p - EntryOffset(c), FatByte(disk, 0, p), next)
                                ELSE FatByte(disk, 0, p)
        BY <1>1, <2>1, ByteIs
    <2>3. O(i) = FatByte(disk, 0, p) /\ D(i) = FatByte(d, 0, p)
        BY DEF p, O, D
    <2>4. at(i) = p - EntryOffset(c)
        BY DEF p, at
    <2> HIDE DEF O, D, at
    <2> QED
        BY <2>2, <2>3, <2>4
<1>4. x = c => \A i \in EntryIndex : at(i) = i
    <2>1. EntryOffset(c) \in Nat
        BY <1>1, <1>2, EntryOffsets
    <2>2. \A i \in EntryIndex : i \in Int
        BY DEF EntryIndex
    <2> QED
        BY <2>1, <2>2
<1>5. /\ next \in Nat
      /\ vol.type = 12 => next < 4096
      /\ vol.type = 16 => next < 65536
      /\ vol.type = 32 => next < 268435456
    BY ValuesAre
<1>6. CASE vol.type = 12
    <2>1. EntryIndex = 0 .. 1
        BY <1>6 DEF EntryIndex
    <2>2. O(0) \in Byte /\ O(1) \in Byte /\ next \in Nat /\ next < 4096
        BY <1>3, <1>5, <1>6, <2>1
    <2>3. /\ ReadFrom(d, x) = IF x % 2 = 1 THEN (D(0) + 256 * D(1)) \div 16
                              ELSE (D(0) + 256 * D(1)) % 4096
          /\ ReadFrom(disk, x) = IF x % 2 = 1 THEN (O(0) + 256 * O(1)) \div 16
                                 ELSE (O(0) + 256 * O(1)) % 4096
        BY <1>6 DEF ReadFrom
    <2>4. /\ at(0) = x + x \div 2 + 0 - (c + c \div 2)
          /\ at(1) = x + x \div 2 + 1 - (c + c \div 2)
        BY <1>1, <1>2, <1>6, EntryOffsets
    <2> HIDE DEF D, O
    <2>5. CASE x = c
        <3>1. D(0) = NewByte(c, 0, O(0), next) /\ D(1) = NewByte(c, 1, O(1), next)
            BY <1>3, <1>4, <2>1, <2>5
        <3>2. CASE c % 2 = 1
            <4>1. D(0) = (O(0) % 16) + (next % 16) * 16 /\ D(1) = next \div 16
                BY <1>6, <3>1, <3>2 DEF NewByte
            <4>2. (D(0) + 256 * D(1)) \div 16 = next
                BY <2>2, <4>1, TwelveOdd
            <4> QED
                BY <2>3, <2>5, <3>2, <4>2
        <3>3. CASE c % 2 # 1
            <4>1. D(0) = next % 256 /\ D(1) = (O(1) \div 16) * 16 + next \div 256
                BY <1>6, <3>1, <3>3 DEF NewByte
            <4>2. (D(0) + 256 * D(1)) % 4096 = next
                BY <2>2, <4>1, TwelveEven
            <4> QED
                BY <2>3, <2>5, <3>3, <4>2
        <3> QED
            BY <3>2, <3>3
    <2>6. CASE x # c
        <3> HIDE DEF at
        <3>1. at(0) \in 0 .. 1 => c % 2 # 1 /\ x % 2 = 1 /\ at(0) = 1
            BY <1>2, <2>4, <2>6, TwelveOverlap
        <3>2. at(1) \in 0 .. 1 => c % 2 = 1 /\ x % 2 # 1 /\ at(1) = 0
            BY <1>2, <2>4, <2>6, TwelveOverlap
        <3>3. CASE at(0) \in 0 .. 1
            <4>1. D(1) = O(1)
                BY <1>3, <2>1, <3>1, <3>2, <3>3
            <4>2. D(0) = NewByte(c, 1, O(0), next)
                BY <1>3, <2>1, <3>1, <3>3
            <4>3. D(0) = (O(0) \div 16) * 16 + next \div 256
                BY <1>6, <3>1, <3>3, <4>2 DEF NewByte
            <4>4. (D(0) + 256 * O(1)) \div 16 = (O(0) + 256 * O(1)) \div 16
                BY <2>2, <4>3, TwelveBehind
            <4> QED
                BY <2>3, <2>6, <3>1, <3>3, <4>1, <4>4
        <3>4. CASE at(1) \in 0 .. 1
            <4>1. D(0) = O(0)
                BY <1>3, <2>1, <3>1, <3>2, <3>4
            <4>2. D(1) = NewByte(c, 0, O(1), next)
                BY <1>3, <2>1, <3>2, <3>4
            <4>3. D(1) = (O(1) % 16) + (next % 16) * 16
                BY <1>6, <3>2, <3>4, <4>2 DEF NewByte
            <4>4. (O(0) + 256 * D(1)) % 4096 = (O(0) + 256 * O(1)) % 4096
                BY <2>2, <4>3, TwelveBefore
            <4> QED
                BY <2>3, <2>6, <3>2, <3>4, <4>1, <4>4
        <3>5. CASE at(0) \notin 0 .. 1 /\ at(1) \notin 0 .. 1
            <4>1. D(0) = O(0) /\ D(1) = O(1)
                BY <1>3, <2>1, <3>5
            <4> QED
                BY <2>3, <2>6, <4>1
        <3> QED
            BY <3>3, <3>4, <3>5
    <2> QED
        BY <2>5, <2>6
<1>7. CASE vol.type = 16
    <2>1. EntryIndex = 0 .. 1
        BY <1>7 DEF EntryIndex
    <2>2. next \in Nat /\ next < 65536
        BY <1>5, <1>7
    <2>3. /\ ReadFrom(d, x) = D(0) + 256 * D(1)
          /\ ReadFrom(disk, x) = O(0) + 256 * O(1)
        BY <1>7 DEF ReadFrom
    <2>4. at(0) = (x * 2 + 0) - c * 2 /\ at(1) = (x * 2 + 1) - c * 2
        <3>1. EntryOffset(x) = x * 2 /\ EntryOffset(c) = c * 2
            BY <1>1, <1>2, <1>7, EntryOffsets
        <3> QED
            BY <3>1
    <2> HIDE DEF D, O
    <2>5. CASE x = c
        <3>1. D(0) = NewByte(c, 0, O(0), next) /\ D(1) = NewByte(c, 1, O(1), next)
            BY <1>3, <1>4, <2>1, <2>5
        <3>2. D(0) = next % 256 /\ D(1) = next \div 256
            BY <1>7, <3>1 DEF NewByte
        <3> QED
            BY <2>2, <2>3, <2>5, <3>2, SixteenReads
    <2>6. CASE x # c
        <3> HIDE DEF at
        <3>1. at(0) \notin 0 .. 1 /\ at(1) \notin 0 .. 1
            BY <1>2, <2>4, <2>6
        <3>2. D(0) = O(0) /\ D(1) = O(1)
            BY <1>3, <2>1, <3>1
        <3> QED
            BY <2>3, <2>6, <3>2
    <2> QED
        BY <2>5, <2>6
<1>8. CASE vol.type = 32
    <2>1. EntryIndex = 0 .. 3
        BY SMT, <1>8 DEF EntryIndex
    <2>2. next \in Nat /\ next < 268435456
        BY SMT, <1>5, <1>8
    <2>3. /\ ReadFrom(d, x) = D(0) + 256 * D(1) + 65536 * D(2) + 16777216 * (D(3) % 16)
          /\ ReadFrom(disk, x) = O(0) + 256 * O(1) + 65536 * O(2) + 16777216 * (O(3) % 16)
        BY SMT, <1>8 DEF ReadFrom
    <2>4. /\ at(0) = (x * 4 + 0) - c * 4 /\ at(1) = (x * 4 + 1) - c * 4
          /\ at(2) = (x * 4 + 2) - c * 4 /\ at(3) = (x * 4 + 3) - c * 4
        <3>1. EntryOffset(x) = x * 4 /\ EntryOffset(c) = c * 4
            BY SMT, <1>1, <1>2, <1>8, EntryOffsets
        <3> QED
            BY <3>1
    <2> HIDE DEF D, O
    <2>5. CASE x = c
        <3>1. /\ D(0) = NewByte(c, 0, O(0), next) /\ D(1) = NewByte(c, 1, O(1), next)
              /\ D(2) = NewByte(c, 2, O(2), next) /\ D(3) = NewByte(c, 3, O(3), next)
            BY SMT, <1>3, <1>4, <2>1, <2>5
        <3>2. /\ D(0) = next % 256 /\ D(1) = (next \div 256) % 256
              /\ D(2) = (next \div 65536) % 256
              /\ D(3) = (O(3) \div 16) * 16 + next \div 16777216
            BY SMT, <1>8, <3>1 DEF NewByte
        <3>3. O(3) \in Byte
            BY SMT, <1>3, <2>1
        <3> DEFINE b0 == D(0)
        <3> DEFINE b1 == D(1)
        <3> DEFINE b2 == D(2)
        <3> DEFINE b3 == D(3)
        <3> DEFINE z == O(3)
        <3>4. b0 + 256 * b1 + 65536 * b2 + 16777216 * (b3 % 16) = next
            <4>1. /\ b0 = next % 256 /\ b1 = (next \div 256) % 256
                  /\ b2 = (next \div 65536) % 256
                  /\ b3 = (z \div 16) * 16 + next \div 16777216
                BY SMT, <3>2
            <4>2. z \in Byte
                BY SMT, <3>3
            <4> HIDE DEF b0, b1, b2, b3, z
            <4> QED
                BY SMT, <2>2, <4>1, <4>2, ThirtyTwoReads
        <3> QED
            BY SMT, <2>3, <2>5, <3>4
    <2>6. CASE x # c
        <3> HIDE DEF at
        <3>1. /\ at(0) \notin 0 .. 3 /\ at(1) \notin 0 .. 3
              /\ at(2) \notin 0 .. 3 /\ at(3) \notin 0 .. 3
            BY SMT, <1>2, <2>4, <2>6
        <3>2. D(0) = O(0) /\ D(1) = O(1) /\ D(2) = O(2) /\ D(3) = O(3)
            BY SMT, <1>3, <2>1, <3>1
        <3> QED
            BY SMT, <2>3, <2>6, <3>2
    <2> QED
        BY SMT, <2>5, <2>6
<1> QED
    BY SMT, <1>1, <1>6, <1>7, <1>8

-----------------------------------------------------------------------------
(* The other copies and the other bytes                                    *)

\* A byte of the FATs by its sector and offset.
LEMMA PlaceOf ==
    ASSUME Shape, NEW s \in 0 .. vol.fat_size - 1, NEW o \in 0 .. vol.bytes_per_sector - 1
    PROVE  \E p \in Places :
              /\ p % vol.bytes_per_sector = o
              /\ \A k \in Copies : /\ Sector(k, p) = vol.reserved_sector_count + k * vol.fat_size + s
                                   /\ Sector(k, p) \in 0 .. vol.first_data_sector
              /\ Sector(0, p) = vol.reserved_sector_count + s
<1> DEFINE f == vol.fat_size
<1> DEFINE b == vol.bytes_per_sector
<1> DEFINE p == b * s + o
<1>1. f \in Nat /\ b \in Nat \ {0} /\ vol.reserved_sector_count \in Nat
    BY DEF Shape, VolType
<1>2. s \in Nat /\ s + 1 <= f /\ o \in 0 .. b - 1
    BY <1>1
<1>3. p \in Places
    <2>1. b * (s + 1) <= b * f /\ b * f \in Nat /\ b * (s + 1) = b * s + b /\ b * s \in Nat
        BY <1>1, <1>2, ProductGrows
    <2>2. p \in 0 .. b * f - 1
        BY <1>1, <1>2, <2>1
    <2> QED
        BY <2>2 DEF Places
<1>4. p \div b = s /\ p % b = o
    <2> HIDE DEF b
    <2>1. s \in Int
        BY <1>2
    <2> QED
        BY <1>1, <1>2, <2>1, QuotientIs
<1> HIDE DEF p
<1>5. \A k : Sector(k, p) = vol.reserved_sector_count + k * f + s
    BY <1>4 DEF Sector
<1>6. Sector(0, p) = vol.reserved_sector_count + s
    BY <1>1, <1>2, <1>5
<1>7. \A k \in Copies : Sector(k, p) \in 0 .. vol.first_data_sector
    BY <1>3, PlaceIs
<1> QED
    BY <1>3, <1>4, <1>5, <1>6, <1>7

\* Copies that agreed agree after an entry has been set.
LEMMA CopiesStayAlike ==
    ASSUME Shape, disk \in DiskType, NEW c \in Clusters, NEW next \in Values, NEW d,
           SetInFirst(d, vol.num_fats, c, next), CopiesAgree,
           NEW s \in 0 .. vol.fat_size - 1, NEW k \in 1 .. vol.num_fats - 1
    PROVE  d[vol.reserved_sector_count + k * vol.fat_size + s]
               = d[vol.reserved_sector_count + s]
<1> DEFINE x == vol.reserved_sector_count + k * vol.fat_size + s
<1> DEFINE y == vol.reserved_sector_count + s
<1> DEFINE O == 0 .. vol.bytes_per_sector - 1
<1>1. k \in Copies /\ 0 \in Copies
    BY DEF Shape, VolType, Copies
<1>2. disk[x] = disk[y]
    BY DEF CopiesAgree
<1>3. d \in DiskType
    BY DEF SetInFirst
<1>4. ASSUME NEW o \in O
      PROVE  x \in 0 .. vol.first_data_sector /\ y \in 0 .. vol.first_data_sector /\ d[x][o] = d[y][o]
    <2>1. PICK p \in Places : /\ p % vol.bytes_per_sector = o
                              /\ \A l \in Copies :
                                    /\ Sector(l, p) = vol.reserved_sector_count + l * vol.fat_size + s
                                    /\ Sector(l, p) \in 0 .. vol.first_data_sector
                              /\ Sector(0, p) = y
        BY PlaceOf
    <2>2. Sector(k, p) = x
        BY <1>1, <2>1
    <2>3. \A e : FatByte(e, k, p) = e[x][o] /\ FatByte(e, 0, p) = e[y][o]
        BY <2>1, <2>2 DEF FatByte, Sector
    <2>4. FatByte(disk, k, p) = FatByte(disk, 0, p)
        BY <1>2, <2>3
    <2>5. FatByte(d, k, p) = FatByte(d, 0, p)
        BY <1>1, <2>4, ByteIs
    <2> QED
        BY <1>1, <2>1, <2>2, <2>3, <2>5
<1> HIDE DEF x, y
<1>5. 0 \in O
    BY DEF Shape, VolType
<1>6. x \in 0 .. vol.first_data_sector /\ y \in 0 .. vol.first_data_sector
    BY <1>4, <1>5
<1>7. d[x] \in [O -> Byte] /\ d[y] \in [O -> Byte]
    BY <1>3, <1>6 DEF DiskType
<1> HIDE DEF O
<1>8. d[x] = d[y]
    BY <1>4, <1>7
<1> QED
    BY <1>8 DEF x, y

\* The fourth byte of an entry is one of its bytes.
LEMMA TopByteIs ==
    ASSUME Shape, NEW t \in TopBytes
    PROVE  \E k \in Copies, x \in Clusters :
              vol.type = 32 /\ 3 \in EntryIndex /\ t = At(k, x, 3)
<1>1. vol.type = 32
    BY DEF TopBytes
<1>2. PICK k \in Copies, x \in Clusters : t = At(k, x, 3)
    BY <1>1 DEF TopBytes, Copies
<1> QED
    BY <1>1, <1>2 DEF EntryIndex

\* Nothing but entries is written, and of the fourth byte of a FAT32 entry
\* only the lower nybble.
LEMMA RestStays ==
    ASSUME Shape, disk \in DiskType, NEW c \in Clusters, NEW next \in Values, NEW d,
           SetInFirst(d, vol.num_fats, c, next), RestUntouched
    PROVE  /\ \A s \in 0 .. vol.first_data_sector, o \in 0 .. vol.bytes_per_sector - 1 :
                 <<s, o>> \notin EntryBytes => d[s][o] = 165
           /\ \A t \in TopBytes : d[t[1]][t[2]] \div 16 = 10
<1>1. ASSUME NEW s \in 0 .. vol.first_data_sector, NEW o \in 0 .. vol.bytes_per_sector - 1,
             <<s, o>> \notin EntryBytes
      PROVE  d[s][o] = 165
    <2>1. \A k \in Copies, i \in EntryIndex : At(k, c, i) # <<s, o>>
        BY <1>1 DEF EntryBytes, Copies, EntryIndex
    <2>2. d[s][o] = disk[s][o]
        BY <2>1 DEF SetInFirst, Copies
    <2>3. DOMAIN disk = 0 .. vol.first_data_sector
          /\ DOMAIN disk[s] = 0 .. vol.bytes_per_sector - 1
        BY DEF DiskType
    <2>4. \A u \in DOMAIN disk : \A v \in DOMAIN disk[u] :
             <<u, v>> \notin EntryBytes => disk[u][v] = 165
        BY DEF RestUntouched
    <2>5. disk[s][o] = 165
        <3>1. s \in DOMAIN disk /\ o \in DOMAIN disk[s]
            BY <2>3
        <3>2. <<s, o>> \notin EntryBytes
            BY <1>1
        <3>3. \A v \in DOMAIN disk[s] : <<s, v>> \notin EntryBytes => disk[s][v] = 165
            BY <2>4, <3>1
        <3>4. <<s, o>> \notin EntryBytes => disk[s][o] = 165
            BY <3>1, <3>3
        <3> QED
            BY <3>2, <3>4
    <2> QED
        BY <2>2, <2>5
<1>2. ASSUME NEW t \in TopBytes
      PROVE  d[t[1]][t[2]] \div 16 = 10
    <2>1. PICK k \in Copies, x \in Clusters : vol.type = 32 /\ 3 \in EntryIndex /\ t = At(k, x, 3)
        BY TopByteIs
    <2> DEFINE p == EntryOffset(x) + 3
    <2>2. p \in Places /\ t = <<Sector(k, p), p % vol.bytes_per_sector>>
        BY <2>1, EntryPlaceIs
    <2>3. \A e : e[t[1]][t[2]] = FatByte(e, k, p)
        BY <2>2 DEF FatByte, Sector
    <2>4. FatByte(disk, k, p) \div 16 = 10
        BY <2>3 DEF RestUntouched
    <2> DEFINE i == p - EntryOffset(c)
    <2>5. /\ FatByte(disk, k, p) \in Byte
          /\ FatByte(d, k, p) = IF i \in EntryIndex THEN NewByte(c, i, FatByte(disk, k, p), next)
                                ELSE FatByte(disk, k, p)
        BY <2>2, ByteIs
    <2>6. i \in EntryIndex => i = 3
        <3>1. vol.cluster_count \in Nat
            BY DEF Shape, VolType
        <3>2. c \in Nat /\ x \in Nat
            BY <3>1 DEF Clusters
        <3>3. EntryOffset(x) = x * 4 /\ EntryOffset(c) = c * 4 /\ EntryIndex = 0 .. 3
            BY <2>1, <3>2, EntryOffsets DEF EntryIndex
        <3> QED
            BY <3>2, <3>3
    <2> HIDE DEF i, p
    <2>7. i = 3 => NewByte(c, i, FatByte(disk, k, p), next)
                     = (FatByte(disk, k, p) \div 16) * 16 + next \div 16777216
        BY SMT, <2>1 DEF NewByte
    <2>8. ((FatByte(disk, k, p) \div 16) * 16 + next \div 16777216) \div 16
              = FatByte(disk, k, p) \div 16
        <3> DEFINE z == FatByte(disk, k, p)
        <3>1. next \in Nat /\ next < 268435456
            BY <2>1, ValuesAre
        <3>2. z \in Nat
            BY <2>5 DEF Byte
        <3> HIDE DEF z
        <3>3. ((z \div 16) * 16 + next \div 16777216) \div 16 = z \div 16
            BY SMT, <3>1, <3>2
        <3> QED
            BY SMT, <3>3 DEF z
    <2>9. FatByte(d, k, p) \div 16 = 10
        BY SMT, <2>4, <2>5, <2>6, <2>7, <2>8
    <2> QED
        BY <2>3, <2>9
<1> QED
    BY <1>1, <1>2

-----------------------------------------------------------------------------
(* The formatted volume                                                    *)

LEMMA InitLayout ==
    ASSUME Init
    PROVE  Layout
<1>1. bpb \in Boots /\ vol = fat_vol_init(bpb)
    BY DEF Init
<1>2. /\ bpb.bytes_per_sector \in Nat \ {0} /\ bpb.sectors_per_cluster \in Nat \ {0}
      /\ bpb.num_fats \in Nat \ {0} /\ bpb.reserved_sector_count \in Nat
      /\ bpb_fat_size(bpb) \in Nat /\ bpb_root_dir_sectors(bpb) \in Nat
      /\ bpb_first_data_sector(bpb) \in Nat /\ bpb_cluster_count(bpb) \in Nat \ {0}
    BY <1>1, Geometry
<1>3. fat_type(bpb) \in {12, 16, 32}
    BY DEF fat_type
<1>4. (bpb_first_data_sector(bpb) - bpb_root_dir_sectors(bpb)) % Short \in Nat
    BY <1>2 DEF Short
<1>5. vol \in VolType /\ vol.last_cluster_alloc = 2 /\ vol.cluster_count = bpb_cluster_count(bpb)
    BY <1>1, <1>2, <1>3, <1>4 DEF fat_vol_init, VolType
<1>6. vol = [fat_vol_init(bpb) EXCEPT !.last_cluster_alloc = vol.last_cluster_alloc]
    <2>1. [fat_vol_init(bpb) EXCEPT !.last_cluster_alloc = 2] = fat_vol_init(bpb)
        BY DEF fat_vol_init
    <2> QED
        BY <1>1, <1>5, <2>1
<1>7. vol.last_cluster_alloc \in Clusters
    BY <1>2, <1>5 DEF Clusters
<1> QED
    BY <1>1, <1>5, <1>6, <1>7 DEF Layout

\* Whether a byte of the FATs belongs to an entry does not depend on the copy.
LEMMA PlaceInEntry ==
    ASSUME Shape, NEW k \in Copies, NEW p \in Places
    PROVE  /\ <<Sector(k, p), p % vol.bytes_per_sector>> \in EntryBytes
                 <=> \E c \in Clusters, i \in EntryIndex : EntryOffset(c) + i = p
           /\ <<Sector(k, p), p % vol.bytes_per_sector>> \in TopBytes
                 <=> vol.type = 32 /\ \E c \in Clusters : EntryOffset(c) + 3 = p
<1> DEFINE a == <<Sector(k, p), p % vol.bytes_per_sector>>
<1>1. ASSUME NEW l \in Copies, NEW c \in Clusters, NEW i \in EntryIndex
      PROVE  /\ At(l, c, i) = a => EntryOffset(c) + i = p
             /\ EntryOffset(c) + i = p => At(k, c, i) = a
    <2>1. EntryOffset(c) + i \in Places
          /\ At(l, c, i) = <<Sector(l, EntryOffset(c) + i), (EntryOffset(c) + i) % vol.bytes_per_sector>>
          /\ At(k, c, i) = <<Sector(k, EntryOffset(c) + i), (EntryOffset(c) + i) % vol.bytes_per_sector>>
        BY EntryPlaceIs
    <2>2. ASSUME At(l, c, i) = a
          PROVE  EntryOffset(c) + i = p
        BY <2>1, <2>2, PlacesApart
    <2> QED
        BY <2>1, <2>2
<1> HIDE DEF a
<1>2. a \in EntryBytes <=> \E l \in Copies, c \in Clusters, i \in EntryIndex : At(l, c, i) = a
    BY DEF EntryBytes, Copies, EntryIndex
<1>3. a \in TopBytes <=> vol.type = 32 /\ \E l \in Copies, c \in Clusters : At(l, c, 3) = a
    BY DEF TopBytes, Copies
<1>4. vol.type = 32 => 3 \in EntryIndex
    BY DEF EntryIndex
<1>5. a \in EntryBytes <=> \E c \in Clusters, i \in EntryIndex : EntryOffset(c) + i = p
    BY <1>1, <1>2
<1>6. a \in TopBytes <=> vol.type = 32 /\ \E c \in Clusters : EntryOffset(c) + 3 = p
    BY <1>1, <1>3, <1>4
<1> QED
    BY <1>5, <1>6 DEF a

LEMMA InitDisk ==
    ASSUME Init
    PROVE  /\ disk \in DiskType
           /\ \A s \in 0 .. vol.first_data_sector, o \in 0 .. vol.bytes_per_sector - 1 :
                 disk[s][o] = Formatted(s, o)
<1>1. disk = [s \in 0 .. vol.first_data_sector |->
                [o \in 0 .. vol.bytes_per_sector - 1 |-> Formatted(s, o)]]
    BY DEF Init
<1>2. \A s, o : Formatted(s, o) \in Byte
    BY DEF Formatted, Byte
<1> QED
    BY <1>1, <1>2 DEF DiskType

LEMMA InitByte ==
    ASSUME Init, Shape, NEW k \in Copies, NEW p \in Places
    PROVE  FatByte(disk, k, p) =
             IF vol.type = 32 /\ \E c \in Clusters : EntryOffset(c) + 3 = p THEN 160
             ELSE IF \E c \in Clusters, i \in EntryIndex : EntryOffset(c) + i = p THEN 0
             ELSE 165
<1> DEFINE s == Sector(k, p)
<1> DEFINE o == p % vol.bytes_per_sector
<1>1. FatByte(disk, k, p) = disk[s][o]
    BY DEF FatByte, Sector
<1>2. s \in 0 .. vol.first_data_sector /\ o \in 0 .. vol.bytes_per_sector - 1
    BY PlaceIs
<1>3. disk[s][o] = Formatted(s, o)
    BY <1>2, InitDisk
<1>4. /\ <<s, o>> \in EntryBytes <=> \E c \in Clusters, i \in EntryIndex : EntryOffset(c) + i = p
      /\ <<s, o>> \in TopBytes <=> vol.type = 32 /\ \E c \in Clusters : EntryOffset(c) + 3 = p
    BY PlaceInEntry
<1> HIDE DEF s, o
<1> QED
    BY <1>1, <1>3, <1>4 DEF Formatted

\* All clusters of a formatted volume are free.
LEMMA InitReads ==
    ASSUME Init, Shape, NEW c \in Clusters
    PROVE  fat_get_next_cluster(c) = 0
<1>1. vol.type \in {12, 16, 32} /\ 0 \in Copies /\ vol.cluster_count \in Nat
    BY DEF Shape, VolType, Copies
<1>2. \A x \in Clusters : x \in Nat
    BY <1>1 DEF Clusters
<1> DEFINE D(i) == FatByte(disk, 0, EntryOffset(c) + i)
<1>3. ASSUME NEW i \in EntryIndex
      PROVE  D(i) = IF vol.type = 32 /\ i = 3 THEN 160 ELSE 0
    <2>1. EntryOffset(c) + i \in Places
        BY <1>1, EntryPlaceIs
    <2>2. vol.type = 32 => /\ EntryIndex = 0 .. 3
                           /\ \A x \in Clusters : EntryOffset(x) = x * 4
        BY <1>1, <1>2, EntryOffsets DEF EntryIndex
    <2>3. vol.type = 32 => ((\E x \in Clusters : EntryOffset(x) + 3 = EntryOffset(c) + i) <=> i = 3)
        BY <1>2, <2>2
    <2>4. \E x \in Clusters, j \in EntryIndex : EntryOffset(x) + j = EntryOffset(c) + i
        OBVIOUS
    <2> DEFINE p == EntryOffset(c) + i
    <2>5. FatByte(disk, 0, p) =
             IF vol.type = 32 /\ \E x \in Clusters : EntryOffset(x) + 3 = p THEN 160
             ELSE IF \E x \in Clusters, j \in EntryIndex : EntryOffset(x) + j = p THEN 0
             ELSE 165
        BY <1>1, <2>1, InitByte
    <2> QED
        BY <2>3, <2>4, <2>5
<1>4. fat_get_next_cluster(c) = ReadFrom(disk, c)
    BY ReadIs
<1>5. CASE vol.type = 12
    <2>1. D(0) = 0 /\ D(1) = 0
        BY <1>3, <1>5 DEF EntryIndex
    <2>2. (0 + 256 * 0) \div 16 = 0 /\ (0 + 256 * 0) % 4096 = 0
        OBVIOUS
    <2> QED
        BY <1>4, <1>5, <2>1, <2>2 DEF ReadFrom
<1>6. CASE vol.type = 16
    <2>1. D(0) = 0 /\ D(1) = 0
        BY <1>3, <1>6 DEF EntryIndex
    <2> QED
        BY <1>4, <1>6, <2>1 DEF ReadFrom
<1>7. CASE vol.type = 32
    <2>1. D(0) = 0 /\ D(1) = 0 /\ D(2) = 0 /\ D(3) = 160
        BY <1>3, <1>7 DEF EntryIndex
    <2>2. 160 % 16 = 0
        OBVIOUS
    <2> QED
        BY SMT, <1>4, <1>7, <2>1, <2>2 DEF ReadFrom
<1> QED
    BY <1>1, <1>5, <1>6, <1>7

LEMMA InitCopies ==
    ASSUME Init, Shape
    PROVE  CopiesAgree
<1> SUFFICES ASSUME NEW s \in 0 .. vol.fat_size - 1, NEW k \in 1 .. vol.num_fats - 1
             PROVE  disk[vol.reserved_sector_count + k * vol.fat_size + s]
                        = disk[vol.reserved_sector_count + s]
    BY DEF CopiesAgree
<1> DEFINE x == vol.reserved_sector_count + k * vol.fat_size + s
<1> DEFINE y == vol.reserved_sector_count + s
<1> DEFINE O == 0 .. vol.bytes_per_sector - 1
<1>1. k \in Copies /\ 0 \in Copies
    BY DEF Shape, VolType, Copies
<1>2. ASSUME NEW o \in O
      PROVE  x \in 0 .. vol.first_data_sector /\ y \in 0 .. vol.first_data_sector
             /\ disk[x][o] = disk[y][o]
    <2>1. PICK p \in Places : /\ p % vol.bytes_per_sector = o
                              /\ \A l \in Copies :
                                    /\ Sector(l, p) = vol.reserved_sector_count + l * vol.fat_size + s
                                    /\ Sector(l, p) \in 0 .. vol.first_data_sector
                              /\ Sector(0, p) = y
        BY PlaceOf
    <2>2. Sector(k, p) = x
        BY <1>1, <2>1
    <2>3. FatByte(disk, k, p) = disk[x][o] /\ FatByte(disk, 0, p) = disk[y][o]
        BY <2>1, <2>2 DEF FatByte, Sector
    <2>4. FatByte(disk, k, p) = FatByte(disk, 0, p)
        BY <1>1, InitByte
    <2> QED
        BY <1>1, <2>1, <2>2, <2>3, <2>4
<1> HIDE DEF x, y
<1>3. 0 \in O
    BY DEF Shape, VolType
<1>4. x \in 0 .. vol.first_data_sector /\ y \in 0 .. vol.first_data_sector
    BY <1>2, <1>3
<1>5. disk[x] \in [O -> Byte] /\ disk[y] \in [O -> Byte]
    BY <1>4, InitDisk DEF DiskType
<1> HIDE DEF O
<1>6. disk[x] = disk[y]
    BY <1>2, <1>5
<1> QED
    BY <1>6 DEF x, y

LEMMA InitRest ==
    ASSUME Init, Shape
    PROVE  RestUntouched
<1>1. disk \in DiskType
      /\ \A s \in 0 .. vol.first_data_sector, o \in 0 .. vol.bytes_per_sector - 1 :
            disk[s][o] = Formatted(s, o)
    BY InitDisk
<1>2. DOMAIN disk = 0 .. vol.first_data_sector
      /\ \A s \in 0 .. vol.first_data_sector : DOMAIN disk[s] = 0 .. vol.bytes_per_sector - 1
    BY <1>1 DEF DiskType
<1>3. ASSUME NEW t \in TopBytes
      PROVE  t \in EntryBytes /\ disk[t[1]][t[2]] \div 16 = 10
    <2>1. PICK k \in Copies, x \in Clusters : vol.type = 32 /\ 3 \in EntryIndex /\ t = At(k, x, 3)
        BY TopByteIs
    <2> DEFINE p == EntryOffset(x) + 3
    <2>2. p \in Places /\ t = <<Sector(k, p), p % vol.bytes_per_sector>>
        BY <2>1, EntryPlaceIs
    <2>3. t \in EntryBytes
        BY <2>1 DEF EntryBytes, Copies, EntryIndex
    <2>4. FatByte(disk, k, p) = 160
        BY <2>1, <2>2, InitByte
    <2>5. disk[t[1]][t[2]] = 160
        BY <2>2, <2>4 DEF FatByte, Sector
    <2> QED
        BY <2>3, <2>5
<1>4. ASSUME NEW s \in DOMAIN disk, NEW o \in DOMAIN disk[s], <<s, o>> \notin EntryBytes
      PROVE  disk[s][o] = 165
    <2>1. disk[s][o] = Formatted(s, o)
        BY <1>1, <1>2
    <2>2. <<s, o>> \notin TopBytes
        BY <1>3, <1>4
    <2> QED
        BY <1>4, <2>1, <2>2 DEF Formatted
<1> QED
    BY <1>3, <1>4 DEF RestUntouched

-----------------------------------------------------------------------------
(* The invariant and the theorems                                          *)

TableInv ==
    /\ Layout
    /\ disk \in DiskType
    /\ link \in [Clusters -> Values]
    /\ EntriesApart
    /\ CopiesAgree
    /\ RestUntouched

LEMMA InitInv ==
    ASSUME Init
    PROVE  TableInv
<1>1. Layout /\ Shape
    BY InitLayout, LayoutShapes
<1>2. link = [c \in Clusters |-> 0]
    BY DEF Init
<1>3. link \in [Clusters -> Values] /\ \A c \in Clusters : link[c] = 0
    BY <1>2 DEF Values
<1>4. EntriesApart
    BY <1>1, <1>3, InitReads DEF EntriesApart
<1> QED
    BY <1>1, <1>3, <1>4, InitDisk, InitCopies, InitRest DEF TableInv

\* A step leaves the layout alone.
SameLayout ==
    /\ bpb' = bpb
    /\ \E n \in Clusters : vol' = [vol EXCEPT !.last_cluster_alloc = n]

LEMMA FieldsStay ==
    ASSUME TableInv, SameLayout
    PROVE  /\ vol'.type = vol.type
           /\ vol'.cluster_count = vol.cluster_count
           /\ vol'.bytes_per_sector = vol.bytes_per_sector
           /\ vol'.first_data_sector = vol.first_data_sector
           /\ vol'.reserved_sector_count = vol.reserved_sector_count
           /\ vol'.num_fats = vol.num_fats
           /\ vol'.fat_size = vol.fat_size
           /\ Layout'
<1>1. PICK n \in Clusters : vol' = [vol EXCEPT !.last_cluster_alloc = n]
    BY DEF SameLayout
<1>2. vol \in VolType /\ bpb \in Boots /\ bpb' = bpb
    BY DEF TableInv, Layout, SameLayout
<1>3. vol = [fat_vol_init(bpb) EXCEPT !.last_cluster_alloc = vol.last_cluster_alloc]
    BY DEF TableInv, Layout
<1>4. n \in Nat
    BY <1>2 DEF Clusters, VolType
<1>5. vol' \in VolType /\ vol'.last_cluster_alloc = n
    BY <1>1, <1>2, <1>4 DEF VolType
<1>6. /\ vol'.type = vol.type
      /\ vol'.cluster_count = vol.cluster_count
      /\ vol'.bytes_per_sector = vol.bytes_per_sector
      /\ vol'.first_data_sector = vol.first_data_sector
      /\ vol'.reserved_sector_count = vol.reserved_sector_count
      /\ vol'.num_fats = vol.num_fats
      /\ vol'.fat_size = vol.fat_size
    BY <1>1, <1>2 DEF VolType
<1>7. vol' = [fat_vol_init(bpb) EXCEPT !.last_cluster_alloc = n]
    <2> DEFINE v == fat_vol_init(bpb)
    <2> DEFINE l == vol.last_cluster_alloc
    <2>1. [[v EXCEPT !.last_cluster_alloc = l] EXCEPT !.last_cluster_alloc = n]
             = [v EXCEPT !.last_cluster_alloc = n]
        BY DEF fat_vol_init
    <2>2. vol = [v EXCEPT !.last_cluster_alloc = l]
        BY <1>3
    <2> HIDE DEF v, l
    <2>3. vol' = [v EXCEPT !.last_cluster_alloc = n]
        BY <1>1, <2>1, <2>2
    <2> QED
        BY <2>3 DEF v
<1>8. fat_vol_init(bpb)' = fat_vol_init(bpb)
    BY <1>2
<1>9. Clusters' = Clusters
    BY <1>6 DEF Clusters
<1> QED
    BY <1>2, <1>5, <1>6, <1>7, <1>8, <1>9 DEF Layout

\* What is read and where it lies, as a fact of every state.
ReadsAlike == \A c \in Clusters : fat_get_next_cluster(c) = ReadFrom(disk, c)

LEMMA ReadIsAlways == Shape => ReadsAlike
BY ReadIs DEF ReadsAlike

LEMMA ShapeAlways == Layout => Shape
BY LayoutShapes

\* A step that sets an entry keeps the invariant.
LEMMA SetKeeps ==
    ASSUME TableInv, SameLayout, NEW c \in Clusters, NEW next \in Values,
           fat_set_next_cluster(c, next)
    PROVE  TableInv'
<1>1. Layout /\ disk \in DiskType /\ link \in [Clusters -> Values]
      /\ EntriesApart /\ CopiesAgree /\ RestUntouched
    BY DEF TableInv
<1>2. Shape
    BY <1>1, LayoutShapes
<1>3. disk' = AllCopies(c, next) /\ link' = [link EXCEPT ![c] = next]
    BY DEF fat_set_next_cluster
<1> DEFINE d == AllCopies(c, next)
<1>4. SetInFirst(d, vol.num_fats, c, next)
    BY <1>1, <1>2, AllCopiesIs
<1>5. PICK e : e = d
    OBVIOUS
<1>6. disk' = e /\ SetInFirst(e, vol.num_fats, c, next) /\ e \in DiskType
    BY <1>3, <1>4, <1>5 DEF SetInFirst
<1> HIDE DEF d
<1>7. /\ vol'.type = vol.type
      /\ vol'.cluster_count = vol.cluster_count
      /\ vol'.bytes_per_sector = vol.bytes_per_sector
      /\ vol'.first_data_sector = vol.first_data_sector
      /\ vol'.reserved_sector_count = vol.reserved_sector_count
      /\ vol'.num_fats = vol.num_fats
      /\ vol'.fat_size = vol.fat_size
      /\ Layout'
    BY FieldsStay
<1>8. /\ Clusters' = Clusters /\ Values' = Values /\ DiskType' = DiskType
      /\ EntryIndex' = EntryIndex /\ Copies' = Copies
    BY <1>7 DEF Clusters, Values, DiskType, EntryIndex, Copies
<1>9. \A x : EntryOffset(x)' = EntryOffset(x)
    BY <1>7 DEF EntryOffset
<1>10. \A k, x, i : At(k, x, i)' = At(k, x, i)
    BY <1>7, <1>9 DEF At
<1>11. EntryBytes' = EntryBytes /\ TopBytes' = TopBytes
    <2>1. EntryBytes = {At(k, x, i) : k \in Copies, x \in Clusters, i \in EntryIndex}
        BY DEF EntryBytes, Copies, EntryIndex
    <2>2. EntryBytes' = {At(k, x, i)' : k \in Copies, x \in Clusters, i \in EntryIndex}
        BY <1>7, <1>8 DEF EntryBytes, Copies, EntryIndex
    <2>3. EntryBytes' = EntryBytes
        BY <1>10, <2>1, <2>2
    <2>4. TopBytes' = TopBytes
        <3>1. CASE vol.type # 32
            BY <1>7, <3>1 DEF TopBytes
        <3>2. CASE vol.type = 32
            <4>1. TopBytes = {At(k, x, 3) : k \in Copies, x \in Clusters}
                BY <3>2 DEF TopBytes, Copies
            <4>2. TopBytes' = {At(k, x, 3)' : k \in Copies, x \in Clusters}
                BY <1>7, <1>8, <3>2 DEF TopBytes, Copies
            <4> QED
                BY <1>10, <4>1, <4>2
        <3> QED
            BY <3>1, <3>2
    <2> QED
        BY <2>3, <2>4
<1>12. link' \in [Clusters -> Values] /\ \A x \in Clusters : link'[x] = IF x = c THEN next ELSE link[x]
    BY <1>1, <1>3
<1>13. EntriesApart'
    <2>0. (Layout => Shape)'
        BY ShapeAlways, PTL
    <2>1. Shape'
        BY <1>7, <2>0
    <2>2. (Shape => ReadsAlike)'
        BY ReadIsAlways, PTL
    <2>3. ASSUME NEW x \in Clusters
          PROVE  fat_get_next_cluster(x)' = link'[x]
        <3>1. fat_get_next_cluster(x)' = ReadFrom(disk, x)'
            BY <1>8, <2>1, <2>2 DEF ReadsAlike
        <3>2. \A i : FatByte(disk, 0, EntryOffset(x) + i)' = FatByte(e, 0, EntryOffset(x) + i)
            BY <1>6, <1>7, <1>9 DEF FatByte
        <3>3. ReadFrom(disk, x)' = ReadFrom(e, x)
            BY SMT, <1>7, <3>2 DEF ReadFrom
        <3>4. ReadFrom(e, x) = IF x = c THEN next ELSE ReadFrom(disk, x)
            BY <1>1, <1>2, <1>6, SetReads
        <3>5. ReadFrom(disk, x) = link[x]
            BY <1>1, <1>2, ReadIs DEF EntriesApart
        <3> QED
            BY <1>12, <3>1, <3>3, <3>4, <3>5
    <2> QED
        BY <1>8, <2>3 DEF EntriesApart
<1>14. CopiesAgree'
    <2>1. \A s \in 0 .. vol.fat_size - 1, k \in 1 .. vol.num_fats - 1 :
             e[vol.reserved_sector_count + k * vol.fat_size + s] = e[vol.reserved_sector_count + s]
        BY <1>1, <1>2, <1>6, CopiesStayAlike
    <2> QED
        BY <1>6, <1>7, <2>1 DEF CopiesAgree
<1>15. RestUntouched'
    <2>1. /\ \A s \in 0 .. vol.first_data_sector, o \in 0 .. vol.bytes_per_sector - 1 :
                <<s, o>> \notin EntryBytes => e[s][o] = 165
          /\ \A t \in TopBytes : e[t[1]][t[2]] \div 16 = 10
        BY <1>1, <1>2, <1>6, RestStays
    <2>2. /\ DOMAIN e = 0 .. vol.first_data_sector
          /\ \A s \in 0 .. vol.first_data_sector : DOMAIN e[s] = 0 .. vol.bytes_per_sector - 1
        BY <1>6 DEF DiskType
    <2>3. ASSUME NEW s \in DOMAIN e, NEW o \in DOMAIN e[s]
          PROVE  <<s, o>> \notin EntryBytes => e[s][o] = 165
        <3>1. s \in 0 .. vol.first_data_sector /\ o \in 0 .. vol.bytes_per_sector - 1
            BY <2>2
        <3> QED
            BY <2>1, <3>1
    <2> QED
        BY <1>6, <1>11, <2>1, <2>3 DEF RestUntouched
<1> QED
    BY <1>6, <1>7, <1>8, <1>12, <1>13, <1>14, <1>15 DEF TableInv

LEMMA NextInv ==
    ASSUME TableInv, [Next]_vars
    PROVE  TableInv'
<1>1. vol \in VolType /\ vol.last_cluster_alloc \in Clusters
    BY DEF TableInv, Layout
<1>2. vol = [vol EXCEPT !.last_cluster_alloc = vol.last_cluster_alloc]
    BY <1>1 DEF VolType
<1>3. CASE Allocate
    <2>1. PICK c \in Clusters : /\ fat_set_next_cluster(c, fat_eoc[vol.type])
                                /\ vol' = [vol EXCEPT !.last_cluster_alloc = c]
        BY <1>3 DEF Allocate
    <2>2. SameLayout
        BY <2>1 DEF SameLayout, fat_set_next_cluster
    <2>3. fat_eoc[vol.type] \in Values
        BY DEF Values
    <2> QED
        BY <2>1, <2>2, <2>3, SetKeeps
<1>4. CASE \E c \in Clusters, next \in {0, Pattern[vol.type]} : Relink(c, next)
    <2>1. PICK c \in Clusters, next \in {0, Pattern[vol.type]} : Relink(c, next)
        BY <1>4
    <2>2. fat_set_next_cluster(c, next) /\ vol' = vol
        BY <2>1 DEF Relink
    <2>3. SameLayout
        BY <1>1, <1>2, <2>2 DEF SameLayout, fat_set_next_cluster
    <2>4. next \in Values
        BY DEF Values
    <2> QED
        BY <2>2, <2>3, <2>4, SetKeeps
<1>5. CASE UNCHANGED vars
    <2>1. bpb' = bpb /\ vol' = vol /\ disk' = disk /\ link' = link
        BY <1>5 DEF vars
    <2>2. TableInv' = TableInv
        BY <2>1 DEF TableInv, Layout, DiskType, Clusters, Values, EntriesApart, CopiesAgree,
                    RestUntouched, EntryBytes, TopBytes, fat_get_next_cluster, ByteAt, At, EntryOffset
    <2> QED
        BY <2>2
<1> QED
    BY <1>3, <1>4, <1>5 DEF Next

LEMMA Invariance == Spec => []TableInv
<1>1. Init => TableInv
    BY InitInv
<1>2. TableInv /\ [Next]_vars => TableInv'
    BY NextInv
<1> QED
    BY <1>1, <1>2, PTL DEF Spec

\* Type correctness: every byte written to the FATs is a byte and every handle
\* the one of its boot sector (fat_vol_init).
THEOREM TableTypeCorrect == Spec => []TableTypeOK
<1>1. TableInv => TableTypeOK
    <2> SUFFICES ASSUME TableInv PROVE TableTypeOK
        OBVIOUS
    <2>1. Layout /\ disk \in DiskType /\ link \in [Clusters -> Values]
        BY DEF TableInv
    <2>2. vol.bytes_per_sector = bpb.bytes_per_sector
        BY <2>1, LayoutFields
    <2> QED
        BY <2>1, <2>2 DEF TableTypeOK, Layout, DiskType, Values
<1> QED
    BY <1>1, Invariance, PTL

\* Whatever is set next to it, an entry reads as it was last set, for every
\* FAT type (fat12_set_next_cluster, fat_get_next_cluster).
THEOREM EntriesReadBack == Spec => []EntriesApart
<1>1. TableInv => EntriesApart
    BY DEF TableInv
<1> QED
    BY <1>1, Invariance, PTL

\* All copies of the FAT are alike after each call of fat_set_next_cluster.
THEOREM AllCopiesAgree == Spec => []CopiesAgree
<1>1. TableInv => CopiesAgree
    BY DEF TableInv
<1> QED
    BY <1>1, Invariance, PTL

\* Setting entries writes no byte outside of them, and of FAT32 entries no top
\* nybble.
THEOREM NothingElseWritten == Spec => []RestUntouched
<1>1. TableInv => RestUntouched
    BY DEF TableInv
<1> QED
    BY <1>1, Invariance, PTL

LEMMA ClustersEnd ==
    ASSUME NEW n \in Nat, NEW s \in Nat, NEW d \in Int, NEW r \in Int, NEW t \in Int,
           t - r - n * s \in 0 .. s - 1, d = r
    PROVE  /\ ((n + 1) - 2) * s + d + s <= t
           /\ t < (((n + 1) - 2) * s + d + s) + s
<1>1. ((n + 1) - 2) * s = n * s - s /\ n * s \in Nat
    OBVIOUS
<1> QED
    BY <1>1

\* The clusters that bpb.h computes fill the volume from the root directory to
\* its end, and each has its entry inside the FAT; the handle has the place of
\* the root directory if it fits in 16 bits.
THEOREM ClustersCoverVolume == Spec => []VolumeCovered
<1>1. TableInv => VolumeCovered
    <2> SUFFICES ASSUME TableInv PROVE VolumeCovered
        OBVIOUS
    <2>1. Layout /\ bpb \in Boots /\ vol \in VolType /\ Shape
        BY LayoutShapes DEF TableInv, Layout
    <2> DEFINE n == vol.cluster_count
    <2> DEFINE s == vol.sectors_per_cluster
    <2> DEFINE d == vol.first_data_sector
    <2> DEFINE t == TotalSectors(bpb)
    <2> DEFINE root == bpb_root_dir_sectors(bpb)
    <2> DEFINE width == vol.bytes_per_sector
    <2> DEFINE listed == bpb.root_entry_count * DirentLen
    <2>2. /\ n = bpb_cluster_count(bpb) /\ s = bpb.sectors_per_cluster
          /\ d = bpb_first_data_sector(bpb) /\ width = bpb.bytes_per_sector
          /\ vol.root_first_sector = (d - root) % Short
          /\ vol.reserved_sector_count = bpb.reserved_sector_count
          /\ vol.num_fats = bpb.num_fats /\ vol.fat_size = bpb_fat_size(bpb)
        BY <2>1, LayoutFields
    <2>3. /\ bpb.num_fats \in Nat /\ bpb.reserved_sector_count \in Nat /\ bpb.root_entry_count \in Nat
          /\ t \in Nat /\ bpb_fat_size(bpb) \in Nat /\ root \in Nat /\ d \in Nat
          /\ n \in Nat \ {0} /\ s \in Nat \ {0} /\ width \in Nat \ {0} /\ DirentLen \in Nat
        BY <2>1, <2>2, Geometry, TableAssumption
    <2>4. Fits(bpb, root, n)
        BY <2>1, <2>2, Geometry
    <2>5. bpb.num_fats * bpb_fat_size(bpb) \in Nat
        BY <2>3
    <2>6. d = bpb.reserved_sector_count + bpb.num_fats * bpb_fat_size(bpb) + root
        BY <2>2 DEF bpb_first_data_sector
    <2>7. t - d - n * s \in 0 .. s - 1
        <3>1. t - bpb.reserved_sector_count - bpb.num_fats * bpb_fat_size(bpb) - root - n * s
                  \in 0 .. s - 1
            BY <2>2, <2>4 DEF Fits
        <3>2. t - bpb.reserved_sector_count - bpb.num_fats * bpb_fat_size(bpb) - root = t - d
            BY <2>3, <2>5, <2>6
        <3> QED
            BY <3>1, <3>2
    <2>8. root * width - listed \in 0 .. width - 1
        BY <2>2, <2>4 DEF Fits
    <2>9. listed \in Nat /\ root * width \in Nat
        BY <2>3
    <2>10. fat_first_sector_of_cluster(n + 1) = ((n + 1) - 2) * s + d
        BY DEF fat_first_sector_of_cluster
    <2>11. fat_first_sector_of_cluster(2) = d
        BY <2>3 DEF fat_first_sector_of_cluster
    <2> DEFINE start == vol.reserved_sector_count + vol.num_fats * vol.fat_size
    <2>12. start = d - root /\ start \in Nat
        BY <2>2, <2>3, <2>5, <2>6
    <2> HIDE DEF n, s, d, t, root, width, listed, start
    <2>13. /\ fat_first_sector_of_cluster(n + 1) + s <= t
           /\ t < (fat_first_sector_of_cluster(n + 1) + s) + s
        BY <2>3, <2>7, <2>10, ClustersEnd
    <2>14. (fat_first_sector_of_cluster(2) - start) * width >= listed
        <3>1. fat_first_sector_of_cluster(2) - start = root
            BY <2>3, <2>11, <2>12
        <3> QED
            BY <2>8, <2>9, <2>3, <3>1
    <2>15. ASSUME NEW c \in Clusters
           PROVE  At(0, c, IF vol.type = 32 THEN 3 ELSE 1)[1]
                      < vol.reserved_sector_count + vol.fat_size
        <3> DEFINE i == IF vol.type = 32 THEN 3 ELSE 1
        <3> DEFINE q == (EntryOffset(c) + i) \div vol.bytes_per_sector
        <3>1. i \in EntryIndex /\ 0 \in Copies /\ vol.reserved_sector_count \in Nat /\ vol.fat_size \in Nat
            BY <2>1 DEF EntryIndex, Copies, VolType
        <3>2. At(0, c, i)[1] = Sector(0, EntryOffset(c) + i) /\ EntryOffset(c) + i \in Places
            BY <2>1, <3>1, EntryPlaceIs
        <3>3. q \in 0 .. vol.fat_size - 1
            BY <2>1, <3>1, <3>2, PlaceIs
        <3>4. Sector(0, EntryOffset(c) + i) = vol.reserved_sector_count + 0 * vol.fat_size + q
            BY DEF Sector
        <3> HIDE DEF q
        <3>5. Sector(0, EntryOffset(c) + i) < vol.reserved_sector_count + vol.fat_size
            BY <3>1, <3>3, <3>4
        <3> QED
            BY <3>2, <3>5
    <2>16. start < Short => vol.root_first_sector = start
        BY <2>2, <2>12 DEF Short
    <2> QED
        BY <2>13, <2>14, <2>15, <2>16 DEF VolumeCovered, n, s, t, width, listed, start
<1> QED
    BY <1>1, Invariance, PTL

\* When fat_find_free_cluster finds nothing, no cluster is free but perhaps the
\* last two, which its bounds leave out.
THEOREM SearchMissesTwo == Spec => []OnlyTwoWasted
<1>1. TableInv => OnlyTwoWasted
    <2> SUFFICES ASSUME TableInv, NEW c \in Clusters, link[c] = 0, ~(c >= vol.cluster_count)
                 PROVE  \E d \in Clusters : fat_find_free_cluster(d)
        BY DEF OnlyTwoWasted
    <2>1. vol.cluster_count \in Nat /\ vol.last_cluster_alloc \in Clusters
        BY DEF TableInv, Layout, VolType
    <2>2. vol.last_cluster_alloc \in Nat /\ c \in 2 .. vol.cluster_count - 1
        BY <2>1 DEF Clusters
    <2>3. IsFree(c)
        BY <2>2 DEF IsFree, TableInv, EntriesApart
    <2>4. \A d : IsFree(d) => d \in Clusters /\ d \in Nat /\ d >= 2 /\ d <= vol.cluster_count - 1
        BY <2>1 DEF IsFree, Clusters
    <2> DEFINE T == {d \in Nat : IsFree(d)}
    <2> DEFINE U == {d \in Nat : IsFree(d) /\ d >= vol.last_cluster_alloc}
    <2>5. CASE U # {}
        <3>1. PICK d \in U : \A e \in U : d <= e
            BY <2>5, LeastOfNat
        <3>2. \A e \in vol.last_cluster_alloc .. d - 1 : ~IsFree(e)
            <4> SUFFICES ASSUME NEW e \in vol.last_cluster_alloc .. d - 1, IsFree(e) PROVE FALSE
                OBVIOUS
            <4>1. e \in U /\ ~(d <= e)
                BY <2>2, <2>4, <3>1
            <4> QED
                BY <3>1, <4>1
        <3>3. fat_find_free_cluster(d)
            BY <3>1, <3>2 DEF fat_find_free_cluster
        <3> QED
            BY <2>4, <3>1, <3>3
    <2>6. CASE U = {}
        <3>1. c \in T
            BY <2>2, <2>3
        <3>2. PICK d \in T : \A e \in T : d <= e
            BY <3>1, LeastOfNat
        <3>3. IsFree(d) /\ d \in Nat /\ d < vol.last_cluster_alloc
            BY <2>2, <2>6, <3>2
        <3>4. \A e \in 2 .. d - 1 : ~IsFree(e)
            <4> SUFFICES ASSUME NEW e \in 2 .. d - 1, IsFree(e) PROVE FALSE
                OBVIOUS
            <4>1. e \in T /\ ~(d <= e)
                BY <2>4, <3>3
            <4> QED
                BY <3>2, <4>1
        <3>5. \A e \in vol.last_cluster_alloc .. vol.cluster_count - 1 : ~IsFree(e)
            <4> SUFFICES ASSUME NEW e \in vol.last_cluster_alloc .. vol.cluster_count - 1, IsFree(e)
                         PROVE  FALSE
                OBVIOUS
            <4>1. e \in U
                BY <2>2, <2>4
            <4> QED
                BY <2>6, <4>1
        <3>6. fat_find_free_cluster(d)
            BY <3>3, <3>4, <3>5 DEF fat_find_free_cluster
        <3> QED
            BY <2>4, <3>3, <3>6
    <2> QED
        BY <2>5, <2>6
<1> QED
    BY <1>1, Invariance, PTL

=============================================================================
