-------------------------- MODULE FatPromiseProofs --------------------------
(***************************************************************************)
(* FatVolume keeps the promise of FatFiles, and its directory holds the    *)
(* entries of its files and no other, for every geometry with an aligned   *)
(* data area and a caller that heeds the free space.                       *)
(***************************************************************************)
EXTENDS FatVolumeProofs

-----------------------------------------------------------------------------
(* The units of the volume                                                 *)

FirstUnit(c) == fat_first_sector_of_cluster(c) * BPS

LEMMA UnitsOfCluster ==
    ASSUME NEW c \in Clusters
    PROVE  /\ FirstUnit(c) \in Nat
           /\ \A i \in 0 .. PerCluster - 1 : FirstUnit(c) + i \in ClusterUnits(c)
           /\ ClusterUnits(c) \subseteq Units
           /\ \A u \in Units : u \in Nat
<1> DEFINE F(d) == ((d - 2) * SPC + first_data_sector) * BPS
<1>1. /\ c \in Nat /\ 2 <= c /\ c + 1 <= Eoc /\ Eoc \in Nat
      /\ SPC \in Nat /\ BPS \in Nat /\ first_data_sector \in Nat
    BY VolumeAssumption DEF Clusters, Eoc
<1>2. \A d \in Nat : d >= 2 => /\ F(d) \in Nat /\ F(d + 1) = F(d) + PerCluster
                               /\ F(d) = (d - 2) * PerCluster + first_data_sector * BPS
    <2> SUFFICES ASSUME NEW d \in Nat, d >= 2
                 PROVE  /\ F(d) \in Nat /\ F(d + 1) = F(d) + PerCluster
                        /\ F(d) = (d - 2) * PerCluster + first_data_sector * BPS
        OBVIOUS
    <2>1. (d - 2) * SPC \in Nat /\ (d + 1 - 2) * SPC = (d - 2) * SPC + SPC
        BY <1>1
    <2>2. F(d) = (d - 2) * SPC * BPS + first_data_sector * BPS
        BY <1>1, <2>1
    <2>3. F(d + 1) = F(d) + SPC * BPS
        BY <1>1, <2>1
    <2> QED
        BY <1>1, <2>1, <2>2, <2>3 DEF PerCluster
<1>3. F(c + 1) = F(c) + PerCluster /\ F(c) \in Nat /\ F(Eoc) \in Nat
    BY <1>1, <1>2
<1>4. F(c) >= first_data_sector * BPS /\ F(c + 1) <= F(Eoc)
    <2>1. (c - 2) * PerCluster >= 0 /\ ((c + 1) - 2) * PerCluster <= (Eoc - 2) * PerCluster
        BY <1>1, PerClusterIs
    <2>2. /\ F(c) = (c - 2) * PerCluster + first_data_sector * BPS
          /\ F(c + 1) = ((c + 1) - 2) * PerCluster + first_data_sector * BPS
          /\ F(Eoc) = (Eoc - 2) * PerCluster + first_data_sector * BPS
        BY <1>1, <1>2
    <2>3. /\ first_data_sector * BPS \in Nat /\ (c - 2) * PerCluster \in Int
          /\ ((c + 1) - 2) * PerCluster \in Int /\ (Eoc - 2) * PerCluster \in Int
        BY <1>1, PerClusterIs
    <2> HIDE DEF F
    <2> QED
        BY <2>1, <2>2, <2>3
<1>5. /\ FirstUnit(c) = F(c) /\ ClusterUnits(c) = F(c) .. F(c + 1) - 1
      /\ Units = first_data_sector * BPS .. F(Eoc) - 1
    <2>1. ClusterUnits(c) = F(c) + 0 .. (F(c + 1) + 0) - 1
        BY DEF ClusterUnits, Unit, fat_first_sector_of_cluster
    <2>2. Units = (first_data_sector * BPS) + 0 .. (F(Eoc) + 0) - 1
        BY DEF Units, Unit, fat_first_sector_of_cluster
    <2>3. F(c + 1) \in Int /\ first_data_sector * BPS \in Int
        BY <1>1, <1>3, PerClusterIs
    <2> HIDE DEF F
    <2> QED
        BY <1>3, <2>1, <2>2, <2>3 DEF FirstUnit, fat_first_sector_of_cluster, F
<1>6. first_data_sector * BPS \in Nat
    BY <1>1
<1> HIDE DEF F
<1> QED
    BY <1>3, <1>4, <1>5, <1>6, PerClusterIs

LEMMA ClustersApart ==
    ASSUME NEW c \in Clusters, NEW d \in Clusters, NEW u, u \in ClusterUnits(c), u \in ClusterUnits(d)
    PROVE  c = d
<1> DEFINE F(e) == ((e - 2) * SPC + first_data_sector) * BPS
<1>1. /\ c \in Nat /\ d \in Nat /\ SPC \in Nat /\ BPS \in Nat /\ first_data_sector \in Nat
    BY ClustersAre, VolumeAssumption
<1>2. \A a, b \in Nat : a < b => F(a + 1) <= F(b)
    <2> SUFFICES ASSUME NEW a \in Nat, NEW b \in Nat, a < b PROVE F(a + 1) <= F(b)
        OBVIOUS
    <2>1. ((a + 1) - 2) * SPC <= (b - 2) * SPC /\ ((a + 1) - 2) * SPC \in Int /\ (b - 2) * SPC \in Int
        BY <1>1
    <2> QED
        BY <1>1, <2>1
<1>3. \A e \in Nat : F(e) \in Int
    BY <1>1
<1>4. u \in F(c) .. F(c + 1) - 1 /\ u \in F(d) .. F(d + 1) - 1
    <2>1. \A e : ClusterUnits(e) = F(e) + 0 .. (F(e + 1) + 0) - 1
        BY DEF ClusterUnits, Unit, fat_first_sector_of_cluster
    <2> HIDE DEF F
    <2> QED
        BY <1>1, <1>3, <2>1
<1> HIDE DEF F
<1>5. ~(c < d) /\ ~(d < c)
    BY <1>1, <1>2, <1>3, <1>4
<1> QED
    BY <1>1, <1>5

-----------------------------------------------------------------------------
(* Places                                                                  *)

ClusterOf(o, p) == chain[o][(p \div PerCluster) + 1]

LEMMA PlaceOf ==
    ASSUME Types, NEW o \in Owners, NEW p \in Nat
    PROVE  /\ Placed(o, p) <=> p \div PerCluster < Len(chain[o])
           /\ p < PerCluster * Len(chain[o]) => Placed(o, p)
           /\ Placed(o, p) =>
                 /\ ClusterOf(o, p) \in Clusters /\ ClusterOf(o, p) \in In(o)
                 /\ (p \div PerCluster) + 1 \in 1 .. Len(chain[o])
                 /\ Place(o, p) = FirstUnit(ClusterOf(o, p)) + (p % PerCluster)
                 /\ Place(o, p) \in ClusterUnits(ClusterOf(o, p)) /\ Place(o, p) \in Units
                 /\ Place(o, p) \in Nat /\ disk[Place(o, p)] \in UnitValues
<1>1. chain[o] \in Seq(Clusters) /\ Len(chain[o]) \in Nat /\ PerCluster \in Nat \ {0}
    BY PerClusterIs DEF Types
<1>2. /\ p \div PerCluster \in Nat /\ p % PerCluster \in 0 .. PerCluster - 1
      /\ p < PerCluster * Len(chain[o]) => p \div PerCluster < Len(chain[o])
    BY <1>1, DivisionIs
<1>3. Placed(o, p) <=> p \div PerCluster < Len(chain[o])
    BY DEF Placed, PerCluster
<1>4. ASSUME Placed(o, p)
      PROVE  /\ ClusterOf(o, p) \in Clusters /\ ClusterOf(o, p) \in In(o)
             /\ (p \div PerCluster) + 1 \in 1 .. Len(chain[o])
             /\ Place(o, p) = FirstUnit(ClusterOf(o, p)) + (p % PerCluster)
             /\ Place(o, p) \in ClusterUnits(ClusterOf(o, p)) /\ Place(o, p) \in Units
             /\ Place(o, p) \in Nat /\ disk[Place(o, p)] \in UnitValues
    <2>1. (p \div PerCluster) + 1 \in 1 .. Len(chain[o])
        BY <1>1, <1>2, <1>3, <1>4
    <2>2. ClusterOf(o, p) \in Clusters /\ ClusterOf(o, p) \in In(o)
        BY <1>1, <2>1 DEF ClusterOf, In
    <2>3. Place(o, p) = (FirstUnit(ClusterOf(o, p)) + 0) + (p % PerCluster)
        BY DEF Place, Unit, FirstUnit, ClusterOf, PerCluster
    <2>4. Place(o, p) = FirstUnit(ClusterOf(o, p)) + (p % PerCluster)
        BY <1>2, <2>2, <2>3, UnitsOfCluster
    <2>5. Place(o, p) \in ClusterUnits(ClusterOf(o, p)) /\ Place(o, p) \in Units /\ Place(o, p) \in Nat
        BY <1>2, <2>2, <2>4, UnitsOfCluster
    <2> QED
        BY <2>1, <2>2, <2>4, <2>5 DEF Types
<1> QED
    BY <1>2, <1>3, <1>4

\* No two positions share a unit.
LEMMA PlacesApart ==
    ASSUME Types, ChainsDisjoint, NEW o \in Owners, NEW q \in Owners, NEW p \in Nat, NEW r \in Nat,
           Placed(o, p), Placed(q, r), Place(o, p) = Place(q, r)
    PROVE  o = q /\ p = r
<1>1. ClusterOf(o, p) = ClusterOf(q, r)
    BY PlaceOf, ClustersApart
<1>2. /\ (p \div PerCluster) + 1 \in 1 .. Len(chain[o])
      /\ (r \div PerCluster) + 1 \in 1 .. Len(chain[q])
    BY PlaceOf
<1>3. o = q /\ (p \div PerCluster) + 1 = (r \div PerCluster) + 1
    BY <1>1, <1>2 DEF ChainsDisjoint, ClusterOf
<1>4. /\ p \div PerCluster \in Nat /\ p % PerCluster \in 0 .. PerCluster - 1
      /\ r \div PerCluster \in Nat /\ r % PerCluster \in 0 .. PerCluster - 1
      /\ p = PerCluster * (p \div PerCluster) + (p % PerCluster)
      /\ r = PerCluster * (r \div PerCluster) + (r % PerCluster)
    BY PerClusterIs, DivisionIs
<1>5. p \div PerCluster = r \div PerCluster
    BY <1>3, <1>4
<1>6. p % PerCluster = r % PerCluster
    <2>1. FirstUnit(ClusterOf(o, p)) \in Nat
        BY PlaceOf, UnitsOfCluster
    <2> QED
        BY <1>1, <1>4, <2>1, PlaceOf
<1> QED
    BY <1>3, <1>4, <1>5, <1>6

\* The units of a piece are the places of its positions.
LEMMA PieceAt ==
    ASSUME Aligned, VolumeInv, Positions, op.pc \in {"write", "read"}, op.n > 0,
           NEW i \in 0 .. Piece - 1
    PROVE  /\ Placed(op.h, h.pos + i)
           /\ Place(op.h, h.pos + i) = Unit(op.sector, op.offset) + i
<1>1. /\ h \in Handles(Owners) /\ h.pos \in Nat /\ h.cur \in Clusters /\ op.h \in Owners
      /\ chain[op.h] \in Seq(Clusters) /\ At(chain[op.h], h.pos, h.cur)
      /\ op.sector = SectorOf(h) /\ op.offset = OffsetOf(h)
      /\ Piece \in 1 .. BPS - (h.pos % BPS)
    BY PieceIs
<1>2. Types
    BY DEF VolumeInv
<1>3. Placed(op.h, h.pos) /\ Unit(op.sector, op.offset) = Place(op.h, h.pos)
    BY <1>1, <1>2, PlaceIs
<1>4. SPC \in Nat \ {0} /\ BPS \in Nat \ {0} /\ i \in Nat /\ h.pos + i \in Nat
    BY <1>1, VolumeAssumption
<1>5. /\ (h.pos + i) \div PerCluster = h.pos \div PerCluster
      /\ (h.pos + i) % PerCluster = (h.pos % PerCluster) + i
    BY <1>1, <1>4, PieceWithin DEF PerCluster
<1>6. Placed(op.h, h.pos + i) /\ ClusterOf(op.h, h.pos + i) = ClusterOf(op.h, h.pos)
    BY <1>1, <1>2, <1>3, <1>4, <1>5, PlaceOf DEF ClusterOf
<1>7. /\ Place(op.h, h.pos) = FirstUnit(ClusterOf(op.h, h.pos)) + (h.pos % PerCluster)
      /\ Place(op.h, h.pos + i) = FirstUnit(ClusterOf(op.h, h.pos)) + ((h.pos % PerCluster) + i)
    <2>1. Place(op.h, h.pos) = FirstUnit(ClusterOf(op.h, h.pos)) + (h.pos % PerCluster)
        BY <1>1, <1>2, <1>3, PlaceOf
    <2>2. Place(op.h, h.pos + i) = FirstUnit(ClusterOf(op.h, h.pos + i)) + ((h.pos + i) % PerCluster)
        BY <1>1, <1>2, <1>4, <1>6, PlaceOf
    <2> QED
        BY <1>5, <1>6, <2>1, <2>2
<1>8. FirstUnit(ClusterOf(op.h, h.pos)) \in Nat /\ h.pos % PerCluster \in Nat
    <2>1. ClusterOf(op.h, h.pos) \in Clusters
        BY <1>1, <1>2, <1>3, PlaceOf
    <2>2. h.pos % PerCluster \in 0 .. PerCluster - 1
        BY <1>1, DivisionIs, PerClusterIs
    <2> QED
        BY <2>1, <2>2, UnitsOfCluster
<1> QED
    BY <1>3, <1>4, <1>6, <1>7, <1>8

-----------------------------------------------------------------------------
(* What a step does to the disk                                            *)

\* o keeps the clusters it has.
Grows(o) ==
    /\ Len(chain'[o]) \in Nat /\ Len(chain[o]) <= Len(chain'[o])
    /\ \A i \in 1 .. Len(chain[o]) : chain'[o][i] = chain[o][i]

LEMMA PlacesStay ==
    ASSUME Types, NEW o \in Owners, Grows(o), NEW p \in Nat, Placed(o, p)
    PROVE  Placed(o, p)' /\ Place(o, p)' = Place(o, p)
<1>1. (p \div PerCluster) + 1 \in 1 .. Len(chain[o]) /\ p \div PerCluster < Len(chain[o])
    BY PlaceOf
<1>2. p \div PerCluster \in Nat
    BY PerClusterIs, DivisionIs
<1>3. chain[o] \in Seq(Clusters)
    BY DEF Types
<1>4. Len(chain[o]) \in Nat /\ Len(chain'[o]) \in Nat /\ Len(chain[o]) <= Len(chain'[o])
    BY <1>3 DEF Grows
<1>5. p \div PerCluster < Len(chain'[o])
    BY <1>1, <1>2, <1>4
<1>6. chain'[o][(p \div PerCluster) + 1] = chain[o][(p \div PerCluster) + 1]
    BY <1>1 DEF Grows
<1> QED
    BY <1>5, <1>6 DEF Placed, Place, PerCluster

LEMMA SameGrows ==
    ASSUME Types, NEW o \in Owners, chain'[o] = chain[o]
    PROVE  Grows(o)
<1>1. chain[o] \in Seq(Clusters)
    BY DEF Types
<1> QED
    BY <1>1 DEF Grows

\* Only fat_unlink takes clusters away, and only from the file it removes.
LEMMA ChainsGrow ==
    ASSUME VolumeInv, [Next]_vars
    PROVE  /\ \A o \in Owners : op.pc # "unlink" \/ o # op.name => Grows(o)
           /\ Grows(Dir)
<1>1. Types /\ Whose /\ Held /\ Inside /\ Dir \in Owners /\ op \in Ops
    BY DEF VolumeInv, Types, Owners
<1>2. CASE UNCHANGED chain
    BY <1>1, <1>2, SameGrows
<1>3. CASE fat_chain_unlink
    <2>1. op.pc = "unlink" /\ op.name \in Files
        BY <1>1, <1>3 DEF fat_chain_unlink, Whose
    <2>2. \A o \in Owners \ {op.name} : chain'[o] = chain[o]
        BY <1>1, <1>3 DEF fat_chain_unlink, Types
    <2> QED
        BY <1>1, <2>1, <2>2, SameGrows, ClustersAre
<1>4. ASSUME NEW n \in Nat \ {0}, NEW v \in Values, fat_write(n, v), ~UNCHANGED chain
      PROVE  \A o \in Owners : Grows(o)
    <2>1. file.cur = 0 /\ file.of # NoFile /\ \E c \in Clusters : StartChain(file.of, c)
        BY <1>4 DEF fat_write
    <2> PICK c \in Clusters : StartChain(file.of, c)
        BY <2>1
    <2>2. file.of \in Owners /\ chain[file.of] = <<>>
        BY <1>1, <2>1, InTypes, ClustersAre DEF Inside, Types, Handles, Owners
    <2> PICK f \in Owners : f = file.of
        BY <2>2
    <2>3. chain'[f] = <<c>> /\ \A o \in Owners \ {f} : chain'[o] = chain[o]
        BY <1>1, <2>2, StartHolds
    <2>4. Grows(f)
        BY <2>2, <2>3 DEF Grows
    <2> QED
        BY <1>1, <2>3, <2>4, SameGrows
<1>5. CASE WriteToNew
    <2>1. PICK c \in Clusters : op.pc = "write" /\ op.n > 0 /\ fat[h.cur] = Eoc /\ ExtendChain(op.h, h.cur, c)
        BY <1>5 DEF WriteToNew, NextCluster
    <2> PICK q \in Owners : q = op.h
        BY <1>1, <2>1, HandleOfCall
    <2>2. h.cur \in In(q)
        BY <2>1, PieceShapes
    <2>3. chain'[q] = Append(chain[q], c) /\ \A o \in Owners \ {q} : chain'[o] = chain[o]
        BY <1>1, <2>1, <2>2, ExtendHolds
    <2>4. chain[q] \in Seq(Clusters)
        BY <1>1 DEF Types
    <2>5. /\ Len(chain[q]) \in Nat /\ Len(chain'[q]) = Len(chain[q]) + 1
          /\ \A i \in 1 .. Len(chain[q]) : chain'[q][i] = chain[q][i]
        BY <2>3, <2>4
    <2>6. Grows(q)
        BY <2>5 DEF Grows
    <2> QED
        BY <1>1, <2>3, <2>6, SameGrows
<1>6. \/ UNCHANGED chain \/ fat_chain_unlink \/ WriteToNew
      \/ \E n \in Nat \ {0}, v \in Values : fat_write(n, v)
    BY DEF Next, vars, fat_open, fat_create, fat_unlink, WriteLongName, WriteShortName, CreateReturns,
           UnlinkReturns, fat_lseek, SeekCluster, LseekReturns, WriteInCluster, WriteToNext,
           WriteClipped, WriteReturns, fat_read, ReadPiece, ReadReturns
<1> QED
    BY <1>1, <1>2, <1>3, <1>4, <1>5, <1>6

\* A piece changes the places of its positions and no other.
LEMMA PieceWrites ==
    ASSUME Aligned, VolumeInv, Positions, op.pc = "write", op.n > 0,
           NEW cleared, Transfer(cleared),
           \A o \in Owners, p \in Nat : Placed(o, p) => Place(o, p) \notin cleared,
           NEW o \in Owners, Grows(o), NEW p \in Nat, Placed(o, p)
    PROVE  /\ Placed(o, p)'
           /\ disk'[Place(o, p)'] = IF o = op.h /\ p \in h.pos .. h.pos + Piece - 1
                                    THEN op.val ELSE disk[Place(o, p)]
<1>1. Types /\ ChainsDisjoint
    BY DEF VolumeInv, Held
<1>2. op.h \in Owners /\ h.pos \in Nat /\ Piece \in Nat /\ Piece > 0
    BY PieceIs, VolumeAssumption
<1>3. Placed(o, p)' /\ Place(o, p)' = Place(o, p)
    BY <1>1, PlacesStay
<1> DEFINE u == Place(o, p)
<1> DEFINE w == Unit(op.sector, op.offset)
<1>4. u \in Units /\ u \in Nat /\ u \notin cleared
    BY <1>1, PlaceOf
<1>5. disk'[u] = IF u - w \in 0 .. Piece - 1 THEN op.val ELSE disk[u]
    BY <1>4 DEF Transfer
<1>6. w \in Nat
    <2>1. 0 \in 0 .. Piece - 1 /\ h.pos + 0 = h.pos
        BY <1>2
    <2>2. Placed(op.h, h.pos) /\ Place(op.h, h.pos) = w + 0
        BY <2>1, PieceAt
    <2>3. op.sector \in Int /\ op.offset \in Int /\ BPS \in Nat
        BY <1>1, VolumeAssumption DEF Types, Ops
    <2>4. op.sector * BPS \in Int
        BY <2>3
    <2>5. w \in Int
        BY <2>3, <2>4 DEF Unit
    <2>6. Place(op.h, h.pos) \in Nat
        BY <1>1, <1>2, <2>2, PlaceOf
    <2> QED
        BY <2>2, <2>5, <2>6
<1>7. ASSUME o = op.h, p \in h.pos .. h.pos + Piece - 1
      PROVE  u - w \in 0 .. Piece - 1
    <2>1. PICK i \in 0 .. Piece - 1 : p = h.pos + i
        <3>1. p - h.pos \in 0 .. Piece - 1 /\ p = h.pos + (p - h.pos)
            BY <1>2, <1>7
        <3> QED
            BY <3>1
    <2>2. Place(op.h, h.pos + i) = w + i
        BY PieceAt
    <2> HIDE DEF u, w
    <2>3. u = w + i
        BY <1>7, <2>1, <2>2 DEF u
    <2> QED
        BY <1>2, <1>4, <1>6, <2>3
<1>8. ASSUME u - w \in 0 .. Piece - 1
      PROVE  o = op.h /\ p \in h.pos .. h.pos + Piece - 1
    <2>1. PICK i \in 0 .. Piece - 1 : i = u - w
        BY <1>8
    <2>2. Placed(op.h, h.pos + i) /\ Place(op.h, h.pos + i) = w + i
        BY PieceAt
    <2>3. w + i = u
        <3> HIDE DEF u, w
        <3> QED
            BY <1>2, <1>4, <1>6, <2>1
    <2>4. h.pos + i \in Nat
        BY <1>2
    <2>5. o = op.h /\ p = h.pos + i
        BY <1>1, <1>2, <2>2, <2>3, <2>4, PlacesApart
    <2> QED
        BY <1>2, <2>5
<1> HIDE DEF u, w
<1>9. disk'[Place(o, p)'] = disk'[u]
    BY <1>3 DEF u
<1> QED
    BY <1>3, <1>5, <1>7, <1>8, <1>9 DEF u

\* What a piece does to the call and to the handles.
LEMMA PieceLeaves ==
    ASSUME VolumeInv, op.pc \in {"write", "read"}, op.n > 0,
           \/ PieceInCluster
           \/ \E c \in Links : PieceToCluster(c) \/ PieceThenBreak(c)
    PROVE  /\ op'.pc = op.pc /\ op'.h = op.h /\ op'.name = op.name /\ op'.at = op.at /\ op'.val = op.val
           /\ op'.n \in 0 .. op.n - Piece
           /\ op.h = Dir => UNCHANGED file /\ cwd'.pos = cwd.pos + Piece /\ cwd'.size = cwd.size
           /\ op.h # Dir => /\ UNCHANGED cwd /\ file'.of = file.of /\ file'.size = file.size
                            /\ file'.pos = file.pos + Piece
<1>1. op'.at = op.at /\ op'.val = op.val
    <2>1. op \in Ops
        BY DEF VolumeInv, Types
    <2> QED
        BY <2>1 DEF Ops, PieceInCluster, PieceToCluster, PieceThenBreak
<1>2. op'.pc = op.pc /\ op'.h = op.h /\ op'.name = op.name /\ op'.n \in 0 .. op.n - Piece
    BY PieceShapes
<1>3. PICK x \in Handles(Owners) :
          SetHandle(x) /\ x.of = h.of /\ x.size = h.size /\ x.pos = h.pos + Piece
    <2>1. CASE PieceInCluster
        BY <2>1, PieceShapes DEF PieceInCluster
    <2>2. ASSUME NEW c \in Links, PieceToCluster(c) \/ PieceThenBreak(c)
          PROVE  \E x \in Handles(Owners) :
                     SetHandle(x) /\ x.of = h.of /\ x.size = h.size /\ x.pos = h.pos + Piece
        <3> DEFINE x == [Moved EXCEPT !.cur = c]
        <3>1. /\ x \in Handles(Owners) /\ x.of = h.of /\ x.size = h.size /\ x.pos = h.pos + Piece
            BY PieceShapes
        <3>2. SetHandle(x)
            BY <2>2 DEF PieceToCluster, PieceThenBreak
        <3> HIDE DEF x
        <3> QED
            BY <3>1, <3>2
    <2> QED
        BY <2>1, <2>2
<1>4. (op.h = Dir => h = cwd) /\ (op.h # Dir => h = file)
    BY DEF h
<1> QED
    BY <1>1, <1>2, <1>3, <1>4 DEF SetHandle

\* The four ways to write a piece, in one.
LEMMA WriteLeaves ==
    ASSUME VolumeInv, WriteInCluster \/ WriteToNext \/ WriteToNew \/ WriteClipped
    PROVE  /\ op.pc = "write" /\ op.n > 0 /\ op'.pc = "write" /\ op'.h = op.h /\ op'.name = op.name
           /\ op'.at = op.at /\ op'.val = op.val /\ UNCHANGED entry /\ op'.n \in 0 .. op.n - Piece
           /\ op.h = Dir => UNCHANGED file /\ cwd'.pos = cwd.pos + Piece /\ cwd'.size = cwd.size
           /\ op.h # Dir => /\ UNCHANGED cwd /\ file'.of = file.of /\ file'.size = file.size
                            /\ file'.pos = file.pos + Piece
           /\ \E cleared : /\ Transfer(cleared)
                           /\ \A o \in Owners, p \in Nat : Placed(o, p) => Place(o, p) \notin cleared
<1>1. /\ op.pc = "write" /\ op.n > 0 /\ UNCHANGED entry /\ Types /\ Held
    BY DEF WriteInCluster, WriteToNext, WriteToNew, WriteClipped, VolumeInv
<1>2. h.cur \in Clusters /\ fat[h.cur] \in Links /\ Clusters \subseteq Links
    BY <1>1, PieceShapes DEF Types, Links
<1>3. PieceInCluster \/ \E c \in Links : PieceToCluster(c) \/ PieceThenBreak(c)
    <2>1. CASE WriteInCluster
        BY <2>1 DEF WriteInCluster
    <2>2. CASE WriteToNext
        BY <1>2, <2>2 DEF WriteToNext, NextCluster
    <2>3. CASE WriteToNew
        BY <1>2, <2>3 DEF WriteToNew
    <2>4. CASE WriteClipped
        BY <1>2, <2>4 DEF WriteClipped
    <2> QED
        BY <2>1, <2>2, <2>3, <2>4
<1>4. \E cleared : /\ Transfer(cleared)
                   /\ \A o \in Owners, p \in Nat : Placed(o, p) => Place(o, p) \notin cleared
    <2>1. CASE Transfer({})
        BY <2>1
    <2>2. ASSUME NEW c \in Clusters, ExtendChain(op.h, h.cur, c), Transfer(ClusterUnits(c)),
                 NEW o \in Owners, NEW p \in Nat, Placed(o, p)
          PROVE  Place(o, p) \notin ClusterUnits(c)
        <3>1. c \notin In(o)
            BY <1>1, <2>2, FreeIsNobodys DEF ExtendChain, fat_find_free_cluster
        <3>2. /\ ClusterOf(o, p) \in Clusters /\ ClusterOf(o, p) \in In(o)
              /\ Place(o, p) \in ClusterUnits(ClusterOf(o, p))
            BY <1>1, <2>2, PlaceOf
        <3> QED
            BY <3>1, <3>2, ClustersApart
    <2>3. CASE WriteToNew
        <3>1. PICK c \in Clusters : /\ ExtendChain(op.h, h.cur, c)
                                    /\ Transfer({}) \/ Transfer(ClusterUnits(c))
            BY <2>3 DEF WriteToNew
        <3> QED
            BY <2>1, <2>2, <3>1
    <2> QED
        BY <2>1, <2>3 DEF WriteInCluster, WriteToNext, WriteToNew, WriteClipped
<1> QED
    BY <1>1, <1>3, <1>4, PieceLeaves

-----------------------------------------------------------------------------
(* Names                                                                   *)

\* u is a unit of the directory.
InDir(u) == \E i \in Nat : Placed(Dir, i) /\ u = Place(Dir, i)

\* The entries of the files are in the directory, the open file has one, and
\* what is written to a file is data.
Named ==
    /\ op.pc = "write" /\ op.h = Dir => InDir(op.at)
    /\ op.pc = "write" /\ op.h # Dir => op.val \in Values
    /\ \A f \in Files : Exists(f) => InDir(entry[f].at)
    /\ file.of \in Files => Exists(file.of)

LEMMA InDirStays ==
    ASSUME VolumeInv, [Next]_vars, NEW u, InDir(u)
    PROVE  InDir(u)'
<1>1. PICK i \in Nat : Placed(Dir, i) /\ u = Place(Dir, i)
    BY DEF InDir
<1>2. Placed(Dir, i)' /\ Place(Dir, i)' = Place(Dir, i)
    BY <1>1, ChainsGrow, PlacesStay DEF VolumeInv, Owners
<1> QED
    BY <1>1, <1>2 DEF InDir

\* A unit of the directory is no unit of a file.
LEMMA InDirIs ==
    ASSUME VolumeInv, NEW u, InDir(u)
    PROVE  /\ u \in Nat /\ u \in Units
           /\ \A f \in Files, p \in Nat : Placed(f, p) => Place(f, p) # u
<1>1. PICK i \in Nat : Placed(Dir, i) /\ u = Place(Dir, i)
    BY DEF InDir
<1>2. Types /\ ChainsDisjoint /\ Dir \in Owners /\ Files \subseteq Owners
    BY DEF VolumeInv, Held, Owners
<1>3. u \in Nat /\ u \in Units
    BY <1>1, <1>2, PlaceOf
<1>4. ASSUME NEW f \in Files, NEW p \in Nat, Placed(f, p), Place(f, p) = u PROVE FALSE
    BY <1>1, <1>2, <1>4, PlacesApart, ClustersAre
<1> QED
    BY <1>3, <1>4

\* Before the loop of fat_write the handle of the directory is at its place.
LEMMA NameAt ==
    ASSUME VolumeInv, Positions, WriteLongName \/ WriteShortName, op' # Idle
    PROVE  /\ op'.pc = "write" /\ op'.h = Dir /\ op'.name = op.name /\ op'.n = 1
           /\ op'.val = IF op.pc = "seek" THEN LongName ELSE op.name
           /\ UNCHANGED <<cwd, file, entry, chain, disk, fat, clipped>>
           /\ Placed(Dir, cwd.pos) /\ op'.at = Place(Dir, cwd.pos) /\ cwd.pos \in Nat
<1>1. Types /\ Whose /\ Inside /\ op \in Ops /\ cwd \in Handles(Owners) /\ cwd.of = Dir /\ Dir \in Owners
    BY DEF VolumeInv, Types, Handles, Owners
<1>2. chain[Dir] \in Seq(Clusters) /\ cwd.pos \in Nat /\ op.n \in Nat
    BY <1>1 DEF Types, Handles, Ops
<1>3. CASE WriteLongName
    <2>1. /\ op.pc = "seek" /\ op.h = Dir /\ op.n < PerCluster /\ cwd.cur \in Clusters
          /\ Loop("write", cwd, 1, LongName) /\ UNCHANGED <<cwd, file, entry, chain, disk, fat, clipped>>
        BY <1>3 DEF WriteLongName, PerCluster
    <2>2. Seeks(chain[Dir], cwd.pos, op.n, cwd.cur)
        BY <2>1 DEF Positions, h
    <2>3. At(chain[Dir], cwd.pos, cwd.cur)
        BY <1>2, <2>1, <2>2, SeekEnd
    <2>4. Placed(Dir, cwd.pos) /\ Unit(SectorOf(cwd), OffsetOf(cwd)) = Place(Dir, cwd.pos)
        BY <1>1, <2>1, <2>3, PlaceIs
    <2>5. /\ op'.pc = "write" /\ op'.h = Dir /\ op'.name = op.name /\ op'.n = 1 /\ op'.val = LongName
          /\ op'.at = Unit(SectorOf(cwd), OffsetOf(cwd))
        BY <1>1, <2>1 DEF Loop, Ops
    <2> QED
        BY <1>2, <2>1, <2>4, <2>5
<1>4. CASE WriteShortName
    <2>1. /\ op.pc = "write" /\ op.h = Dir /\ op.val = LongName
          /\ Loop("write", cwd, 1, op.name) /\ UNCHANGED <<cwd, file, entry, chain, disk, fat, clipped>>
        BY <1>4 DEF WriteShortName
    <2>2. At(chain[Dir], cwd.pos, cwd.cur) /\ cwd.cur \in Clusters
        BY <1>1, <2>1, InTypes DEF Positions, Inside, h
    <2>3. Placed(Dir, cwd.pos) /\ Unit(SectorOf(cwd), OffsetOf(cwd)) = Place(Dir, cwd.pos)
        BY <1>1, <2>2, PlaceIs
    <2>4. /\ op'.pc = "write" /\ op'.h = Dir /\ op'.name = op.name /\ op'.n = 1 /\ op'.val = op.name
          /\ op'.at = Unit(SectorOf(cwd), OffsetOf(cwd))
        BY <1>1, <2>1 DEF Loop, Ops
    <2> QED
        BY <1>2, <2>1, <2>3, <2>4
<1> QED
    BY <1>3, <1>4

LEMMA InitNamed == Init => Named
<1> SUFFICES ASSUME Init PROVE Named
    OBVIOUS
<1>1. op.pc = "idle" /\ file.of = NoFile /\ \A f \in Files : ~Exists(f)
    BY DEF Init, Idle, Handle, Exists
<1> QED
    BY <1>1, ClustersAre DEF Named

LEMMA NamedStep ==
    ASSUME VolumeInv, Positions, Named, [Next]_vars
    PROVE  Named'
<1>1. /\ Types /\ Whose /\ op \in Ops /\ entry \in [Files -> Entries]
      /\ \A u : InDir(u) => InDir(u)'
    BY InDirStays DEF VolumeInv, Types
<1>2. ASSUME UNCHANGED entry, file'.of = file.of
      PROVE  /\ \A f \in Files : Exists(f)' => InDir(entry[f].at)'
             /\ file'.of \in Files => Exists(file.of)'
    BY <1>1, <1>2 DEF Named, Exists
<1>3. ASSUME op'.pc # "write", UNCHANGED entry, file'.of = file.of PROVE Named'
    BY <1>2, <1>3 DEF Named
<1>4. CASE UNCHANGED vars
    BY <1>1, <1>2, <1>4 DEF vars, Named
<1>5. ASSUME NEW f \in Files, fat_open(f) PROVE Named'
    <2>1. op'.pc = "idle" /\ UNCHANGED entry /\ file'.of = f /\ Exists(f)
        BY <1>5 DEF fat_open, Idle, Handle
    <2> QED
        BY <1>1, <2>1 DEF Named, Exists
<1>6. ASSUME NEW f \in Files, fat_create(f) \/ fat_unlink(f) PROVE Named'
    <2>1. op'.pc # "write" /\ UNCHANGED <<entry, file>>
        BY <1>6 DEF fat_create, fat_unlink, Idle
    <2> QED
        BY <1>3, <2>1
<1>7. CASE WriteLongName \/ WriteShortName
    <2>1. CASE op' = Idle
        <3>1. op'.pc # "write" /\ UNCHANGED <<entry, file>>
            BY <1>7, <2>1 DEF WriteLongName, WriteShortName, Idle
        <3> QED
            BY <1>3, <3>1
    <2>2. CASE op' # Idle
        <3>1. op'.h = Dir /\ UNCHANGED <<file, entry>> /\ InDir(op'.at)
            BY <1>7, <2>2, NameAt DEF InDir
        <3>2. InDir(op.at)'
            BY <1>1, <3>1
        <3> QED
            BY <1>2, <3>1, <3>2 DEF Named
    <2> QED
        BY <2>1, <2>2
<1>8. CASE CreateReturns
    <2>1. /\ op.pc = "write" /\ op.h = Dir /\ InDir(op.at) /\ op'.pc = "idle"
          /\ entry' = [entry EXCEPT ![op.name] = [first |-> 0, size |-> 0, at |-> op.at]]
          /\ file' = Handle(op.name, entry'[op.name])
        BY <1>8 DEF CreateReturns, Named, Idle
    <2>2. op.name \in Files /\ op.at \in Nat
        BY <1>1, <2>1, InDirIs, ClustersAre DEF Whose, Types, Handles
    <2> PICK g \in Files : g = op.name
        BY <2>2
    <2>3. file'.of = g /\ entry'[g] = [first |-> 0, size |-> 0, at |-> op.at]
          /\ \A f \in Files \ {g} : entry'[f] = entry[f]
        BY <1>1, <2>1, <2>2 DEF Handle
    <2>4. entry'[g].at = op.at /\ entry'[g].at # -1 /\ NoEntry.at = -1
        BY <2>2, <2>3 DEF NoEntry
    <2>5. Exists(g)'
        BY <2>4 DEF Exists
    <2>6. \A f \in Files : Exists(f)' => InDir(entry[f].at)'
        BY <1>1, <2>1, <2>3, <2>4 DEF Named, Exists
    <2> QED
        BY <2>1, <2>3, <2>5, <2>6 DEF Named
<1>9. CASE fat_chain_unlink
    <2>1. op'.pc # "write" /\ UNCHANGED <<entry, file>>
        BY <1>1, <1>9 DEF fat_chain_unlink, Ops
    <2> QED
        BY <1>3, <2>1
<1>10. CASE UnlinkReturns
    <2>1. /\ op.name \in Files /\ op.name # file.of /\ op'.pc = "idle" /\ UNCHANGED file
          /\ entry' = [entry EXCEPT ![op.name] = NoEntry]
        BY <1>1, <1>10 DEF UnlinkReturns, Whose, Idle
    <2>2. entry'[op.name] = NoEntry /\ \A f \in Files \ {op.name} : entry'[f] = entry[f]
        BY <1>1, <2>1
    <2> QED
        BY <1>1, <2>1, <2>2 DEF Named, Exists
<1>11. ASSUME NEW p \in 0 .. file.size, fat_lseek(p) PROVE Named'
    <2>1. op'.pc # "write" /\ UNCHANGED entry /\ file'.of = file.of
        BY <1>1, <1>11 DEF fat_lseek, Idle, Types, Handles
    <2> QED
        BY <1>3, <2>1
<1>12. CASE SeekCluster
    <2>1. op.pc = "seek" /\ op'.pc = "seek" /\ UNCHANGED entry
        BY <1>1, <1>12 DEF SeekCluster, Ops
    <2>2. file'.of = file.of
        BY <1>1, <1>12 DEF SeekCluster, SetHandle, h, Types, Handles
    <2> QED
        BY <1>3, <2>1, <2>2
<1>13. CASE LseekReturns \/ ReadReturns
    <2>1. op'.pc # "write" /\ UNCHANGED <<entry, file>>
        BY <1>13 DEF LseekReturns, ReadReturns, Idle
    <2> QED
        BY <1>3, <2>1
<1>14. ASSUME NEW n \in Nat \ {0}, NEW v \in Values, fat_write(n, v) PROVE Named'
    <2>1. op.pc = "idle" /\ file.of # NoFile /\ UNCHANGED entry /\ file.of # Dir
        BY <1>1, <1>14, ClustersAre DEF fat_write, Types, Handles, Idle
    <2>2. file'.of = file.of
        BY <1>1, <1>14 DEF fat_write, Types, Handles
    <2>3. op'.h = file.of /\ op'.val = v
        BY <1>1, <1>14, <2>2 DEF fat_write, Loop, Ops
    <2> QED
        BY <1>2, <2>1, <2>2, <2>3 DEF Named
<1>15. CASE WriteInCluster \/ WriteToNext \/ WriteToNew \/ WriteClipped
    <2>1. /\ op.pc = "write" /\ op'.h = op.h /\ op'.at = op.at /\ op'.val = op.val /\ UNCHANGED entry
          /\ file'.of = file.of
        BY <1>15, WriteLeaves
    <2> QED
        BY <1>1, <1>2, <2>1 DEF Named
<1>16. CASE WriteReturns
    <2>1. op.pc = "write" /\ op.h # Dir /\ op'.pc = "idle" /\ file'.of = file.of /\ file.of \in Files
        BY <1>1, <1>16 DEF WriteReturns, Idle, Types, Handles, Whose
    <2>2. CASE UNCHANGED entry
        BY <1>3, <2>1, <2>2
    <2>3. CASE /\ file.pos > file.size
               /\ entry' = [entry EXCEPT ![file.of].first = file.first, ![file.of].size = file.pos]
        <3> PICK g \in Files : g = file.of
            BY <2>1
        <3>1. /\ entry'[g].size = file.pos /\ entry'[g].at = entry[g].at
              /\ \A f \in Files \ {g} : entry'[f] = entry[f]
            BY <1>1, <2>1, <2>3 DEF Entries
        <3>2. file.pos \in Nat /\ file.pos > 0 /\ NoEntry.size = 0
            BY <1>1, <2>3 DEF Types, Handles, NoEntry
        <3>3. Exists(g)'
            BY <3>1, <3>2 DEF Exists
        <3>4. \A f \in Files : Exists(f)' => InDir(entry[f].at)'
            BY <1>1, <2>1, <3>1 DEF Named, Exists
        <3> QED
            BY <2>1, <3>3, <3>4 DEF Named
    <2> QED
        BY <1>16, <2>2, <2>3 DEF WriteReturns
<1>17. ASSUME NEW n \in Nat \ {0}, fat_read(n) PROVE Named'
    <2>1. op'.pc # "write" /\ UNCHANGED <<entry, file>>
        BY <1>1, <1>17 DEF fat_read, Loop, Ops
    <2> QED
        BY <1>3, <2>1
<1>18. CASE ReadPiece
    <2>1. op.pc = "read" /\ op.n > 0 /\ UNCHANGED entry
        BY <1>18 DEF ReadPiece
    <2>2. fat[h.cur] \in Links /\ Eoc \in Links
        BY <1>1, <2>1, PieceShapes DEF Types, Links
    <2>3. op'.pc = op.pc /\ file'.of = file.of
        BY <1>18, <2>1, <2>2, PieceLeaves DEF ReadPiece, NextCluster
    <2> QED
        BY <1>3, <2>1, <2>3
<1> QED
    BY <1>4, <1>5, <1>6, <1>7, <1>8, <1>9, <1>10, <1>11, <1>12, <1>13, <1>14, <1>15, <1>16, <1>17,
       <1>18 DEF Next

LEMMA NamedInvariant ==
    ASSUME Aligned
    PROVE  HeedingSpec => [](VolumeInv /\ Positions /\ Named)
<1>1. HeedingSpec => [](VolumeInv /\ Positions /\ Room)
    BY PlacesInvariant
<1>2. VolumeInv /\ Positions /\ Named /\ [Next]_vars => Named'
    BY NamedStep
<1> QED
    BY <1>1, <1>2, InitNamed, PTL DEF HeedingSpec, Spec

-----------------------------------------------------------------------------
(* Contents                                                                *)

\* A file that the caller knows of.
Live(f) == Exists(f) /\ ~Freed(f)

\* What a file holds is in its chain.
LEMMA SizeIs ==
    ASSUME VolumeInv, Positions, NEW f \in Files, ~Freed(f)
    PROVE  /\ SizeOf(f) \in Nat
           /\ \A p \in Nat : p < SizeOf(f) => Placed(f, p)
           /\ entry[f].size \in Nat /\ file.pos \in Nat
           /\ file.of = f => file.size = entry[f].size
<1>1. /\ Types /\ f \in Owners /\ chain[f] \in Seq(Clusters) /\ entry[f].size \in Nat
      /\ file.pos \in Nat /\ file.size \in Nat
    BY DEF VolumeInv, Types, Owners, Entries, Handles
<1>2. entry[f].size <= PerCluster * Len(chain[f])
    BY DEF Positions
<1>3. ASSUME file.of = f
      PROVE  file.size = entry[f].size /\ file.pos <= PerCluster * Len(chain[f])
    <2>1. file.size = entry[f].size
        BY <1>3 DEF VolumeInv, Synced
    <2>2. CASE op.pc = "seek" /\ op.h = file.of
        <3>1. Seeks(chain[f], file.pos, op.n, file.cur)
            BY <1>3, <2>2, ClustersAre DEF Positions, h
        <3> QED
            BY <2>1, <3>1 DEF Seeks
    <2>3. CASE ~(op.pc = "seek" /\ op.h = file.of)
        <3>1. Stands(f, file)
            BY <1>3, <2>3 DEF Positions
        <3>2. file.pos <= PerCluster * Len(chain[f])
            <4>1. PerCluster * Len(chain[f]) \in Nat
                BY <1>1, PerClusterIs
            <4> QED
                BY <1>1, <3>1, <4>1, AtWithin DEF Stands
        <3> QED
            BY <2>1, <3>2
    <2> QED
        BY <2>2, <2>3
<1>4. SizeOf(f) \in Nat /\ SizeOf(f) <= PerCluster * Len(chain[f])
    BY <1>1, <1>2, <1>3 DEF SizeOf
<1>5. PerCluster * Len(chain[f]) \in Nat
    BY <1>1, PerClusterIs
<1>6. ASSUME NEW p \in Nat, p < SizeOf(f) PROVE Placed(f, p)
    <2>1. p < PerCluster * Len(chain[f])
        BY <1>4, <1>5, <1>6
    <2> QED
        BY <1>1, <2>1, PlaceOf
<1> QED
    BY <1>1, <1>3, <1>4, <1>6

LEMMA ContentIs ==
    ASSUME VolumeInv, Positions, NEW f \in Files, Live(f)
    PROVE  /\ Content(f) # NoFile
           /\ Len(Content(f)) = SizeOf(f)
           /\ Content(f) = [i \in 1 .. SizeOf(f) |-> disk[Place(f, i - 1)]]
<1>1. SizeOf(f) \in Nat /\ \A p \in Nat : p < SizeOf(f) => Placed(f, p)
    BY SizeIs DEF Live
<1>2. Types /\ f \in Owners
    BY DEF VolumeInv, Owners
<1> DEFINE n == SizeOf(f)
<1>3. \A i \in 1 .. n : Placed(f, i - 1) /\ disk[Place(f, i - 1)] \in UnitValues
    <2> SUFFICES ASSUME NEW i \in 1 .. n PROVE Placed(f, i - 1) /\ disk[Place(f, i - 1)] \in UnitValues
        OBVIOUS
    <2>1. i - 1 \in Nat /\ i - 1 < n
        BY <1>1
    <2>2. Placed(f, i - 1)
        BY <1>1, <2>1
    <2> QED
        BY <1>2, <2>1, <2>2, PlaceOf
<1>4. Content(f) = [i \in 1 .. n |-> disk[Place(f, i - 1)]]
    <2>1. Content(f) = [i \in 1 .. n |-> IF Placed(f, i - 1) THEN disk[Place(f, i - 1)] ELSE Zero]
        BY DEF Content, Live, Freed
    <2> QED
        BY <1>3, <2>1
<1> HIDE DEF n
<1>5. Content(f) \in [1 .. n -> UnitValues] /\ DOMAIN Content(f) = 1 .. n /\ n \in Nat
    BY <1>1, <1>3, <1>4 DEF n
<1>6. Content(f) \in Seq(UnitValues)
    BY <1>5, SeqDef
<1>7. Content(f) # NoFile
    BY <1>6, VolumeAssumption DEF UnitValues
<1>8. Len(Content(f)) = n
    BY <1>5, <1>6, LenProperties
<1> QED
    BY <1>4, <1>7, <1>8 DEF n

\* What a file holds is unchanged when its units are.
LEMMA SameContent ==
    ASSUME VolumeInv, Positions, NEW f \in Files, Live(f)' <=> Live(f),
           Live(f) => /\ SizeOf(f)' = SizeOf(f)
                      /\ \A p \in Nat : Placed(f, p)
                            => Placed(f, p)' /\ disk'[Place(f, p)'] = disk[Place(f, p)]
    PROVE  Content(f)' = Content(f)
<1>1. CASE ~Live(f)
    BY <1>1 DEF Content, Live, Freed
<1>2. CASE Live(f)
    <2> DEFINE n == SizeOf(f)
    <2>1. n \in Nat /\ \A p \in Nat : p < n => Placed(f, p)
        BY <1>2, SizeIs DEF Live
    <2>2. \A i \in 1 .. n : Placed(f, i - 1)' /\ disk'[Place(f, i - 1)'] = disk[Place(f, i - 1)]
        <3> SUFFICES ASSUME NEW i \in 1 .. n
                     PROVE  Placed(f, i - 1)' /\ disk'[Place(f, i - 1)'] = disk[Place(f, i - 1)]
            OBVIOUS
        <3>1. i - 1 \in Nat /\ i - 1 < n
            BY <2>1
        <3> QED
            BY <1>2, <2>1, <3>1
    <2>3. Content(f)' = [i \in 1 .. n |-> IF Placed(f, i - 1)' THEN disk'[Place(f, i - 1)'] ELSE Zero]
        BY <1>2 DEF Content, Live, Freed
    <2>4. Content(f) = [i \in 1 .. n |-> disk[Place(f, i - 1)]]
        BY <1>2, ContentIs
    <2> HIDE DEF n
    <2> QED
        BY <2>2, <2>3, <2>4
<1> QED
    BY <1>1, <1>2

-----------------------------------------------------------------------------
(* Steps                                                                   *)

LEMMA PromisedStays ==
    ASSUME \A f \in Files : Content(f)' = Content(f), file'.of = file.of, file'.pos = file.pos
    PROVE  UNCHANGED Promise!promised
BY DEF Promise!promised

\* Between the writes the entry knows the size, also that of the open file.
LEMMA SizeInEntry ==
    ASSUME VolumeInv, file.pos <= file.size, NEW f \in Files
    PROVE  SizeOf(f) = entry[f].size
<1>1. file.of = f => file.size = entry[f].size
    BY DEF VolumeInv, Synced
<1>2. file.pos \in Nat /\ file.size \in Nat
    BY DEF VolumeInv, Types, Handles
<1> QED
    BY <1>1, <1>2 DEF SizeOf

LEMMA SameDisk ==
    ASSUME VolumeInv, [Next]_vars, UNCHANGED disk, op.pc # "unlink",
           NEW f \in Files, NEW p \in Nat, Placed(f, p)
    PROVE  Placed(f, p)' /\ disk'[Place(f, p)'] = disk[Place(f, p)]
<1>1. Types /\ f \in Owners /\ Grows(f)
    BY ChainsGrow DEF VolumeInv, Owners
<1> QED
    BY <1>1, PlacesStay

LEMMA QuietStep ==
    ASSUME VolumeInv, Positions, [Next]_vars, UNCHANGED <<entry, disk>>,
           file'.of = file.of, file'.pos = file.pos, file'.size = file.size,
           op.pc # "unlink", op'.pc # "unlink"
    PROVE  UNCHANGED Promise!promised
<1>1. ASSUME NEW f \in Files PROVE Content(f)' = Content(f)
    <2>1. (Live(f)' <=> Live(f)) /\ SizeOf(f)' = SizeOf(f)
        BY DEF Live, Exists, Freed, SizeOf
    <2>2. \A p \in Nat : Placed(f, p) => Placed(f, p)' /\ disk'[Place(f, p)'] = disk[Place(f, p)]
        BY SameDisk
    <2> QED
        BY <2>1, <2>2, SameContent
<1> QED
    BY <1>1, PromisedStays

\* The end of fat_write takes the size from the handle to the entry.
LEMMA ReturnQuiet ==
    ASSUME VolumeInv, Positions, Named, WriteReturns
    PROVE  UNCHANGED Promise!promised
<1>1. /\ Types /\ op.pc = "write" /\ op'.pc = "idle" /\ UNCHANGED <<disk, chain>> /\ [Next]_vars
      /\ file.of \in Files /\ Exists(file.of)
    BY DEF VolumeInv, WriteReturns, Idle, Whose, Named, Next
<1> PICK g \in Files : g = file.of
    BY <1>1
<1>2. file'.of = file.of /\ file'.pos = file.pos /\ file.pos \in Nat /\ file.size \in Nat
    BY <1>1 DEF WriteReturns, Types, Handles
<1>3. file'.size = IF file.pos > file.size THEN file.pos ELSE file.size
    BY <1>1 DEF WriteReturns, Types, Handles
<1>4. /\ \A f \in Files \ {g} : entry'[f] = entry[f]
      /\ Exists(g)'
    <2>1. CASE file.pos > file.size
        <3>1. entry' = [entry EXCEPT ![g].first = file.first, ![g].size = file.pos] /\ entry[g] \in Entries
            BY <1>1, <2>1 DEF WriteReturns, Types
        <3>2. entry'[g].size = file.pos /\ \A f \in Files \ {g} : entry'[f] = entry[f]
            BY <1>1, <3>1 DEF Types, Entries
        <3>3. NoEntry.size = 0 /\ file.pos > 0
            BY <1>2, <2>1 DEF NoEntry
        <3> QED
            BY <3>2, <3>3 DEF Exists
    <2>2. CASE ~(file.pos > file.size)
        BY <1>1, <2>2 DEF WriteReturns, Exists
    <2> QED
        BY <2>1, <2>2
<1>5. ASSUME NEW f \in Files PROVE Content(f)' = Content(f)
    <2>1. Live(f)' <=> Live(f)
        BY <1>1, <1>4, <1>5 DEF Live, Exists, Freed
    <2>2. SizeOf(f)' = SizeOf(f)
        BY <1>2, <1>3, <1>4, <1>5 DEF SizeOf
    <2>3. \A p \in Nat : Placed(f, p) => Placed(f, p)' /\ disk'[Place(f, p)'] = disk[Place(f, p)]
        BY <1>1, SameDisk
    <2> QED
        BY <2>1, <2>2, <2>3, SameContent
<1> QED
    BY <1>2, <1>5, PromisedStays

LEMMA OpensFile ==
    ASSUME VolumeInv, Positions, NEW f \in Files, fat_open(f)
    PROVE  Promise!OpenFile(f)
<1>1. /\ Types /\ op.pc = "idle" /\ op'.pc = "idle" /\ UNCHANGED <<disk, entry, chain>> /\ [Next]_vars
      /\ Exists(f) /\ file' = Handle(f, entry[f])
    BY DEF VolumeInv, fat_open, Idle, Next
<1>2. file'.of = f /\ file'.pos = 0 /\ file'.size = entry[f].size /\ entry[f].size \in Nat
    BY <1>1 DEF Handle, Types, Entries
<1>3. file.pos <= file.size
    BY <1>1 DEF VolumeInv, Inside
<1>4. ASSUME NEW g \in Files PROVE Content(g)' = Content(g)
    <2>1. Live(g)' <=> Live(g)
        BY <1>1 DEF Live, Exists, Freed
    <2>2. SizeOf(g) = entry[g].size
        BY <1>3, SizeInEntry
    <2>3. SizeOf(g)' = SizeOf(g)
        BY <1>1, <1>2, <2>2 DEF SizeOf
    <2>4. \A p \in Nat : Placed(g, p) => Placed(g, p)' /\ disk'[Place(g, p)'] = disk[Place(g, p)]
        BY <1>1, SameDisk
    <2> QED
        BY <2>1, <2>3, <2>4, SameContent
<1>5. Content(f) # NoFile
    BY <1>1, ContentIs DEF Live, Freed
<1> QED
    BY <1>2, <1>4, <1>5 DEF Promise!OpenFile

LEMMA CreatesFile ==
    ASSUME VolumeInv, Positions, Named, CreateReturns
    PROVE  \E f \in Files : Promise!CreateFile(f)
<1>1. /\ Types /\ Whose /\ op.pc = "write" /\ op.h = Dir /\ InDir(op.at) /\ op'.pc = "idle"
      /\ UNCHANGED <<disk, chain>> /\ [Next]_vars
      /\ entry' = [entry EXCEPT ![op.name] = [first |-> 0, size |-> 0, at |-> op.at]]
      /\ file' = Handle(op.name, entry'[op.name])
    BY DEF VolumeInv, CreateReturns, Named, Idle, Next
<1>2. op.name \in Files /\ entry[op.name] = NoEntry /\ op.at \in Nat
    BY <1>1, InDirIs, ClustersAre DEF Whose, Types, Handles
<1> PICK f \in Files : f = op.name
    BY <1>2
<1>3. /\ entry'[f] = [first |-> 0, size |-> 0, at |-> op.at]
      /\ file'.of = f /\ file'.pos = 0 /\ file'.size = 0
      /\ \A g \in Files \ {f} : entry'[g] = entry[g]
    BY <1>1, <1>2 DEF Handle, Types
<1>4. Content(f) = NoFile
    BY <1>2 DEF Content, Exists
<1>5. Content(f)' = <<>>
    <2>1. entry'[f] # NoEntry
        <3>1. entry'[f].at # NoEntry.at
            BY <1>2, <1>3 DEF NoEntry
        <3> QED
            BY <3>1
    <2>2. SizeOf(f)' = 0
        BY <1>3 DEF SizeOf
    <2>3. Content(f)' = [i \in 1 .. 0 |-> IF Placed(f, i - 1)' THEN disk'[Place(f, i - 1)'] ELSE Zero]
        BY <1>1, <2>1, <2>2 DEF Content, Exists
    <2>4. Content(f)' \in [1 .. 0 -> UnitValues] /\ DOMAIN Content(f)' = 1 .. 0
        BY <2>3
    <2>5. Content(f)' \in Seq(UnitValues)
        BY <2>4, SeqDef
    <2>6. Len(Content(f)') = 0
        BY <2>4, <2>5, LenProperties
    <2> QED
        BY <2>5, <2>6, EmptySeq
<1>6. ASSUME NEW g \in Files \ {f} PROVE Content(g)' = Content(g)
    <2>1. Live(g)' <=> Live(g)
        BY <1>1, <1>3 DEF Live, Exists, Freed
    <2>2. file.pos <= file.size
        BY <1>1, ClustersAre DEF VolumeInv, Inside, Types, Handles
    <2>3. SizeOf(g) = entry[g].size
        BY <2>2, SizeInEntry
    <2>4. SizeOf(g)' = SizeOf(g)
        BY <1>3, <2>3 DEF SizeOf
    <2>5. \A p \in Nat : Placed(g, p) => Placed(g, p)' /\ disk'[Place(g, p)'] = disk[Place(g, p)]
        BY <1>1, SameDisk
    <2> QED
        BY <2>1, <2>4, <2>5, SameContent
<1>7. Promise!CreateFile(f)
    BY <1>3, <1>4, <1>5, <1>6 DEF Promise!CreateFile
<1> QED
    BY <1>7

LEMMA UnlinksFile ==
    ASSUME VolumeInv, Positions, NEW f \in Files, fat_unlink(f)
    PROVE  Promise!Unlink(f)
<1>1. /\ op.pc = "idle" /\ op'.pc = "unlink" /\ op'.name = f /\ UNCHANGED <<disk, entry, file, chain>>
      /\ [Next]_vars /\ Exists(f) /\ f # file.of
    BY DEF fat_unlink, Idle, Next
<1>2. Content(f) # NoFile /\ Content(f)' = NoFile
    <2>1. Live(f)
        BY <1>1 DEF Live, Freed
    <2> QED
        BY <1>1, <2>1, ContentIs DEF Content
<1>3. ASSUME NEW g \in Files \ {f} PROVE Content(g)' = Content(g)
    <2>1. (Live(g)' <=> Live(g)) /\ SizeOf(g)' = SizeOf(g)
        BY <1>1 DEF Live, Exists, Freed, SizeOf
    <2>2. \A p \in Nat : Placed(g, p) => Placed(g, p)' /\ disk'[Place(g, p)'] = disk[Place(g, p)]
        BY <1>1, SameDisk
    <2> QED
        BY <2>1, <2>2, SameContent
<1> QED
    BY <1>1, <1>2, <1>3 DEF Promise!Unlink

\* Freeing the clusters of a file leaves the other files alone.
LEMMA FreeingQuiet ==
    ASSUME VolumeInv, Positions, Named, fat_chain_unlink \/ UnlinkReturns
    PROVE  UNCHANGED Promise!promised
<1>1. /\ Types /\ Whose /\ op.pc = "unlink" /\ op.name \in Files \ {file.of} /\ UNCHANGED file /\ [Next]_vars
    BY DEF VolumeInv, Whose, fat_chain_unlink, UnlinkReturns, Next
<1> PICK n \in Files : n = op.name
    BY <1>1
<1>2. ASSUME NEW g \in Files \ {n}, NEW p \in Nat, Placed(g, p)
      PROVE  /\ Placed(g, p)' /\ Place(g, p)' = Place(g, p)
             /\ Place(g, p) \in Units /\ Place(g, p) # entry[n].at
    <2>1. g \in Owners /\ Grows(g)
        BY <1>1, ChainsGrow DEF Owners
    <2>2. Placed(g, p)' /\ Place(g, p)' = Place(g, p) /\ Place(g, p) \in Units /\ Place(g, p) \in Nat
        BY <1>1, <1>2, <2>1, PlacesStay, PlaceOf
    <2>3. CASE Exists(n)
        <3>1. InDir(entry[n].at)
            BY <2>3 DEF Named
        <3> QED
            BY <1>2, <2>2, <3>1, InDirIs
    <2>4. CASE ~Exists(n)
        <3>1. entry[n].at = -1
            BY <2>4 DEF Exists, NoEntry
        <3> QED
            BY <2>2, <3>1
    <2> QED
        BY <2>2, <2>3, <2>4
<1>3. CASE fat_chain_unlink
    <2>1. op'.pc = "unlink" /\ op'.name = op.name /\ UNCHANGED <<entry, disk>>
        BY <1>1, <1>3 DEF fat_chain_unlink, Types, Ops
    <2>2. ASSUME NEW g \in Files PROVE Content(g)' = Content(g)
        <3>1. (Live(g)' <=> Live(g)) /\ SizeOf(g)' = SizeOf(g) /\ (Live(g) => g # n)
            BY <1>1, <2>1 DEF Live, Exists, Freed, SizeOf
        <3> QED
            BY <1>2, <2>1, <3>1, SameContent
    <2> QED
        BY <1>1, <2>2, PromisedStays
<1>4. CASE UnlinkReturns
    <2>1. /\ op'.pc = "idle" /\ disk' = [disk EXCEPT ![entry[n].at] = Deleted]
          /\ entry' = [entry EXCEPT ![n] = NoEntry]
        BY <1>4 DEF UnlinkReturns, Idle
    <2>2. entry'[n] = NoEntry /\ \A f \in Files \ {n} : entry'[f] = entry[f]
        BY <1>1, <2>1 DEF Types
    <2>3. ASSUME NEW g \in Files PROVE Content(g)' = Content(g)
        <3>1. (Live(g)' <=> Live(g)) /\ (Live(g) => g # n)
            BY <1>1, <2>1, <2>2 DEF Live, Exists, Freed
        <3>2. Live(g) => SizeOf(g)' = SizeOf(g)
            BY <1>1, <2>2, <3>1 DEF SizeOf
        <3>3. ASSUME Live(g), NEW p \in Nat, Placed(g, p)
              PROVE  Placed(g, p)' /\ disk'[Place(g, p)'] = disk[Place(g, p)]
            <4>1. /\ Placed(g, p)' /\ Place(g, p)' = Place(g, p)
                  /\ Place(g, p) \in Units /\ Place(g, p) # entry[n].at
                BY <1>2, <3>1, <3>3
            <4>2. disk'[Place(g, p)] = disk[Place(g, p)]
                BY <1>1, <2>1, <4>1 DEF Types
            <4> QED
                BY <4>1, <4>2
        <3> QED
            BY <3>1, <3>2, <3>3, SameContent
    <2> QED
        BY <1>1, <2>3, PromisedStays
<1> QED
    BY <1>3, <1>4

LEMMA SeeksFile ==
    ASSUME VolumeInv, Positions, Named, NEW p \in 0 .. file.size, fat_lseek(p)
    PROVE  /\ file.of # NoFile
           /\ \E q \in 0 .. Len(Content(file.of)) : Promise!Seek(q)
<1>1. /\ Types /\ op.pc = "idle" /\ op'.pc = "seek" /\ UNCHANGED <<disk, entry, chain>> /\ [Next]_vars
      /\ file.of # NoFile /\ file' = [file EXCEPT !.pos = p, !.cur = file.first]
    BY DEF VolumeInv, fat_lseek, Idle, Next
<1>2. /\ file'.of = file.of /\ file'.pos = p /\ file'.size = file.size /\ file.of \in Files
      /\ file.pos \in Nat /\ file.size \in Nat /\ p \in Nat /\ p <= file.size
    BY <1>1 DEF Types, Handles
<1> PICK o \in Files : o = file.of
    BY <1>2
<1>3. file.pos <= file.size
    BY <1>1 DEF VolumeInv, Inside
<1>4. Len(Content(o)) = file.size
    <2>1. Live(o)
        BY <1>1 DEF Live, Freed, Named
    <2>2. SizeOf(o) = file.size
        BY <1>2, <1>3 DEF SizeOf
    <2> QED
        BY <2>1, <2>2, ContentIs
<1>5. ASSUME NEW g \in Files PROVE Content(g)' = Content(g)
    <2>1. Live(g)' <=> Live(g)
        BY <1>1 DEF Live, Exists, Freed
    <2>2. SizeOf(g)' = SizeOf(g)
        BY <1>1, <1>2, <1>3 DEF SizeOf
    <2>3. \A r \in Nat : Placed(g, r) => Placed(g, r)' /\ disk'[Place(g, r)'] = disk[Place(g, r)]
        BY <1>1, SameDisk
    <2> QED
        BY <2>1, <2>2, <2>3, SameContent
<1>6. Promise!Seek(p)
    BY <1>1, <1>2, <1>4, <1>5 DEF Promise!Seek
<1> QED
    BY <1>1, <1>4, <1>6

LEMMA ReadsFile ==
    ASSUME VolumeInv, Positions, Named, ReadPiece
    PROVE  Promise!Get(Piece) /\ Piece \in 1 .. file'.pos - file.pos
<1>1. /\ Types /\ Whose /\ Inside /\ op.pc = "read" /\ op.n > 0 /\ UNCHANGED <<entry, disk, chain>> /\ [Next]_vars
      /\ op.h = file.of /\ file.of \in Files /\ op.h # Dir /\ file.pos + op.n <= file.size
    BY ClustersAre DEF VolumeInv, ReadPiece, Whose, Inside, Next
<1> PICK o \in Files : o = file.of
    BY <1>1
<1>2. fat[h.cur] \in Links /\ Eoc \in Links
    BY <1>1, PieceShapes DEF Types, Links
<1>3. op'.pc = "read" /\ file'.of = file.of /\ file'.size = file.size /\ file'.pos = file.pos + Piece
    BY <1>1, <1>2, PieceLeaves DEF ReadPiece, NextCluster
<1>4. /\ Piece \in 1 .. op.n /\ op.n \in Nat /\ file.pos \in Nat /\ file.size \in Nat
    BY <1>1, HandleOfCall, PieceTypes DEF Types, Ops, Handles
<1>5. file.pos + Piece <= file.size /\ file.pos <= file.size /\ Piece \in 1 .. file'.pos - file.pos
    BY <1>1, <1>3, <1>4
<1>6. Len(Content(o)) = file.size
    <2>1. Live(o)
        BY <1>1 DEF Live, Freed, Named
    <2>2. SizeOf(o) = file.size
        BY <1>4, <1>5 DEF SizeOf
    <2> QED
        BY <2>1, <2>2, ContentIs
<1>7. ASSUME NEW g \in Files PROVE Content(g)' = Content(g)
    <2>1. Live(g)' <=> Live(g)
        BY <1>1, <1>3 DEF Live, Exists, Freed
    <2>2. SizeOf(g)' = SizeOf(g)
        BY <1>1, <1>3, <1>4, <1>5 DEF SizeOf
    <2>3. \A r \in Nat : Placed(g, r) => Placed(g, r)' /\ disk'[Place(g, r)'] = disk[Place(g, r)]
        BY <1>1, SameDisk
    <2> QED
        BY <2>1, <2>2, <2>3, SameContent
<1> QED
    BY <1>1, <1>3, <1>5, <1>6, <1>7, ClustersAre DEF Promise!Get

WritePiece == WriteInCluster \/ WriteToNext \/ WriteToNew \/ WriteClipped

\* A piece leaves the files that are not written alone.
LEMMA OthersStay ==
    ASSUME Aligned, VolumeInv, Positions, WritePiece, NEW g \in Files, g # op.h
    PROVE  Content(g)' = Content(g)
<1>1. /\ op.pc = "write" /\ op.n > 0 /\ op'.pc = "write" /\ UNCHANGED entry /\ [Next]_vars
      /\ file'.of = file.of
    BY WriteLeaves DEF WritePiece, Next
<1>2. PICK cleared : /\ Transfer(cleared)
                     /\ \A o \in Owners, p \in Nat : Placed(o, p) => Place(o, p) \notin cleared
    BY WriteLeaves DEF WritePiece
<1>3. g \in Owners /\ Grows(g)
    BY <1>1, ChainsGrow DEF Owners
<1>4. \A p \in Nat : Placed(g, p) => Placed(g, p)' /\ disk'[Place(g, p)'] = disk[Place(g, p)]
    BY <1>1, <1>2, <1>3, PieceWrites
<1>5. Live(g)' <=> Live(g)
    BY <1>1 DEF Live, Exists, Freed
<1>6. SizeOf(g)' = SizeOf(g)
    <2>1. CASE op.h = Dir
        <3>1. UNCHANGED file
            BY <2>1, WriteLeaves DEF WritePiece
        <3> QED
            BY <1>1, <3>1 DEF SizeOf
    <2>2. CASE op.h # Dir
        <3>1. g # file.of
            BY <1>1, <2>2 DEF VolumeInv, Whose
        <3> QED
            BY <1>1, <3>1 DEF SizeOf
    <2> QED
        BY <2>1, <2>2
<1> QED
    BY <1>4, <1>5, <1>6, SameContent

LEMMA NamingQuiet ==
    ASSUME Aligned, VolumeInv, Positions, WritePiece, op.h = Dir
    PROVE  UNCHANGED Promise!promised
<1>1. UNCHANGED file
    BY WriteLeaves DEF WritePiece
<1>2. \A g \in Files : Content(g)' = Content(g)
    BY OthersStay, ClustersAre
<1> QED
    BY <1>1, <1>2, PromisedStays

LEMMA WritesFile ==
    ASSUME Aligned, VolumeInv, Positions, Named, WritePiece, op.h # Dir
    PROVE  Promise!Put(Piece, op.val) /\ Piece \in 1 .. file'.pos - file.pos /\ op.val \in Values
<1>1. /\ Types /\ Whose /\ op.pc = "write" /\ op.n > 0 /\ op'.pc = "write" /\ UNCHANGED entry /\ [Next]_vars
      /\ file'.of = file.of /\ file'.size = file.size /\ file'.pos = file.pos + Piece
    BY WriteLeaves DEF WritePiece, Next, VolumeInv
<1>2. PICK cleared : /\ Transfer(cleared)
                     /\ \A o \in Owners, p \in Nat : Placed(o, p) => Place(o, p) \notin cleared
    BY WriteLeaves DEF WritePiece
<1>3. op.h = file.of /\ file.of \in Files /\ h = file /\ op.val \in Values /\ Exists(file.of)
    BY <1>1, HandleOfCall DEF Named
<1> PICK o \in Files : o = file.of
    BY <1>3
<1>4. o \in Owners /\ Grows(o) /\ Live(o)
    BY <1>1, <1>3, ChainsGrow DEF Owners, Live, Freed
<1> DEFINE pos == file.pos
<1> DEFINE m == Piece
<1> DEFINE n == SizeOf(o)
<1> DEFINE len == IF pos + m > n THEN pos + m ELSE n
<1>5. Piece \in 1 .. op.n /\ op.n \in Nat /\ file.pos \in Nat /\ file.size \in Nat
    BY <1>1, HandleOfCall, PieceTypes DEF Types, Ops, Handles
<1>6. m \in Nat /\ m > 0 /\ pos \in Nat /\ n \in Nat /\ pos <= n /\ SizeOf(o)' = len
    <2>1. n = IF file.pos > file.size THEN file.pos ELSE file.size
        BY DEF SizeOf
    <2>2. SizeOf(o)' = IF file.pos + Piece > file.size THEN file.pos + Piece ELSE file.size
        BY <1>1 DEF SizeOf
    <2> HIDE DEF n
    <2> QED
        BY <1>5, <2>1, <2>2
<1>7. \A i \in 0 .. m - 1 : Placed(o, pos + i)
    BY <1>1, <1>3, PieceAt
<1>8. \A p \in Nat : p < n => Placed(o, p)
    BY <1>4, SizeIs DEF Live
<1>9. Content(o) = [i \in 1 .. n |-> disk[Place(o, i - 1)]] /\ Len(Content(o)) = n
    BY <1>4, ContentIs
<1>10. \A p \in Nat : Placed(o, p) =>
           /\ Placed(o, p)'
           /\ disk'[Place(o, p)'] = IF p \in pos .. pos + m - 1 THEN op.val ELSE disk[Place(o, p)]
    BY <1>1, <1>2, <1>3, <1>4, PieceWrites
<1>11. Content(o)' = [i \in 1 .. len |-> IF Placed(o, i - 1)' THEN disk'[Place(o, i - 1)'] ELSE Zero]
    <2>1. Exists(o)'
        BY <1>1, <1>3 DEF Exists
    <2> HIDE DEF len
    <2> QED
        BY <1>1, <1>6, <2>1 DEF Content
<1> HIDE DEF pos, m, n
<1>12. \A i \in 1 .. len : Placed(o, i - 1)
    <2> SUFFICES ASSUME NEW i \in 1 .. len PROVE Placed(o, i - 1)
        OBVIOUS
    <2>1. i - 1 \in Nat
        BY <1>6
    <2>2. CASE i <= n
        BY <1>6, <1>8, <2>1, <2>2
    <2>3. CASE i > n
        <3> DEFINE k == i - 1 - pos
        <3>1. k \in 0 .. m - 1 /\ pos + k = i - 1
            BY <1>6, <2>1, <2>3
        <3> HIDE DEF k
        <3> QED
            BY <1>7, <3>1
    <2> QED
        BY <1>6, <2>2, <2>3
<1>13. ASSUME NEW i \in 1 .. len
       PROVE  (IF Placed(o, i - 1)' THEN disk'[Place(o, i - 1)'] ELSE Zero)
                  = IF i \in pos + 1 .. pos + m THEN op.val ELSE Content(o)[i]
    <2>1. i - 1 \in Nat /\ Placed(o, i - 1)
        BY <1>6, <1>12
    <2>2. Placed(o, i - 1)' /\ disk'[Place(o, i - 1)'] =
              IF i - 1 \in pos .. pos + m - 1 THEN op.val ELSE disk[Place(o, i - 1)]
        BY <1>10, <2>1
    <2>3. i - 1 \in pos .. pos + m - 1 <=> i \in pos + 1 .. pos + m
        BY <1>6
    <2>4. CASE i \in pos + 1 .. pos + m
        BY <2>2, <2>3, <2>4
    <2>5. CASE i \notin pos + 1 .. pos + m
        <3>1. i \in 1 .. n
            BY <1>6, <2>5
        <3>2. Content(o)[i] = disk[Place(o, i - 1)]
            BY <1>9, <3>1
        <3> QED
            BY <2>2, <2>3, <2>5, <3>2
    <2> QED
        BY <2>4, <2>5
<1>14. Content(o)' = [i \in 1 .. len |-> IF i \in pos + 1 .. pos + m THEN op.val ELSE Content(o)[i]]
    <2> HIDE DEF len
    <2> QED
        BY <1>11, <1>13
<1>15. \A g \in Files \ {o} : Content(g)' = Content(g)
    BY <1>3, OthersStay
<1>16. file.of # NoFile
    BY <1>3, ClustersAre
<1>17. Promise!Put(Piece, op.val)
    <2> DEFINE new == [i \in 1 .. len |-> IF i \in pos + 1 .. pos + m THEN op.val ELSE Content(o)[i]]
    <2> DEFINE all == [f \in Files |-> Content(f)]
    <2>1. all' = [all EXCEPT ![o] = new]
        <3>1. all' = [f \in Files |-> Content(f)']
            OBVIOUS
        <3>2. Content(o)' = new
            BY <1>14
        <3> HIDE DEF new
        <3> QED
            BY <1>15, <3>1, <3>2
    <2>2. all[o] = Content(o)
        OBVIOUS
    <2>3. new = [i \in 1 .. (IF pos + m > Len(all[o]) THEN pos + m ELSE Len(all[o])) |->
                     IF i \in pos + 1 .. pos + m THEN op.val ELSE all[o][i]]
        BY <1>9, <2>2
    <2> HIDE DEF new
    <2> QED
        BY <1>1, <1>16, <2>1, <2>3 DEF Promise!Put, pos, m
<1> QED
    BY <1>1, <1>3, <1>5, <1>17

-----------------------------------------------------------------------------
(* The theorem                                                             *)

LEMMA PromiseStep ==
    ASSUME Aligned, VolumeInv, Positions, Named, [Next]_vars
    PROVE  [Promise!FilesNext]_(Promise!promised)
<1> SUFFICES Promise!FilesNext \/ UNCHANGED Promise!promised
    OBVIOUS
<1>1. Types /\ op \in Ops /\ file \in Handles(Files \cup {NoFile})
    BY DEF VolumeInv, Types
<1>2. CASE UNCHANGED vars
    <2>1. \A f \in Files : Content(f)' = Content(f)
        BY <1>2 DEF vars, Content, Exists, SizeOf, Placed, Place
    <2> QED
        BY <1>2, <2>1, PromisedStays DEF vars
<1>3. ASSUME NEW f \in Files, fat_open(f) \/ fat_unlink(f)
      PROVE  Promise!FilesNext
    BY <1>3, OpensFile, UnlinksFile DEF Promise!FilesNext
<1>4. CASE CreateReturns
    BY <1>4, CreatesFile DEF Promise!FilesNext
<1>5. CASE fat_chain_unlink \/ UnlinkReturns
    BY <1>5, FreeingQuiet
<1>6. ASSUME NEW f \in Files, fat_create(f) PROVE UNCHANGED Promise!promised
    <2>1. op.pc # "unlink" /\ op'.pc # "unlink" /\ UNCHANGED <<entry, disk, file>>
        BY <1>6 DEF fat_create, Idle
    <2> QED
        BY <2>1, QuietStep
<1>7. CASE WriteLongName \/ WriteShortName
    <2>1. op.pc # "unlink" /\ UNCHANGED <<entry, disk, file>>
        BY <1>7 DEF WriteLongName, WriteShortName
    <2>2. op'.pc # "unlink"
        <3>1. op' = Idle => op'.pc = "idle"
            BY DEF Idle
        <3>2. op' # Idle => op'.pc = "write"
            BY <1>7, NameAt
        <3> QED
            BY <3>1, <3>2
    <2> QED
        BY <2>1, <2>2, QuietStep
<1>8. ASSUME NEW p \in 0 .. file.size, fat_lseek(p)
      PROVE  Promise!FilesNext
    <2>1. file.of # NoFile /\ file.of \in Files
        BY <1>1, <1>8 DEF fat_lseek, Handles
    <2>2. \E q \in 0 .. Len(Content(file.of)) : Promise!Seek(q)
        BY <1>8, SeeksFile
    <2> QED
        BY <2>1, <2>2 DEF Promise!FilesNext
<1>9. CASE SeekCluster
    <2>1. op.pc = "seek" /\ op'.pc = "seek" /\ UNCHANGED <<entry, disk>>
        BY <1>1, <1>9 DEF SeekCluster, Ops
    <2>2. file'.of = file.of /\ file'.pos = file.pos /\ file'.size = file.size
        BY <1>1, <1>9 DEF SeekCluster, SetHandle, h, Handles
    <2> QED
        BY <2>1, <2>2, QuietStep
<1>10. CASE LseekReturns \/ ReadReturns
    <2>1. op'.pc # "unlink" /\ op.pc # "unlink" /\ UNCHANGED <<entry, disk, file>>
        BY <1>10 DEF LseekReturns, ReadReturns, Idle
    <2> QED
        BY <2>1, QuietStep
<1>11. ASSUME NEW n \in Nat \ {0}, NEW v \in Values, fat_write(n, v) PROVE UNCHANGED Promise!promised
    <2>1. op.pc = "idle" /\ op'.pc = "write" /\ UNCHANGED <<entry, disk>>
        BY <1>1, <1>11 DEF fat_write, Loop, Idle, Ops
    <2>2. file'.of = file.of /\ file'.pos = file.pos /\ file'.size = file.size
        BY <1>1, <1>11 DEF fat_write, Handles
    <2> QED
        BY <2>1, <2>2, QuietStep
<1>12. CASE WritePiece
    <2>1. CASE op.h = Dir
        BY <1>12, <2>1, NamingQuiet
    <2>2. CASE op.h # Dir
        BY <1>12, <2>2, WritesFile DEF Promise!FilesNext
    <2> QED
        BY <2>1, <2>2
<1>13. CASE WriteReturns
    BY <1>13, ReturnQuiet
<1>14. ASSUME NEW n \in Nat \ {0}, fat_read(n) PROVE UNCHANGED Promise!promised
    <2>1. op.pc # "unlink" /\ op'.pc # "unlink" /\ UNCHANGED <<entry, disk, file>>
        BY <1>1, <1>14 DEF fat_read, Loop, Idle, Ops
    <2> QED
        BY <2>1, QuietStep
<1>15. CASE ReadPiece
    BY <1>15, ReadsFile DEF Promise!FilesNext
<1> QED
    BY <1>2, <1>3, <1>4, <1>5, <1>6, <1>7, <1>8, <1>9, <1>10, <1>11, <1>12, <1>13, <1>14, <1>15
    DEF Next, WritePiece

\* Where every cluster starts at a multiple of its size, and the caller heeds the
\* free space, FatVolume implements FatFiles: through chains that grow and are
\* freed, seeks, and writes and reads of any length from any position, a file
\* holds what was written to it, and only fat_unlink takes it away.
THEOREM VolumeKeepsPromise ==
    ASSUME Aligned
    PROVE  HeedingSpec => KeepsPromise
<1>1. Init => Promise!FilesInit
    <2> SUFFICES ASSUME Init PROVE Promise!FilesInit
        OBVIOUS
    <2>1. file.of = NoFile /\ file.pos = 0 /\ \A f \in Files : ~Exists(f)
        BY DEF Init, Handle, Exists
    <2> QED
        BY <2>1 DEF Promise!FilesInit, Content
<1>2. VolumeInv /\ Positions /\ Named /\ [Next]_vars => [Promise!FilesNext]_(Promise!promised)
    BY PromiseStep
<1>3. HeedingSpec => [](VolumeInv /\ Positions /\ Named)
    BY NamedInvariant
<1> QED
    BY <1>1, <1>2, <1>3, PTL DEF HeedingSpec, Spec, KeepsPromise, Promise!FilesSpec

-----------------------------------------------------------------------------
(* The directory                                                           *)

\* The only entry of f is in unit u of the directory, behind a long name entry.
EntryAt(f, u) ==
    \E k \in Nat \ {0} :
        /\ Placed(Dir, k) /\ u = Place(Dir, k)
        /\ DirUnit(k - 1) = LongName
        /\ \A i \in Nat : DirUnit(i) = f <=> i = k

\* The call writes names: the long one is to be written, it has been, or both have.
Naming     == op.pc = "write" /\ op.h = Dir
LongToGo   == (op.pc = "seek" /\ op.h = Dir) \/ (Naming /\ op.val = LongName /\ op.n > 0)
ShortToGo  == Naming /\ (op.val = LongName <=> op.n = 0)
NamesThere == Naming /\ op.val # LongName /\ op.n = 0

\* A place for two entries is reached, and before it the directory has not ended.
SlotAt(p) == Vacant(p) /\ \A i \in Nat : i < p => DirUnit(i) # Zero

\* The directory holds the entries of the files, no other, and then it ends.
Listed ==
    /\ \A f \in Files : Exists(f) => EntryAt(f, entry[f].at)
    /\ \A f \in Files, i \in Nat : DirUnit(i) = f => Exists(f) \/ (NamesThere /\ op.name = f)
    /\ \A i, j \in Nat : i < j /\ DirUnit(i) = Zero => DirUnit(j) = Zero

Entered ==
    /\ Listed
    /\ LongToGo => SlotAt(cwd.pos)
    /\ ShortToGo => /\ cwd.pos > 0
                    /\ DirUnit(cwd.pos - 1) = LongName
                    /\ DirUnit(cwd.pos) \in {Zero, Deleted}
                    /\ op.n > 0 => Placed(Dir, cwd.pos) /\ op.at = Place(Dir, cwd.pos)
    /\ NamesThere => EntryAt(op.name, op.at)
    /\ Naming => op.val \in {LongName, op.name}
    /\ cwd.size = 0

LEMMA EntriesIntactHolds == VolumeInv /\ Entered => EntriesIntact
<1> SUFFICES ASSUME VolumeInv, Entered, NEW f \in Files, Exists(f),
                    NEW i \in 0 .. Len(chain[Dir]) * SPC * BPS - 1
             PROVE  /\ DirUnit(i) = f <=> Place(Dir, i) = entry[f].at
                    /\ DirUnit(i) = f => i > 0 /\ DirUnit(i - 1) = LongName
    BY DEF EntriesIntact
<1>1. Types /\ ChainsDisjoint /\ Dir \in Owners
    BY DEF VolumeInv, Held, Owners
<1>2. i \in Nat /\ i < PerCluster * Len(chain[Dir])
    <2> DEFINE len == Len(chain[Dir])
    <2>1. chain[Dir] \in Seq(Clusters)
        BY <1>1 DEF Types
    <2>2. len \in Nat /\ SPC \in Nat \ {0} /\ BPS \in Nat \ {0}
        BY <2>1, VolumeAssumption
    <2>3. i \in 0 .. len * SPC * BPS - 1
        OBVIOUS
    <2> HIDE DEF len
    <2>4. len * SPC * BPS = (SPC * BPS) * len /\ len * SPC * BPS \in Nat
        BY <2>2, ProductsAre
    <2>5. i \in Nat /\ i < (SPC * BPS) * len
        BY <2>3, <2>4
    <2> QED
        BY <2>5 DEF PerCluster, len
<1>3. Placed(Dir, i)
    BY <1>1, <1>2, PlaceOf
<1>4. PICK k \in Nat \ {0} :
          /\ Placed(Dir, k) /\ entry[f].at = Place(Dir, k) /\ DirUnit(k - 1) = LongName
          /\ \A j \in Nat : DirUnit(j) = f <=> j = k
    BY DEF Entered, Listed, EntryAt
<1>5. Place(Dir, i) = Place(Dir, k) => i = k
    BY <1>1, <1>2, <1>3, <1>4, PlacesApart
<1> QED
    BY <1>2, <1>4, <1>5

-----------------------------------------------------------------------------
(* What a step does to the directory                                       *)

\* Positions of the directory stay where they are, and all but one in only
\* hold what they held.
DirKept(only) ==
    /\ \A i \in Nat : Placed(Dir, i) => Placed(Dir, i)' /\ Place(Dir, i)' = Place(Dir, i)
    /\ \A i \in Nat \ only : DirUnit(i)' = DirUnit(i)

LEMMA DirStays ==
    ASSUME VolumeInv, [Next]_vars, chain'[Dir] = chain[Dir],
           NEW only, \A i \in Nat \ only : Placed(Dir, i) => disk'[Place(Dir, i)] = disk[Place(Dir, i)]
    PROVE  DirKept(only)
<1>1. Types /\ Dir \in Owners /\ Grows(Dir)
    BY ChainsGrow DEF VolumeInv, Owners
<1>2. \A i \in Nat : Placed(Dir, i) => Placed(Dir, i)' /\ Place(Dir, i)' = Place(Dir, i)
    BY <1>1, PlacesStay
<1>3. \A i \in Nat : Placed(Dir, i)' => Placed(Dir, i)
    BY DEF Placed
<1> QED
    BY <1>2, <1>3 DEF DirKept, DirUnit

\* The chain of the directory grows only while a name is written.
LEMMA DirChain ==
    ASSUME VolumeInv, [Next]_vars, ~(WriteToNew /\ op.h = Dir)
    PROVE  chain'[Dir] = chain[Dir]
<1>1. Types /\ Whose /\ Dir \in Owners /\ chain \in [Owners -> Seq(Clusters)]
    BY DEF VolumeInv, Types, Owners
<1>2. CASE fat_chain_unlink
    <2>1. op.name # Dir /\ chain' = [chain EXCEPT ![op.name] = Tail(chain[op.name])]
        BY <1>1, <1>2, ClustersAre DEF fat_chain_unlink, Whose
    <2> QED
        BY <1>1, <2>1
<1>3. ASSUME NEW n \in Nat \ {0}, NEW v \in Values, fat_write(n, v) PROVE chain'[Dir] = chain[Dir]
    <2>1. \/ UNCHANGED chain
          \/ \E c \in Clusters : chain' = [chain EXCEPT ![file.of] = <<c>>]
        BY <1>3 DEF fat_write, StartChain
    <2>2. file.of # Dir
        BY <1>1, ClustersAre DEF Types, Handles
    <2> QED
        BY <1>1, <2>1, <2>2
<1>4. CASE WriteToNew
    <2>1. op.h # Dir /\ \E c \in Clusters : chain' = [chain EXCEPT ![op.h] = Append(chain[op.h], c)]
        BY <1>4 DEF WriteToNew, ExtendChain
    <2> QED
        BY <1>1, <2>1
<1>5. \/ UNCHANGED chain \/ fat_chain_unlink \/ WriteToNew
      \/ \E n \in Nat \ {0}, v \in Values : fat_write(n, v)
    BY DEF Next, vars, fat_open, fat_create, fat_unlink, WriteLongName, WriteShortName, CreateReturns,
           UnlinkReturns, fat_lseek, SeekCluster, LseekReturns, WriteInCluster, WriteToNext,
           WriteClipped, WriteReturns, fat_read, ReadPiece, ReadReturns
<1> QED
    BY <1>2, <1>3, <1>4, <1>5

\* Nothing of the directory is rewritten: entries, slots and its end stay.
LEMMA DirSame ==
    ASSUME Types, DirKept({})
    PROVE  /\ \A i \in Nat : DirUnit(i)' = DirUnit(i)
           /\ \A f, u : EntryAt(f, u) => EntryAt(f, u)'
           /\ \A p \in Nat : SlotAt(p) => SlotAt(p)'
<1>1. \A i \in Nat : DirUnit(i)' = DirUnit(i)
    BY DEF DirKept
<1>2. ASSUME NEW f, NEW u, EntryAt(f, u) PROVE EntryAt(f, u)'
    <2>1. PICK k \in Nat \ {0} :
              /\ Placed(Dir, k) /\ u = Place(Dir, k) /\ DirUnit(k - 1) = LongName
              /\ \A i \in Nat : DirUnit(i) = f <=> i = k
        BY <1>2 DEF EntryAt
    <2>2. Placed(Dir, k)' /\ u = Place(Dir, k)'
        BY <2>1 DEF DirKept
    <2>3. DirUnit(k - 1)' = LongName /\ \A i \in Nat : DirUnit(i)' = f <=> i = k
        BY <1>1, <2>1
    <2> QED
        BY <2>1, <2>2, <2>3 DEF EntryAt
<1>3. ASSUME NEW p \in Nat, SlotAt(p) PROVE SlotAt(p)'
    <2>1. p + 1 \in Nat /\ DirUnit(p)' = DirUnit(p) /\ DirUnit(p + 1)' = DirUnit(p + 1)
        BY <1>1
    <2>2. Vacant(p)'
        BY <1>3, <2>1 DEF SlotAt, Vacant
    <2> QED
        BY <1>1, <1>3, <2>2 DEF SlotAt
<1> QED
    BY <1>1, <1>2, <1>3

\* A unit that no name and no long name entry is in takes the value v.
LEMMA EntryKept ==
    ASSUME Types, NEW p \in Nat, DirKept({p}), DirUnit(p) \notin Files \cup {LongName},
           NEW f \in Files, DirUnit(p)' # f, NEW u, EntryAt(f, u)
    PROVE  EntryAt(f, u)'
<1>1. PICK k \in Nat \ {0} :
          /\ Placed(Dir, k) /\ u = Place(Dir, k) /\ DirUnit(k - 1) = LongName
          /\ \A i \in Nat : DirUnit(i) = f <=> i = k
    BY DEF EntryAt
<1>2. Placed(Dir, k)' /\ u = Place(Dir, k)'
    BY <1>1 DEF DirKept
<1>3. k # p /\ k - 1 # p
    BY <1>1
<1>4. DirUnit(k - 1)' = LongName
    BY <1>1, <1>3 DEF DirKept
<1>5. \A i \in Nat : DirUnit(i)' = f <=> i = k
    BY <1>1, <1>3 DEF DirKept
<1> QED
    BY <1>1, <1>2, <1>4, <1>5 DEF EntryAt

\* A unit of the cluster that the directory has just got is cleared.
LEMMA DirCleared ==
    ASSUME VolumeInv, Positions, WriteToNew, op.h = Dir, cwd.size = 0,
           NEW i \in Nat, ~Placed(Dir, i), Placed(Dir, i)'
    PROVE  disk'[Place(Dir, i)'] = Zero
<1>1. Types /\ Whose /\ Held /\ op.pc = "write" /\ op.n > 0 /\ h = cwd
    BY DEF VolumeInv, WriteToNew, h
<1>2. PICK c \in Clusters : ExtendChain(Dir, h.cur, c) /\ Transfer(ClusterUnits(c)) /\ fat[h.cur] = Eoc
    BY <1>1 DEF WriteToNew, NextCluster
<1>3. Dir \in Owners /\ h.cur \in In(Dir)
    BY <1>1, PieceShapes DEF Owners
<1>4. chain'[Dir] = Append(chain[Dir], c) /\ chain[Dir] \in Seq(Clusters)
    BY <1>1, <1>2, <1>3, ExtendHolds DEF Types
<1>5. /\ Len(chain[Dir]) \in Nat /\ Len(chain'[Dir]) = Len(chain[Dir]) + 1
      /\ chain'[Dir][Len(chain[Dir]) + 1] = c
    BY <1>4
<1> DEFINE j == i \div PerCluster
<1> DEFINE r == i % PerCluster
<1>6. j \in Nat /\ r \in 0 .. PerCluster - 1
    BY DivisionIs, PerClusterIs
<1>7. j = Len(chain[Dir])
    <2>1. ~(j < Len(chain[Dir])) /\ j < Len(chain'[Dir])
        BY DEF Placed, PerCluster
    <2> HIDE DEF j
    <2> QED
        BY <1>5, <1>6, <2>1
<1>8. Place(Dir, i)' = (FirstUnit(chain'[Dir][j + 1]) + 0) + r
    BY DEF Place, Unit, FirstUnit, PerCluster
<1>9. Place(Dir, i)' \in ClusterUnits(c) /\ Place(Dir, i)' \in Units
    <2> HIDE DEF j, r
    <2>1. Place(Dir, i)' = (FirstUnit(c) + 0) + r
        BY <1>5, <1>7, <1>8
    <2> QED
        BY <1>6, <2>1, UnitsOfCluster
<1> QED
    BY <1>2, <1>9 DEF Transfer

\* A piece of a name is one unit, and no other position of the directory holds
\* anything new.
LEMMA DirWritten ==
    ASSUME Aligned, VolumeInv, Positions, WritePiece, op.h = Dir, cwd.size = 0
    PROVE  /\ op.pc = "write" /\ op.n = 1
           /\ op'.pc = "write" /\ op'.h = Dir /\ op'.name = op.name /\ op'.at = op.at
           /\ op'.val = op.val /\ op'.n = 0 /\ UNCHANGED <<entry, file>> /\ cwd'.size = 0
           /\ \E p \in Nat : /\ p = cwd.pos /\ cwd'.pos = p + 1
                             /\ Placed(Dir, p) /\ DirKept({p}) /\ DirUnit(p)' = op.val
<1>1. /\ Types /\ Whose /\ Dir \in Owners /\ op.pc = "write" /\ op.n > 0 /\ h = cwd /\ [Next]_vars
      /\ op'.pc = "write" /\ op'.h = op.h /\ op'.name = op.name /\ op'.at = op.at /\ op'.val = op.val
      /\ UNCHANGED <<entry, file>> /\ op'.n \in 0 .. op.n - Piece
      /\ cwd'.pos = cwd.pos + Piece /\ cwd'.size = cwd.size
    BY WriteLeaves DEF WritePiece, VolumeInv, Owners, h, Next
<1>2. op.n = 1 /\ Piece = 1 /\ op'.n = 0
    <2>1. op.n \in {0, 1} /\ Piece \in 1 .. op.n
        BY <1>1, HandleOfCall, PieceTypes DEF Positions
    <2> QED
        BY <1>1, <2>1
<1>3. PICK cleared : /\ Transfer(cleared)
                     /\ \A o \in Owners, p \in Nat : Placed(o, p) => Place(o, p) \notin cleared
    BY WriteLeaves DEF WritePiece
<1>4. PICK p \in Nat : p = cwd.pos
    BY <1>1 DEF Types, Handles
<1>5. Placed(Dir, p)
    <2>1. 0 \in 0 .. Piece - 1 /\ h.pos + 0 = p
        BY <1>1, <1>2, <1>4
    <2> QED
        BY <1>1, <2>1, PieceAt
<1>6. ASSUME NEW i \in Nat, Placed(Dir, i)
      PROVE  /\ Placed(Dir, i)' /\ Place(Dir, i)' = Place(Dir, i)
             /\ disk'[Place(Dir, i)'] = IF i = p THEN op.val ELSE disk[Place(Dir, i)]
    <2>1. Grows(Dir)
        BY <1>1, ChainsGrow
    <2>2. Placed(Dir, i)' /\ Place(Dir, i)' = Place(Dir, i)
        BY <1>1, <1>6, <2>1, PlacesStay
    <2>3. disk'[Place(Dir, i)'] = IF Dir = op.h /\ i \in h.pos .. h.pos + Piece - 1
                                  THEN op.val ELSE disk[Place(Dir, i)]
        BY <1>1, <1>3, <1>6, <2>1, PieceWrites
    <2>4. i \in h.pos .. h.pos + Piece - 1 <=> i = p
        BY <1>1, <1>2, <1>4
    <2> QED
        BY <2>2, <2>3, <2>4
<1>7. ASSUME NEW i \in Nat, ~Placed(Dir, i), Placed(Dir, i)'
      PROVE  disk'[Place(Dir, i)'] = Zero
    <2>1. CASE WriteToNew
        BY <1>7, <2>1, DirCleared
    <2>2. CASE ~WriteToNew
        BY <1>1, <1>7, <2>2, DirChain DEF Placed
    <2> QED
        BY <2>1, <2>2
<1>8. \A i \in Nat : i # p => DirUnit(i)' = DirUnit(i)
    BY <1>6, <1>7 DEF DirUnit
<1>9. DirUnit(p)' = op.val
    BY <1>5, <1>6 DEF DirUnit
<1>10. DirKept({p})
    BY <1>6, <1>8 DEF DirKept
<1> QED
    BY <1>1, <1>2, <1>4, <1>5, <1>9, <1>10

-----------------------------------------------------------------------------
(* The directory, step by step                                             *)

LEMMA DirUntouched ==
    ASSUME VolumeInv, [Next]_vars, UNCHANGED disk, ~WriteToNew
    PROVE  DirKept({})
BY DirChain, DirStays

\* Steps that write no name and take none away.
LEMMA ListedStays ==
    ASSUME Types, Listed, DirKept({}), ~NamesThere,
           \A f \in Files : (Exists(f)' <=> Exists(f)) /\ entry'[f].at = entry[f].at
    PROVE  Listed'
<1>1. /\ \A i \in Nat : DirUnit(i)' = DirUnit(i)
      /\ \A f, u : EntryAt(f, u) => EntryAt(f, u)'
    BY DirSame
<1>2. ASSUME NEW f \in Files, Exists(f)' PROVE EntryAt(f, entry[f].at)'
    <2>1. PICK u : u = entry[f].at
        OBVIOUS
    <2>2. EntryAt(f, u)' /\ entry'[f].at = u
        BY <1>1, <1>2, <2>1 DEF Listed
    <2> QED
        BY <2>2 DEF EntryAt
<1>3. \A f \in Files, i \in Nat : DirUnit(i)' = f => Exists(f)'
    BY <1>1 DEF Listed
<1>4. \A i, j \in Nat : i < j /\ DirUnit(i)' = Zero => DirUnit(j)' = Zero
    BY <1>1 DEF Listed
<1> QED
    BY <1>2, <1>3, <1>4 DEF Listed

LEMMA EnteredStays ==
    ASSUME Types, Entered, DirKept({}), cwd'.size = 0, ~NamesThere, ~Naming',
           \A f \in Files : (Exists(f)' <=> Exists(f)) /\ entry'[f].at = entry[f].at,
           op'.pc = "seek" /\ op'.h = Dir => \E p \in Nat : cwd'.pos = p /\ SlotAt(p)
    PROVE  Entered'
<1>1. Listed'
    BY ListedStays DEF Entered
<1>2. ASSUME LongToGo' PROVE SlotAt(cwd.pos)'
    <2>1. PICK p \in Nat : cwd'.pos = p /\ SlotAt(p)
        BY <1>2 DEF LongToGo, Naming
    <2>2. SlotAt(p)'
        BY <2>1, DirSame
    <2> QED
        BY <2>1, <2>2 DEF SlotAt, Vacant
<1> QED
    BY <1>1, <1>2 DEF Entered, ShortToGo, NamesThere, Naming

LEMMA LongNameEntered ==
    ASSUME VolumeInv, Positions, Entered, WriteLongName
    PROVE  Entered'
<1>1. /\ Types /\ op.pc = "seek" /\ op.h = Dir /\ [Next]_vars /\ UNCHANGED <<entry, disk>>
      /\ ~WriteToNew /\ ~Naming /\ ~NamesThere /\ LongToGo /\ cwd.size = 0
    BY DEF VolumeInv, WriteLongName, Next, WriteToNew, NamesThere, Naming, LongToGo, Entered
<1>2. DirKept({}) /\ \A f \in Files : (Exists(f)' <=> Exists(f)) /\ entry'[f].at = entry[f].at
    BY <1>1, DirUntouched DEF Exists
<1>3. PICK p \in Nat : p = cwd.pos /\ SlotAt(p)
    BY <1>1 DEF Entered, Types, Handles
<1>4. CASE op' = Idle
    <2>1. op'.pc = "idle" /\ cwd'.size = 0
        BY <1>1, <1>4 DEF WriteLongName, Idle, Loop, Rewound, Handle
    <2> QED
        BY <1>1, <1>2, <2>1, EnteredStays DEF Naming
<1>5. CASE op' # Idle
    <2>1. op'.pc = "write" /\ op'.h = Dir /\ op'.n = 1 /\ op'.val = LongName /\ UNCHANGED cwd
        BY <1>1, <1>5, NameAt
    <2>2. Listed'
        BY <1>1, <1>2, ListedStays DEF Entered
    <2>3. SlotAt(p)'
        BY <1>1, <1>2, <1>3, DirSame
    <2>4. SlotAt(cwd.pos)'
        BY <1>3, <2>1, <2>3 DEF SlotAt, Vacant
    <2> QED
        BY <1>1, <2>1, <2>2, <2>4 DEF Entered, ShortToGo, NamesThere, Naming
<1> QED
    BY <1>4, <1>5

LEMMA ShortNameEntered ==
    ASSUME VolumeInv, Positions, Entered, WriteShortName
    PROVE  Entered'
<1>1. /\ Types /\ Whose /\ op.pc = "write" /\ op.h = Dir /\ op.n = 0 /\ op.val = LongName
      /\ [Next]_vars /\ UNCHANGED <<entry, disk>> /\ ~WriteToNew /\ ~NamesThere /\ ShortToGo /\ cwd.size = 0
    BY DEF VolumeInv, WriteShortName, Next, WriteToNew, NamesThere, Naming, ShortToGo, Entered, Types, Ops
<1>2. DirKept({}) /\ \A f \in Files : (Exists(f)' <=> Exists(f)) /\ entry'[f].at = entry[f].at
    BY <1>1, DirUntouched DEF Exists
<1>3. op' # Idle
    BY <1>1 DEF WriteShortName, Loop, Types, Ops, Idle
<1>4. /\ op'.pc = "write" /\ op'.h = Dir /\ op'.n = 1 /\ op'.name = op.name /\ op'.val = op.name
      /\ UNCHANGED cwd /\ Placed(Dir, cwd.pos) /\ op'.at = Place(Dir, cwd.pos)
    BY <1>1, <1>3, NameAt
<1>5. op.name \in Files /\ op.name # LongName
    BY <1>1, VolumeAssumption, ClustersAre DEF Whose, Types, Handles
<1>6. PICK p \in Nat : p = cwd.pos
    BY <1>1 DEF Types, Handles
<1>7. p > 0 /\ DirUnit(p - 1) = LongName /\ DirUnit(p) \in {Zero, Deleted} /\ p - 1 \in Nat
    BY <1>1, <1>6 DEF Entered
<1>8. DirUnit(p - 1)' = LongName /\ DirUnit(p)' \in {Zero, Deleted}
    BY <1>1, <1>2, <1>7, DirSame
<1>9. Placed(Dir, p)' /\ Place(Dir, p)' = op'.at
    BY <1>2, <1>4, <1>6 DEF DirKept
<1>10. Listed'
    BY <1>1, <1>2, ListedStays DEF Entered
<1>11. /\ DirUnit(cwd.pos - 1)' = LongName /\ DirUnit(cwd.pos)' \in {Zero, Deleted}
       /\ Placed(Dir, cwd.pos)' /\ op'.at = Place(Dir, cwd.pos)'
    BY <1>4, <1>6, <1>8, <1>9 DEF DirUnit, Placed, Place
<1> QED
    BY <1>1, <1>4, <1>5, <1>6, <1>7, <1>10, <1>11 DEF Entered, LongToGo, NamesThere, Naming

\* What is neither a name nor a long name entry is overwritten with v.
LEMMA EntriesKept ==
    ASSUME Types, Entered, NEW p \in Nat, DirKept({p}), DirUnit(p) \in {Zero, Deleted},
           UNCHANGED entry, \A f \in Files : Exists(f) => DirUnit(p)' # f,
           NEW f \in Files, Exists(f)'
    PROVE  EntryAt(f, entry[f].at)'
<1>1. DirUnit(p) \notin Files \cup {LongName}
    BY VolumeAssumption
<1>2. PICK u : u = entry[f].at
    OBVIOUS
<1>3. Exists(f) /\ EntryAt(f, u)
    BY <1>2 DEF Exists, Entered, Listed
<1>4. EntryAt(f, u)'
    BY <1>1, <1>3, EntryKept
<1> QED
    BY <1>2, <1>4 DEF EntryAt

LEMMA LongWrittenEntered ==
    ASSUME Aligned, VolumeInv, Positions, Entered, WritePiece, op.h = Dir, op.val = LongName
    PROVE  Entered'
<1>1. /\ Types /\ op.pc = "write" /\ op.n = 1 /\ cwd.size = 0
      /\ op'.pc = "write" /\ op'.h = Dir /\ op'.val = LongName /\ op'.n = 0
      /\ UNCHANGED entry /\ cwd'.size = 0
    BY DirWritten DEF VolumeInv, Entered
<1>2. PICK p \in Nat : /\ p = cwd.pos /\ cwd'.pos = p + 1
                       /\ Placed(Dir, p) /\ DirKept({p}) /\ DirUnit(p)' = LongName
    BY DirWritten DEF Entered
<1>3. SlotAt(p)
    BY <1>1, <1>2 DEF Entered, LongToGo, Naming
<1>4. DirUnit(p) \in {Zero, Deleted} /\ p + 1 \in Nat
    BY <1>3 DEF SlotAt, Vacant
<1>5. DirUnit(p + 1) \in {Zero, Deleted}
    <2>1. CASE DirUnit(p) = Zero
        BY <1>4, <2>1 DEF Entered, Listed
    <2>2. CASE DirUnit(p) # Zero
        BY <1>3, <2>2 DEF SlotAt, Vacant
    <2> QED
        BY <2>1, <2>2
<1>6. \A i \in Nat : i # p => DirUnit(i)' = DirUnit(i)
    BY <1>2 DEF DirKept
<1>7. LongName \notin Files /\ LongName # Zero
    BY VolumeAssumption
<1>8. Listed'
    <2>1. \A f \in Files : Exists(f)' => EntryAt(f, entry[f].at)'
        BY <1>1, <1>2, <1>4, <1>7, EntriesKept
    <2>2. ~NamesThere /\ \A f \in Files : Exists(f)' <=> Exists(f)
        BY <1>1 DEF NamesThere, Exists
    <2>3. \A f \in Files, i \in Nat : DirUnit(i)' = f => Exists(f)'
        BY <1>2, <1>6, <1>7, <2>2 DEF Entered, Listed
    <2>4. ASSUME NEW i \in Nat, NEW j \in Nat, i < j, DirUnit(i)' = Zero PROVE DirUnit(j)' = Zero
        <3>1. i # p /\ DirUnit(i) = Zero
            BY <1>2, <1>6, <1>7, <2>4
        <3>2. i > p /\ j # p
            BY <1>3, <2>4, <3>1 DEF SlotAt
        <3> QED
            BY <1>6, <2>4, <3>1, <3>2 DEF Entered, Listed
    <2> QED
        BY <2>1, <2>3, <2>4 DEF Listed
<1>9. DirUnit((p + 1) - 1)' = LongName /\ DirUnit(p + 1)' \in {Zero, Deleted} /\ p + 1 > 0
    <2>1. (p + 1) - 1 = p /\ p + 1 # p
        OBVIOUS
    <2> QED
        BY <1>2, <1>4, <1>5, <1>6, <2>1
<1>10. cwd'.pos > 0 /\ DirUnit(cwd.pos - 1)' = LongName /\ DirUnit(cwd.pos)' \in {Zero, Deleted}
    BY <1>2, <1>9 DEF DirUnit, Placed, Place
<1> QED
    BY <1>1, <1>8, <1>10 DEF Entered, LongToGo, ShortToGo, NamesThere, Naming

LEMMA ShortWrittenEntered ==
    ASSUME Aligned, VolumeInv, Positions, Entered, WritePiece, op.h = Dir, op.val # LongName
    PROVE  Entered'
<1>1. /\ Types /\ Whose /\ op.pc = "write" /\ op.n = 1 /\ cwd.size = 0
      /\ op'.pc = "write" /\ op'.h = Dir /\ op'.val = op.val /\ op'.n = 0
      /\ op'.name = op.name /\ op'.at = op.at /\ UNCHANGED entry /\ cwd'.size = 0
    BY DirWritten DEF VolumeInv, Entered
<1>2. PICK p \in Nat : /\ p = cwd.pos /\ cwd'.pos = p + 1
                       /\ Placed(Dir, p) /\ DirKept({p}) /\ DirUnit(p)' = op.val
    BY DirWritten DEF Entered
<1>3. /\ p > 0 /\ DirUnit(p - 1) = LongName /\ DirUnit(p) \in {Zero, Deleted}
      /\ op.at = Place(Dir, p) /\ op.val = op.name
    BY <1>1, <1>2 DEF Entered, ShortToGo, Naming
<1>4. PICK g \in Files : g = op.name /\ ~Exists(g)
    BY <1>1, ClustersAre DEF Whose, Types, Handles, Exists
<1>5. g # LongName /\ g # Zero /\ LongName # Zero /\ g # Deleted
    BY VolumeAssumption
<1>6. \A i \in Nat : i # p => DirUnit(i)' = DirUnit(i)
    BY <1>2 DEF DirKept
<1>7. p - 1 \in Nat /\ p - 1 # p
    BY <1>3
<1>8. ~NamesThere /\ NamesThere' /\ \A f \in Files : Exists(f)' <=> Exists(f)
    BY <1>1 DEF NamesThere, Naming, Exists
<1>9. EntryAt(g, op.at)'
    <2>1. Placed(Dir, p)' /\ op'.at = Place(Dir, p)'
        BY <1>1, <1>2, <1>3 DEF DirKept
    <2>2. DirUnit(p - 1)' = LongName
        BY <1>3, <1>6, <1>7
    <2>3. \A i \in Nat : DirUnit(i)' = g <=> i = p
        BY <1>2, <1>3, <1>4, <1>6, <1>8 DEF Entered, Listed
    <2> QED
        BY <1>3, <2>1, <2>2, <2>3 DEF EntryAt
<1>10. Listed'
    <2>1. \A f \in Files : Exists(f)' => EntryAt(f, entry[f].at)'
        <3>1. \A f \in Files : Exists(f) => DirUnit(p)' # f
            BY <1>2, <1>3, <1>4
        <3> QED
            BY <1>1, <1>2, <1>3, <3>1, EntriesKept
    <2>2. ASSUME NEW f \in Files, NEW i \in Nat, DirUnit(i)' = f
          PROVE  Exists(f)' \/ (NamesThere' /\ op'.name = f)
        <3>1. CASE i = p
            BY <1>1, <1>2, <1>3, <1>8, <2>2, <3>1
        <3>2. CASE i # p
            BY <1>6, <1>8, <2>2, <3>2 DEF Entered, Listed
        <3> QED
            BY <3>1, <3>2
    <2>3. ASSUME NEW i \in Nat, NEW j \in Nat, i < j, DirUnit(i)' = Zero PROVE DirUnit(j)' = Zero
        <3>1. i # p /\ DirUnit(i) = Zero
            BY <1>2, <1>3, <1>4, <1>5, <1>6, <2>3
        <3>2. j # p
            <4> SUFFICES ASSUME j = p PROVE FALSE
                OBVIOUS
            <4>1. i < p - 1 \/ i = p - 1
                BY <2>3
            <4>2. DirUnit(p - 1) = Zero
                BY <1>7, <3>1, <4>1 DEF Entered, Listed
            <4> QED
                BY <1>3, <1>5, <4>2
        <3> QED
            BY <1>6, <2>3, <3>1, <3>2 DEF Entered, Listed
    <2> QED
        BY <2>1, <2>2, <2>3 DEF Listed
<1>11. EntryAt(op.name, op.at)'
    BY <1>1, <1>4, <1>9 DEF EntryAt, DirUnit, Placed, Place
<1> QED
    BY <1>1, <1>3, <1>4, <1>5, <1>10, <1>11 DEF Entered, LongToGo, ShortToGo, NamesThere, Naming

LEMMA CreateReturnEntered ==
    ASSUME VolumeInv, Entered, CreateReturns
    PROVE  Entered'
<1>1. /\ Types /\ Whose /\ op.pc = "write" /\ op.h = Dir /\ op.n = 0 /\ op.val = op.name
      /\ entry' = [entry EXCEPT ![op.name] = [first |-> 0, size |-> 0, at |-> op.at]]
      /\ cwd'.size = 0 /\ op'.pc = "idle" /\ UNCHANGED disk /\ ~WriteToNew /\ [Next]_vars
    BY DEF VolumeInv, CreateReturns, Rewound, Handle, Idle, Next, WriteToNew, Types, Ops
<1>2. PICK g \in Files : g = op.name
    BY <1>1, ClustersAre DEF Whose, Types, Handles
<1>3. g # LongName
    BY VolumeAssumption
<1>4. NamesThere /\ EntryAt(g, op.at)
    BY <1>1, <1>2, <1>3 DEF Entered, NamesThere, Naming
<1>5. DirKept({})
    BY <1>1, DirUntouched
<1>6. /\ \A i \in Nat : DirUnit(i)' = DirUnit(i)
      /\ \A f, u : EntryAt(f, u) => EntryAt(f, u)'
    BY <1>1, <1>5, DirSame
<1>7. /\ entry'[g] = [first |-> 0, size |-> 0, at |-> op.at]
      /\ \A f \in Files \ {g} : entry'[f] = entry[f]
    BY <1>1, <1>2 DEF Types
<1>8. Exists(g)'
    <2>1. PICK k \in Nat : Placed(Dir, k) /\ op.at = Place(Dir, k)
        BY <1>4 DEF EntryAt
    <2>2. op.at \in Nat
        BY <1>1, <2>1, PlaceOf DEF Owners
    <2>3. entry'[g].at = op.at /\ NoEntry.at = -1
        BY <1>7 DEF NoEntry
    <2> QED
        BY <2>2, <2>3 DEF Exists
<1>9. ASSUME NEW f \in Files, Exists(f)' PROVE EntryAt(f, entry[f].at)'
    <2>1. PICK u : u = entry'[f].at
        OBVIOUS
    <2>2. EntryAt(f, u)
        <3>1. CASE f = g
            BY <1>4, <1>7, <2>1, <3>1
        <3>2. CASE f # g
            <4>1. Exists(f) /\ entry[f].at = u
                BY <1>7, <1>9, <2>1, <3>2 DEF Exists
            <4> QED
                BY <4>1 DEF Entered, Listed
        <3> QED
            BY <3>1, <3>2
    <2>3. EntryAt(f, u)'
        BY <1>6, <2>2
    <2> QED
        BY <2>1, <2>3 DEF EntryAt
<1>10. \A f \in Files, i \in Nat : DirUnit(i)' = f => Exists(f)'
    <2>1. \A f \in Files : Exists(f) => Exists(f)'
        BY <1>7, <1>8 DEF Exists
    <2> QED
        BY <1>2, <1>6, <1>8, <2>1 DEF Entered, Listed
<1>11. Listed'
    BY <1>6, <1>9, <1>10 DEF Entered, Listed
<1> QED
    BY <1>1, <1>11 DEF Entered, LongToGo, ShortToGo, NamesThere, Naming

\* The entry of the file is found where fat_create wrote it.
LEMMA UnlinkReturnEntered ==
    ASSUME VolumeInv, Entered, UnlinkReturns
    PROVE  Entered'
<1>1. /\ Types /\ Whose /\ ChainsDisjoint /\ Dir \in Owners /\ op.pc = "unlink" /\ op.name \in Files
      /\ disk' = [disk EXCEPT ![entry[op.name].at] = Deleted]
      /\ entry' = [entry EXCEPT ![op.name] = NoEntry]
      /\ op'.pc = "idle" /\ UNCHANGED <<cwd, chain>> /\ cwd.size = 0 /\ [Next]_vars
    BY DEF VolumeInv, Held, Whose, UnlinkReturns, Idle, Next, Owners, Entered
<1> PICK g \in Files : g = op.name
    BY <1>1
<1>2. /\ entry'[g] = NoEntry /\ \A f \in Files \ {g} : entry'[f] = entry[f]
      /\ ~Exists(g)' /\ \A f \in Files \ {g} : Exists(f)' <=> Exists(f)
    BY <1>1 DEF Types, Exists
<1>3. /\ ~NamesThere /\ Deleted \notin Files \cup {LongName, Zero} /\ LongName \notin Files
      /\ Zero \notin Files
    BY <1>1, VolumeAssumption DEF NamesThere, Naming
<1>4. CASE ~Exists(g)
    <2>1. UNCHANGED disk
        <3>1. entry[g].at = -1
            BY <1>4 DEF Exists, NoEntry
        <3>2. Root \in Clusters
            BY VolumeAssumption
        <3>3. -1 \notin Units
            BY <3>2, UnitsOfCluster
        <3> QED
            BY <1>1, <3>1, <3>3 DEF Types
    <2>2. DirKept({})
        BY <1>1, <2>1, DirStays
    <2>3. UNCHANGED entry
        BY <1>1, <1>4 DEF Exists, Types
    <2>4. Listed'
        BY <1>1, <1>3, <2>2, <2>3, ListedStays DEF Entered, Exists
    <2> QED
        BY <1>1, <2>4 DEF Entered, LongToGo, ShortToGo, NamesThere, Naming
<1>5. CASE Exists(g)
    <2>1. PICK k \in Nat \ {0} :
              /\ Placed(Dir, k) /\ entry[g].at = Place(Dir, k) /\ DirUnit(k - 1) = LongName
              /\ \A i \in Nat : DirUnit(i) = g <=> i = k
        BY <1>5 DEF Entered, Listed, EntryAt
    <2>2. Place(Dir, k) \in Units /\ disk'[Place(Dir, k)] = Deleted
        BY <1>1, <2>1, PlaceOf DEF Types
    <2>3. \A i \in Nat \ {k} : Placed(Dir, i) => disk'[Place(Dir, i)] = disk[Place(Dir, i)]
        <3> SUFFICES ASSUME NEW i \in Nat \ {k}, Placed(Dir, i)
                     PROVE  disk'[Place(Dir, i)] = disk[Place(Dir, i)]
            OBVIOUS
        <3>1. Place(Dir, i) # Place(Dir, k)
            BY <1>1, <2>1, PlacesApart
        <3>2. Place(Dir, i) \in Units
            BY <1>1, PlaceOf
        <3> QED
            BY <1>1, <2>1, <3>1, <3>2 DEF Types
    <2>4. DirKept({k})
        BY <1>1, <2>3, DirStays
    <2>5. DirUnit(k)' = Deleted /\ \A i \in Nat : i # k => DirUnit(i)' = DirUnit(i)
        BY <1>1, <2>1, <2>2, <2>4 DEF DirKept, DirUnit, Placed, Place
    <2>6. ASSUME NEW f \in Files, Exists(f)' PROVE EntryAt(f, entry[f].at)'
        <3>1. f # g /\ Exists(f) /\ entry'[f] = entry[f]
            BY <1>2, <2>6
        <3>2. PICK m \in Nat \ {0} :
                  /\ Placed(Dir, m) /\ entry[f].at = Place(Dir, m) /\ DirUnit(m - 1) = LongName
                  /\ \A i \in Nat : DirUnit(i) = f <=> i = m
            BY <3>1 DEF Entered, Listed, EntryAt
        <3>3. DirUnit(k) = g
            BY <2>1
        <3>4. m # k /\ m - 1 # k /\ m - 1 \in Nat
            BY <1>3, <3>1, <3>2, <3>3
        <3>5. DirUnit(m - 1)' = LongName /\ \A i \in Nat : DirUnit(i)' = f <=> i = m
            BY <1>3, <2>5, <3>2, <3>4
        <3>6. Placed(Dir, m)' /\ entry'[f].at = Place(Dir, m)'
            BY <2>4, <3>1, <3>2 DEF DirKept
        <3> QED
            BY <3>2, <3>5, <3>6 DEF EntryAt
    <2>7. \A f \in Files, i \in Nat : DirUnit(i)' = f => Exists(f)'
        BY <1>2, <1>3, <2>1, <2>5 DEF Entered, Listed
    <2>8. ASSUME NEW i \in Nat, NEW j \in Nat, i < j, DirUnit(i)' = Zero PROVE DirUnit(j)' = Zero
        <3>1. i # k /\ DirUnit(i) = Zero
            BY <1>3, <2>5, <2>8
        <3>2. DirUnit(j) = Zero
            BY <2>8, <3>1 DEF Entered, Listed
        <3>3. DirUnit(k) # Zero
            BY <1>3, <2>1
        <3> QED
            BY <2>5, <3>2, <3>3
    <2>9. Listed'
        BY <2>6, <2>7, <2>8 DEF Listed
    <2> QED
        BY <1>1, <2>9 DEF Entered, LongToGo, ShortToGo, NamesThere, Naming
<1> QED
    BY <1>4, <1>5

LEMMA CreateEntered ==
    ASSUME VolumeInv, Entered, NEW f \in Files, fat_create(f)
    PROVE  Entered'
<1>1. /\ Types /\ op.pc = "idle" /\ op'.pc = "seek" /\ cwd'.pos = EmptySlot /\ cwd'.size = 0
      /\ UNCHANGED <<entry, disk>> /\ ~WriteToNew /\ [Next]_vars
    BY DEF VolumeInv, fat_create, Idle, Next, WriteToNew, Types, Handles, Entered
<1>2. EmptySlot \in Nat /\ SlotAt(EmptySlot)
    <2> DEFINE top == Len(chain[Dir]) * SPC * BPS
    <2>1. EmptySlot \in 0 .. top /\ Vacant(EmptySlot) /\ \A i \in Nat : i < EmptySlot => ~Vacant(i)
        BY <1>1, EmptySlotIs
    <2> HIDE DEF top
    <2>2. EmptySlot \in Nat
        BY <2>1
    <2> QED
        BY <2>1, <2>2 DEF SlotAt, Vacant
<1>3. DirKept({})
    BY <1>1, DirUntouched
<1> QED
    BY <1>1, <1>2, <1>3, EnteredStays DEF NamesThere, Naming, Exists

LEMMA FileWrittenEntered ==
    ASSUME Aligned, VolumeInv, Positions, Entered, WritePiece, op.h # Dir
    PROVE  Entered'
<1>1. /\ Types /\ op.pc = "write" /\ op.n > 0 /\ op'.pc = "write" /\ op'.h = op.h
      /\ UNCHANGED <<entry, cwd>> /\ cwd.size = 0 /\ [Next]_vars /\ Dir \in Owners
    BY WriteLeaves DEF WritePiece, VolumeInv, Next, Owners, Entered
<1>2. PICK cleared : /\ Transfer(cleared)
                     /\ \A o \in Owners, p \in Nat : Placed(o, p) => Place(o, p) \notin cleared
    BY WriteLeaves DEF WritePiece
<1>3. chain'[Dir] = chain[Dir] /\ Grows(Dir)
    BY <1>1, DirChain, ChainsGrow
<1>4. ASSUME NEW i \in Nat, Placed(Dir, i) PROVE disk'[Place(Dir, i)] = disk[Place(Dir, i)]
    <2>1. disk'[Place(Dir, i)'] = disk[Place(Dir, i)]
        BY <1>1, <1>2, <1>3, <1>4, PieceWrites
    <2>2. Place(Dir, i)' = Place(Dir, i)
        BY <1>1, <1>3, <1>4, PlacesStay
    <2> QED
        BY <2>1, <2>2
<1>5. DirKept({})
    BY <1>1, <1>3, <1>4, DirStays
<1> QED
    BY <1>1, <1>5, EnteredStays DEF NamesThere, Naming, Exists

LEMMA WriteReturnEntered ==
    ASSUME VolumeInv, Named, Entered, WriteReturns
    PROVE  Entered'
<1>1. /\ Types /\ op.pc = "write" /\ op.h # Dir /\ op'.pc = "idle" /\ UNCHANGED <<disk, cwd>>
      /\ cwd.size = 0 /\ ~WriteToNew /\ [Next]_vars /\ file.of \in Files /\ Exists(file.of)
    BY DEF VolumeInv, WriteReturns, Idle, Next, WriteToNew, Entered, Whose, Named, Types, Ops
<1> PICK g \in Files : g = file.of
    BY <1>1
<1>2. \A f \in Files : (Exists(f)' <=> Exists(f)) /\ entry'[f].at = entry[f].at
    <2>1. CASE file.pos > file.size
        <3>1. entry' = [entry EXCEPT ![g].first = file.first, ![g].size = file.pos] /\ entry[g] \in Entries
            BY <1>1, <2>1 DEF WriteReturns, Types
        <3>2. /\ entry'[g].size = file.pos /\ entry'[g].at = entry[g].at
              /\ \A f \in Files \ {g} : entry'[f] = entry[f]
            BY <1>1, <3>1 DEF Types, Entries
        <3>3. NoEntry.size = 0 /\ file.pos > 0
            BY <1>1, <2>1 DEF NoEntry, Types, Handles
        <3> QED
            BY <1>1, <3>2, <3>3 DEF Exists
    <2>2. CASE ~(file.pos > file.size)
        BY <2>2 DEF WriteReturns, Exists
    <2> QED
        BY <2>1, <2>2
<1>3. DirKept({})
    BY <1>1, DirUntouched
<1> QED
    BY <1>1, <1>2, <1>3, EnteredStays DEF NamesThere, Naming

LEMMA EnteredStep ==
    ASSUME Aligned, VolumeInv, Positions, Named, Entered, [Next]_vars
    PROVE  Entered'
<1>1. Types /\ Whose /\ op \in Ops /\ cwd.size = 0 /\ Dir # NoFile /\ file.of # Dir
    BY ClustersAre DEF VolumeInv, Types, Entered, Handles
<1>2. ASSUME UNCHANGED <<entry, disk>>, ~WriteToNew, cwd'.size = 0, ~NamesThere, ~Naming',
             op'.pc = "seek" /\ op'.h = Dir => op.pc = "seek" /\ op.h = Dir /\ cwd'.pos = cwd.pos
      PROVE  Entered'
    <2>1. DirKept({})
        BY <1>2, DirUntouched
    <2>2. op'.pc = "seek" /\ op'.h = Dir => \E p \in Nat : cwd'.pos = p /\ SlotAt(p)
        BY <1>1, <1>2 DEF Entered, LongToGo, Types, Handles
    <2> QED
        BY <1>1, <1>2, <2>1, <2>2, EnteredStays DEF Exists
<1>3. CASE UNCHANGED vars
    BY <1>3 DEF vars, Entered, Listed, EntryAt, SlotAt, Vacant, LongToGo, ShortToGo, NamesThere, Naming,
                DirUnit, Placed, Place, Exists
<1>4. ASSUME NEW f \in Files, fat_open(f) \/ fat_unlink(f) PROVE Entered'
    <2>1. op.pc = "idle" /\ UNCHANGED <<entry, disk, cwd>>
        BY <1>4 DEF fat_open, fat_unlink, Idle
    <2>2. op'.pc \in {"idle", "unlink"}
        BY <1>4, <2>1 DEF fat_open, fat_unlink, Idle
    <2> QED
        BY <1>1, <1>2, <2>1, <2>2 DEF NamesThere, Naming, WriteToNew
<1>5. ASSUME NEW f \in Files, fat_create(f) PROVE Entered'
    BY <1>5, CreateEntered
<1>6. CASE WriteLongName \/ WriteShortName \/ CreateReturns \/ UnlinkReturns
    BY <1>6, LongNameEntered, ShortNameEntered, CreateReturnEntered, UnlinkReturnEntered
<1>7. CASE fat_chain_unlink
    <2>1. op.pc = "unlink" /\ op'.pc = "unlink" /\ UNCHANGED <<entry, disk, cwd>> /\ ~WriteToNew
        BY <1>1, <1>7 DEF fat_chain_unlink, Ops, WriteToNew
    <2> QED
        BY <1>1, <1>2, <2>1 DEF NamesThere, Naming
<1>8. ASSUME NEW p \in 0 .. file.size, fat_lseek(p) PROVE Entered'
    <2>1. /\ op.pc = "idle" /\ op'.pc = "seek" /\ op'.h = file.of
          /\ UNCHANGED <<entry, disk, cwd>> /\ ~WriteToNew
        BY <1>8 DEF fat_lseek, Idle, WriteToNew
    <2> QED
        BY <1>1, <1>2, <2>1 DEF NamesThere, Naming
<1>9. CASE SeekCluster
    <2>1. /\ op.pc = "seek" /\ op'.pc = "seek" /\ op'.h = op.h /\ UNCHANGED <<entry, disk>> /\ ~WriteToNew
        BY <1>1, <1>9 DEF SeekCluster, Ops, WriteToNew
    <2>2. cwd'.size = cwd.size /\ cwd'.pos = cwd.pos
        BY <1>1, <1>9 DEF SeekCluster, SetHandle, h, Types, Handles
    <2> QED
        BY <1>1, <1>2, <2>1, <2>2 DEF NamesThere, Naming
<1>10. CASE LseekReturns \/ ReadReturns
    <2>1. /\ op.pc \in {"seek", "read"} /\ op'.pc = "idle" /\ UNCHANGED <<entry, disk, cwd>> /\ ~WriteToNew
        BY <1>10 DEF LseekReturns, ReadReturns, Idle, WriteToNew
    <2> QED
        BY <1>1, <1>2, <2>1 DEF NamesThere, Naming
<1>11. ASSUME NEW n \in Nat \ {0}, NEW v \in Values, fat_write(n, v) PROVE Entered'
    <2>1. op.pc = "idle" /\ UNCHANGED <<entry, disk, cwd>> /\ ~WriteToNew /\ file'.of = file.of
        BY <1>1, <1>11 DEF fat_write, Idle, WriteToNew, Types, Handles
    <2>2. op'.pc = "write" /\ op'.h = file.of
        BY <1>1, <1>11, <2>1 DEF fat_write, Loop, Ops
    <2> QED
        BY <1>1, <1>2, <2>1, <2>2 DEF NamesThere, Naming
<1>12. CASE WritePiece
    BY <1>12, LongWrittenEntered, ShortWrittenEntered, FileWrittenEntered
<1>13. CASE WriteReturns
    BY <1>13, WriteReturnEntered
<1>14. ASSUME NEW n \in Nat \ {0}, fat_read(n) PROVE Entered'
    <2>1. op.pc = "idle" /\ op'.pc = "read" /\ UNCHANGED <<entry, disk, cwd>> /\ ~WriteToNew
        BY <1>1, <1>14 DEF fat_read, Loop, Ops, Idle, WriteToNew
    <2> QED
        BY <1>1, <1>2, <2>1 DEF NamesThere, Naming
<1>15. CASE ReadPiece
    <2>1. op.pc = "read" /\ op.n > 0 /\ UNCHANGED <<entry, disk>> /\ ~WriteToNew /\ op.h # Dir
        BY <1>1, <1>15, ClustersAre DEF ReadPiece, WriteToNew, Whose
    <2>2. fat[h.cur] \in Links /\ Eoc \in Links
        BY <1>1, <2>1, PieceShapes DEF Types, Links
    <2>3. op'.pc = "read" /\ UNCHANGED cwd
        BY <1>15, <2>1, <2>2, PieceLeaves DEF ReadPiece, NextCluster
    <2> QED
        BY <1>1, <1>2, <2>1, <2>3 DEF NamesThere, Naming
<1> QED
    BY <1>3, <1>4, <1>5, <1>6, <1>7, <1>8, <1>9, <1>10, <1>11, <1>12, <1>13, <1>14, <1>15
    DEF Next, WritePiece

LEMMA InitEntered == Init => Entered
<1> SUFFICES ASSUME Init PROVE Entered
    OBVIOUS
<1>1. /\ Types /\ op.pc = "idle" /\ Dir \in Owners /\ \A f \in Files : ~Exists(f)
      /\ cwd.size = 0 /\ \A u \in Units : disk[u] = Zero
    BY InitVolume DEF Init, VolumeInv, Idle, Owners, Exists, Rewound, Handle
<1>2. \A i \in Nat : DirUnit(i) = Zero
    BY <1>1, PlaceOf DEF DirUnit
<1>3. Zero \notin Files
    BY VolumeAssumption
<1> QED
    BY <1>1, <1>2, <1>3 DEF Entered, Listed, LongToGo, ShortToGo, NamesThere, Naming

\* Where every cluster starts at a multiple of its size, and the caller heeds the
\* free space, every file has its entry in the directory, behind a long name
\* entry, at the unit that fat_file_sync and fat_unlink go to, and no other unit
\* passes for one: whatever slots deletions leave, and wherever the directory
\* grows by a cluster.
THEOREM EntriesStayIntact ==
    ASSUME Aligned
    PROVE  HeedingSpec => []EntriesIntact
<1>1. HeedingSpec => [](VolumeInv /\ Positions /\ Named)
    BY NamedInvariant
<1>2. VolumeInv /\ Positions /\ Named /\ Entered /\ [Next]_vars => Entered'
    BY EnteredStep
<1>3. VolumeInv /\ Entered => EntriesIntact
    BY EntriesIntactHolds
<1> QED
    BY <1>1, <1>2, <1>3, InitEntered, PTL DEF HeedingSpec, Spec

=============================================================================
