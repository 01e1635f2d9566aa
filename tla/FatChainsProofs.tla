--------------------------- MODULE FatChainsProofs --------------------------
(***************************************************************************)
(* What the FAT, the directories and the data on the card have in common   *)
(* at every access: chains that end and share nothing, and entries that    *)
(* have their lines behind them.  A power cut leaves one of the states     *)
(* that were the newest at some time, so each step is looked at for what   *)
(* it does to the newest state alone.                                      *)
(***************************************************************************)
EXTENDS FatUpdatesProofs

-----------------------------------------------------------------------------
(* The newest state of the card, and what a power cut leaves of it         *)

Newest == [l \in DOMAIN card |-> IF dirty /\ l = FirstLba + sector THEN buf ELSE card[l]]

Alike(a, b) == \A s \in Sectors : a[FirstLba + s] = b[FirstLba + s]

\* No sector has new contents; what a power cut may leave was the newest.
KeptImages ==
    /\ Alike(Newest', Newest)
    /\ \A img \in Survivors' : Alike(img, Newest) \/ \E i \in Survivors : Alike(img, i)

\* One sector has new contents.
WrittenImages(s, d) ==
    /\ \A t \in Sectors : Newest'[FirstLba + t] = IF t = s THEN d ELSE Newest[FirstLba + t]
    /\ \A img \in Survivors' :
          Alike(img, Newest) \/ Alike(img, Newest') \/ \E i \in Survivors : Alike(img, i)

LEMMA BlocksAre ==
    /\ \A s \in Sectors : s \in Nat /\ FirstLba + s \in 0 .. FirstLba + Last
    /\ \A s, t \in Sectors : FirstLba + s = FirstLba + t <=> s = t
<1>1. \A s \in Sectors : s \in Nat /\ s <= Last
    BY ConstantsAre DEF Sectors, Last, DataSector
<1>2. FirstLba \in Nat /\ Last \in Nat
    BY ConstantsAre DEF Last, DataSector
<1> QED
    BY <1>1, <1>2

LEMMA NewestIs ==
    ASSUME CacheInv
    PROVE  /\ \A s \in Sectors :
                  Newest[FirstLba + s] = IF dirty /\ sector = s THEN buf ELSE card[FirstLba + s]
           /\ CardHolds(Newest)
<1>1. \A s \in Sectors : FirstLba + s \in DOMAIN card
    BY BlocksAre DEF CacheInv, CardHolds
<1>2. dirty => sector \in Sectors
    BY DEF CacheInv
<1>3. \A s \in Sectors :
          Newest[FirstLba + s] = IF dirty /\ sector = s THEN buf ELSE card[FirstLba + s]
    BY <1>1, <1>2, BlocksAre DEF Newest
<1>4. \A s \in Sectors : Holds(s, Newest[FirstLba + s])
    BY <1>3 DEF CacheInv, CardHolds
<1>5. DOMAIN Newest = DOMAIN card /\ Newest[Mbr] = card[Mbr]
    <2>1. Mbr \in DOMAIN card
        BY ConstantsAre DEF CacheInv, CardHolds, Mbr, Last, DataSector
    <2>2. dirty => FirstLba + sector # Mbr
        BY <1>2, BlocksAre, ConstantsAre DEF Mbr
    <2> QED
        BY <2>1, <2>2 DEF Newest
<1> QED
    BY <1>3, <1>4, <1>5 DEF CacheInv, CardHolds

\* Behind a write-back the card is the newest, and was what the block at risk
\* brings back.
LEMMA BackIsNewest ==
    ASSUME CacheInv, first_lba = FirstLba, UNCHANGED lines, WriteBack
    PROVE  /\ Alike(card', Newest)
           /\ \A img \in Survivors' : Alike(img, Newest) \/ \E i \in Survivors : Alike(img, i)
<1>1. /\ \A t \in Sectors : t # sector => card'[FirstLba + t] = card[FirstLba + t]
      /\ dirty => card'[FirstLba + sector] = buf
      /\ ~dirty => UNCHANGED card
      /\ DOMAIN card' = DOMAIN card
    BY RoomKeepsCard
<1>2. Alike(card', Newest)
    BY <1>1, NewestIs DEF Alike
<1>3. CASE ~dirty
    <2>1. Survivors' = Survivors
        BY <1>3 DEF WriteBack, Survivors
    <2>2. \A img : Alike(img, img)
        BY DEF Alike
    <2> QED
        BY <1>2, <2>1, <2>2
<1>4. CASE dirty
    <2>1. WriteSector(sector, buf) /\ sector \in Sectors
        BY <1>4 DEF WriteBack, CacheInv
    <2>2. undo' = [l \in {FirstLba + sector} |-> card[l]]
        BY <2>1 DEF WriteSector, Lba
    <2> DEFINE undone == [l \in DOMAIN card' |-> IF l \in DOMAIN undo' THEN undo'[l] ELSE card'[l]]
    <2>3. ASSUME NEW s \in Sectors PROVE undone[FirstLba + s] = card[FirstLba + s]
        <3>1. FirstLba + s \in DOMAIN card
            BY CurrentHolds
        <3>2. FirstLba + s \in DOMAIN undo' <=> s = sector
            BY <2>1, <2>2, BlocksAre
        <3> QED
            BY <1>1, <2>2, <3>1, <3>2
    <2>4. Alike(undone, card)
        BY <2>3 DEF Alike
    <2>5. Survivors' = {card', undone} /\ card \in Survivors
        BY DEF Survivors
    <2> QED
        BY <1>2, <2>4, <2>5
<1> QED
    BY <1>2, <1>3, <1>4

LEMMA UntouchedImages ==
    ASSUME UNCHANGED <<card, undo, sector, dirty>>, buf' = buf \/ ~dirty
    PROVE  KeptImages
<1>1. Survivors' = Survivors
    BY DEF Survivors
<1>2. Newest' = Newest
    BY DEF Newest
<1> QED
    BY <1>1, <1>2 DEF KeptImages, Alike

\* The buffer has been written back and holds what the card has.
LEMMA CleanImages ==
    ASSUME CacheInv, first_lba = FirstLba, UNCHANGED lines, WriteBack, ~dirty'
    PROVE  KeptImages
<1>1. Alike(Newest', card')
    <2>1. \A s \in Sectors : FirstLba + s \in DOMAIN card'
        BY RoomKeepsCard, CurrentHolds DEF Lba
    <2> QED
        BY <2>1 DEF Newest, Alike
<1> QED
    BY <1>1, BackIsNewest DEF KeptImages, Alike

LEMMA GetImages ==
    ASSUME CacheInv, first_lba = FirstLba, UNCHANGED lines,
           (\E s : Get(s)) \/ Flush \/ GetFails
    PROVE  KeptImages
<1>1. CASE \E s : Get(s)
    <2>1. PICK s : Get(s)
        BY <1>1
    <2>2. CASE sector = s
        <3>1. UNCHANGED <<card, undo>> /\ sector' = sector /\ buf' = buf /\ dirty' = dirty
            BY <2>1, <2>2 DEF Get, MakeRoom, Loaded, CacheInv
        <3> QED
            BY <3>1, UntouchedImages
    <2>3. CASE sector # s
        <3>1. WriteBack /\ ~dirty'
            BY <2>1, <2>3 DEF Get, MakeRoom
        <3> QED
            BY <3>1, CleanImages
    <2> QED
        BY <2>2, <2>3
<1>2. CASE Flush \/ GetFails
    <2>1. WriteBack /\ ~dirty'
        BY <1>2 DEF Flush, GetFails, MakeRoom, WriteBack, CacheInv
    <2> QED
        BY <2>1, CleanImages
<1> QED
    BY <1>1, <1>2

LEMMA ChangedImages ==
    ASSUME CacheInv, first_lba = FirstLba, UNCHANGED lines, NEW s \in Sectors, NEW d,
           Change(s, d) \/ Fill(s, d)
    PROVE  WrittenImages(s, d)
<1>1. buf' = d /\ sector' = s /\ dirty' = TRUE
    BY DEF Change, Fill
<1>2. \A t \in Sectors : FirstLba + t \in DOMAIN card
    BY CurrentHolds DEF Lba
<1>3. CASE WriteBack
    <2>1. DOMAIN card' = DOMAIN card
        BY <1>3, RoomKeepsCard
    <2>2. \A t \in Sectors : Newest'[FirstLba + t] = IF t = s THEN d ELSE card'[FirstLba + t]
        BY <1>1, <1>2, <2>1, BlocksAre DEF Newest
    <2>3. \A t \in Sectors : card'[FirstLba + t] = Newest[FirstLba + t]
        BY <1>3, BackIsNewest DEF Alike
    <2> QED
        BY <1>3, <2>2, <2>3, BackIsNewest DEF WrittenImages
<1>4. CASE UNCHANGED <<card, undo>> /\ sector = s
    <2>1. Survivors' = Survivors
        BY <1>4 DEF Survivors
    <2>2. \A t \in Sectors : Newest'[FirstLba + t] = IF t = s THEN d ELSE card[FirstLba + t]
        BY <1>1, <1>2, <1>4, BlocksAre DEF Newest
    <2>3. \A t \in Sectors : t # s => card[FirstLba + t] = Newest[FirstLba + t]
        BY <1>4, NewestIs
    <2>4. \A img : Alike(img, img)
        BY DEF Alike
    <2> QED
        BY <2>1, <2>2, <2>3, <2>4 DEF WrittenImages
<1> QED
    BY <1>3, <1>4 DEF Change, Fill, MakeRoom

LEMMA ClearedImages ==
    ASSUME CacheInv, first_lba = FirstLba, UNCHANGED lines, ~dirty, NEW s \in Sectors, NEW d,
           Holds(s, d), WriteThrough(s, d)
    PROVE  WrittenImages(s, d)
<1>1. WriteSector(s, d) /\ ~dirty'
    BY DEF WriteThrough
<1>2. /\ DOMAIN card' = DOMAIN card
      /\ \A t \in Sectors : card'[FirstLba + t] = IF t = s THEN d ELSE card[FirstLba + t]
    BY <1>1, WriteKeepsCard
<1>3. \A t \in Sectors : FirstLba + t \in DOMAIN card
    BY CurrentHolds DEF Lba
<1>4. /\ \A t \in Sectors : Newest[FirstLba + t] = card[FirstLba + t]
      /\ \A t \in Sectors : Newest'[FirstLba + t] = card'[FirstLba + t]
    BY <1>1, <1>2, <1>3 DEF Newest
<1>5. undo' = [l \in {FirstLba + s} |-> card[l]]
    BY <1>1 DEF WriteSector, Lba
<1> DEFINE undone == [l \in DOMAIN card' |-> IF l \in DOMAIN undo' THEN undo'[l] ELSE card'[l]]
<1>6. ASSUME NEW t \in Sectors PROVE undone[FirstLba + t] = card[FirstLba + t]
    <2>1. FirstLba + t \in DOMAIN undo' <=> t = s
        BY <1>5, BlocksAre
    <2> QED
        BY <1>2, <1>3, <1>5, <2>1
<1>7. Alike(undone, Newest) /\ Alike(card', Newest')
    BY <1>4, <1>6 DEF Alike
<1>8. Survivors' = {card', undone}
    BY DEF Survivors
<1> QED
    BY <1>2, <1>4, <1>7, <1>8 DEF WrittenImages

-----------------------------------------------------------------------------
(* Chains                                                                  *)

Untargeted(fat, c) == \A d \in Clusters : fat[d] # c

\* No two clusters lead to the same one, and none to a free one.
Forest(fat) ==
    \A c \in Clusters : fat[c] \in Clusters =>
        fat[fat[c]] # 0 /\ \A d \in Clusters : fat[d] = fat[c] => d = c

IsHead(fat, c) == c \in Clusters /\ fat[c] # 0 /\ Untargeted(fat, c)

IsPath(fat, s, c) ==
    s \in Seq(Clusters) /\ s # <<>> /\ s[1] = c /\ \A i \in 1 .. Len(s) - 1 : fat[s[i]] = s[i + 1]

\* The first n clusters of a chain, or all of them.
IsChain(fat, s, c, n) ==
    /\ IsPath(fat, s, c) /\ Len(s) \in 1 .. n
    /\ Len(s) = n \/ fat[s[Len(s)]] \notin Clusters

LEMMA ChainIsPath ==
    ASSUME NEW img, NEW c \in Clusters
    PROVE  IsChain(FatOn(img), ChainOn(img, c), c, cluster_count)
<1> DEFINE fat == FatOn(img)
<1> DEFINE g == CHOOSE x : AreChains(fat, x, cluster_count)
<1>1. ChainOn(img, c) = g[cluster_count][c]
    BY DEF ChainOn, AreChains, ChainsOf
<1>2. AreChains(fat, g, cluster_count)
    BY ChainsExist
<1> HIDE DEF g, fat
<1>3. \A n \in 1 .. cluster_count : g[n] = ChainsOf(fat, n, g)
    BY <1>2 DEF AreChains
<1> DEFINE T == {n \in 1 .. cluster_count : ~ \A d \in Clusters : IsChain(fat, g[n][d], d, n)}
<1>4. T = {}
    <2> SUFFICES ASSUME T # {} PROVE FALSE
        OBVIOUS
    <2>1. T \in SUBSET Nat
        BY ConstantsAre
    <2>2. PICK n \in T : \A j \in T : n <= j
        BY <2>1, LeastOfNat
    <2>3. n \in 1 .. cluster_count /\ n \in Nat
        BY <2>2
    <2>4. PICK d \in Clusters : ~IsChain(fat, g[n][d], d, n)
        BY <2>2
    <2>5. g[n][d] = IF n > 1 /\ fat[d] \in Clusters THEN <<d>> \o g[n - 1][fat[d]] ELSE <<d>>
        <3>1. g[n] = ChainsOf(fat, n, g)
            BY <1>3, <2>3
        <3> HIDE DEF T
        <3> QED
            BY <3>1 DEF ChainsOf
    <2>6. CASE n > 1 /\ fat[d] \in Clusters
        <3>1. n - 1 \in 1 .. cluster_count /\ n - 1 \notin T
            BY <2>2, <2>3, <2>6, ConstantsAre
        <3>2. IsChain(fat, g[n - 1][fat[d]], fat[d], n - 1)
            BY <2>6, <3>1
        <3>3. PICK t \in Seq(Clusters) : t = g[n - 1][fat[d]]
            BY <3>2 DEF IsPath, IsChain
        <3>4. PICK m \in 1 .. n - 1 : m = Len(t)
            BY <3>2, <3>3 DEF IsChain
        <3>5. PICK s \in Seq(Clusters) : s = <<d>> \o t
            <4>1. <<d>> \o t \in Seq(Clusters)
                OBVIOUS
            <4> QED
                BY <4>1
        <3>6. Len(s) = m + 1 /\ s[1] = d /\ \A i \in 1 .. m : s[i + 1] = t[i]
            BY <3>4, <3>5
        <3>7. t[1] = fat[d] /\ \A i \in 1 .. m - 1 : fat[t[i]] = t[i + 1]
            BY <3>2, <3>3, <3>4 DEF IsPath, IsChain
        <3>8. \A i \in 1 .. m : fat[s[i]] = s[i + 1]
            <4> SUFFICES ASSUME NEW i \in 1 .. m PROVE fat[s[i]] = s[i + 1]
                OBVIOUS
            <4>1. CASE i = 1
                BY <3>4, <3>6, <3>7, <4>1
            <4>2. CASE i # 1
                <5>1. i - 1 \in 1 .. m - 1 /\ i - 1 \in 1 .. m /\ (i - 1) + 1 = i
                    BY <3>4, <4>2
                <5> QED
                    BY <3>6, <3>7, <5>1
            <4> QED
                BY <4>1, <4>2
        <3>9. IsPath(fat, s, d)
            <4>1. s # <<>>
                BY <3>4, <3>6, EmptySeq
            <4> QED
                BY <3>6, <3>8, <4>1 DEF IsPath
        <3>10. m = n - 1 \/ fat[t[m]] \notin Clusters
            BY <3>2, <3>3, <3>4 DEF IsChain
        <3>11. s[m + 1] = t[m] /\ Len(s) \in 1 .. n /\ (m = n - 1 => Len(s) = n)
            BY <2>3, <3>4, <3>6
        <3>12. IsChain(fat, s, d, n)
            BY <3>6, <3>9, <3>10, <3>11 DEF IsChain
        <3>13. g[n][d] = s
            BY <2>5, <2>6, <3>3, <3>5
        <3> QED
            BY <2>4, <3>12, <3>13
    <2>7. CASE ~(n > 1 /\ fat[d] \in Clusters)
        <3>1. PICK s \in Seq(Clusters) : s = <<d>>
            <4>1. <<d>> \in Seq(Clusters)
                OBVIOUS
            <4> QED
                BY <4>1
        <3>2. Len(s) = 1 /\ s[1] = d /\ s # <<>>
            BY <3>1
        <3>3. IsPath(fat, s, d)
            BY <3>1, <3>2 DEF IsPath
        <3>4. n = 1 \/ fat[d] \notin Clusters
            BY <2>3, <2>7
        <3>5. IsChain(fat, s, d, n)
            BY <2>3, <3>2, <3>3, <3>4 DEF IsChain
        <3>6. g[n][d] = s
            BY <2>5, <2>7, <3>1
        <3> QED
            BY <2>4, <3>5, <3>6
    <2> QED
        BY <2>6, <2>7
<1>5. cluster_count \in 1 .. cluster_count
    BY ConstantsAre
<1>6. IsChain(fat, g[cluster_count][c], c, cluster_count)
    BY <1>4, <1>5
<1> QED
    BY <1>1, <1>6 DEF fat

\* Chains of different beginnings share nothing, and none meets itself.
LEMMA PathsApart ==
    ASSUME NEW fat, Forest(fat), NEW a, Untargeted(fat, a), NEW b, Untargeted(fat, b),
           NEW s, IsPath(fat, s, a), NEW t, IsPath(fat, t, b),
           NEW i \in 1 .. Len(s), NEW j \in 1 .. Len(t), s[i] = t[j]
    PROVE  i = j /\ a = b
<1>1. PICK m \in Nat, n \in Nat : m = Len(s) /\ n = Len(t)
    BY DEF IsPath
<1>2. /\ s[1] = a /\ t[1] = b
      /\ \A k \in 1 .. m : s[k] \in Clusters
      /\ \A k \in 1 .. n : t[k] \in Clusters
      /\ \A k \in 1 .. m - 1 : fat[s[k]] = s[k + 1]
      /\ \A k \in 1 .. n - 1 : fat[t[k]] = t[k + 1]
    BY <1>1 DEF IsPath
<1> DEFINE T == {k \in 1 .. m : \E l \in 1 .. n : s[k] = t[l] /\ ~(k = l /\ a = b)}
<1>3. T = {}
    <2> SUFFICES ASSUME T # {} PROVE FALSE
        OBVIOUS
    <2>1. T \in SUBSET Nat
        OBVIOUS
    <2>2. PICK k \in T : \A p \in T : k <= p
        BY <2>1, LeastOfNat
    <2>3. k \in 1 .. m
        BY <2>2
    <2>4. PICK l \in 1 .. n : s[k] = t[l] /\ ~(k = l /\ a = b)
        BY <2>2
    <2>5. l # 1 => l - 1 \in 1 .. n - 1 /\ l - 1 \in 1 .. n /\ (l - 1) + 1 = l
        OBVIOUS
    <2>6. k # 1 => k - 1 \in 1 .. m - 1 /\ k - 1 \in 1 .. m /\ (k - 1) + 1 = k
        BY <2>3
    <2>7. CASE k = 1
        <3>1. l # 1
            BY <1>2, <2>4, <2>7
        <3>2. fat[t[l - 1]] = a /\ t[l - 1] \in Clusters
            BY <1>2, <2>4, <2>5, <2>7, <3>1
        <3> QED
            BY <3>2 DEF Untargeted
    <2>8. CASE k # 1
        <3>1. fat[s[k - 1]] = s[k] /\ s[k - 1] \in Clusters /\ s[k] \in Clusters
            BY <1>2, <2>3, <2>6, <2>8
        <3>2. l # 1
            BY <1>2, <2>4, <3>1 DEF Untargeted
        <3>3. fat[t[l - 1]] = t[l] /\ t[l - 1] \in Clusters
            BY <1>2, <2>5, <3>2
        <3>4. s[k - 1] = t[l - 1]
            BY <2>4, <3>1, <3>3 DEF Forest
        <3>5. k - 1 \in 1 .. m /\ l - 1 \in 1 .. n /\ ~(k - 1 = l - 1 /\ a = b)
            BY <2>3, <2>4, <2>5, <2>6, <2>8, <3>2
        <3>6. k - 1 \in T
            BY <3>4, <3>5
        <3>7. k <= k - 1
            BY <2>2, <3>6
        <3> QED
            BY <2>3, <3>7
    <2> QED
        BY <2>7, <2>8
<1> QED
    BY <1>1, <1>3

\* The chain of a head comes to an end.
LEMMA ChainEnds ==
    ASSUME NEW img, FatHolds(FatOn(img)), Forest(FatOn(img)), NEW c, IsHead(FatOn(img), c)
    PROVE  LET s == ChainOn(img, c)
           IN  /\ IsPath(FatOn(img), s, c) /\ Len(s) \in Nat \ {0}
               /\ FatOn(img)[s[Len(s)]] = Eoc
               /\ \A i, j \in 1 .. Len(s) : s[i] = s[j] => i = j
               /\ Cardinality(Range(s)) = Len(s)
<1> DEFINE fat == FatOn(img)
<1>1. PICK s : s = ChainOn(img, c)
    OBVIOUS
<1>2. /\ c \in Clusters /\ fat[c] # 0 /\ Untargeted(fat, c)
      /\ IsPath(fat, s, c) /\ Len(s) \in 1 .. cluster_count
      /\ Len(s) = cluster_count \/ fat[s[Len(s)]] \notin Clusters
    BY <1>1, ChainIsPath DEF IsHead, IsChain
<1> HIDE DEF fat
<1>3. PICK n \in 1 .. cluster_count : n = Len(s)
    BY <1>2
<1>4. /\ n \in Nat \ {0} /\ s \in Seq(Clusters) /\ s[1] = c
      /\ \A i \in 1 .. n : s[i] \in Clusters
      /\ \A i \in 1 .. n - 1 : fat[s[i]] = s[i + 1]
    BY <1>2, <1>3 DEF IsPath
<1>5. \A i, j \in 1 .. n : s[i] = s[j] => i = j
    BY <1>2, <1>3, PathsApart DEF fat
<1>6. Range(s) = {s[i] : i \in 1 .. n} /\ DOMAIN s = 1 .. n
    BY <1>3, <1>4 DEF Range
<1>7. Range(s) \subseteq Clusters
    BY <1>4, <1>6
<1>8. Cardinality(Range(s)) = n /\ IsFiniteSet(Range(s))
    <2>1. \A i \in 1 .. n : s[i] \in Range(s)
        BY <1>6
    <2>2. s \in Bijection(1 .. n, Range(s))
        <3>1. s \in [1 .. n -> Range(s)]
            BY <1>4, <1>6, <2>1
        <3> QED
            BY <1>5, <1>6, <3>1 DEF Bijection, Injection, Surjection, IsInjective
    <2>3. IsFiniteSet(1 .. n) /\ Cardinality(1 .. n) = n
        BY <1>4, FS_Interval
    <2> QED
        BY <2>2, <2>3, FS_Bijection DEF ExistsBijection
<1>9. fat[s[n]] # 0
    <2>1. CASE n = 1
        BY <1>2, <1>4, <2>1
    <2>2. CASE n # 1
        <3>1. n - 1 \in 1 .. n - 1 /\ n - 1 \in 1 .. n /\ (n - 1) + 1 = n /\ n \in 1 .. n
            BY <2>2
        <3>2. fat[s[n - 1]] = s[n] /\ s[n] \in Clusters /\ s[n - 1] \in Clusters
            BY <1>4, <3>1
        <3> QED
            BY <3>2 DEF Forest, fat
    <2> QED
        BY <2>1, <2>2
<1>10. fat[s[n]] \notin Clusters
    <2> SUFFICES ASSUME n = cluster_count, fat[s[n]] \in Clusters PROVE FALSE
        BY <1>2, <1>3
    <2>1. IsFiniteSet(Clusters) /\ Cardinality(Clusters) = cluster_count
        BY ConstantsAre, FS_Interval DEF Clusters
    <2>2. Range(s) = Clusters
        BY <1>7, <1>8, <2>1, FS_Subset
    <2>3. PICK j \in 1 .. n : s[j] = fat[s[n]]
        BY <1>6, <2>2
    <2>4. n \in 1 .. n /\ s[n] \in Clusters
        BY <1>4
    <2>5. j # 1
        BY <1>2, <1>4, <2>3, <2>4 DEF Untargeted
    <2>6. j - 1 \in 1 .. n - 1 /\ j - 1 \in 1 .. n /\ (j - 1) + 1 = j
        BY <2>5
    <2>7. fat[s[j - 1]] = s[j] /\ s[j - 1] \in Clusters
        BY <1>4, <2>6
    <2>8. s[j - 1] = s[n]
        BY <2>3, <2>4, <2>7 DEF Forest, fat
    <2>9. j - 1 = n
        BY <1>5, <2>4, <2>6, <2>8
    <2> QED
        BY <2>9
<1>11. fat[s[n]] = Eoc
    BY <1>4, <1>9, <1>10 DEF FatHolds, Links, fat
<1> QED
    BY <1>1, <1>2, <1>3, <1>4, <1>5, <1>8, <1>11 DEF fat

-----------------------------------------------------------------------------
(* Entries and their chains                                                *)

ItemAt(img, p) == img[FirstLba + p[1]][p[2]]

\* The cluster at which the entry in this place begins, if there is one.
HeadAt(img, p) == IF ItemAt(img, p)[1] = "short" THEN ItemAt(img, p)[3] ELSE 0

\* Entries, wherever they are, begin at clusters of their own to which no
\* other leads.
Rooted(img) ==
    /\ Forest(FatOn(img)) /\ IsHead(FatOn(img), Root)
    /\ \A p \in Places : HeadAt(img, p) # 0 =>
          /\ IsHead(FatOn(img), HeadAt(img, p)) /\ HeadAt(img, p) # Root
          /\ \A q \in Places : HeadAt(img, q) = HeadAt(img, p) => q = p

LEMMA ImageHolds ==
    ASSUME NEW img, CardHolds(img)
    PROVE  /\ FatHolds(FatOn(img))
           /\ \A c \in Clusters : DataHolds(ItemsOf(img, c))
           /\ \A p \in Places : Sound(ItemAt(img, p))
<1>1. FatHolds(FatOn(img))
    BY SectorsAre DEF CardHolds, FatOn
<1>2. \A c \in Clusters : DataHolds(ItemsOf(img, c))
    BY SectorsAre DEF CardHolds, ItemsOf
<1>3. ASSUME NEW p \in Places PROVE Sound(ItemAt(img, p))
    <2>1. PICK c \in Clusters, i \in 1 .. Slots : p = <<DataSector(c), i>>
        BY DEF Places
    <2>2. ItemAt(img, p) = ItemsOf(img, c)[i]
        BY <2>1 DEF ItemAt, ItemsOf
    <2> QED
        BY <1>2, <2>2 DEF DataHolds
<1> QED
    BY <1>1, <1>2, <1>3

LEMMA PlacesAre ==
    /\ \A p \in Places : \E c \in Clusters, i \in 1 .. Slots :
          p = <<DataSector(c), i>> /\ p[1] = DataSector(c) /\ p[2] = i
    /\ \A c \in Clusters, i \in 1 .. Slots :
          <<DataSector(c), i>> \in Places
          /\ \A img : ItemAt(img, <<DataSector(c), i>>) = ItemsOf(img, c)[i]
    /\ \A c, d \in Clusters : DataSector(c) = DataSector(d) <=> c = d
<1>1. \A c, d \in Clusters : DataSector(c) = DataSector(d) <=> c = d
    BY ConstantsAre DEF DataSector, Clusters
<1> QED
    BY <1>1 DEF Places, ItemAt, ItemsOf

LEMMA ItemsInPlaces ==
    ASSUME NEW img, NEW chain \in Seq(Clusters), NEW i \in DOMAIN ItemsAlong(img, chain)
    PROVE  \E p \in Places : ItemsAlong(img, chain)[i] = ItemAt(img, p)
<1>1. Slots \in Nat \ {0} /\ Len(chain) \in Nat
    BY ConstantsAre
<1>2. i \in 1 .. Len(chain) * Slots
    BY DEF ItemsAlong
<1>3. PICK p \in Nat : p = i - 1 /\ p < Slots * Len(chain)
    <2>1. Len(chain) * Slots = Slots * Len(chain)
        BY <1>1
    <2>2. PICK n \in Nat : n = Len(chain) * Slots
        BY <1>1
    <2> QED
        BY <1>2, <2>1, <2>2
<1>4. p \div Slots \in Nat /\ p % Slots \in 0 .. Slots - 1 /\ p \div Slots < Len(chain)
    BY <1>1, <1>3, DivisionIs
<1>5. PICK j, k : j = p \div Slots /\ k = p % Slots
    OBVIOUS
<1>6. j + 1 \in 1 .. Len(chain) /\ k + 1 \in 1 .. Slots
    BY <1>1, <1>4, <1>5
<1>7. PICK c \in Clusters : c = chain[j + 1]
    BY <1>6
<1>8. ItemsAlong(img, chain)[i] = ItemsOf(img, c)[k + 1]
    BY <1>2, <1>3, <1>5, <1>7 DEF ItemsAlong
<1>9. PICK q : q = <<DataSector(c), k + 1>>
    OBVIOUS
<1>10. q \in Places /\ ItemAt(img, q) = ItemsOf(img, c)[k + 1]
    BY <1>6, <1>9, PlacesAre
<1> QED
    BY <1>8, <1>10

LEMMA EntriesInPlaces ==
    ASSUME NEW img, NEW c, NEW n, NEW e \in EntryOn(img, c, n)
    PROVE  \E p \in Places : e = ItemAt(img, p) /\ e[1] = "short" /\ e[2] = n /\ HeadAt(img, p) = e[3]
<1>1. PICK i \in DOMAIN ItemsAlong(img, ChainOn(img, c)) :
          e = ItemsAlong(img, ChainOn(img, c))[i] /\ e[1] = "short" /\ e[2] = n
    BY DEF EntryOn
<1> QED
    BY <1>1, ChainIs, ItemsInPlaces DEF HeadAt

\* What a search can reach has chains that end and are apart.
LEMMA RootedApart ==
    ASSUME NEW img, CardHolds(img), Rooted(img)
    PROVE  LET chains == Chains(img)
           IN  /\ \A p \in chains :
                      /\ p[2] # <<>> /\ FatOn(img)[p[2][Len(p[2])]] = Eoc
                      /\ Cardinality(Range(p[2])) = Len(p[2])
               /\ \A p, q \in chains : p # q => Range(p[2]) \cap Range(q[2]) = {}
<1> DEFINE fat == FatOn(img)
<1> DEFINE root == Short(NoName, Root, 0)
<1>1. FatHolds(fat) /\ Forest(fat) /\ IsHead(fat, Root)
    BY ImageHolds DEF Rooted
<1>2. ASSUME NEW p \in Chains(img)
      PROVE  /\ p = <<p[1], ChainOn(img, p[1][3])>> /\ IsHead(fat, p[1][3])
             /\ p[1] = root \/ \E q \in Places : p[1] = ItemAt(img, q) /\ p[1][3] = HeadAt(img, q)
             /\ p[1][3] # 0
    <2>1. PICK e : /\ p = <<e, ChainOn(img, e[3])>> /\ e[3] # 0
                   /\ \/ e = root
                      \/ e \in EntryOn(img, Root, SubDir)
                      \/ e \in UNION {FileEntries(img, f) : f \in Files}
        BY DEF Chains
    <2>2. p[1] = e /\ p[2] = ChainOn(img, e[3])
        BY <2>1
    <2>3. e = root \/ \E c, n : e \in EntryOn(img, c, n)
        BY <2>1 DEF FileEntries
    <2>4. e = root \/ \E q \in Places : e = ItemAt(img, q) /\ e[3] = HeadAt(img, q)
        BY <2>3, EntriesInPlaces
    <2>5. root[3] = Root
        BY DEF Short
    <2>6. IsHead(fat, e[3])
        BY <1>1, <2>1, <2>4, <2>5 DEF Rooted
    <2> QED
        BY <2>1, <2>2, <2>4, <2>6
<1> HIDE DEF fat
<1>3. ASSUME NEW p \in Chains(img)
      PROVE  /\ p[2] # <<>> /\ fat[p[2][Len(p[2])]] = Eoc
             /\ Cardinality(Range(p[2])) = Len(p[2])
    BY <1>1, <1>2, ChainEnds DEF IsPath, fat
<1>4. ASSUME NEW p \in Chains(img), NEW q \in Chains(img), p # q
      PROVE  Range(p[2]) \cap Range(q[2]) = {}
    <2> SUFFICES ASSUME NEW c \in Range(p[2]), c \in Range(q[2]) PROVE FALSE
        OBVIOUS
    <2>1. IsPath(fat, p[2], p[1][3]) /\ IsPath(fat, q[2], q[1][3])
        BY <1>1, <1>2, ChainEnds DEF fat
    <2>2. PICK i \in 1 .. Len(p[2]) : p[2][i] = c
        BY <2>1 DEF IsPath, Range
    <2>3. PICK j \in 1 .. Len(q[2]) : q[2][j] = c
        BY <2>1 DEF IsPath, Range
    <2>4. Untargeted(fat, p[1][3]) /\ Untargeted(fat, q[1][3])
        BY <1>2 DEF IsHead
    <2>5. p[1][3] = q[1][3]
        BY <1>1, <2>1, <2>2, <2>3, <2>4, PathsApart
    <2>6. p[1] # q[1]
        <3>1. PICK a, b : a = p[1] /\ b = q[1]
            OBVIOUS
        <3>2. p = <<a, ChainOn(img, a[3])>> /\ q = <<b, ChainOn(img, b[3])>>
            BY <1>2, <3>1
        <3> QED
            BY <3>1, <3>2, <1>4
    <2>7. root[3] = Root
        BY DEF Short
    <2> QED
        BY <1>2, <2>5, <2>6, <2>7 DEF Rooted
<1> QED
    BY <1>3, <1>4 DEF fat

-----------------------------------------------------------------------------
(* Clusters that are about to begin a chain or to go on with one           *)

\* The end of its chain is the next entry of the FAT that is set.
Coming(links, c) == links # <<>> /\ Head(links) = [copy |-> 0, cluster |-> c, next |-> Eoc]

\* Taken, and nothing leads to it.
Loose(fat, links, c) ==
    c \in Clusters \ {Root} /\ Untargeted(fat, c) /\ (fat[c] # 0 \/ Coming(links, c))

NoEntryAt(img, c) == \A p \in Places : HeadAt(img, p) # c

\* The log file's first cluster belongs to no other entry, and that of a new
\* directory to none; a cluster is linked behind the end of a chain and by
\* nothing else.
Claims(img, links, h, first) ==
    LET fat == FatOn(img)
    IN  /\ h.first # 0 => /\ Loose(fat, links, h.first)
                          /\ \A p \in Places : HeadAt(img, p) = h.first => p = h.at
        /\ first # 0 => Loose(fat, links, first) /\ first # h.first /\ NoEntryAt(img, first)
        /\ \A i \in 1 .. Len(links) : links[i].copy = 0 =>
              LET l == links[i]
              IN  IF l.next = Eoc THEN i = 1 /\ fat[l.cluster] = 0
                  ELSE /\ fat[l.cluster] = Eoc
                       /\ Loose(fat, links, l.next)
                       /\ l.next \notin {h.first, first, l.cluster}
                       /\ NoEntryAt(img, l.next)
                       /\ \A j \in 1 .. Len(links) :
                             links[j].copy = 0 /\ links[j].next # Eoc => j = i

LEMMA AlikeReads ==
    ASSUME NEW a, NEW b, Alike(a, b)
    PROVE  /\ FatOn(a) = FatOn(b)
           /\ \A c \in Clusters : ItemsOf(a, c) = ItemsOf(b, c)
           /\ \A p \in Places : ItemAt(a, p) = ItemAt(b, p) /\ HeadAt(a, p) = HeadAt(b, p)
<1>1. FatOn(a) = FatOn(b)
    BY SectorsAre DEF Alike, FatOn
<1>2. \A c \in Clusters : ItemsOf(a, c) = ItemsOf(b, c)
    BY SectorsAre DEF Alike, ItemsOf
<1>3. \A p \in Places : p[1] \in Sectors
    BY PlacesAre, SectorsAre
<1> QED
    BY <1>1, <1>2, <1>3 DEF Alike, ItemAt, HeadAt

\* The same FAT, and no entries that were not there before.
LEMMA FewerEntries ==
    ASSUME NEW a, NEW b, FatOn(b) = FatOn(a),
           \A p \in Places : HeadAt(b, p) # 0 => HeadAt(b, p) = HeadAt(a, p)
    PROVE  /\ Rooted(a) => Rooted(b)
           /\ \A links, h, first : Claims(a, links, h, first) => Claims(b, links, h, first)
<1>1. Rooted(a) => Rooted(b)
    BY DEF Rooted
<1>2. ASSUME NEW links, NEW h, NEW first, Claims(a, links, h, first)
      PROVE  Claims(b, links, h, first)
    <2>1. ASSUME NEW c, c # 0, NoEntryAt(a, c) PROVE NoEntryAt(b, c)
        BY <2>1 DEF NoEntryAt
    <2>2. h.first # 0 => /\ Loose(FatOn(b), links, h.first)
                         /\ \A p \in Places : HeadAt(b, p) = h.first => p = h.at
        BY <1>2 DEF Claims
    <2>3. first # 0 => /\ Loose(FatOn(b), links, first) /\ first # h.first
                       /\ NoEntryAt(b, first)
        BY <1>2, <2>1 DEF Claims
    <2>4. ASSUME NEW i \in 1 .. Len(links), links[i].copy = 0, links[i].next # Eoc
          PROVE  NoEntryAt(b, links[i].next)
        <3>1. NoEntryAt(a, links[i].next) /\ Loose(FatOn(a), links, links[i].next)
            BY <1>2, <2>4 DEF Claims
        <3>2. links[i].next # 0
            BY <3>1, ConstantsAre DEF Loose
        <3> QED
            BY <2>1, <3>1, <3>2
    <2> QED
        BY <1>2, <2>2, <2>3, <2>4 DEF Claims
<1> QED
    BY <1>1, <1>2

LEMMA RootedAlike ==
    ASSUME NEW a, NEW b, Alike(a, b)
    PROVE  /\ Rooted(b) => Rooted(a)
           /\ \A links, h, first : Claims(b, links, h, first) => Claims(a, links, h, first)
BY AlikeReads, FewerEntries

\* A free cluster is neither a head nor led to.
LEMMA FreeIsFree ==
    ASSUME NEW img, CardHolds(img), Rooted(img), NEW c \in Clusters, FatOn(img)[c] = 0
    PROVE  c # Root /\ Untargeted(FatOn(img), c) /\ NoEntryAt(img, c)
<1>1. c # Root
    BY DEF Rooted, IsHead
<1>2. Untargeted(FatOn(img), c)
    BY DEF Rooted, Forest, Untargeted
<1>3. NoEntryAt(img, c)
    BY ConstantsAre DEF Rooted, NoEntryAt, IsHead
<1> QED
    BY <1>1, <1>2, <1>3

\* The first cluster of a file or of a directory gets its end of chain.
LEMMA TakeFirst ==
    ASSUME NEW img, CardHolds(img), Rooted(img), NEW h, NEW first, Claims(img, <<>>, h, first),
           NEW c \in Clusters, FatOn(img)[c] = 0
    PROVE  /\ Claims(img, SetInCopies(c, Eoc), h, first)
           /\ Claims(img, SetInCopies(c, Eoc), h, c)
           /\ \A k : k.first = c => Claims(img, SetInCopies(c, Eoc), k, first)
<1> DEFINE links == SetInCopies(c, Eoc)
<1> DEFINE fat == FatOn(img)
<1>1. Len(links) \in Nat \ {0} /\ links # <<>> /\ Head(links) = links[1]
    BY SetInCopiesIs, ConstantsAre, EmptySeq
<1>2. \A i \in 1 .. Len(links) : links[i] = [copy |-> i - 1, cluster |-> c, next |-> Eoc]
    <2>1. Len(links) = num_fats
        BY SetInCopiesIs
    <2>2. \A i \in 1 .. num_fats : links[i] = [copy |-> i - 1, cluster |-> c, next |-> Eoc]
        BY DEF SetInCopies
    <2> HIDE DEF links
    <2> QED
        BY <2>1, <2>2
<1> HIDE DEF links, fat
<1>3. Coming(links, c)
    <2>1. 1 \in 1 .. Len(links) /\ 1 - 1 = 0
        BY <1>1
    <2>2. links[1] = [copy |-> 0, cluster |-> c, next |-> Eoc]
        BY <1>2, <2>1
    <2> QED
        BY <1>1, <2>2 DEF Coming
<1>4. \A i \in 1 .. Len(links) : links[i].copy = 0 =>
          links[i].next = Eoc /\ links[i].cluster = c /\ i = 1
    <2> SUFFICES ASSUME NEW i \in 1 .. Len(links), links[i].copy = 0
                 PROVE  links[i].next = Eoc /\ links[i].cluster = c /\ i = 1
        OBVIOUS
    <2>1. links[i] = [copy |-> i - 1, cluster |-> c, next |-> Eoc]
        BY <1>2
    <2>2. links[i].copy = i - 1 /\ links[i].next = Eoc /\ links[i].cluster = c
        BY <2>1
    <2> QED
        BY <2>2, <1>1
<1>5. Loose(fat, links, c) /\ NoEntryAt(img, c) /\ c # 0
    BY <1>3, FreeIsFree, ConstantsAre DEF Loose, fat
<1>6. \A d : Loose(fat, <<>>, d) => Loose(fat, links, d) /\ d # c
    BY DEF Loose, Coming, fat
<1>7. \A i \in 1 .. Len(links) : links[i].copy = 0 =>
          links[i].next = Eoc /\ i = 1 /\ fat[links[i].cluster] = 0
    BY <1>4 DEF fat
<1>8. Claims(img, links, h, first)
    BY <1>6, <1>7 DEF Claims, fat
<1>9. Claims(img, links, h, c)
    BY <1>5, <1>6, <1>7 DEF Claims, fat
<1>10. ASSUME NEW k, k.first = c PROVE Claims(img, links, k, first)
    BY <1>5, <1>6, <1>7, <1>10 DEF Claims, fat, NoEntryAt
<1> QED
    BY <1>8, <1>9, <1>10 DEF links

\* A free cluster is to follow the last one of a chain.
LEMMA TakeNext ==
    ASSUME NEW img, CardHolds(img), Rooted(img), NEW h, NEW first, Claims(img, <<>>, h, first),
           NEW c \in Clusters, FatOn(img)[c] = 0, NEW d \in Clusters, FatOn(img)[d] = Eoc
    PROVE  Claims(img, SetInCopies(c, Eoc) \o SetInCopies(d, c), h, first)
<1> DEFINE a == SetInCopies(c, Eoc)
<1> DEFINE b == SetInCopies(d, c)
<1> DEFINE links == a \o b
<1> DEFINE fat == FatOn(img)
<1>1. PICK n \in Nat \ {0} : n = num_fats
    BY ConstantsAre
<1>2. /\ a \in Seq(Link) /\ Len(a) = n /\ b \in Seq(Link) /\ Len(b) = n
      /\ \A i \in 1 .. n : a[i] = [copy |-> i - 1, cluster |-> c, next |-> Eoc]
      /\ \A i \in 1 .. n : b[i] = [copy |-> i - 1, cluster |-> d, next |-> c]
    <2>1. a \in Seq(Link) /\ Len(a) = n /\ b \in Seq(Link) /\ Len(b) = n
        BY <1>1, SetInCopiesIs
    <2>2. /\ \A i \in 1 .. n : a[i] = [copy |-> i - 1, cluster |-> c, next |-> Eoc]
          /\ \A i \in 1 .. n : b[i] = [copy |-> i - 1, cluster |-> d, next |-> c]
        BY <1>1 DEF SetInCopies
    <2> HIDE DEF a, b
    <2> QED
        BY <2>1, <2>2
<1> HIDE DEF a, b
<1>3. /\ links \in Seq(Link) /\ Len(links) = n + n
      /\ \A i \in 1 .. n : links[i] = a[i] /\ links[n + i] = b[i]
    <2>1. links \in Seq(Link) /\ Len(links) = n + n
        <3>1. a \in Seq(Link) /\ b \in Seq(Link)
            BY <1>2
        <3>2. a \o b \in Seq(Link) /\ Len(a \o b) = Len(a) + Len(b)
            BY <3>1, ConcatProperties
        <3> QED
            BY <1>2, <3>2
    <2>2. \A i \in 1 .. n : links[i] = a[i]
        BY <1>2
    <2>3. \A i \in 1 .. n : links[n + i] = b[i]
        BY <1>2
    <2> HIDE DEF links
    <2> QED
        BY <2>1, <2>2, <2>3
<1> HIDE DEF links, fat
<1>4. /\ \A i \in 1 .. n : /\ links[i].copy = i - 1 /\ links[i].cluster = c /\ links[i].next = Eoc
                           /\ links[n + i].copy = i - 1 /\ links[n + i].cluster = d
                           /\ links[n + i].next = c
    <2> SUFFICES ASSUME NEW i \in 1 .. n
                 PROVE  /\ links[i].copy = i - 1 /\ links[i].cluster = c /\ links[i].next = Eoc
                        /\ links[n + i].copy = i - 1 /\ links[n + i].cluster = d
                        /\ links[n + i].next = c
        OBVIOUS
    <2>1. /\ links[i] = [copy |-> i - 1, cluster |-> c, next |-> Eoc]
          /\ links[n + i] = [copy |-> i - 1, cluster |-> d, next |-> c]
        BY <1>2, <1>3
    <2> QED
        BY <2>1
<1>5. \A i \in 1 .. Len(links) : links[i].copy = 0 =>
          \/ i = 1 /\ links[i].next = Eoc /\ links[i].cluster = c
          \/ i = n + 1 /\ links[i].next = c /\ links[i].cluster = d
    <2> SUFFICES ASSUME NEW i \in 1 .. n + n, links[i].copy = 0
                 PROVE  \/ i = 1 /\ links[i].next = Eoc /\ links[i].cluster = c
                        \/ i = n + 1 /\ links[i].next = c /\ links[i].cluster = d
        BY <1>3
    <2>1. CASE i <= n
        <3>1. i \in 1 .. n
            BY <2>1
        <3> QED
            BY <1>4, <3>1
    <2>2. CASE ~(i <= n)
        <3>1. i - n \in 1 .. n /\ n + (i - n) = i
            BY <2>2
        <3>2. links[i].copy = (i - n) - 1 /\ links[i].cluster = d /\ links[i].next = c
            BY <1>4, <3>1
        <3> QED
            BY <3>1, <3>2
    <2> QED
        BY <2>1, <2>2
<1>6. Coming(links, c)
    <2>1. links # <<>> /\ Head(links) = links[1]
        BY <1>3, EmptySeq
    <2>2. 1 \in 1 .. n
        BY <1>1
    <2>3. links[1] = a[1] /\ a[1] = [copy |-> 0, cluster |-> c, next |-> Eoc]
        BY <1>2, <1>3, <2>2
    <2> QED
        BY <2>1, <2>3 DEF Coming
<1>7. Loose(fat, links, c) /\ NoEntryAt(img, c) /\ c # Eoc /\ c # 0
    BY <1>6, FreeIsFree, ConstantsAre DEF Loose, fat
<1>8. \A e : Loose(fat, <<>>, e) => Loose(fat, links, e) /\ e # c
    BY DEF Loose, Coming, fat
<1>9. /\ h.first # 0 => Loose(fat, links, h.first) /\ h.first # c
      /\ first # 0 => Loose(fat, links, first) /\ first # c
    BY <1>8 DEF Claims, fat
<1>10. ASSUME NEW i \in 1 .. Len(links), links[i].copy = 0
       PROVE  IF links[i].next = Eoc THEN i = 1 /\ fat[links[i].cluster] = 0
              ELSE /\ fat[links[i].cluster] = Eoc
                   /\ Loose(fat, links, links[i].next)
                   /\ links[i].next \notin {h.first, first, links[i].cluster}
                   /\ NoEntryAt(img, links[i].next)
                   /\ \A j \in 1 .. Len(links) :
                         links[j].copy = 0 /\ links[j].next # Eoc => j = i
    <2>1. CASE i = 1 /\ links[i].next = Eoc /\ links[i].cluster = c
        BY <2>1 DEF fat
    <2>2. CASE i = n + 1 /\ links[i].next = c /\ links[i].cluster = d
        <3>1. \A j \in 1 .. Len(links) : links[j].copy = 0 /\ links[j].next # Eoc => j = i
            BY <1>5, <2>2
        <3>2. c # d
            BY ConstantsAre
        <3>3. c \notin {h.first, first, d}
            BY <1>7, <1>9, <3>2
        <3> QED
            BY <1>7, <2>2, <3>1, <3>3 DEF fat
    <2> QED
        BY <1>5, <1>10, <2>1, <2>2
<1> QED
    BY <1>9, <1>10 DEF Claims, fat, links, a, b

\* An entry of the FAT is set, in the copy that is read or in another one.
LEMMA LinkSet ==
    ASSUME NEW img, CardHolds(img), Rooted(img), NEW h, NEW first,
           NEW links \in Seq(Link), links # <<>>, Claims(img, links, h, first),
           NEW l, l = links[1], NEW new,
           FatOn(new) = IF l.copy = 0 THEN [FatOn(img) EXCEPT ![l.cluster] = l.next] ELSE FatOn(img),
           \A p \in Places : HeadAt(new, p) = HeadAt(img, p)
    PROVE  Rooted(new) /\ Claims(new, Tail(links), h, first)
<1> DEFINE fat == FatOn(img)
<1> DEFINE after == FatOn(new)
<1>1. PICK n \in Nat : n = Len(links)
    OBVIOUS
<1>2. n > 0 /\ Head(links) = l /\ l \in Link
    BY <1>1, EmptySeq
<1>3. PICK rest \in Seq(Link) : rest = Tail(links)
    BY HeadTailProperties
<1>4. Len(rest) = n - 1 /\ \A i \in 1 .. n - 1 : rest[i] = links[i + 1]
    BY <1>1, <1>3, HeadTailProperties
<1>5. PICK c \in Clusters, t \in Clusters \cup {Eoc} : c = l.cluster /\ t = l.next
    BY <1>2 DEF Link
<1>6. FatHolds(fat)
    BY ImageHolds
<1> HIDE DEF fat, after
<1>7. l.copy = 0 => IF t = Eoc THEN fat[c] = 0
                    ELSE /\ fat[c] = Eoc /\ Loose(fat, links, t) /\ t \notin {h.first, first, c}
                         /\ NoEntryAt(img, t)
                         /\ \A j \in 1 .. n : links[j].copy = 0 /\ links[j].next # Eoc => j = 1
    <2>1. 1 \in 1 .. Len(links)
        BY <1>1, <1>2
    <2> QED
        BY <1>1, <1>5, <2>1 DEF Claims, fat
<1>8. \A d : Coming(links, d) => l.copy = 0 /\ d = c /\ t = Eoc
    BY <1>2, <1>5 DEF Coming
<1>9. \A e \in Clusters : after[e] = IF l.copy = 0 /\ e = c THEN t ELSE fat[e]
    BY <1>5, <1>6 DEF FatHolds, fat, after
<1>10. l.copy = 0 /\ t # Eoc => /\ t \in Clusters /\ fat[t] # 0 /\ Untargeted(fat, t) /\ t # c /\ t # Root
    BY <1>7, <1>8 DEF Loose
<1>11. \A p \in Places : HeadAt(new, p) # 0 => HeadAt(img, p) # 0 /\ HeadAt(new, p) = HeadAt(img, p)
    OBVIOUS
<1>12. Forest(after)
    <2> SUFFICES ASSUME NEW e \in Clusters, after[e] \in Clusters
                 PROVE  after[after[e]] # 0 /\ \A d \in Clusters : after[d] = after[e] => d = e
        BY DEF Forest
    <2>1. CASE l.copy = 0 /\ e = c
        <3>1. after[e] = t /\ t # Eoc
            BY <1>9, <2>1, ConstantsAre
        <3>2. after[t] # 0
            BY <1>9, <1>10, <2>1, <3>1
        <3>3. \A d \in Clusters : after[d] = t => d = e
            BY <1>9, <1>10, <2>1, <3>1 DEF Untargeted
        <3> QED
            BY <3>1, <3>2, <3>3
    <2>2. CASE ~(l.copy = 0 /\ e = c)
        <3>1. after[e] = fat[e]
            BY <1>9, <2>2
        <3>2. fat[fat[e]] # 0 /\ \A d \in Clusters : fat[d] = fat[e] => d = e
            BY <3>1 DEF Rooted, Forest, fat
        <3>3. after[fat[e]] # 0
            BY <1>5, <1>9, <3>1, <3>2, ConstantsAre
        <3>4. \A d \in Clusters : after[d] = fat[e] => d = e
            <4> SUFFICES ASSUME NEW d \in Clusters, after[d] = fat[e] PROVE d = e
                OBVIOUS
            <4>1. CASE l.copy = 0 /\ d = c
                <5>1. t = fat[e] /\ t # Eoc
                    BY <1>9, <3>1, <4>1, ConstantsAre
                <5> QED
                    BY <1>10, <4>1, <5>1 DEF Untargeted
            <4>2. CASE ~(l.copy = 0 /\ d = c)
                BY <1>9, <3>2, <4>2
            <4> QED
                BY <4>1, <4>2
        <3> QED
            BY <3>1, <3>3, <3>4
    <2> QED
        BY <2>1, <2>2
\* What is taken stays so, if it is not the cluster that is linked.
<1>13. ASSUME NEW d \in Clusters, Untargeted(fat, d), l.copy = 0 => d # t
       PROVE  Untargeted(after, d) /\ (fat[d] # 0 \/ Coming(links, d) => after[d] # 0)
    <2>1. Untargeted(after, d)
        BY <1>9, <1>13 DEF Untargeted
    <2>2. fat[d] # 0 => after[d] # 0
        BY <1>5, <1>9, ConstantsAre
    <2>3. Coming(links, d) => after[d] # 0
        BY <1>8, <1>9, ConstantsAre
    <2> QED
        BY <2>1, <2>2, <2>3
<1>14. ASSUME NEW d, IsHead(fat, d), l.copy = 0 => d # t
       PROVE  IsHead(after, d)
    BY <1>13, <1>14 DEF IsHead
<1>15. l.copy = 0 => t # Root /\ NoEntryAt(img, t)
    <2>1. t = Eoc => t # Root /\ NoEntryAt(img, t)
        <3> SUFFICES ASSUME t = Eoc PROVE t # Root /\ NoEntryAt(img, t)
            OBVIOUS
        <3>1. t \notin Clusters /\ t # 0
            BY ConstantsAre
        <3> QED
            BY <3>1, ConstantsAre DEF Rooted, NoEntryAt, IsHead
    <2> QED
        BY <1>7, <1>10, <2>1
<1>16. Rooted(new)
    <2>1. IsHead(after, Root)
        BY <1>14, <1>15 DEF Rooted, fat
    <2>2. \A p \in Places : HeadAt(new, p) # 0 => IsHead(after, HeadAt(new, p))
        BY <1>14, <1>15 DEF Rooted, fat, NoEntryAt
    <2> QED
        BY <1>12, <2>1, <2>2 DEF Rooted, after
<1>17. ASSUME NEW d, Loose(fat, links, d), l.copy = 0 => d # t
       PROVE  Loose(after, rest, d)
    BY <1>13, <1>17 DEF Loose
<1>18. l.copy = 0 => (t # h.first /\ t # first) \/ t = Eoc
    BY <1>7
<1>19. h.first # 0 => /\ Loose(after, rest, h.first)
                      /\ \A p \in Places : HeadAt(new, p) = h.first => p = h.at
    <2> SUFFICES ASSUME h.first # 0
                 PROVE  /\ Loose(after, rest, h.first)
                        /\ \A p \in Places : HeadAt(new, p) = h.first => p = h.at
        OBVIOUS
    <2>1. /\ Loose(fat, links, h.first)
          /\ \A p \in Places : HeadAt(img, p) = h.first => p = h.at
        BY DEF Claims, fat
    <2>2. h.first # Eoc
        BY <2>1, ConstantsAre DEF Loose
    <2> QED
        BY <1>17, <1>18, <2>1, <2>2
<1>20. first # 0 => Loose(after, rest, first) /\ first # h.first /\ NoEntryAt(new, first)
    <2> SUFFICES ASSUME first # 0
                 PROVE  Loose(after, rest, first) /\ first # h.first /\ NoEntryAt(new, first)
        OBVIOUS
    <2>1. Loose(fat, links, first) /\ first # h.first /\ NoEntryAt(img, first)
        BY DEF Claims, fat
    <2>2. first # Eoc
        BY <2>1, ConstantsAre DEF Loose
    <2> QED
        BY <1>17, <1>18, <2>1, <2>2 DEF NoEntryAt
<1>21. ASSUME NEW i \in 1 .. Len(rest), rest[i].copy = 0
       PROVE  /\ rest[i].next # Eoc /\ after[rest[i].cluster] = Eoc
              /\ Loose(after, rest, rest[i].next)
              /\ rest[i].next \notin {h.first, first, rest[i].cluster}
              /\ NoEntryAt(new, rest[i].next)
              /\ \A j \in 1 .. Len(rest) : rest[j].copy = 0 /\ rest[j].next # Eoc => j = i
    <2>1. i + 1 \in 1 .. n /\ rest[i] = links[i + 1] /\ i + 1 # 1
        BY <1>1, <1>2, <1>4
    <2>2. /\ links[i + 1].next # Eoc /\ fat[links[i + 1].cluster] = Eoc
          /\ Loose(fat, links, links[i + 1].next)
          /\ links[i + 1].next \notin {h.first, first, links[i + 1].cluster}
          /\ NoEntryAt(img, links[i + 1].next)
          /\ \A j \in 1 .. n : links[j].copy = 0 /\ links[j].next # Eoc => j = i + 1
        BY <1>1, <1>21, <2>1 DEF Claims, fat
    <2>3. links[i + 1] \in Link
        BY <1>1, <2>1
    <2>4. 1 \in 1 .. n /\ links[1].copy = l.copy /\ links[1].next = t
        BY <1>2, <1>5
    <2>5. l.copy = 0 => t = Eoc
        BY <2>1, <2>2, <2>4
    <2>6. after[links[i + 1].cluster] = Eoc
        <3>1. l.copy = 0 => fat[c] = 0
            BY <1>7, <2>5
        <3> QED
            BY <1>9, <2>2, <2>3, <3>1, ConstantsAre DEF Link
    <2>7. Loose(after, rest, links[i + 1].next)
        <3>1. links[i + 1].next # Eoc
            BY <2>2
        <3> QED
            BY <1>17, <2>2, <2>5, <3>1
    <2>8. \A j \in 1 .. n - 1 : rest[j].copy = 0 /\ rest[j].next # Eoc => j = i
        <3> SUFFICES ASSUME NEW j \in 1 .. n - 1, rest[j].copy = 0, rest[j].next # Eoc
                     PROVE  j = i
            OBVIOUS
        <3>1. j + 1 \in 1 .. n /\ rest[j] = links[j + 1]
            BY <1>4
        <3>2. j + 1 = i + 1
            BY <2>2, <3>1
        <3> QED
            BY <3>2, <1>4
    <2>9. NoEntryAt(new, links[i + 1].next)
        BY <2>2 DEF NoEntryAt
    <2> QED
        BY <1>4, <2>1, <2>2, <2>6, <2>7, <2>8, <2>9
<1>22. Claims(new, rest, h, first)
    BY <1>19, <1>20, <1>21 DEF Claims, after
<1> QED
    BY <1>3, <1>16, <1>22

\* The item in one place is replaced, by the entry of the new directory, by
\* that of the log file, or by none.
LEMMA EntryWritten ==
    ASSUME NEW img, Rooted(img), NEW h, NEW first, Claims(img, <<>>, h, first),
           NEW new, FatOn(new) = FatOn(img), NEW q \in Places,
           \A p \in Places : p # q => HeadAt(new, p) = HeadAt(img, p),
           HeadAt(new, q) \in {0, first} \/ (q = h.at /\ HeadAt(new, q) = h.first)
    PROVE  Rooted(new) /\ Claims(new, <<>>, h, 0)
<1>1. Claims(img, <<>>, h, 0)
    BY DEF Claims
<1>2. \A c : ~Coming(<<>>, c)
    BY DEF Coming
<1>3. CASE HeadAt(new, q) = 0
    <2>1. \A p \in Places : HeadAt(new, p) # 0 => HeadAt(new, p) = HeadAt(img, p)
        BY <1>3
    <2> QED
        BY <1>1, <2>1, FewerEntries
<1>4. CASE HeadAt(new, q) # 0
    <2>1. PICK c : c = HeadAt(new, q)
        OBVIOUS
    <2>2. /\ Loose(FatOn(img), <<>>, c)
          /\ \A p \in Places : HeadAt(img, p) = c => p = q
          /\ c = h.first => q = h.at
        BY <1>4, <2>1 DEF Claims, NoEntryAt
    <2>3. IsHead(FatOn(img), c) /\ c # Root
        BY <1>2, <2>2 DEF Loose, IsHead
    <2>4. Rooted(new)
        <3> SUFFICES ASSUME NEW p \in Places, HeadAt(new, p) # 0
                     PROVE  /\ IsHead(FatOn(new), HeadAt(new, p)) /\ HeadAt(new, p) # Root
                            /\ \A r \in Places : HeadAt(new, r) = HeadAt(new, p) => r = p
            BY DEF Rooted
        <3>1. CASE p = q
            BY <2>1, <2>2, <2>3, <3>1
        <3>2. CASE p # q
            BY <2>1, <2>2, <3>2 DEF Rooted
        <3> QED
            BY <3>1, <3>2
    <2>5. ASSUME h.first # 0, NEW p \in Places, HeadAt(new, p) = h.first
          PROVE  p = h.at
        <3>1. CASE p = q
            BY <2>1, <2>2, <2>5, <3>1
        <3>2. CASE p # q
            BY <2>5, <3>2 DEF Claims
        <3> QED
            BY <3>1, <3>2
    <2>6. \A i \in 1 .. Len(<<>>) : FALSE
        OBVIOUS
    <2> QED
        BY <2>4, <2>5, <2>6 DEF Claims
<1> QED
    BY <1>3, <1>4

-----------------------------------------------------------------------------
(* Steps                                                                   *)

\* The cluster of a directory whose entry is not written yet.
Claimed == IF Due = "short" /\ op.pc \in {"start", "first", "item"} THEN op.first ELSE 0

\* What is to be written has no entry but the one of the stage.
EntryItems ==
    /\ Due = "short" => IF op.pc \in {"first", "item"} THEN op.items = <<Short(op.name, op.first, 0)>>
                        ELSE op.pc = "start" \/ op.items = <<>>
    /\ Due \in {"long", "dots", "lines"} /\ (op.pc # "start" \/ Due = "lines") =>
          \A i \in 1 .. Len(op.items) : op.items[i][1] # "short"
    /\ op.call # "CreateDir" => op.first = 0

ChainsInv ==
    /\ Rooted(Newest) /\ \A img \in Survivors : Rooted(img)
    /\ Claims(Newest, op.links, handle["file"], Claimed)
    /\ EntryItems

LEMMA KeptIsRooted ==
    ASSUME ChainsInv, KeptImages
    PROVE  /\ Rooted(Newest') /\ \A img \in Survivors' : Rooted(img)
           /\ \A links, h, first : Claims(Newest, links, h, first) => Claims(Newest', links, h, first)
BY RootedAlike DEF ChainsInv, KeptImages

LEMMA WrittenIsRooted ==
    ASSUME ChainsInv, NEW s, NEW d, WrittenImages(s, d), Rooted(Newest')
    PROVE  \A img \in Survivors' : Rooted(img)
BY RootedAlike DEF ChainsInv, WrittenImages

\* A sector of data is written.
LEMMA DataWritten ==
    ASSUME NEW c \in Clusters, NEW d, WrittenImages(DataSector(c), d)
    PROVE  /\ FatOn(Newest') = FatOn(Newest)
           /\ ItemsOf(Newest', c) = d
           /\ \A e \in Clusters : e # c => ItemsOf(Newest', e) = ItemsOf(Newest, e)
           /\ \A p \in Places :
                  ItemAt(Newest', p) = IF p[1] = DataSector(c) THEN d[p[2]] ELSE ItemAt(Newest, p)
<1>1. FatOn(Newest') = FatOn(Newest)
    BY SectorsAre DEF WrittenImages, FatOn
<1>2. ItemsOf(Newest', c) = d
    BY SectorsAre DEF WrittenImages, ItemsOf
<1>3. \A e \in Clusters : e # c => ItemsOf(Newest', e) = ItemsOf(Newest, e)
    BY SectorsAre, PlacesAre DEF WrittenImages, ItemsOf
<1>4. \A p \in Places : p[1] \in Sectors
    BY PlacesAre, SectorsAre
<1>5. \A p \in Places :
          ItemAt(Newest', p) = IF p[1] = DataSector(c) THEN d[p[2]] ELSE ItemAt(Newest, p)
    BY <1>4 DEF WrittenImages, ItemAt
<1> QED
    BY <1>1, <1>2, <1>3, <1>5

\* Between stages nothing is claimed for a new directory.
LEMMA StageClaims ==
    ASSUME op \in Ops, InCall, op.todo # <<>>, op.links = <<>>, EntryItems,
           op' = NextStage(op) \/ op' = Failed, Due # "cluster"
    PROVE  op'.links = <<>> /\ Claimed' = 0 /\ EntryItems'
<1>1. CASE op' = Failed
    <2>1. /\ op'.links = <<>> /\ op'.pc = "start" /\ op'.items = <<>> /\ op'.first = 0
          /\ op'.todo \in {<<>>, <<"chdir">>}
        BY <1>1 DEF Failed, Idle
    <2>2. Due' \in {"none", "chdir"}
        BY <2>1 DEF Due
    <2> QED
        BY <2>1, <2>2 DEF Claimed, EntryItems
<1>2. CASE op' = NextStage(op)
    <2>1. CASE op' = Idle
        <3>1. op'.links = <<>> /\ op'.todo = <<>> /\ op'.first = 0
            BY <2>1, IdleIs
        <3> QED
            BY <3>1 DEF Due, Claimed, EntryItems
    <2>2. CASE op' # Idle
        <3>1. /\ op'.call = op.call /\ op'.pc = "start" /\ op'.links = <<>> /\ op'.first = op.first
              /\ op'.todo # <<>> /\ Head(op'.todo) # "lines"
              /\ Head(op'.todo) = "short" => op.call = "CreateFile"
            BY <1>2, <2>2, NextStageIs
        <3>2. Due' = Head(op'.todo)
            BY <3>1 DEF Due
        <3> QED
            BY <3>1, <3>2 DEF Claimed, EntryItems
    <2> QED
        BY <2>1, <2>2
<1> QED
    BY <1>1, <1>2

\* Within a stage that writes, only the place in fat_write changes.
LEMMA PlaceClaims ==
    ASSUME EntryItems, Due \in Writing,
           op'.call = op.call, op'.name = op.name, op'.todo = op.todo, op'.first = op.first,
           op'.items = op.items, op.pc # "start", op'.pc # "start",
           Due = "short" => (op.pc \in {"first", "item"} <=> op'.pc \in {"first", "item"})
    PROVE  Claimed' = Claimed /\ EntryItems'
<1>1. Due' = Due
    BY DEF Due
<1> QED
    BY <1>1 DEF Claimed, EntryItems

LEMMA ChainsAfter ==
    ASSUME Rooted(Newest'), \A img \in Survivors' : Rooted(img),
           Claims(Newest', op'.links, handle'["file"], Claimed'), EntryItems'
    PROVE  ChainsInv'
BY DEF ChainsInv

\* Nothing is written, and no cluster is taken.
LEMMA ChainsKept ==
    ASSUME ChainsInv, KeptImages, op.links = <<>>, op'.links = <<>>, Claimed' \in {0, Claimed},
           handle'["file"].first = handle["file"].first, handle'["file"].at = handle["file"].at,
           EntryItems'
    PROVE  ChainsInv'
<1>1. Claims(Newest, <<>>, handle["file"], Claimed)
    BY DEF ChainsInv
<1>2. Claims(Newest, <<>>, handle'["file"], Claimed')
    BY <1>1 DEF Claims
<1>3. Claims(Newest', <<>>, handle'["file"], Claimed')
    BY <1>2, KeptIsRooted
<1> QED
    BY <1>3, KeptIsRooted, ChainsAfter

\* What is read has the newest contents.
LEMMA ReadsNewest ==
    ASSUME TwoCopies, UpdatesInv, first_lba = FirstLba
    PROVE  /\ Fat = FatOn(Newest)
           /\ \A c \in Clusters : Loaded(DataSector(c)) = ItemsOf(Newest, c)
           /\ CardHolds(Newest)
<1>1. \A s \in Sectors : Current(s) = Newest[FirstLba + s]
    BY NewestIs DEF UpdatesInv, Current, Lba
<1>2. \A s \in Sectors : s # LastFat => Loaded(s) = Newest[FirstLba + s]
    BY <1>1, LoadedHolds DEF UpdatesInv
<1>3. Fat = FatOn(Newest)
    BY <1>2, SectorsAre, NotLastFat DEF Fat, FatOn
<1>4. \A c \in Clusters : Loaded(DataSector(c)) = ItemsOf(Newest, c)
    BY <1>2, SectorsAre, NotLastFat DEF ItemsOf
<1> QED
    BY <1>3, <1>4, NewestIs DEF UpdatesInv

LEMMA SearchChains ==
    ASSUME TwoCopies, UpdatesInv, ChainsInv,
           FindEntry \/ EndOfDirectory \/ SeekEmpty \/ SearchOn \/ WalkOn \/ PastEnd
    PROVE  ChainsInv'
<1>1. /\ \E pc : At(Search \cup {"seek"}, pc)
      /\ (\E s : Get(s)) \/ GetFails
      /\ UNCHANGED history
      /\ \/ op' \in {NextStage(op), Failed}
         \/ \E long : op' = [op EXCEPT !.pc = "walk", !.cluster = Here, !.long = long]
         \/ op' = [op EXCEPT !.pc = "end"]
         \/ op' = [op EXCEPT !.pc = "start", !.cluster = Fat[op.cluster]]
    <2>1. CASE FindEntry
        BY <2>1 DEF FindEntry, At
    <2>2. CASE EndOfDirectory
        BY <2>2 DEF EndOfDirectory, At, NotFound
    <2>3. CASE SeekEmpty
        BY <2>3 DEF SeekEmpty, At
    <2>4. CASE SearchOn
        BY <2>4 DEF SearchOn
    <2>5. CASE WalkOn
        BY <2>5 DEF WalkOn
    <2>6. CASE PastEnd
        BY <2>6 DEF PastEnd, NotFound
    <2> QED
        BY <2>1, <2>2, <2>3, <2>4, <2>5, <2>6
<1>2. /\ op.links = <<>> /\ op.todo # <<>> /\ Due \in Search \cup {"seek"}
      /\ Due \notin {"mbr", "volume", "cluster"} /\ op \in Ops /\ InCall
    <2>1. PICK pc : At(Search \cup {"seek"}, pc)
        BY <1>1
    <2> QED
        BY <2>1, AtIs DEF Search, UpdatesInv
<1>3. first_lba = FirstLba /\ UNCHANGED lines
    BY <1>1, <1>2, Busy DEF history
<1>4. KeptImages
    BY <1>1, <1>3, GetImages DEF UpdatesInv
<1>5. op'.links = <<>> /\ Claimed' = 0 /\ EntryItems'
    <2>1. CASE op' \in {NextStage(op), Failed}
        BY <1>2, <2>1, StageClaims DEF ChainsInv
    <2>2. CASE op' \notin {NextStage(op), Failed}
        <3>1. /\ op'.links = <<>> /\ op'.todo = op.todo /\ op'.call = op.call
              /\ op'.first = op.first
            BY <1>1, <1>2, <2>2 DEF Ops
        <3>2. Due' = Due /\ Due \notin {"short", "long", "dots", "lines"}
            BY <1>2, <3>1 DEF Due, Search
        <3> QED
            BY <3>1, <3>2 DEF Claimed, EntryItems, ChainsInv
    <2> QED
        BY <2>1, <2>2
<1>6. handle \in [Handles -> HandleRecords]
    BY DEF UpdatesInv, HandlesInv
<1>7. CASE handle'["file"] = handle["file"]
    BY <1>2, <1>4, <1>5, <1>7, ChainsKept
<1>8. CASE handle'["file"] # handle["file"]
    <2>1. FindEntry
        <3>1. SeekEmpty => handle'["file"] = handle["file"]
            BY <1>6 DEF SeekEmpty, Handles
        <3> QED
            BY <1>8, <3>1 DEF EndOfDirectory, SearchOn, WalkOn, PastEnd
    <2>2. /\ Here \in Clusters /\ op.call \in {"CreateDir", "CreateFile"}
          /\ DataHolds(Loaded(DataSector(Here)))
        BY <1>3, <2>1, DirectoryRead DEF FindEntry, Search
    <2>3. PICK items : items = Loaded(DataSector(Here))
        OBVIOUS
    <2>4. PICK i \in Matches(items, op.long, op.name) : Opened(i)
        BY <2>1, <2>3 DEF FindEntry
    <2>5. i \in 1 .. Slots /\ items[i][1] = "short"
        BY <2>4 DEF Matches, Entries
    <2>6. PICK q \in Places : q = <<DataSector(Here), i>>
        BY <2>2, <2>5, PlacesAre
    <2>7. ItemAt(Newest, q) = items[i]
        BY <1>3, <2>2, <2>3, <2>5, <2>6, ReadsNewest, PlacesAre
    <2>8. handle'["file"].first = items[i][3] /\ handle'["file"].at = q
        <3> DEFINE e == items[i]
        <3> DEFINE h == [NoHandle EXCEPT !.of = op.name, !.first = e[3], !.cur = e[3], !.size = e[4],
                                         !.at = q]
        <3>1. \/ handle' = [handle EXCEPT !["cwd"] = DirHandle(e[3])]
              \/ handle' = [handle EXCEPT !["dir"] = DirHandle(e[3])]
              \/ handle' = [handle EXCEPT !["file"] = h]
            BY <2>3, <2>4, <2>6 DEF Opened
        <3>2. h.first = e[3] /\ h.at = q
            BY DEF NoHandle
        <3> HIDE DEF h, e
        <3>3. handle'["file"] = h
            BY <1>6, <1>8, <3>1 DEF Handles
        <3> QED
            BY <3>2, <3>3 DEF e
    <2>9. HeadAt(Newest, q) = handle'["file"].first
        BY <2>5, <2>7, <2>8 DEF HeadAt
    <2>10. Claims(Newest, <<>>, handle'["file"], 0)
        <3>1. handle'["file"].first # 0 =>
                  /\ Loose(FatOn(Newest), <<>>, handle'["file"].first)
                  /\ \A p \in Places : HeadAt(Newest, p) = handle'["file"].first => p = q
            BY <2>6, <2>9 DEF ChainsInv, Rooted, Loose, IsHead
        <3>2. Len(<<>>) = 0
            OBVIOUS
        <3> QED
            BY <2>8, <3>1, <3>2 DEF Claims
    <2> QED
        BY <1>4, <1>5, <2>10, KeptIsRooted, ChainsAfter
<1> QED
    BY <1>7, <1>8

\* What a call is to write stays as it is.
LEMMA SameStage ==
    ASSUME EntryItems, op'.call = op.call, op'.name = op.name, op'.todo = op.todo,
           op'.pc = op.pc, op'.items = op.items, op'.first = op.first
    PROVE  Claimed' = Claimed /\ EntryItems'
<1>1. Due' = Due
    BY DEF Due
<1> QED
    BY <1>1 DEF Claimed, EntryItems

LEMMA SetLinkChains ==
    ASSUME UpdatesInv, ChainsInv, SetLink
    PROVE  ChainsInv'
<1>1. PICK l \in Link : l = Head(op.links)
    BY HeadTailProperties DEF UpdatesInv, SetLink, Ops
<1>2. PICK k \in Copies, c \in Clusters, n \in Clusters \cup {Eoc} :
          k = l.copy /\ c = l.cluster /\ n = l.next
    BY DEF Link, Copies
<1>3. PICK links \in Seq(Link) : links = op.links /\ links # <<>>
    BY DEF UpdatesInv, SetLink, Ops
<1>4. /\ op'.links = Tail(links) /\ op'.call = op.call /\ op'.name = op.name /\ op'.todo = op.todo
      /\ op'.pc = op.pc /\ op'.items = op.items /\ op'.first = op.first
      /\ UNCHANGED <<handle, lines>>
    BY <1>3 DEF SetLink, UpdatesInv, Ops, history
<1>5. first_lba = FirstLba
    <2>1. op.call # "none" /\ op.call # "OpenFatInit" /\ op \in Ops
        BY <1>3, IdleIs DEF UpdatesInv, InCall
    <2>2. op.todo # <<>> /\ Due \notin {"mbr", "volume"}
        BY <2>1, StagesAre, DueIs DEF UpdatesInv, Ops
    <2> QED
        BY <2>2, Busy
<1>6. PICK s \in Sectors : s = FatSector(k)
    BY CopiesAre
<1>7. PICK d : d = [Loaded(s) EXCEPT ![c] = n] /\ Change(s, d)
    BY <1>1, <1>2, <1>6 DEF SetLink
<1>8. WrittenImages(s, d)
    BY <1>4, <1>5, <1>7, ChangedImages DEF UpdatesInv
<1>9. Loaded(s) = Newest[FirstLba + s] /\ CardHolds(Newest)
    <2>1. Loaded(s) = Current(s)
        BY <1>3, <1>5, LoadedHolds DEF UpdatesInv
    <2> QED
        BY <1>5, <2>1, NewestIs DEF UpdatesInv, Current, Lba
<1>10. FatOn(Newest') = IF l.copy = 0 THEN [FatOn(Newest) EXCEPT ![l.cluster] = l.next]
                        ELSE FatOn(Newest)
    <2>1. FatSector(0) \in Sectors /\ (FatSector(0) = s <=> k = 0)
        BY <1>6, SectorsAre, ConstantsAre DEF FatSector, Copies
    <2>2. FatOn(Newest') = IF k = 0 THEN d ELSE FatOn(Newest)
        BY <1>8, <2>1 DEF WrittenImages, FatOn
    <2>3. k = 0 => d = [FatOn(Newest) EXCEPT ![c] = n]
        BY <1>7, <1>9, <2>1 DEF FatOn
    <2> QED
        BY <1>2, <2>2, <2>3
<1>11. \A p \in Places : HeadAt(Newest', p) = HeadAt(Newest, p)
    <2> SUFFICES ASSUME NEW p \in Places PROVE ItemAt(Newest', p) = ItemAt(Newest, p)
        BY DEF HeadAt
    <2>1. p[1] \in Sectors /\ p[1] # s
        BY <1>6, PlacesAre, SectorsAre DEF Copies
    <2> QED
        BY <1>8, <2>1 DEF WrittenImages, ItemAt
<1>12. Rooted(Newest') /\ Claims(Newest', Tail(links), handle["file"], Claimed)
    <2>1. Rooted(Newest) /\ Claims(Newest, links, handle["file"], Claimed) /\ l = links[1]
        BY <1>1, <1>3 DEF ChainsInv
    <2>2. PICK h, first, img, new :
              h = handle["file"] /\ first = Claimed /\ img = Newest /\ new = Newest'
        OBVIOUS
    <2>3. Rooted(new) /\ Claims(new, Tail(links), h, first)
        BY <1>3, <1>9, <1>10, <1>11, <2>1, <2>2, LinkSet
    <2> QED
        BY <2>2, <2>3
<1>13. Claimed' = Claimed /\ EntryItems'
    BY <1>4, SameStage DEF ChainsInv
<1> QED
    BY <1>4, <1>8, <1>12, <1>13, WrittenIsRooted, ChainsAfter

LEMMA FreeClusterFree ==
    ASSUME FatHolds(Fat), FreeCluster # 0
    PROVE  FreeCluster \in Clusters /\ Fat[FreeCluster] = 0
<1> DEFINE free == {c \in 2 .. cluster_count - 1 : Fat[c] = 0}
<1> DEFINE onward == {c \in free : c >= last_cluster_alloc}
<1> DEFINE from == IF onward # {} THEN onward ELSE free
<1>1. free # {}
    BY DEF FreeCluster
<1>2. free \subseteq Clusters /\ free \subseteq Nat
    BY ConstantsAre DEF Clusters
<1>3. from \subseteq free /\ from # {}
    BY <1>1
<1> DEFINE least == CHOOSE c \in from : \A d \in from : c <= d
<1>4. FreeCluster = least
    BY <1>1 DEF FreeCluster
<1>5. \A c \in free : Fat[c] = 0
    OBVIOUS
<1> HIDE DEF free, from
<1>6. \E c \in from : \A d \in from : c <= d
    BY <1>2, <1>3, LeastOfNat
<1>7. least \in from
    BY <1>6
<1> QED
    BY <1>2, <1>3, <1>4, <1>5, <1>7

LEMMA FirstClusterChains ==
    ASSUME TwoCopies, UpdatesInv, ChainsInv, FirstCluster
    PROVE  ChainsInv'
<1>1. /\ At(Writing, "first") /\ Get(FatSector(0)) /\ FreeCluster # 0
      /\ handle' = [handle EXCEPT ![op.h].first = FreeCluster, ![op.h].cur = FreeCluster]
      /\ op' = [op EXCEPT !.links = SetInCopies(FreeCluster, Eoc), !.pc = "item"]
      /\ UNCHANGED lines
    BY DEF FirstCluster, history
<1>2. /\ op.links = <<>> /\ op.todo # <<>> /\ Due \in Writing /\ op.pc = "first"
      /\ Due \notin {"mbr", "volume"} /\ op \in Ops /\ first_lba = FirstLba
      /\ op.h \in Handles /\ H \in HandleRecords
    BY <1>1, WritingAt
<1>3. FatHolds(Fat) /\ Fat = FatOn(Newest) /\ CardHolds(Newest)
    BY <1>1, <1>2, FatRead, ReadsNewest
<1>4. PICK c \in Clusters : c = FreeCluster /\ FatOn(Newest)[c] = 0
    BY <1>1, <1>3, FreeClusterFree
<1>5. KeptImages
    BY <1>1, <1>2, GetImages DEF UpdatesInv
<1>6. /\ op'.call = op.call /\ op'.name = op.name /\ op'.todo = op.todo /\ op'.pc = "item"
      /\ op'.items = op.items /\ op'.first = op.first /\ op'.links = SetInCopies(c, Eoc)
    BY <1>1, <1>2, <1>4 DEF Ops
<1>7. Claimed' = Claimed /\ EntryItems'
    BY <1>2, <1>6, PlaceClaims DEF ChainsInv
<1>8. /\ \A k \in Handles : k # op.h => handle'[k] = handle[k]
      /\ handle'[op.h].first = c /\ handle'[op.h].at = handle[op.h].at
    <2>1. PICK r : r = [H EXCEPT !.first = c, !.cur = c]
        OBVIOUS
    <2>2. handle' = [handle EXCEPT ![op.h] = r]
        BY <1>1, <1>2, <1>4, <2>1 DEF H, UpdatesInv, HandlesInv
    <2>3. r.first = c /\ r.at = H.at
        BY <1>2, <2>1 DEF HandleRecords
    <2> QED
        BY <1>2, <2>2, <2>3 DEF UpdatesInv, HandlesInv, H
<1>9. Rooted(Newest) /\ Claims(Newest, <<>>, handle["file"], Claimed)
    BY <1>2 DEF ChainsInv
<1>10. Claims(Newest, SetInCopies(c, Eoc), handle'["file"], Claimed)
    <2>1. PICK h, k, first, img :
              h = handle["file"] /\ k = handle'["file"] /\ first = Claimed /\ img = Newest
        OBVIOUS
    <2>2. /\ Claims(img, SetInCopies(c, Eoc), h, first)
          /\ k.first = c => Claims(img, SetInCopies(c, Eoc), k, first)
        BY <1>3, <1>4, <1>9, <2>1, TakeFirst
    <2>3. k = h \/ k.first = c
        BY <1>8, <2>1 DEF Handles
    <2> QED
        BY <2>1, <2>2, <2>3
<1>11. Claims(Newest', SetInCopies(c, Eoc), handle'["file"], Claimed)
    BY <1>5, <1>10, KeptIsRooted
<1> QED
    BY <1>5, <1>6, <1>7, <1>11, KeptIsRooted, ChainsAfter

LEMMA DirectoryClusterChains ==
    ASSUME TwoCopies, UpdatesInv, ChainsInv, DirectoryCluster
    PROVE  ChainsInv'
<1>1. /\ At({"cluster"}, "start") /\ Get(FatSector(0)) /\ FreeCluster # 0
      /\ op' = [NextStage(op) EXCEPT !.first = FreeCluster, !.links = SetInCopies(FreeCluster, Eoc)]
      /\ UNCHANGED <<handle, lines>>
    BY DEF DirectoryCluster, history
<1>2. /\ op.links = <<>> /\ op.todo # <<>> /\ Due = "cluster" /\ Due \notin {"mbr", "volume"}
      /\ op \in Ops /\ InCall
    BY <1>1, AtIs DEF UpdatesInv
<1>3. first_lba = FirstLba /\ op.call = "CreateDir"
    BY <1>2, Busy, DueIs
<1>4. FatHolds(Fat) /\ Fat = FatOn(Newest) /\ CardHolds(Newest)
    BY <1>1, <1>2, <1>3, FatRead, ReadsNewest
<1>5. PICK c \in Clusters : c = FreeCluster /\ FatOn(Newest)[c] = 0
    BY <1>1, <1>4, FreeClusterFree
<1>6. KeptImages
    BY <1>1, <1>3, GetImages DEF UpdatesInv
<1>7. PICK n : n = NextStage(op)
    OBVIOUS
<1>8. /\ n.call = op.call /\ n.pc = "start"
      /\ n \in Ops /\ n.todo # <<>> /\ Head(n.todo) = "short"
    BY <1>2, <1>7, NextStageIs
<1>9. op' = [n EXCEPT !.first = c, !.links = SetInCopies(c, Eoc)]
    BY <1>1, <1>5, <1>7
<1>10. /\ op'.call = op.call /\ op'.pc = "start" /\ op'.todo = n.todo /\ op'.first = c
       /\ op'.links = SetInCopies(c, Eoc)
    BY <1>8, <1>9 DEF Ops
<1>11. Due' = "short"
    BY <1>8, <1>10 DEF Due
<1>12. Claimed' = c /\ EntryItems'
    BY <1>3, <1>10, <1>11 DEF Claimed, EntryItems
<1>13. Rooted(Newest) /\ Claims(Newest, <<>>, handle["file"], 0)
    BY <1>2 DEF ChainsInv, Claimed
<1>14. Claims(Newest, SetInCopies(c, Eoc), handle["file"], c)
    <2>1. PICK h, img : h = handle["file"] /\ img = Newest
        OBVIOUS
    <2>2. Claims(img, SetInCopies(c, Eoc), h, c)
        BY <1>4, <1>5, <1>13, <2>1, TakeFirst
    <2> QED
        BY <2>1, <2>2
<1>15. Claims(Newest', SetInCopies(c, Eoc), handle'["file"], c)
    BY <1>1, <1>6, <1>14, KeptIsRooted
<1> QED
    BY <1>6, <1>10, <1>12, <1>15, KeptIsRooted, ChainsAfter

LEMMA NextClusterChains ==
    ASSUME TwoCopies, UpdatesInv, ChainsInv, NextCluster
    PROVE  ChainsInv'
<1> DEFINE linked == Fat[H.cur] # Eoc
<1> DEFINE next == IF linked THEN Fat[H.cur] ELSE FreeCluster
<1> DEFINE links == SetInCopies(next, Eoc) \o SetInCopies(H.cur, next)
<1>1. /\ At(Writing, "next") /\ Get(FatSector(0)) /\ next # 0
      /\ handle' = [handle EXCEPT ![op.h].cur = next]
      /\ op' = [op EXCEPT !.links = IF linked THEN <<>> ELSE links,
                          !.pc = IF ~linked /\ H.size = 0 THEN "flush0" ELSE AfterNext]
      /\ UNCHANGED lines
    BY DEF NextCluster, history
<1>2. /\ op.links = <<>> /\ op.todo # <<>> /\ Due \in Writing /\ op.pc = "next"
      /\ Due \notin {"mbr", "volume"} /\ op \in Ops /\ first_lba = FirstLba
      /\ op.h \in Handles /\ H \in HandleRecords
    BY <1>1, WritingAt
<1>3. FatHolds(Fat) /\ Fat = FatOn(Newest) /\ CardHolds(Newest)
    BY <1>1, <1>2, FatRead, ReadsNewest
<1>4. KeptImages
    BY <1>1, <1>2, GetImages DEF UpdatesInv
<1>5. PICK d \in Clusters : d = H.cur
    BY <1>2 DEF UpdatesInv, AtPlace, HandleRecords, Opt
<1>6. handle'["file"].first = handle["file"].first /\ handle'["file"].at = handle["file"].at
    <2>1. PICK r : r = [H EXCEPT !.cur = next]
        OBVIOUS
    <2> HIDE DEF next, linked, links
    <2>2. handle' = [handle EXCEPT ![op.h] = r]
        BY <1>1, <1>2, <2>1 DEF H, UpdatesInv, HandlesInv
    <2>3. r.first = H.first /\ r.at = H.at
        BY <1>2, <2>1 DEF HandleRecords
    <2>4. \A k \in Handles : handle'[k].first = handle[k].first /\ handle'[k].at = handle[k].at
        BY <1>2, <2>2, <2>3 DEF UpdatesInv, HandlesInv, H
    <2> QED
        BY <2>4 DEF Handles
<1>7. /\ op'.call = op.call /\ op'.name = op.name /\ op'.todo = op.todo
      /\ op'.items = op.items /\ op'.first = op.first /\ op'.links = IF linked THEN <<>> ELSE links
      /\ op'.pc \in {"flush0", AfterNext}
    <2> HIDE DEF next, linked, links
    <2> QED
        BY <1>1, <1>2 DEF Ops
<1>8. Claimed' = Claimed /\ EntryItems'
    <2>1. EntryItems
        BY DEF ChainsInv
    <2>2. Due = "short" => AfterNext = "size"
        BY <1>2, <2>1 DEF EntryItems, AfterNext
    <2>3. AfterNext \in {"size", "item"}
        BY DEF AfterNext
    <2> QED
        BY <1>2, <1>7, <2>1, <2>2, <2>3, PlaceClaims
<1>9. CASE linked
    BY <1>2, <1>4, <1>6, <1>7, <1>8, <1>9, ChainsKept
<1>10. CASE ~linked
    <2>1. PICK c \in Clusters : c = next /\ FatOn(Newest)[c] = 0
        BY <1>1, <1>3, <1>10, FreeClusterFree
    <2>2. FatOn(Newest)[d] = Eoc
        BY <1>3, <1>5, <1>10
    <2>3. links = SetInCopies(c, Eoc) \o SetInCopies(d, c)
        BY <1>5, <2>1
    <2> HIDE DEF next, links
    <2>4. op'.links = links
        BY <1>7, <1>10
    <2>5. Rooted(Newest) /\ Claims(Newest, <<>>, handle["file"], Claimed)
        BY <1>2 DEF ChainsInv
    <2>6. Claims(Newest, links, handle["file"], Claimed)
        <3>1. PICK h, first, img : h = handle["file"] /\ first = Claimed /\ img = Newest
            OBVIOUS
        <3>2. Claims(img, links, h, first)
            BY <1>3, <2>1, <2>2, <2>3, <2>5, <3>1, TakeNext
        <3> QED
            BY <3>1, <3>2
    <2>7. Claims(Newest, links, handle'["file"], Claimed)
        BY <1>6, <2>6 DEF Claims
    <2>8. Claims(Newest', links, handle'["file"], Claimed)
        BY <1>4, <2>7, KeptIsRooted
    <2> QED
        BY <1>4, <1>8, <2>4, <2>8, KeptIsRooted, ChainsAfter
<1> QED
    BY <1>9, <1>10

LEMMA StartWriteChains ==
    ASSUME UpdatesInv, ChainsInv, StartWrite
    PROVE  ChainsInv'
<1>1. At(Writing, "start")
    BY DEF StartWrite
<1>2. /\ op.links = <<>> /\ op.todo # <<>> /\ Due \in Writing /\ op.pc = "start" /\ Stage = Due
      /\ op \in Ops
    BY <1>1, WritingAt
<1>3. /\ op' = [Output(op, Due) EXCEPT !.pc = IF handle[Output(op, Due).h].cur = 0
                                               THEN "first" ELSE "item"]
      /\ UNCHANGED <<cache, handle>>
    BY <1>2 DEF StartWrite
<1>4. KeptImages
    BY <1>3, UntouchedImages DEF cache
<1>5. \/ Due = "long" /\ Output(op, Due) = [op EXCEPT !.h = "cwd", !.items = <<Long(op.name)>>]
      \/ Due = "short" /\ Output(op, Due) = [op EXCEPT !.h = "cwd",
                                                       !.items = <<Short(op.name, op.first, 0)>>]
      \/ Due = "dots" /\ Output(op, Due) = [op EXCEPT !.h = "dir", !.items = <<Dot, Dot>>]
      \/ Due = "lines" /\ Output(op, Due) = [op EXCEPT !.h = "file"]
    BY <1>2 DEF Output, Writing
<1>6. /\ op'.call = op.call /\ op'.name = op.name /\ op'.todo = op.todo /\ op'.first = op.first
      /\ op'.links = op.links /\ op'.pc \in {"first", "item"}
      /\ \/ Due = "long" /\ op'.items = <<Long(op.name)>>
         \/ Due = "short" /\ op'.items = <<Short(op.name, op.first, 0)>>
         \/ Due = "dots" /\ op'.items = <<Dot, Dot>>
         \/ Due = "lines" /\ op'.items = op.items
    BY <1>2, <1>3, <1>5 DEF Ops
<1>7. Due' = Due
    BY <1>6 DEF Due
<1>8. Claimed' = Claimed
    BY <1>2, <1>6, <1>7 DEF Claimed
<1>9. EntryItems'
    <2>1. EntryItems
        BY DEF ChainsInv
    <2>2. op'.call # "CreateDir" => op'.first = 0
        BY <1>6, <2>1 DEF EntryItems
    <2>3. Due = "long" => \A i \in 1 .. Len(op'.items) : op'.items[i][1] # "short"
        <3> SUFFICES ASSUME Due = "long", NEW i \in 1 .. Len(op'.items) PROVE op'.items[i][1] # "short"
            OBVIOUS
        <3>1. op'.items = <<Long(op.name)>>
            BY <1>6
        <3>2. Len(<<Long(op.name)>>) = 1
            OBVIOUS
        <3>3. i = 1 /\ op'.items[1] = Long(op.name)
            BY <3>1, <3>2
        <3> QED
            BY <3>3 DEF Long
    <2>4. Due = "dots" => \A i \in 1 .. Len(op'.items) : op'.items[i][1] # "short"
        <3> SUFFICES ASSUME Due = "dots", NEW i \in 1 .. Len(op'.items) PROVE op'.items[i][1] # "short"
            OBVIOUS
        <3>1. op'.items = <<Dot, Dot>>
            BY <1>6
        <3>2. Len(<<Dot, Dot>>) = 2
            OBVIOUS
        <3>3. op'.items[i] = Dot
            BY <3>1, <3>2
        <3> QED
            BY <3>3 DEF Dot
    <2>5. Due = "lines" => \A i \in 1 .. Len(op'.items) : op'.items[i][1] # "short"
        BY <1>6, <2>1 DEF EntryItems
    <2> QED
        BY <1>6, <1>7, <2>2, <2>3, <2>4, <2>5 DEF EntryItems
<1> QED
    BY <1>2, <1>3, <1>4, <1>6, <1>8, <1>9, ChainsKept

\* An item of a sector is replaced.
LEMMA ItemReplaced ==
    ASSUME CardHolds(Newest), NEW c \in Clusters, NEW i \in 1 .. Slots, NEW x,
           WrittenImages(DataSector(c), [ItemsOf(Newest, c) EXCEPT ![i] = x]),
           NEW q, q = <<DataSector(c), i>>
    PROVE  /\ FatOn(Newest') = FatOn(Newest) /\ q \in Places
           /\ ItemAt(Newest', q) = x
           /\ \A p \in Places : p # q => /\ ItemAt(Newest', p) = ItemAt(Newest, p)
                                         /\ HeadAt(Newest', p) = HeadAt(Newest, p)
<1>1. PICK d : d = [ItemsOf(Newest, c) EXCEPT ![i] = x] /\ WrittenImages(DataSector(c), d)
    OBVIOUS
<1>2. /\ FatOn(Newest') = FatOn(Newest)
      /\ \A p \in Places :
             ItemAt(Newest', p) = IF p[1] = DataSector(c) THEN d[p[2]] ELSE ItemAt(Newest, p)
    BY <1>1, DataWritten
<1>3. q \in Places /\ q[1] = DataSector(c) /\ q[2] = i
    BY PlacesAre
<1>4. DOMAIN ItemsOf(Newest, c) = 1 .. Slots
    BY ImageHolds DEF DataHolds
<1>5. d[i] = x
    BY <1>1, <1>4
<1>6. ASSUME NEW p \in Places, p # q PROVE ItemAt(Newest', p) = ItemAt(Newest, p)
    <2>1. PICK e \in Clusters, j \in 1 .. Slots :
              p = <<DataSector(e), j>> /\ p[1] = DataSector(e) /\ p[2] = j
        BY PlacesAre
    <2>2. CASE e = c
        <3>1. j # i
            BY <1>6, <2>1, <2>2
        <3>2. d[j] = ItemsOf(Newest, c)[j]
            BY <1>1, <1>4, <3>1
        <3>3. ItemAt(Newest, p) = ItemsOf(Newest, c)[j]
            BY <2>1, <2>2, PlacesAre
        <3> QED
            BY <1>2, <2>1, <2>2, <3>2, <3>3
    <2>3. CASE e # c
        BY <1>2, <2>1, <2>3, PlacesAre
    <2> QED
        BY <2>2, <2>3
<1>7. \A p \in Places : p # q => HeadAt(Newest', p) = HeadAt(Newest, p)
    BY <1>6 DEF HeadAt
<1> QED
    BY <1>2, <1>3, <1>5, <1>6, <1>7

LEMMA WriteItemChains ==
    ASSUME TwoCopies, UpdatesInv, ChainsInv, WriteItem
    PROVE  ChainsInv'
<1> DEFINE s == DataSector(H.cur)
<1> DEFINE slot == (H.pos % Slots) + 1
<1>1. /\ At(Writing, "item") /\ Change(s, [Loaded(s) EXCEPT ![slot] = Head(op.items)])
      /\ handle' = [handle EXCEPT ![op.h].pos = @ + 1]
      /\ op' = [op EXCEPT !.items = Tail(@),
                          !.pc = IF (H.pos + 1) % Slots = 0 THEN "next"
                                 ELSE IF Len(op.items) > 1 THEN "item" ELSE "size"]
      /\ UNCHANGED lines
    BY DEF WriteItem, history
<1>2. /\ op.links = <<>> /\ op.todo # <<>> /\ Due \in Writing /\ op.pc = "item"
      /\ Due \notin {"mbr", "volume"} /\ op \in Ops /\ first_lba = FirstLba
      /\ op.h \in Handles /\ H \in HandleRecords
    BY <1>1, WritingAt
<1>3. H.cur \in Clusters /\ op.items # <<>> /\ op.items \in Seq(Written) /\ H.pos \in Nat
    BY <1>2 DEF UpdatesInv, AtPlace, HandleRecords, Opt, Ops
<1>4. slot \in 1 .. Slots
    <2>1. H.pos % Slots \in 0 .. Slots - 1
        BY <1>3, ConstantsAre, DivisionIs
    <2> QED
        BY <2>1, ConstantsAre
<1>5. PICK c \in Clusters, i \in 1 .. Slots, x \in {Head(op.items)} :
          c = H.cur /\ i = slot /\ x = Head(op.items)
    BY <1>3, <1>4
<1> HIDE DEF slot
<1>6. Loaded(s) = ItemsOf(Newest, c) /\ CardHolds(Newest)
    BY <1>2, <1>5, ReadsNewest
<1>7. WrittenImages(DataSector(c), [ItemsOf(Newest, c) EXCEPT ![i] = x])
    <2>1. Change(DataSector(c), [ItemsOf(Newest, c) EXCEPT ![i] = x]) /\ DataSector(c) \in Sectors
        BY <1>1, <1>5, <1>6, SectorsAre
    <2> QED
        BY <1>1, <1>2, <2>1, ChangedImages DEF UpdatesInv
<1>8. PICK q : q = <<DataSector(c), i>>
    OBVIOUS
<1>9. /\ FatOn(Newest') = FatOn(Newest) /\ q \in Places
      /\ ItemAt(Newest', q) = x
      /\ \A p \in Places : p # q => HeadAt(Newest', p) = HeadAt(Newest, p)
    BY <1>6, <1>7, <1>8, ItemReplaced
<1> HIDE DEF s
<1>10. PICK items \in Seq(Written) : items = op.items /\ items # <<>>
    BY <1>3
<1>11. /\ Len(items) \in Nat \ {0} /\ Tail(items) \in Seq(Written) /\ x = items[1]
       /\ Len(Tail(items)) = Len(items) - 1
       /\ \A j \in 1 .. Len(Tail(items)) : Tail(items)[j] = items[j + 1]
    BY <1>5, <1>10, HeadTailProperties
<1>12. /\ op'.call = op.call /\ op'.name = op.name /\ op'.todo = op.todo
       /\ op'.first = op.first /\ op'.items = Tail(items) /\ op'.links = <<>>
       /\ op'.pc \in {"next", "item", "size"} /\ (op'.pc = "item" => Len(items) > 1)
    BY <1>1, <1>2, <1>10 DEF Ops
<1>13. Due' = Due
    BY <1>12 DEF Due
<1>14. EntryItems
    BY DEF ChainsInv
<1>15. Due = "short" => /\ x = Short(op.name, op.first, 0) /\ Tail(items) = <<>>
                        /\ op'.pc \notin {"first", "item"}
    <2> SUFFICES ASSUME Due = "short"
                 PROVE  /\ x = Short(op.name, op.first, 0) /\ Tail(items) = <<>>
                        /\ op'.pc \notin {"first", "item"}
        OBVIOUS
    <2>1. items = <<Short(op.name, op.first, 0)>>
        BY <1>2, <1>10, <1>14 DEF EntryItems
    <2>2. Len(<<Short(op.name, op.first, 0)>>) = 1
        OBVIOUS
    <2>3. Len(items) = 1
        BY <2>1, <2>2
    <2>4. x = Short(op.name, op.first, 0)
        BY <1>11, <2>1
    <2>5. Len(Tail(items)) = 0
        BY <1>11, <2>3
    <2>6. Tail(items) = <<>>
        BY <1>11, <2>5, EmptySeq
    <2> QED
        BY <1>12, <2>3, <2>4, <2>6
<1>16. Due # "short" => \A j \in 1 .. Len(items) : items[j][1] # "short"
    BY <1>2, <1>10, <1>14 DEF EntryItems, Writing
<1>17. Claimed' = 0
    BY <1>13, <1>15 , <1>12 DEF Claimed
<1>18. EntryItems'
    <2>1. Due # "short" => \A j \in 1 .. Len(Tail(items)) : Tail(items)[j][1] # "short"
        <3> SUFFICES ASSUME Due # "short", NEW j \in 1 .. Len(Tail(items))
                     PROVE  Tail(items)[j][1] # "short"
            OBVIOUS
        <3>1. j + 1 \in 1 .. Len(items) /\ Tail(items)[j] = items[j + 1]
            BY <1>11
        <3> QED
            BY <1>16, <3>1
    <2>2. op'.call # "CreateDir" => op'.first = 0
        BY <1>12, <1>14 DEF EntryItems
    <2> QED
        BY <1>12, <1>13, <1>15, <2>1, <2>2 DEF EntryItems
<1>19. HeadAt(Newest', q) \in {0, Claimed}
    <2>1. CASE Due = "short"
        <3>1. Claimed = op.first
            BY <1>2, <2>1 DEF Claimed
        <3>2. x[3] = op.first
            BY <1>15, <2>1 DEF Short
        <3> QED
            BY <1>9, <3>1, <3>2 DEF HeadAt
    <2>2. CASE Due # "short"
        <3>1. 1 \in 1 .. Len(items)
            BY <1>11
        <3>2. x[1] # "short"
            BY <1>11, <1>16, <2>2, <3>1
        <3> QED
            BY <1>9, <3>2 DEF HeadAt
    <2> QED
        BY <2>1, <2>2
<1>20. Rooted(Newest') /\ Claims(Newest', <<>>, handle["file"], 0)
    <2>1. Rooted(Newest) /\ Claims(Newest, <<>>, handle["file"], Claimed)
        BY <1>2 DEF ChainsInv
    <2>2. PICK h, first, img, new :
              h = handle["file"] /\ first = Claimed /\ img = Newest /\ new = Newest'
        OBVIOUS
    <2>3. Rooted(new) /\ Claims(new, <<>>, h, 0)
        BY <1>9, <1>19, <2>1, <2>2, EntryWritten
    <2> QED
        BY <2>2, <2>3
<1>21. handle'["file"].first = handle["file"].first /\ handle'["file"].at = handle["file"].at
    <2>1. PICK r : r = [H EXCEPT !.pos = H.pos + 1]
        OBVIOUS
    <2>2. handle' = [handle EXCEPT ![op.h] = r]
        BY <1>1, <1>2, <2>1 DEF H, UpdatesInv, HandlesInv
    <2>3. r.first = H.first /\ r.at = H.at
        BY <1>2, <2>1 DEF HandleRecords
    <2>4. \A k \in Handles : handle'[k].first = handle[k].first /\ handle'[k].at = handle[k].at
        BY <1>2, <2>2, <2>3 DEF UpdatesInv, HandlesInv, H
    <2> QED
        BY <2>4 DEF Handles
<1>22. Claims(Newest', <<>>, handle'["file"], 0)
    BY <1>20, <1>21 DEF Claims
<1> QED
    BY <1>7, <1>12, <1>17, <1>18, <1>20, <1>22, WrittenIsRooted, ChainsAfter

\* A cluster is cleared.
LEMMA ClearedClaims ==
    ASSUME ChainsInv, op.links = <<>>, NEW c \in Clusters, WrittenImages(DataSector(c), Zeros)
    PROVE  Rooted(Newest') /\ Claims(Newest', <<>>, handle["file"], Claimed)
<1>1. /\ FatOn(Newest') = FatOn(Newest)
      /\ \A p \in Places : ItemAt(Newest', p) = IF p[1] = DataSector(c) THEN Zeros[p[2]]
                                                ELSE ItemAt(Newest, p)
    BY DataWritten
<1>2. ASSUME NEW p \in Places PROVE HeadAt(Newest', p) \in {0, HeadAt(Newest, p)}
    <2>1. CASE p[1] = DataSector(c)
        <3>1. p[2] \in 1 .. Slots
            BY PlacesAre
        <3>2. Zeros[p[2]] = Zero
            BY <3>1 DEF Zeros
        <3>3. ItemAt(Newest', p) = Zero
            BY <1>1, <2>1, <3>2
        <3> QED
            BY <3>3 DEF HeadAt, Zero
    <2>2. CASE p[1] # DataSector(c)
        BY <1>1, <2>2 DEF HeadAt
    <2> QED
        BY <2>1, <2>2
<1>3. Rooted(Newest) /\ Claims(Newest, <<>>, handle["file"], Claimed)
    BY DEF ChainsInv
<1>4. PICK a, b, h, first : a = Newest /\ b = Newest' /\ h = handle["file"] /\ first = Claimed
    OBVIOUS
<1>5. Rooted(b) /\ Claims(b, <<>>, h, first)
    BY <1>1, <1>2, <1>3, <1>4, FewerEntries
<1> QED
    BY <1>4, <1>5

LEMMA WriteChains ==
    ASSUME TwoCopies, UpdatesInv, ChainsInv,
           FlushBeforeClear \/ ClearCluster \/ SyncEntry \/ SyncFlush \/ WriteReturns
    PROVE  ChainsInv'
<1>1. PICK pc : At(Writing, pc) /\ pc \in {"flush0", "clear", "size", "flush"}
    BY DEF FlushBeforeClear, ClearCluster, SyncEntry, SyncFlush, WriteReturns
<1>2. /\ op.links = <<>> /\ op.todo # <<>> /\ Due \in Writing /\ Stage = Due /\ op.pc = pc
      /\ op \in Ops /\ InCall /\ CacheInv /\ first_lba = FirstLba /\ H \in HandleRecords
      /\ Due # "cluster" /\ (op.h = "file" <=> Due = "lines") /\ op.h \in Handles
    BY <1>1, WritingAt DEF UpdatesInv, Writing
<1>3. EntryItems
    BY DEF ChainsInv
<1>4. AfterNext \in {"size", "item"} /\ (Due = "short" => AfterNext = "size")
    BY <1>1, <1>2, <1>3 DEF AfterNext, EntryItems
<1>5. CASE FlushBeforeClear \/ ClearCluster
    <2>1. /\ op' = [op EXCEPT !.pc = "clear"] \/ op' = [op EXCEPT !.pc = AfterNext]
          /\ UNCHANGED <<handle, lines>>
        BY <1>5 DEF FlushBeforeClear, ClearCluster, history
    <2>2. /\ op'.call = op.call /\ op'.name = op.name /\ op'.todo = op.todo /\ op'.links = <<>>
          /\ op'.items = op.items /\ op'.first = op.first /\ op'.pc \in {"clear", AfterNext}
        BY <1>2, <2>1 DEF Ops
    <2>3. Claimed' = Claimed /\ EntryItems'
        BY <1>1, <1>2, <1>3, <1>4, <2>2, PlaceClaims
    <2>4. CASE FlushBeforeClear
        <3>1. KeptImages
            BY <1>2, <2>1, <2>4, GetImages DEF FlushBeforeClear
        <3> QED
            BY <1>2, <2>1, <2>2, <2>3, <3>1, ChainsKept
    <2>5. CASE ClearCluster
        <3>1. op.pc = "clear" /\ WriteThrough(DataSector(H.cur), Zeros)
            BY <2>5 DEF ClearCluster, At
        <3>2. PICK c \in Clusters : c = H.cur /\ ~dirty
            BY <1>2, <3>1 DEF UpdatesInv, AtPlace, HandleRecords, Opt
        <3>3. DataSector(c) \in Sectors /\ Holds(DataSector(c), Zeros)
            BY SectorsAre, ZerosHold DEF UpdatesInv
        <3>4. WrittenImages(DataSector(c), Zeros)
            BY <1>2, <2>1, <3>1, <3>2, <3>3, ClearedImages
        <3>5. Rooted(Newest') /\ Claims(Newest', <<>>, handle["file"], Claimed)
            BY <1>2, <3>4, ClearedClaims
        <3> QED
            BY <2>1, <2>2, <2>3, <3>4, <3>5, WrittenIsRooted, ChainsAfter
    <2> QED
        BY <1>5, <2>4, <2>5
<1>6. CASE SyncEntry
    <2>1. /\ op.pc = "size" /\ H.at # <<>>
          /\ Change(H.at[1], [Loaded(H.at[1]) EXCEPT ![H.at[2]] = Short(H.of, H.first, H.pos)])
          /\ handle' = [handle EXCEPT ![op.h].size = H.pos]
          /\ op' = [op EXCEPT !.pc = "flush"] /\ UNCHANGED lines
        BY <1>6 DEF SyncEntry, At, history
    <2>2. H = handle["file"] /\ op.h = "file" /\ Due = "lines"
        BY <1>2, <2>1 DEF H, Handles, UpdatesInv, HandlesInv
    <2>3. PICK q \in Places : q = H.at
        BY <1>2, <2>1 DEF HandleRecords
    <2>4. PICK c \in Clusters, i \in 1 .. Slots :
              q = <<DataSector(c), i>> /\ q[1] = DataSector(c) /\ q[2] = i
        BY PlacesAre
    <2>5. PICK x : x = Short(H.of, H.first, H.pos)
        OBVIOUS
    <2>6. Loaded(DataSector(c)) = ItemsOf(Newest, c) /\ CardHolds(Newest)
        BY <1>2, ReadsNewest
    <2>7. WrittenImages(DataSector(c), [ItemsOf(Newest, c) EXCEPT ![i] = x])
        <3>1. Change(DataSector(c), [ItemsOf(Newest, c) EXCEPT ![i] = x]) /\ DataSector(c) \in Sectors
            BY <2>1, <2>3, <2>4, <2>5, <2>6, SectorsAre
        <3> QED
            BY <1>2, <2>1, <3>1, ChangedImages
    <2>8. /\ FatOn(Newest') = FatOn(Newest)
          /\ ItemAt(Newest', q) = x
          /\ \A p \in Places : p # q => HeadAt(Newest', p) = HeadAt(Newest, p)
        BY <2>4, <2>6, <2>7, ItemReplaced
    <2>9. HeadAt(Newest', q) = H.first
        BY <2>5, <2>8 DEF HeadAt, Short
    <2>10. Rooted(Newest') /\ Claims(Newest', <<>>, handle["file"], 0)
        <3>1. Rooted(Newest) /\ Claims(Newest, <<>>, handle["file"], Claimed)
            BY <1>2 DEF ChainsInv
        <3>2. PICK h, first, img, new :
                  h = handle["file"] /\ first = Claimed /\ img = Newest /\ new = Newest'
            OBVIOUS
        <3>3. Rooted(new) /\ Claims(new, <<>>, h, 0)
            BY <2>2, <2>3, <2>8, <2>9, <3>1, <3>2, EntryWritten
        <3> QED
            BY <3>2, <3>3
    <2>11. handle'["file"].first = handle["file"].first /\ handle'["file"].at = handle["file"].at
        <3>1. PICK r : r = [H EXCEPT !.size = H.pos]
            OBVIOUS
        <3>2. handle' = [handle EXCEPT !["file"] = r]
            BY <2>1, <2>2, <3>1
        <3>3. r.first = H.first /\ r.at = H.at
            BY <1>2, <3>1 DEF HandleRecords
        <3> QED
            BY <2>2, <3>2, <3>3 DEF UpdatesInv, HandlesInv, Handles
    <2>12. Claims(Newest', <<>>, handle'["file"], 0)
        BY <2>10, <2>11 DEF Claims
    <2>13. /\ op'.call = op.call /\ op'.name = op.name /\ op'.todo = op.todo /\ op'.links = <<>>
           /\ op'.items = op.items /\ op'.first = op.first /\ op'.pc = "flush"
        BY <1>2, <2>1 DEF Ops
    <2>14. Claimed' = Claimed /\ EntryItems' /\ Claimed = 0
        <3>1. Claimed' = Claimed /\ EntryItems'
            BY <1>1, <1>2, <1>3, <2>2, <2>13, PlaceClaims
        <3> QED
            BY <2>2, <3>1 DEF Claimed
    <2> QED
        BY <2>7, <2>10, <2>12, <2>13, <2>14, WrittenIsRooted, ChainsAfter
<1>7. CASE SyncFlush \/ WriteReturns
    <2>1. op' = NextStage(op) /\ UNCHANGED <<handle, lines>>
        BY <1>7 DEF SyncFlush, WriteReturns, Acknowledge, history
    <2>2. op'.links = <<>> /\ Claimed' = 0 /\ EntryItems'
        BY <1>2, <1>3, <2>1, StageClaims
    <2>3. KeptImages
        <3>1. CASE SyncFlush
            BY <1>2, <2>1, <3>1, GetImages DEF SyncFlush
        <3>2. CASE WriteReturns
            BY <3>2, UntouchedImages DEF WriteReturns, cache
        <3> QED
            BY <1>7, <3>1, <3>2
    <2> QED
        BY <1>2, <2>1, <2>2, <2>3, ChainsKept
<1> QED
    BY <1>5, <1>6, <1>7

LEMMA MountChains ==
    ASSUME UpdatesInv, ChainsInv, BlankDirectory \/ mbr_partition_init \/ fat_vol_init
    PROVE  ChainsInv'
<1>1. \E stage \in {"blank", "mbr", "volume"} : At({stage}, "start")
    BY DEF BlankDirectory, mbr_partition_init, fat_vol_init
<1>2. PICK stage \in {"blank", "mbr", "volume"} : At({stage}, "start")
    BY <1>1
<1>3. /\ op.links = <<>> /\ op.todo # <<>> /\ Due = stage /\ Stage = Due
      /\ op \in Ops /\ InCall /\ CacheInv
    BY <1>2, AtIs DEF UpdatesInv
<1>4. op' = NextStage(op) /\ UNCHANGED lines
    BY DEF BlankDirectory, mbr_partition_init, fat_vol_init, history
<1>5. op'.links = <<>> /\ Claimed' = 0 /\ EntryItems' /\ Claimed = 0
    BY <1>3, <1>4, StageClaims DEF ChainsInv, Claimed
<1>6. handle'["file"] = handle["file"]
    BY DEF BlankDirectory, mbr_partition_init, fat_vol_init, UpdatesInv, HandlesInv, Handles
<1>7. CASE BlankDirectory
    <2>1. Due = "blank" /\ Due \notin {"mbr", "volume"}
        BY <1>3, <1>7 DEF BlankDirectory, At
    <2>2. handle["dir"] \in HandleRecords /\ handle["dir"].first # 0
        BY <2>1 DEF UpdatesInv, Mounting, HandlesInv, Handles
    <2>3. PICK c \in Clusters : c = handle["dir"].first
        BY <2>2 DEF HandleRecords, Opt
    <2>4. first_lba = FirstLba
        BY <1>3, <2>1, Busy
    <2>5. WrittenImages(DataSector(c), Zeros)
        BY <1>3, <1>4, <1>7, <2>3, <2>4, SectorsAre, ChangedImages DEF BlankDirectory
    <2>6. Rooted(Newest') /\ Claims(Newest', <<>>, handle["file"], Claimed)
        BY <1>3, <2>5, ClearedClaims
    <2> QED
        BY <1>5, <1>6, <2>5, <2>6, WrittenIsRooted, ChainsAfter
<1>8. CASE mbr_partition_init
    <2>1. Due = "mbr"
        BY <1>3, <1>8 DEF mbr_partition_init, At
    <2>2. ~dirty
        BY <2>1 DEF UpdatesInv, Mounting, CacheInv
    <2>3. KeptImages
        BY <1>8, <2>2, UntouchedImages DEF mbr_partition_init
    <2> QED
        BY <1>3, <1>5, <1>6, <2>3, ChainsKept
<1>9. CASE fat_vol_init
    <2>1. Due = "volume" /\ Get(BootSector)
        BY <1>3, <1>9 DEF fat_vol_init, At
    <2>2. op # Idle
        BY <1>3, DueIs
    <2>3. first_lba = FirstLba
        BY <2>1, <2>2 DEF UpdatesInv, Mounting, CacheInv
    <2>4. KeptImages
        BY <1>3, <1>4, <2>1, <2>3, GetImages
    <2> QED
        BY <1>3, <1>5, <1>6, <2>4, ChainsKept
<1> QED
    BY <1>7, <1>8, <1>9

LEMMA CallerChains ==
    ASSUME UpdatesInv, ChainsInv,
           \/ OpenFatInit \/ CreateDir \/ \E f \in Files : CreateFile(f)
           \/ \E n \in 1 .. 2 : fat_write(n)
    PROVE  ChainsInv'
<1>1. op = Idle /\ UNCHANGED <<cache, handle>>
    BY DEF OpenFatInit, CreateDir, CreateFile, fat_write
<1>2. op.links = <<>> /\ op.todo = <<>>
    BY <1>1, IdleIs
<1>3. KeptImages
    BY <1>1, UntouchedImages DEF cache
<1>4. op'.links = <<>> /\ op'.first = 0 /\ op'.pc = "start"
    BY DEF OpenFatInit, CreateDir, CreateFile, fat_write, Call, Idle
<1>5. Claimed' = 0
    BY <1>4 DEF Claimed
<1>6. CASE \E n \in 1 .. 2 : fat_write(n)
    <2>1. PICK n \in 1 .. 2 : fat_write(n)
        BY <1>6
    <2>2. PICK f : f = handle["file"].of
        OBVIOUS
    <2>3. /\ op'.todo = <<"lines">>
          /\ op'.items = [i \in 1 .. n |-> Line(f, lines[f] + i)]
        BY <2>1, <2>2 DEF fat_write, Idle
    <2>4. Due' = "lines"
        BY <2>3 DEF Due
    <2>5. \A i \in 1 .. Len(op'.items) : op'.items[i][1] # "short"
        <3>1. Len([i \in 1 .. n |-> Line(f, lines[f] + i)]) = n
            OBVIOUS
        <3>2. \A i \in 1 .. n : op'.items[i] = Line(f, lines[f] + i)
            BY <2>3
        <3> QED
            BY <2>3, <3>1, <3>2 DEF Line
    <2>6. EntryItems'
        BY <1>4, <2>4, <2>5 DEF EntryItems
    <2> QED
        BY <1>1, <1>2, <1>3, <1>4, <1>5, <2>6, ChainsKept
<1>7. CASE OpenFatInit \/ CreateDir \/ \E f \in Files : CreateFile(f)
    <2>1. \/ op'.todo = <<"mbr", "volume">>
          \/ op'.todo = <<"exists", "seek", "long", "cluster", "short", "open", "blank", "dots", "chdir">>
          \/ op'.todo = <<"exists", "seek", "long", "short", "open">>
        BY <1>7 DEF OpenFatInit, CreateDir, CreateFile, Call, Idle
    <2>2. Due' \in {"mbr", "exists"}
        BY <2>1 DEF Due
    <2>3. EntryItems'
        BY <1>4, <2>2 DEF EntryItems
    <2> QED
        BY <1>1, <1>2, <1>3, <1>4, <1>5, <2>3, ChainsKept
<1> QED
    BY <1>6, <1>7

\* Every state that a power cut may leave was the newest.
LEMMA PowerCutChains ==
    ASSUME UpdatesInv, ChainsInv, PowerCut
    PROVE  ChainsInv'
<1>1. /\ card' \in Survivors /\ undo' = <<>> /\ dirty' = FALSE /\ op' = Idle
      /\ handle' = [h \in {"cwd", "file", "dir"} |-> NoHandle]
    BY DEF PowerCut, PowerUp
<1>2. Rooted(card') /\ DOMAIN card' = DOMAIN card
    <2>1. Rooted(card')
        BY <1>1 DEF ChainsInv
    <2>2. DOMAIN card' = DOMAIN card
        BY <1>1 DEF Survivors
    <2> QED
        BY <2>1, <2>2
<1>3. \A s \in Sectors : FirstLba + s \in DOMAIN card'
    BY <1>2, BlocksAre DEF UpdatesInv, CacheInv, CardHolds
<1>4. Alike(Newest', card')
    BY <1>1, <1>3 DEF Alike, Newest
<1>5. ASSUME NEW img \in Survivors' PROVE Alike(img, card')
    <2> DEFINE same == [l \in DOMAIN card' |-> IF l \in DOMAIN undo' THEN undo'[l] ELSE card'[l]]
    <2>1. Alike(same, card')
        BY <1>1, <1>3 DEF Alike
    <2>2. Survivors' = {card', same}
        BY DEF Survivors
    <2> QED
        BY <2>1, <2>2 DEF Alike
<1>6. Rooted(Newest') /\ \A img \in Survivors' : Rooted(img)
    BY <1>2, <1>4, <1>5, RootedAlike
<1>7. op'.links = <<>> /\ op'.todo = <<>> /\ op'.first = 0
    BY <1>1, IdleIs
<1>8. Claimed' = 0 /\ EntryItems'
    BY <1>7 DEF Claimed, EntryItems, Due
<1>9. handle'["file"].first = 0
    BY <1>1 DEF NoHandle
<1>10. Claims(Newest', <<>>, handle'["file"], 0)
    <2>1. Len(<<>>) = 0
        OBVIOUS
    <2> QED
        BY <1>9, <2>1 DEF Claims
<1> QED
    BY <1>6, <1>7, <1>8, <1>10, ChainsAfter

LEMMA InitialChains ==
    ASSUME Init
    PROVE  ChainsInv
<1>1. op = Idle /\ ~dirty /\ undo = <<>> /\ card = FreshCard /\ handle["file"] = NoHandle
    BY DEF Init
<1>2. DOMAIN card = 0 .. FirstLba + Last /\ \A s \in Sectors : FirstLba + s \in DOMAIN card
    <2>1. Last \in Nat /\ FirstLba \in Nat
        BY ConstantsAre DEF Last, DataSector
    <2>2. DOMAIN card = 0 .. FirstLba + Last
        BY <1>1 DEF FreshCard, Last
    <2> QED
        BY <2>1, <2>2 DEF Sectors
<1>3. FatOn(card) = [c \in Clusters |-> IF c = Root THEN Eoc ELSE 0]
    <2> DEFINE l == FirstLba + FatSector(0)
    <2>1. l \in Nat /\ l # Mbr /\ ~(l < FirstLba) /\ l # FirstLba + BootSector /\ l < FirstLba + DataSector(2)
        BY ConstantsAre DEF FatSector, DataSector, BootSector, Mbr
    <2>2. l \in 0 .. FirstLba + DataSector(cluster_count + 1)
        BY <1>2, SectorsAre DEF Last
    <2> HIDE DEF l
    <2>3. FreshCard[l] = [c \in Clusters |-> IF c = Root THEN Eoc ELSE 0]
        BY <2>1, <2>2 DEF FreshCard
    <2> QED
        BY <1>1, <2>3 DEF FatOn, l
<1>4. ASSUME NEW p \in Places PROVE HeadAt(card, p) = 0
    <2>1. PICK c \in Clusters, i \in 1 .. Slots :
              p = <<DataSector(c), i>> /\ p[1] = DataSector(c) /\ p[2] = i
        BY PlacesAre
    <2> DEFINE l == FirstLba + DataSector(c)
    <2>2. /\ l \in Nat /\ l # Mbr /\ ~(l < FirstLba) /\ l # FirstLba + BootSector
          /\ ~(l < FirstLba + DataSector(2))
        BY ConstantsAre DEF DataSector, BootSector, Mbr, Clusters
    <2>3. l \in 0 .. FirstLba + DataSector(cluster_count + 1)
        BY <1>2, SectorsAre DEF Last
    <2>4. \/ FreshCard[l] = [k \in 1 .. Slots |-> IF k <= RootLabels THEN Label ELSE Zero]
          \/ FreshCard[l] = [k \in 1 .. Slots |-> Junk]
        <3> HIDE DEF l
        <3> QED
            BY <2>2, <2>3 DEF FreshCard
    <2>5. FreshCard[l][i] \in {Label, Zero, Junk}
        <3> HIDE DEF l
        <3> QED
            BY <2>4
    <2>6. ItemAt(card, p) \in {Label, Zero, Junk}
        BY <1>1, <2>1, <2>5 DEF ItemAt
    <2> QED
        BY <2>6 DEF HeadAt, Label, Zero, Junk
<1>5. Rooted(card)
    <2>1. \A c \in Clusters : FatOn(card)[c] = IF c = Root THEN Eoc ELSE 0
        BY <1>3
    <2>2. Root \in Clusters /\ Eoc \notin Clusters /\ 0 \notin Clusters /\ Eoc # 0
        BY ConstantsAre
    <2> QED
        BY <1>4, <2>1, <2>2 DEF Rooted, Forest, IsHead, Untargeted
<1>6. Alike(Newest, card)
    BY <1>1, <1>2 DEF Alike, Newest
<1>7. \A img \in Survivors : Alike(img, card)
    <2> DEFINE same == [l \in DOMAIN card |-> IF l \in DOMAIN undo THEN undo[l] ELSE card[l]]
    <2>1. Alike(same, card)
        BY <1>1, <1>2 DEF Alike
    <2>2. Survivors = {card, same} /\ Alike(card, card)
        BY DEF Survivors, Alike
    <2> QED
        BY <2>1, <2>2
<1>8. Rooted(Newest) /\ \A img \in Survivors : Rooted(img)
    BY <1>5, <1>6, <1>7, RootedAlike
<1>9. op.links = <<>> /\ op.todo = <<>> /\ op.first = 0 /\ handle["file"].first = 0
    BY <1>1, IdleIs DEF NoHandle
<1>10. Claimed = 0 /\ EntryItems
    BY <1>9 DEF Claimed, EntryItems, Due
<1>11. Claims(Newest, <<>>, handle["file"], 0)
    <2>1. Len(<<>>) = 0
        OBVIOUS
    <2> QED
        BY <1>9, <2>1 DEF Claims
<1> QED
    BY <1>8, <1>9, <1>10, <1>11 DEF ChainsInv

LEMMA StepChains ==
    ASSUME TwoCopies, UpdatesInv, ChainsInv, [Next]_vars
    PROVE  ChainsInv'
<1>1. CASE Step
    <2>1. CASE SetLink
        BY <2>1, SetLinkChains
    <2>2. CASE FindEntry \/ EndOfDirectory \/ SeekEmpty \/ SearchOn \/ WalkOn \/ PastEnd
        BY <2>2, SearchChains
    <2>3. CASE FirstCluster \/ DirectoryCluster \/ NextCluster
        BY <2>3, FirstClusterChains, DirectoryClusterChains, NextClusterChains
    <2>4. CASE StartWrite \/ WriteItem
        BY <2>4, StartWriteChains, WriteItemChains
    <2>5. CASE FlushBeforeClear \/ ClearCluster \/ SyncEntry \/ SyncFlush \/ WriteReturns
        BY <2>5, WriteChains
    <2>6. CASE BlankDirectory \/ mbr_partition_init \/ fat_vol_init
        BY <2>6, MountChains
    <2> QED
        BY <1>1, <2>1, <2>2, <2>3, <2>4, <2>5, <2>6 DEF Step
<1>2. CASE \/ OpenFatInit \/ CreateDir \/ \E f \in Files : CreateFile(f)
           \/ \E n \in 1 .. 2 : fat_write(n)
    BY <1>2, CallerChains
<1>3. CASE PowerCut
    BY <1>3, PowerCutChains
<1>4. CASE UNCHANGED vars
    <2>1. UNCHANGED <<cache, op, handle>>
        BY <1>4 DEF vars, calls
    <2>2. Newest' = Newest /\ Survivors' = Survivors
        BY <2>1 DEF Newest, Survivors, cache
    <2>3. Claimed' = Claimed /\ (EntryItems' <=> EntryItems)
        BY <2>1 DEF Claimed, EntryItems, Due
    <2> QED
        BY <2>1, <2>2, <2>3 DEF ChainsInv
<1> QED
    BY <1>1, <1>2, <1>3, <1>4 DEF Next

-----------------------------------------------------------------------------
(* The theorem                                                             *)

LEMMA ChainsInvHolds ==
    ASSUME TwoCopies
    PROVE  Spec => [](UpdatesInv /\ ChainsInv)
<1>1. Init => ChainsInv
    BY InitialChains
<1>2. UpdatesInv /\ ChainsInv /\ [Next]_vars => ChainsInv'
    BY StepChains
<1>3. Spec => []UpdatesInv
    BY UpdatesInvHolds
<1> QED
    BY <1>1, <1>2, <1>3, PTL DEF Spec

\* However often the power goes, and between any two sectors, the chains that
\* a search reaches end properly and share no cluster.
THEOREM ChainsStayApart ==
    ASSUME TwoCopies
    PROVE  Spec => []ChainsApart
<1>1. UpdatesInv /\ ChainsInv => ChainsApart
    <2> SUFFICES ASSUME UpdatesInv, ChainsInv, NEW img \in Survivors, NEW p \in Chains(img)
                 PROVE  /\ p[2] # <<>> /\ FatOn(img)[p[2][Len(p[2])]] = Eoc
                        /\ Cardinality(Range(p[2])) = Len(p[2])
                        /\ \A q \in Chains(img) : p # q => Range(p[2]) \cap Range(q[2]) = {}
        BY DEF ChainsApart
    <2>1. CardHolds(img) /\ Rooted(img)
        BY SurvivorsHold DEF UpdatesInv, ChainsInv
    <2> QED
        BY <2>1, RootedApart
<1>2. Spec => [](UpdatesInv /\ ChainsInv)
    BY ChainsInvHolds
<1> QED
    BY <1>1, <1>2, PTL

-----------------------------------------------------------------------------
(* Entries and the lines behind them                                       *)

FileAt(img, p) == ItemAt(img, p)[1] = "short" /\ ItemAt(img, p)[2] \in Files

\* Which item of a file is in slot j of its k-th cluster.
Index(k, j) == (k - 1) * Slots + j

\* The clusters s hold the first n lines of f.
Filled(img, f, s, n) ==
    /\ n <= Len(s) * Slots
    /\ \A k \in 1 .. Len(s), j \in 1 .. Slots :
          Index(k, j) <= n => ItemsOf(img, s[k])[j] = Line(f, Index(k, j))

Behind(img, f, a, n) ==
    \E s \in Seq(Clusters) : IsPath(FatOn(img), s, a) /\ Filled(img, f, s, n)

\* An entry of a file has no cluster, or all its lines behind it.
Backed(img) ==
    \A p \in Places : FileAt(img, p) =>
        LET e == ItemAt(img, p)
        IN  IF e[4] = 0 THEN e[3] = 0 ELSE Behind(img, e[2], e[3], e[4])

\* The chains of files: of those that have an entry, and of the log file.
FileHead(img, first, a) ==
    a \in Clusters /\ (a = first \/ \E p \in Places : FileAt(img, p) /\ HeadAt(img, p) = a)

\* On no chain of a file.
Off(img, first, c) ==
    \A a \in Clusters, s \in Seq(Clusters) :
        FileHead(img, first, a) /\ IsPath(FatOn(img), s, a) => \A i \in 1 .. Len(s) : s[i] # c

LEMMA FilledReads ==
    ASSUME NEW a, NEW b, \A c \in Clusters : ItemsOf(a, c) = ItemsOf(b, c),
           NEW s \in Seq(Clusters), NEW f, NEW n
    PROVE  Filled(a, f, s, n) <=> Filled(b, f, s, n)
BY DEF Filled

LEMMA BackedReads ==
    ASSUME NEW a, NEW b, Alike(a, b)
    PROVE  /\ Backed(b) => Backed(a)
           /\ \A first, c : Off(b, first, c) => Off(a, first, c)
           /\ \A p \in Places : ItemAt(a, p) = ItemAt(b, p) /\ HeadAt(a, p) = HeadAt(b, p)
                                  /\ (FileAt(a, p) <=> FileAt(b, p))
           /\ \A f, s, n : s \in Seq(Clusters) => (Filled(a, f, s, n) <=> Filled(b, f, s, n))
           /\ FatOn(a) = FatOn(b)
<1>1. /\ FatOn(a) = FatOn(b)
      /\ \A p \in Places : ItemAt(a, p) = ItemAt(b, p) /\ HeadAt(a, p) = HeadAt(b, p)
                             /\ (FileAt(a, p) <=> FileAt(b, p))
    BY AlikeReads DEF FileAt
<1>2. \A f, s, n : s \in Seq(Clusters) => (Filled(a, f, s, n) <=> Filled(b, f, s, n))
    BY AlikeReads, FilledReads
<1>3. \A f, c, n : Behind(b, f, c, n) => Behind(a, f, c, n)
    BY <1>1, <1>2 DEF Behind
<1>4. Backed(b) => Backed(a)
    BY <1>1, <1>3 DEF Backed
<1>5. \A first, c : FileHead(a, first, c) <=> FileHead(b, first, c)
    BY <1>1 DEF FileHead
<1>6. \A first, c : Off(b, first, c) => Off(a, first, c)
    BY <1>1, <1>5 DEF Off
<1> QED
    BY <1>1, <1>2, <1>4, <1>6

\* A cluster that did not lead anywhere may get another entry in the FAT.
LEMMA PathGoesOn ==
    ASSUME NEW fat, NEW after, NEW d, fat[d] \notin Clusters,
           \A c \in Clusters : c # d => after[c] = fat[c],
           NEW s, NEW a, IsPath(fat, s, a)
    PROVE  IsPath(after, s, a)
<1>1. PICK n \in Nat : n = Len(s)
    BY DEF IsPath
<1>2. ASSUME NEW i \in 1 .. n - 1 PROVE after[s[i]] = s[i + 1]
    <2>1. i \in 1 .. n /\ i + 1 \in 1 .. n
        BY <1>1
    <2>2. s[i] \in Clusters /\ s[i + 1] \in Clusters /\ fat[s[i]] = s[i + 1]
        BY <1>1, <2>1 DEF IsPath
    <2> QED
        BY <2>2
<1> QED
    BY <1>1, <1>2 DEF IsPath

\* An entry of the FAT takes no line away.
LEMMA LinkBacked ==
    ASSUME NEW img, Backed(img), NEW new, NEW d, FatOn(img)[d] \notin Clusters,
           \A c \in Clusters : c # d => FatOn(new)[c] = FatOn(img)[c],
           \A c \in Clusters : ItemsOf(new, c) = ItemsOf(img, c),
           \A p \in Places : ItemAt(new, p) = ItemAt(img, p)
    PROVE  Backed(new)
<1>1. \A f, s, n : s \in Seq(Clusters) => (Filled(new, f, s, n) <=> Filled(img, f, s, n))
    BY FilledReads
<1>2. \A f, a, n : Behind(img, f, a, n) => Behind(new, f, a, n)
    BY <1>1, PathGoesOn DEF Behind
<1> QED
    BY <1>2 DEF Backed, FileAt

\* Setting an entry of the FAT leads the chain of a file nowhere but to the
\* cluster that is linked.
LEMMA LinkOff ==
    ASSUME NEW img, NEW new, NEW first, NEW c, Off(img, first, c),
           NEW d, FatOn(img)[d] \notin Clusters,
           \A e \in Clusters : e # d => FatOn(new)[e] = FatOn(img)[e],
           NEW t, FatOn(new)[d] = t,
           t \in Clusters => /\ t # d /\ FatOn(img)[t] \notin Clusters
                             /\ c # t \/ Off(img, first, d),
           \A p \in Places : ItemAt(new, p) = ItemAt(img, p)
    PROVE  Off(new, first, c)
<1> DEFINE fat == FatOn(img)
<1> DEFINE after == FatOn(new)
<1> SUFFICES ASSUME NEW a \in Clusters, NEW s \in Seq(Clusters),
                    FileHead(new, first, a), IsPath(after, s, a), NEW i \in 1 .. Len(s)
             PROVE  s[i] # c
    BY DEF Off
<1>1. FileHead(img, first, a)
    BY DEF FileHead, FileAt, HeadAt
<1>2. PICK n \in Nat : n = Len(s)
    OBVIOUS
<1>3. /\ \A k \in 1 .. n : s[k] \in Clusters
      /\ \A k \in 1 .. n - 1 : after[s[k]] = s[k + 1] /\ s[k] \in Clusters /\ s[k + 1] \in Clusters
    <2>1. \A k \in 1 .. n : s[k] \in Clusters
        BY <1>2
    <2>2. \A k \in 1 .. n - 1 : k \in 1 .. n /\ k + 1 \in 1 .. n
        BY <1>2
    <2> QED
        BY <1>2, <2>1, <2>2 DEF IsPath
<1> HIDE DEF fat, after
<1>4. CASE \A k \in 1 .. n - 1 : s[k] # d
    <2>1. \A k \in 1 .. n - 1 : fat[s[k]] = s[k + 1]
        BY <1>3, <1>4 DEF fat, after
    <2>2. IsPath(fat, s, a)
        BY <1>2, <2>1 DEF IsPath
    <2> QED
        BY <1>1, <2>2 DEF Off, fat
<1>5. CASE \E k \in 1 .. n - 1 : s[k] = d
    <2>1. ASSUME NEW k \in 1 .. n - 1, s[k] = d
          PROVE  k = n - 1 /\ s[n] = t /\ t \in Clusters
        <3>1. s[k + 1] = t /\ t \in Clusters
            BY <1>3, <2>1 DEF after
        <3>2. after[t] = fat[t] /\ fat[t] \notin Clusters
            BY <3>1 DEF fat, after
        <3>3. k + 1 \notin 1 .. n - 1
            <4>1. k + 1 \in 1 .. n - 1 => after[s[k + 1]] \in Clusters
                BY <1>3
            <4> QED
                BY <3>1, <3>2, <4>1
        <3>4. k = n - 1
            BY <2>1, <3>3
        <3> QED
            BY <3>1, <3>4
    <2>2. n - 1 \in 1 .. n - 1 /\ s[n - 1] = d /\ s[n] = t /\ t \in Clusters
        BY <1>5, <2>1
    <2>3. n - 1 \in 1 .. n /\ n - 1 \in Nat
        BY <2>2
    <2>4. PICK r \in Seq(Clusters) : r = SubSeq(s, 1, n - 1) /\ Len(r) = n - 1
                                     /\ \A k \in 1 .. n - 1 : r[k] = s[k]
        <3>1. 1 \in Int /\ n - 1 \in Int /\ \A k \in 1 .. n - 1 : s[k] \in Clusters
            BY <1>3, <2>3
        <3>2. PICK m \in Nat : m = n - 1
            BY <2>3
        <3>3. \A k \in 1 .. m : s[k] \in Clusters
            BY <3>1, <3>2
        <3>4. SubSeq(s, 1, m) \in Seq(Clusters)
            BY <3>2, <3>3, SubSeqProperties
        <3>5. Len(SubSeq(s, 1, m)) = m /\ \A k \in 1 .. m : SubSeq(s, 1, m)[k] = s[k]
            BY <3>2, <3>3, SubSeqProperties
        <3> QED
            BY <3>2, <3>4, <3>5
    <2>5. \A k \in 1 .. Len(r) - 1 : fat[r[k]] = r[k + 1]
        <3> SUFFICES ASSUME NEW k \in 1 .. n - 2 PROVE fat[r[k]] = r[k + 1]
            BY <2>3, <2>4
        <3>1. k \in 1 .. n - 1 /\ k + 1 \in 1 .. n - 1 /\ k # n - 1
            BY <2>3
        <3>2. s[k] # d /\ s[k] \in Clusters /\ after[s[k]] = s[k + 1]
            BY <1>3, <2>1, <3>1
        <3>3. fat[s[k]] = s[k + 1]
            BY <3>2 DEF fat, after
        <3> QED
            BY <2>4, <3>1, <3>3
    <2>6. IsPath(fat, r, a)
        <3>1. r # <<>>
            BY <2>2, <2>4, EmptySeq
        <3>2. 1 \in 1 .. n - 1
            BY <2>2, <2>3
        <3>3. r[1] = a
            BY <2>4, <3>2 DEF IsPath
        <3> QED
            BY <2>5, <3>1, <3>3 DEF IsPath
    <2>7. ASSUME NEW x, Off(img, first, x) PROVE \A k \in 1 .. n - 1 : s[k] # x
        <3>1. \A k \in 1 .. Len(r) : r[k] # x
            BY <1>1, <2>6, <2>7 DEF Off, fat
        <3> QED
            BY <2>4, <3>1
    <2>8. c # t
        BY <2>2, <2>7
    <2>9. i \in 1 .. n - 1 \/ i = n
        BY <1>2
    <2> QED
        BY <2>2, <2>7, <2>8, <2>9
<1> QED
    BY <1>4, <1>5

\* A cluster that nothing leads to, and at which no file begins.
LEMMA UntargetedOff ==
    ASSUME NEW img, NEW first, NEW c, Untargeted(FatOn(img), c), ~FileHead(img, first, c)
    PROVE  Off(img, first, c)
<1> SUFFICES ASSUME NEW a \in Clusters, NEW s \in Seq(Clusters),
                    FileHead(img, first, a), IsPath(FatOn(img), s, a), NEW i \in 1 .. Len(s)
             PROVE  s[i] # c
    BY DEF Off
<1>1. PICK n \in Nat : n = Len(s)
    OBVIOUS
<1>2. CASE i = 1
    BY <1>2 DEF IsPath
<1>3. CASE i # 1
    <2>1. i - 1 \in 1 .. n - 1 /\ i - 1 \in 1 .. n /\ (i - 1) + 1 = i
        BY <1>1, <1>3
    <2>2. FatOn(img)[s[i - 1]] = s[i] /\ s[i - 1] \in Clusters
        BY <1>1, <2>1 DEF IsPath
    <2> QED
        BY <2>2 DEF Untargeted
<1> QED
    BY <1>2, <1>3

\* Chains of files begin where nothing leads to.
HeadsApart(img, first) == \A a : FileHead(img, first, a) => Untargeted(FatOn(img), a)

LEMMA HeadsAre ==
    ASSUME NEW img, Rooted(img), NEW links, NEW first, first # 0 => Loose(FatOn(img), links, first)
    PROVE  HeadsApart(img, first)
<1> SUFFICES ASSUME NEW a, FileHead(img, first, a) PROVE Untargeted(FatOn(img), a)
    BY DEF HeadsApart
<1>1. CASE a = first
    BY <1>1, ConstantsAre DEF FileHead, Loose
<1>2. CASE \E p \in Places : FileAt(img, p) /\ HeadAt(img, p) = a
    BY <1>2, ConstantsAre DEF FileHead, Rooted, IsHead
<1> QED
    BY <1>1, <1>2 DEF FileHead

\* What follows a cluster of no file is of no file.
LEMMA FollowsOff ==
    ASSUME NEW img, Forest(FatOn(img)), NEW first, HeadsApart(img, first),
           NEW c \in Clusters, Off(img, first, c), FatOn(img)[c] \in Clusters
    PROVE  Off(img, first, FatOn(img)[c]) /\ FatOn(img)[FatOn(img)[c]] # 0
<1> DEFINE t == FatOn(img)[c]
<1>1. FatOn(img)[t] # 0 /\ \A d \in Clusters : FatOn(img)[d] = t => d = c
    BY DEF Forest
<1>2. ASSUME NEW a \in Clusters, NEW s \in Seq(Clusters),
             FileHead(img, first, a), IsPath(FatOn(img), s, a), NEW i \in 1 .. Len(s), s[i] = t
      PROVE  FALSE
    <2>1. PICK n \in Nat : n = Len(s)
        OBVIOUS
    <2>2. CASE i = 1
        BY <1>2, <2>2 DEF IsPath, HeadsApart, Untargeted
    <2>3. CASE i # 1
        <3>1. i - 1 \in 1 .. n - 1 /\ i - 1 \in 1 .. n /\ (i - 1) + 1 = i
            BY <2>1, <2>3
        <3>2. FatOn(img)[s[i - 1]] = s[i] /\ s[i - 1] \in Clusters
            BY <1>2, <2>1, <3>1 DEF IsPath
        <3>3. s[i - 1] = c
            BY <1>1, <1>2, <3>2
        <3> QED
            BY <1>2, <2>1, <3>1, <3>3 DEF Off
    <2> QED
        BY <2>2, <2>3
<1> QED
    BY <1>1, <1>2 DEF Off

\* The items of the last of m clusters follow those of the others.
LEMMA IndexIs ==
    ASSUME NEW m \in Nat \ {0}
    PROVE  \E b \in Nat :
              /\ b = (m - 1) * Slots /\ m * Slots = b + Slots /\ b = Slots * (m - 1)
              /\ \A j \in 1 .. Slots : Index(m, j) = b + j
              /\ \A k \in 1 .. m - 1, j \in 1 .. Slots : Index(k, j) \in Nat /\ Index(k, j) <= b
<1>1. PICK q \in Nat \ {0} : q = Slots
    BY ConstantsAre
<1>2. PICK b \in Nat : b = (m - 1) * q
    <2>1. (m - 1) * q \in Nat
        BY <1>1
    <2> QED
        BY <2>1
<1>3. m * q = b + q /\ b = q * (m - 1)
    BY <1>1, <1>2
<1>4. ASSUME NEW k \in 1 .. m - 1, NEW j \in 1 .. q
      PROVE  (k - 1) * q + j \in Nat /\ (k - 1) * q + j <= b
    <2>1. q * k <= q * (m - 1)
        BY ProductGrows
    <2>2. (k - 1) * q + q = q * k /\ (k - 1) * q \in Nat
        BY <1>1
    <2> QED
        BY <1>1, <1>3, <2>1, <2>2
<1> QED
    BY <1>1, <1>2, <1>3, <1>4 DEF Index

\* A sector of data is written: the entries that remain keep their lines if
\* no line that counts is changed.
LEMMA DataBacked ==
    ASSUME NEW img, Backed(img), NEW new, FatOn(new) = FatOn(img), NEW c \in Clusters,
           \A e \in Clusters : e # c => ItemsOf(new, e) = ItemsOf(img, e),
           \A p \in Places, s \in Seq(Clusters) :
               FileAt(img, p) /\ IsPath(FatOn(img), s, ItemAt(img, p)[3]) =>
                   \A k \in 1 .. Len(s), j \in 1 .. Slots :
                       s[k] = c /\ Index(k, j) <= ItemAt(img, p)[4] =>
                           ItemsOf(new, c)[j] = ItemsOf(img, c)[j],
           \A p \in Places : FileAt(new, p) =>
               \/ ItemAt(new, p)[4] = 0 /\ ItemAt(new, p)[3] = 0
               \/ FileAt(img, p) /\ ItemAt(new, p) = ItemAt(img, p)
               \/ /\ ItemAt(new, p)[4] # 0
                  /\ Behind(new, ItemAt(new, p)[2], ItemAt(new, p)[3], ItemAt(new, p)[4])
    PROVE  Backed(new)
<1> SUFFICES ASSUME NEW p \in Places, FileAt(new, p), NEW e, e = ItemAt(new, p)
             PROVE  IF e[4] = 0 THEN e[3] = 0 ELSE Behind(new, e[2], e[3], e[4])
    BY DEF Backed
<1>1. ASSUME FileAt(img, p), e = ItemAt(img, p), e[4] # 0
      PROVE  Behind(new, e[2], e[3], e[4])
    <2>1. Behind(img, e[2], e[3], e[4])
        BY <1>1 DEF Backed
    <2>2. PICK s \in Seq(Clusters) : IsPath(FatOn(img), s, e[3]) /\ Filled(img, e[2], s, e[4])
        BY <2>1 DEF Behind
    <2>3. \A k \in 1 .. Len(s), j \in 1 .. Slots :
              s[k] = c /\ Index(k, j) <= e[4] => ItemsOf(new, c)[j] = ItemsOf(img, c)[j]
        BY <1>1, <2>2
    <2>4. ASSUME NEW k \in 1 .. Len(s), NEW j \in 1 .. Slots, Index(k, j) <= e[4]
          PROVE  ItemsOf(new, s[k])[j] = Line(e[2], Index(k, j))
        <3>1. ItemsOf(img, s[k])[j] = Line(e[2], Index(k, j)) /\ s[k] \in Clusters
            BY <2>2, <2>4 DEF Filled
        <3> QED
            BY <2>3, <2>4, <3>1
    <2>5. Filled(new, e[2], s, e[4])
        BY <2>2, <2>4 DEF Filled
    <2> QED
        BY <2>2, <2>5 DEF Behind
<1>2. CASE FileAt(img, p) /\ e = ItemAt(img, p)
    BY <1>1, <1>2 DEF Backed
<1>3. CASE ~(FileAt(img, p) /\ e = ItemAt(img, p))
    BY <1>3
<1> QED
    BY <1>2, <1>3

\* The lines of files are nowhere else.
LEMMA OffKeepsLines ==
    ASSUME NEW img, NEW first, NEW c, Off(img, first, c)
    PROVE  \A p \in Places, s \in Seq(Clusters) :
               FileAt(img, p) /\ IsPath(FatOn(img), s, ItemAt(img, p)[3]) =>
                   \A k \in 1 .. Len(s) : s[k] # c
<1> SUFFICES ASSUME NEW p \in Places, NEW s \in Seq(Clusters), FileAt(img, p),
                    IsPath(FatOn(img), s, ItemAt(img, p)[3]), NEW k \in 1 .. Len(s)
             PROVE  s[k] # c
    OBVIOUS
<1>1. PICK a : a = ItemAt(img, p)[3]
    OBVIOUS
<1>2. HeadAt(img, p) = a
    BY <1>1 DEF HeadAt, FileAt
<1>3. a \in Clusters
    <2>1. PICK n \in Nat : n = Len(s)
        OBVIOUS
    <2>2. n # 0
        BY <2>1, EmptySeq DEF IsPath
    <2>3. s[1] \in Clusters
        BY <2>1, <2>2
    <2> QED
        BY <1>1, <2>3 DEF IsPath
<1>4. FileHead(img, first, a)
    BY <1>2, <1>3 DEF FileHead
<1> QED
    BY <1>1, <1>3, <1>4 DEF Off

\* No other chain of a file begins.
LEMMA DataOff ==
    ASSUME NEW img, NEW new, FatOn(new) = FatOn(img), NEW first,
           \A p \in Places : FileAt(new, p) /\ HeadAt(new, p) # 0 =>
               HeadAt(new, p) = first \/ (FileAt(img, p) /\ HeadAt(img, p) = HeadAt(new, p))
    PROVE  /\ \A c : Off(img, first, c) => Off(new, first, c)
           /\ \A a : FileHead(new, first, a) => FileHead(img, first, a)
<1>1. \A a : FileHead(new, first, a) => FileHead(img, first, a)
    BY ConstantsAre DEF FileHead
<1> QED
    BY <1>1 DEF Off

\* A path is the beginning of the whole chain.
LEMMA PathsAgree ==
    ASSUME NEW fat, NEW a, NEW s, IsPath(fat, s, a), NEW t, IsPath(fat, t, a),
           fat[t[Len(t)]] \notin Clusters
    PROVE  Len(s) <= Len(t) /\ \A i \in 1 .. Len(s) : s[i] = t[i]
<1>1. PICK m \in Nat, n \in Nat : m = Len(s) /\ n = Len(t)
    BY DEF IsPath
<1>2. /\ s[1] = a /\ t[1] = a /\ n # 0
      /\ \A k \in 1 .. m : s[k] \in Clusters
      /\ \A k \in 1 .. m - 1 : fat[s[k]] = s[k + 1]
      /\ \A k \in 1 .. n - 1 : fat[t[k]] = t[k + 1]
    BY <1>1, EmptySeq DEF IsPath
<1> DEFINE T == {k \in 1 .. m : ~(k <= n /\ s[k] = t[k])}
<1>3. T = {}
    <2> SUFFICES ASSUME T # {} PROVE FALSE
        OBVIOUS
    <2>1. T \in SUBSET Nat
        OBVIOUS
    <2>2. PICK k \in T : \A j \in T : k <= j
        BY <2>1, LeastOfNat
    <2>3. k \in 1 .. m /\ k \in Nat /\ ~(k <= n /\ s[k] = t[k])
        BY <2>2
    <2>4. k # 1
        BY <1>2, <2>3
    <2>5. k - 1 \in 1 .. m /\ k - 1 \notin T /\ k - 1 \in 1 .. m - 1 /\ (k - 1) + 1 = k
        <3>1. k - 1 \in 1 .. m /\ k - 1 < k /\ k - 1 \in 1 .. m - 1
            BY <2>3, <2>4
        <3>2. k - 1 \notin T
            BY <2>2, <3>1
        <3> HIDE DEF T
        <3> QED
            BY <2>3, <3>1, <3>2
    <2>6. k - 1 <= n /\ s[k - 1] = t[k - 1]
        BY <2>5
    <2>7. fat[t[k - 1]] = s[k] /\ s[k] \in Clusters
        BY <1>2, <2>3, <2>5, <2>6
    <2>8. k - 1 \in 1 .. n - 1
        BY <1>1, <2>3, <2>4, <2>6, <2>7
    <2>9. t[k] = s[k]
        BY <1>2, <2>5, <2>7, <2>8
    <2> QED
        BY <2>3, <2>8, <2>9
<1>4. \A k \in 1 .. m : k <= n /\ s[k] = t[k]
    BY <1>3
<1>5. m <= n
    <2>1. CASE m = 0
        BY <2>1
    <2>2. CASE m # 0
        BY <1>4, <2>2
    <2> QED
        BY <2>1, <2>2
<1> QED
    BY <1>1, <1>4, <1>5

\* What a search finds has its lines.
LEMMA BackedEntries ==
    ASSUME NEW img, CardHolds(img), Rooted(img), Backed(img),
           NEW f \in Files, NEW e \in FileEntries(img, f), Counts
    PROVE  LET items == ItemsAlong(img, ChainOn(img, e[3]))
           IN  /\ e[4] <= Len(items) /\ e[4] <= lines[f]
               /\ \A i \in 1 .. e[4] : items[i] = Line(f, i)
<1>1. PICK c : e \in EntryOn(img, c, f)
    BY DEF FileEntries
<1>2. PICK p \in Places : e = ItemAt(img, p) /\ e[1] = "short" /\ e[2] = f /\ HeadAt(img, p) = e[3]
    BY <1>1, EntriesInPlaces
<1>3. FileAt(img, p)
    BY <1>2 DEF FileAt
<1>4. e[4] \in 0 .. lines[f] /\ lines[f] \in Nat
    BY <1>2, ImageHolds, ConstantsAre DEF Sound, Counts
<1>5. PICK t \in Seq(Clusters) : t = ChainOn(img, e[3])
    BY ChainIs
<1>6. PICK l \in Nat, q \in Nat \ {0}, n \in Nat : l = Len(t) /\ q = Slots /\ n = e[4]
    BY <1>4, ConstantsAre
<1>7. l * q \in Nat
    BY <1>6
<1> DEFINE items == ItemsAlong(img, t)
<1>8. Len(items) = l * q
    BY <1>6, <1>7 DEF ItemsAlong
<1>9. CASE n = 0
    BY <1>4, <1>5, <1>6, <1>7, <1>8, <1>9
<1>10. CASE n # 0
    <2>1. Behind(img, f, e[3], n)
        BY <1>2, <1>3, <1>6, <1>10 DEF Backed
    <2>2. PICK s \in Seq(Clusters) : IsPath(FatOn(img), s, e[3]) /\ Filled(img, f, s, n)
        BY <2>1 DEF Behind
    <2>3. e[3] \in Clusters
        <3>1. Len(s) \in Nat /\ Len(s) # 0
            BY <2>2, EmptySeq DEF IsPath
        <3>2. s[1] \in Clusters
            BY <3>1
        <3> QED
            BY <2>2, <3>2 DEF IsPath
    <2>4. IsHead(FatOn(img), e[3])
        BY <1>2, <2>3, ConstantsAre DEF Rooted
    <2>5. IsPath(FatOn(img), t, e[3]) /\ FatOn(img)[t[l]] = Eoc
        BY <1>5, <1>6, <2>4, ChainEnds, ImageHolds DEF Rooted
    <2>6. Len(s) <= l /\ \A i \in 1 .. Len(s) : s[i] = t[i]
        BY <1>6, <2>2, <2>5, PathsAgree, ConstantsAre
    <2>7. PICK m \in Nat : m = Len(s) /\ m <= l
        BY <2>6
    <2>8. n <= q * m /\ m * q <= l * q
        <3>1. q * m <= q * l /\ q * m = m * q /\ q * l = l * q
            BY <1>6, <2>7, ProductGrows
        <3> QED
            BY <1>6, <2>2, <2>7, <3>1 DEF Filled
    <2>9. ASSUME NEW i \in 1 .. n PROVE items[i] = Line(f, i)
        <3>1. PICK j \in Nat : j = i - 1 /\ i = j + 1
            BY <1>6
        <3>2. q * m \in Nat
            BY <1>6, <2>7
        <3>3. j < q * m
            BY <1>6, <2>8, <3>1, <3>2
        <3>4. PICK k, r : k = j \div q /\ r = j % q
            OBVIOUS
        <3>5. k \in Nat /\ r \in 0 .. q - 1 /\ j = q * k + r /\ k < m
            BY <1>6, <2>7, <3>3, <3>4, DivisionIs
        <3>6. k + 1 \in 1 .. m /\ r + 1 \in 1 .. q
            BY <1>6, <2>7, <3>5
        <3>7. Index(k + 1, r + 1) = i
            <4>1. (k + 1) - 1 = k /\ k * q = q * k /\ q * k \in Nat
                BY <1>6, <3>5
            <4> QED
                BY <1>6, <3>1, <3>5, <4>1 DEF Index
        <3>8. ItemsOf(img, s[k + 1])[r + 1] = Line(f, i)
            BY <1>6, <2>2, <2>7, <3>6, <3>7 DEF Filled
        <3>9. items[i] = ItemsOf(img, t[k + 1])[r + 1]
            <4>1. i \in 1 .. Len(t) * Slots
                BY <1>6, <1>7, <2>8, <3>2, <3>3, <3>1
            <4>2. (i - 1) \div Slots = k /\ (i - 1) % Slots = r
                BY <1>6, <3>1, <3>4
            <4> QED
                BY <4>1, <4>2 DEF ItemsAlong
        <3> QED
            BY <2>6, <2>7, <3>6, <3>8, <3>9
    <2>10. n <= l * q
        BY <1>6, <1>7, <2>7, <2>8
    <2> QED
        BY <1>4, <1>5, <1>6, <1>8, <2>9, <2>10
<1> QED
    BY <1>9, <1>10

-----------------------------------------------------------------------------
(* Handles and the chains of files                                         *)

\* What the handles of directories, a search and the log file's entry hold.
DirClusters(hs, o) ==
    {c \in Clusters :
        \/ c \in {hs["cwd"].first, hs["cwd"].cur, hs["dir"].first, hs["dir"].cur, o.cluster}
        \/ hs["file"].at # <<>> /\ hs["file"].at[1] = DataSector(c)}

\* Directories are on no chain of a file, and none is about to join one; nor
\* does a chain of a file grow when another call links a cluster.
Aside(img, links, first, dirs, own) ==
    /\ \A c \in dirs : (FatOn(img)[c] # 0 \/ Coming(links, c)) /\ Off(img, first, c)
    /\ \A i \in 1 .. Len(links) : links[i].copy = 0 /\ links[i].next # Eoc =>
          /\ FatOn(img)[links[i].next] \notin Clusters
          /\ IF own THEN links[i].next \notin dirs ELSE Off(img, first, links[i].cluster)

\* An entry with the log file's chain is the log file's.
OwnEntry(img, h) ==
    h.first # 0 => \A p \in Places : HeadAt(img, p) = h.first =>
        FileAt(img, p) /\ ItemAt(img, p)[2] = h.of /\ ItemAt(img, p)[4] <= h.pos

\* The position is in the last cluster s ends with, or behind it when the next
\* one is being linked.
AtEnd(links, h, s, pc) ==
    IF pc = "next" THEN h.cur = s[Len(s)] /\ h.pos = Len(s) * Slots
    ELSE \/ /\ h.cur = s[Len(s)] /\ (Len(s) - 1) * Slots <= h.pos /\ h.pos < Len(s) * Slots
            /\ pc \in {"flush0", "clear"} => h.pos = (Len(s) - 1) * Slots
         \/ /\ h.pos = Len(s) * Slots
            /\ \E i \in 1 .. Len(links) :
                  links[i] = [copy |-> 0, cluster |-> s[Len(s)], next |-> h.cur]

\* The log file's clusters hold its lines up to its position.
Standing(img, links, h, pc) ==
    IF h.first = 0 THEN h.cur = 0 /\ h.pos = 0
    ELSE \E s \in Seq(Clusters) : /\ IsPath(FatOn(img), s, h.first)
                                  /\ Filled(img, h.of, s, h.pos) /\ AtEnd(links, h, s, pc)

FileClaims(img, links, h, dirs, own, pc) ==
    Aside(img, links, h.first, dirs, own) /\ OwnEntry(img, h) /\ Standing(img, links, h, pc)

FilePc == IF Due = "lines" THEN op.pc ELSE "start"

Writes == op.call = "fat_write"

\* The lines of the log file are written or waiting, in order.
Counted ==
    LET h == handle["file"]
    IN  /\ h.of # NoName => h.pos + (IF Writes THEN Len(op.items) ELSE 0) = lines[h.of]
        /\ Due = "lines" => /\ \A i \in 1 .. Len(op.items) : op.items[i] = Line(h.of, h.pos + i)
                            /\ op.pc = "first" => h.first = 0
                            /\ op.pc \in {"size", "flush"} => op.items = <<>>
        /\ Due \in {"long", "short", "dots"} => op.pc # "first"
        /\ op.call = "CreateFile" => lines[op.name] = 0

BackInv ==
    /\ Backed(Newest) /\ \A img \in Survivors : Backed(img)
    /\ FileClaims(Newest, op.links, handle["file"], DirClusters(handle, op), Writes, FilePc)
    /\ Counted

LEMMA ClaimsRead ==
    ASSUME NEW a, NEW b, Alike(a, b), NEW links, NEW h, NEW dirs, NEW own, NEW pc,
           FileClaims(b, links, h, dirs, own, pc)
    PROVE  FileClaims(a, links, h, dirs, own, pc)
<1>1. /\ \A first, c : Off(b, first, c) => Off(a, first, c)
      /\ \A p \in Places : ItemAt(a, p) = ItemAt(b, p) /\ HeadAt(a, p) = HeadAt(b, p)
                             /\ (FileAt(a, p) <=> FileAt(b, p))
      /\ \A f, s, n : s \in Seq(Clusters) => (Filled(a, f, s, n) <=> Filled(b, f, s, n))
      /\ FatOn(a) = FatOn(b)
    BY BackedReads
<1>2. Aside(a, links, h.first, dirs, own)
    BY <1>1 DEF FileClaims, Aside
<1>3. OwnEntry(a, h)
    BY <1>1 DEF FileClaims, OwnEntry
<1>4. Standing(a, links, h, pc)
    BY <1>1 DEF FileClaims, Standing
<1> QED
    BY <1>2, <1>3, <1>4 DEF FileClaims

LEMMA KeptIsBacked ==
    ASSUME BackInv, KeptImages
    PROVE  /\ Backed(Newest') /\ \A img \in Survivors' : Backed(img)
           /\ \A links, h, dirs, own, pc : FileClaims(Newest, links, h, dirs, own, pc) =>
                  FileClaims(Newest', links, h, dirs, own, pc)
<1>1. Backed(Newest') /\ \A img \in Survivors' : Backed(img)
    BY BackedReads DEF BackInv, KeptImages
<1>2. Alike(Newest', Newest)
    BY DEF KeptImages
<1> QED
    BY <1>1, <1>2, ClaimsRead

LEMMA WrittenIsBacked ==
    ASSUME BackInv, NEW s, NEW d, WrittenImages(s, d), Backed(Newest')
    PROVE  \A img \in Survivors' : Backed(img)
BY BackedReads DEF BackInv, WrittenImages

LEMMA BackAfter ==
    ASSUME Backed(Newest'), \A img \in Survivors' : Backed(img), Counted',
           FileClaims(Newest', op'.links, handle'["file"], DirClusters(handle', op'), Writes', FilePc')
    PROVE  BackInv'
BY DEF BackInv

\* Nothing is written, and no cluster is taken.
LEMMA BackKept ==
    ASSUME BackInv, KeptImages, op.links = <<>>, op'.links = <<>>,
           handle'["file"] = handle["file"], Counted',
           \A c \in DirClusters(handle', op') \ DirClusters(handle, op) :
               FatOn(Newest)[c] # 0 /\ Off(Newest, handle["file"].first, c),
           FilePc' = "next" <=> FilePc = "next",
           FilePc' \in {"flush0", "clear"} => FilePc \in {"flush0", "clear"}
    PROVE  BackInv'
<1>1. PICK h, dirs, new, pc, after :
          /\ h = handle["file"] /\ dirs = DirClusters(handle, op) /\ new = DirClusters(handle', op')
          /\ pc = FilePc /\ after = FilePc'
    OBVIOUS
<1>2. FileClaims(Newest, <<>>, h, dirs, Writes, pc)
    BY <1>1 DEF BackInv
<1>3. Aside(Newest, <<>>, h.first, new, Writes')
    <2>1. \A c : ~Coming(<<>>, c)
        BY DEF Coming
    <2>2. \A i \in 1 .. Len(<<>>) : FALSE
        OBVIOUS
    <2>3. \A c \in new : FatOn(Newest)[c] # 0 /\ Off(Newest, h.first, c)
        BY <1>1, <1>2, <2>1 DEF FileClaims, Aside
    <2> QED
        BY <2>2, <2>3 DEF Aside
<1>4. Standing(Newest, <<>>, h, after)
    <2>1. \A s : AtEnd(<<>>, h, s, pc) => AtEnd(<<>>, h, s, after)
        BY <1>1 DEF AtEnd
    <2> QED
        BY <1>2, <2>1 DEF FileClaims, Standing
<1>5. FileClaims(Newest, <<>>, h, new, Writes', after)
    BY <1>2, <1>3, <1>4 DEF FileClaims
<1>6. FileClaims(Newest', <<>>, h, new, Writes', after)
    BY <1>5, KeptIsBacked
<1> QED
    BY <1>1, <1>6, KeptIsBacked, BackAfter

-----------------------------------------------------------------------------
(* Steps, and the lines behind entries                                     *)

\* Between calls, and between the stages of a call, no line is waiting.
LEMMA StageCounted ==
    ASSUME UpdatesInv, Counted, op.todo # <<>>, UNCHANGED lines,
           op' = NextStage(op) \/ (op' = Failed /\ op.call # "fat_write"),
           handle'["file"].of = handle["file"].of, handle'["file"].pos = handle["file"].pos,
           Due = "lines" => op.items = <<>>
    PROVE  Counted' /\ FilePc' = "start"
<1> DEFINE h == handle["file"]
<1>1. /\ op.call = "fat_write" <=> Due = "lines"
      /\ h.of # NoName => h.pos + (IF Writes THEN Len(op.items) ELSE 0) = lines[h.of]
      /\ op.call = "CreateFile" => lines[op.name] = 0
    BY DueIs DEF UpdatesInv, Counted
<1>2. h.of # NoName => h.pos + 0 = lines[h.of]
    <2>1. Len(<<>>) = 0
        OBVIOUS
    <2> QED
        BY <1>1, <2>1 DEF Writes
<1>3. /\ op'.call # "fat_write" /\ Due' # "lines" /\ op'.pc = "start"
      /\ op'.call = "CreateFile" => op.call = "CreateFile" /\ op'.name = op.name
    <2>1. CASE op' = Failed
        <3>1. /\ op'.call \in {"CreateDir", "none"} /\ op'.pc = "start"
              /\ op'.todo \in {<<>>, <<"chdir">>}
            BY <2>1 DEF Failed, Idle
        <3> QED
            BY <3>1 DEF Due
    <2>2. CASE op' = Idle
        BY <2>2, IdleIs DEF Due
    <2>3. CASE op' = NextStage(op) /\ op' # Idle
        <3>1. /\ op'.call = op.call /\ op'.name = op.name /\ op'.pc = "start"
              /\ op.call # "fat_write" /\ op'.todo # <<>> /\ Head(op'.todo) # "lines"
            BY <2>3, NextStageIs DEF UpdatesInv
        <3> QED
            BY <3>1 DEF Due
    <2> QED
        BY <2>1, <2>2, <2>3
<1>4. FilePc' = "start"
    BY <1>3 DEF FilePc
<1> QED
    BY <1>1, <1>2, <1>3, <1>4 DEF Counted, Writes

\* Within a call that does not write lines, none is waiting either.
LEMMA CallCounted ==
    ASSUME Counted, UNCHANGED lines, op'.call = op.call, op'.name = op.name, op'.todo = op.todo,
           Due # "lines", ~Writes, Due \in {"long", "short", "dots"} => op'.pc # "first",
           handle'["file"].of = handle["file"].of, handle'["file"].pos = handle["file"].pos
    PROVE  Counted' /\ FilePc' = "start"
<1>1. Due' = Due
    BY DEF Due
<1> QED
    BY <1>1 DEF Counted, Writes, FilePc

\* What the log file's chain begins with.
LEMMA FileHeads ==
    ASSUME ChainsInv
    PROVE  HeadsApart(Newest, handle["file"].first) /\ Forest(FatOn(Newest))
<1>1. Rooted(Newest) /\ (handle["file"].first # 0 => Loose(FatOn(Newest), op.links, handle["file"].first))
    BY DEF ChainsInv, Claims
<1>2. PICK img, links, first : img = Newest /\ links = op.links /\ first = handle["file"].first
    OBVIOUS
<1>3. HeadsApart(img, first)
    BY <1>1, <1>2, HeadsAre
<1> QED
    BY <1>1, <1>2, <1>3 DEF Rooted

LEMMA SearchAt ==
    ASSUME TwoCopies, UpdatesInv,
           FindEntry \/ EndOfDirectory \/ SeekEmpty \/ SearchOn \/ WalkOn \/ PastEnd
    PROVE  /\ op.links = <<>> /\ op.todo # <<>> /\ Due \in Search \cup {"seek"} /\ Stage = Due
           /\ op.call \in {"CreateDir", "CreateFile"} /\ first_lba = FirstLba /\ UNCHANGED lines
           /\ Here \in Clusters /\ Here \in DirClusters(handle, op) /\ KeptImages
           /\ handle \in [Handles -> HandleRecords] /\ op \in Ops
<1>1. /\ \E pc : At(Search \cup {"seek"}, pc)
      /\ (\E s : Get(s)) \/ GetFails
      /\ UNCHANGED history
    BY DEF FindEntry, EndOfDirectory, SeekEmpty, SearchOn, WalkOn, PastEnd, At
<1>2. /\ op.links = <<>> /\ op.todo # <<>> /\ Due \in Search \cup {"seek"} /\ Stage = Due
      /\ Due \notin {"mbr", "volume", "lines"}
    BY <1>1, AtIs DEF Search
<1>3. /\ first_lba = FirstLba /\ Here \in Clusters
      /\ op.call \in {"CreateDir", "CreateFile"} /\ op \in Ops
    BY <1>2, Busy, DueIs DEF UpdatesInv, Calls
<1>4. KeptImages
    BY <1>1, <1>3, GetImages DEF UpdatesInv, history
<1>5. Here \in DirClusters(handle, op)
    BY <1>3 DEF DirClusters, Here
<1> QED
    BY <1>1, <1>2, <1>3, <1>4, <1>5 DEF UpdatesInv, HandlesInv, history

LEMMA SearchBacked ==
    ASSUME TwoCopies, UpdatesInv, ChainsInv, BackInv,
           EndOfDirectory \/ SeekEmpty \/ SearchOn \/ WalkOn \/ PastEnd
    PROVE  BackInv'
<1>1. /\ op.links = <<>> /\ op.todo # <<>> /\ Due \in Search \cup {"seek"} /\ Stage = Due
      /\ op.call \in {"CreateDir", "CreateFile"} /\ first_lba = FirstLba /\ UNCHANGED lines
      /\ Here \in Clusters /\ Here \in DirClusters(handle, op) /\ KeptImages
      /\ handle \in [Handles -> HandleRecords] /\ op \in Ops
    BY SearchAt
<1>2. Due \notin {"lines", "long", "short", "dots"} /\ FilePc = "start" /\ ~Writes /\ Counted
    BY <1>1 DEF Search, FilePc, Writes, BackInv
<1>3. /\ handle'["file"] = handle["file"] /\ handle'["dir"] = handle["dir"]
      /\ handle'["cwd"].first = handle["cwd"].first
      /\ handle'["cwd"].cur \in {handle["cwd"].cur, Here}
    <2>1. CASE SeekEmpty
        <3> DEFINE n == Cardinality(Entries(Loaded(DataSector(Here))))
        <3> DEFINE c == Here
        <3>1. handle' = [handle EXCEPT !["cwd"].cur = c, !["cwd"].pos = n]
            BY <2>1 DEF SeekEmpty
        <3> HIDE DEF n, c
        <3>2. PICK r \in HandleRecords : r = handle["cwd"]
            BY <1>1 DEF Handles
        <3>3. PICK k : k = [r EXCEPT !.cur = c, !.pos = n]
            OBVIOUS
        <3>5. k.first = r.first /\ k.cur = c
            BY <3>3 DEF HandleRecords
        <3>4. handle' = [handle EXCEPT !["cwd"] = k]
            BY <1>1, <3>1, <3>2, <3>3 DEF Handles
        <3> QED
            BY <1>1, <3>2, <3>5, <3>4 DEF Handles, c
    <2>2. CASE ~SeekEmpty
        BY <2>2 DEF EndOfDirectory, SearchOn, WalkOn, PastEnd
    <2> QED
        BY <2>1, <2>2
<1>4. CASE WalkOn /\ Fat[op.cluster] # Eoc
    <2>1. /\ op.pc = "walk" /\ op' = [op EXCEPT !.pc = "start", !.cluster = Fat[op.cluster]]
          /\ Get(FatSector(0))
        BY <1>4 DEF WalkOn, At
    <2>2. PICK d \in Clusters : d = op.cluster
        BY <1>1, <2>1 DEF UpdatesInv, AtPlace, Ops, Opt
    <2>3. Fat = FatOn(Newest) /\ FatHolds(Fat)
        BY <1>1, <2>1, ReadsNewest, FatRead, <1>2 DEF Search
    <2>4. /\ op'.call = op.call /\ op'.name = op.name /\ op'.todo = op.todo /\ op'.links = <<>>
          /\ op'.pc = "start" /\ op'.cluster = FatOn(Newest)[d]
        BY <1>1, <2>1, <2>2, <2>3 DEF Ops
    <2>5. Counted' /\ FilePc' = "start"
        BY <1>1, <1>2, <1>3, <2>4, CallCounted
    <2>6. ASSUME NEW c \in DirClusters(handle', op') \ DirClusters(handle, op)
          PROVE  FatOn(Newest)[c] # 0 /\ Off(Newest, handle["file"].first, c)
        <3>1. c \in Clusters /\ c = FatOn(Newest)[d]
            BY <1>1, <1>3, <2>4, <2>6 DEF DirClusters
        <3>2. PICK img, first : img = Newest /\ first = handle["file"].first
            OBVIOUS
        <3>3. d \in DirClusters(handle, op)
            BY <2>2 DEF DirClusters
        <3>4. Off(img, first, d)
            BY <3>2, <3>3 DEF BackInv, FileClaims, Aside
        <3>5. Off(img, first, c) /\ FatOn(img)[c] # 0
            BY <3>1, <3>2, <3>4, FollowsOff, FileHeads
        <3> QED
            BY <3>2, <3>5
    <2> QED
        BY <1>1, <1>2, <1>3, <2>4, <2>5, <2>6, BackKept
<1>5. CASE ~(WalkOn /\ Fat[op.cluster] # Eoc)
    <2>1. \/ op' \in {NextStage(op), Failed}
          \/ \E long : op' = [op EXCEPT !.pc = "walk", !.cluster = Here, !.long = long]
          \/ op' = [op EXCEPT !.pc = "end"]
        BY <1>5 DEF EndOfDirectory, SeekEmpty, SearchOn, WalkOn, PastEnd, NotFound
    <2>2. /\ op'.links = <<>> /\ op'.cluster \in {0, op.cluster, Here}
          /\ Counted' /\ FilePc' = "start"
        <3>1. CASE op' \in {NextStage(op), Failed}
            <4>1. op'.links = <<>> /\ op'.cluster = 0
                <5>1. CASE op' = Failed
                    BY <5>1 DEF Failed, Idle
                <5>2. CASE op' = Idle
                    BY <5>2 DEF Idle
                <5>3. CASE op' = NextStage(op) /\ op' # Idle
                    BY <1>1, <5>3, NextStageIs DEF UpdatesInv
                <5> QED
                    BY <3>1, <5>1, <5>2, <5>3
            <4>2. Counted' /\ FilePc' = "start"
                BY <1>1, <1>2, <1>3, <3>1, StageCounted
            <4> QED
                BY <4>1, <4>2
        <3>2. CASE op' \notin {NextStage(op), Failed}
            <4>1. /\ op'.call = op.call /\ op'.name = op.name /\ op'.todo = op.todo
                  /\ op'.links = <<>> /\ op'.cluster \in {op.cluster, Here} /\ op'.pc # "first"
                BY <1>1, <2>1, <3>2 DEF Ops
            <4>2. Counted' /\ FilePc' = "start"
                BY <1>1, <1>2, <1>3, <4>1, CallCounted
            <4> QED
                BY <4>1, <4>2
        <3> QED
            BY <3>1, <3>2
    <2>3. DirClusters(handle', op') \ DirClusters(handle, op) = {}
        BY <1>1, <1>3, <2>2, ConstantsAre DEF DirClusters
    <2> QED
        BY <1>1, <1>2, <1>3, <2>2, <2>3, BackKept
<1> QED
    BY <1>4, <1>5

\* A file that is opened has no lines yet; a directory that is opened is on
\* no chain of a file.
LEMMA FindEntryBacked ==
    ASSUME TwoCopies, UpdatesInv, ChainsInv, BackInv, FindEntry
    PROVE  BackInv'
<1>1. /\ op.links = <<>> /\ op.todo # <<>> /\ Due \in Search \cup {"seek"} /\ Stage = Due
      /\ op.call \in {"CreateDir", "CreateFile"} /\ first_lba = FirstLba /\ UNCHANGED lines
      /\ Here \in Clusters /\ Here \in DirClusters(handle, op) /\ KeptImages
      /\ handle \in [Handles -> HandleRecords] /\ op \in Ops
    BY SearchAt
<1>2. Due \notin {"lines", "long", "short", "dots"} /\ FilePc = "start" /\ ~Writes /\ Counted
    BY <1>1 DEF Search, FilePc, Writes, BackInv
<1>3. /\ op' \in {NextStage(op), Failed} /\ op'.links = <<>> /\ op'.cluster = 0
      /\ op'.call # "fat_write"
    <2>1. op' \in {NextStage(op), Failed}
        BY DEF FindEntry
    <2>2. CASE op' = Failed
        <3>1. op'.links = <<>> /\ op'.cluster = 0
            BY <2>2 DEF Failed, Idle
        <3>2. op'.call \in {"CreateDir", "none"}
            BY <2>2 DEF Failed, Idle
        <3> QED
            BY <2>1, <3>1, <3>2
    <2>3. CASE op' = Idle
        BY <2>1, <2>3 DEF Idle
    <2>4. CASE op' = NextStage(op) /\ op' # Idle
        BY <1>1, <2>1, <2>4, NextStageIs DEF UpdatesInv
    <2> QED
        BY <2>1, <2>2, <2>3, <2>4
<1>4. PICK items : items = Loaded(DataSector(Here)) /\ DataHolds(items)
    BY <1>1, DirectoryRead DEF FindEntry, Search
<1>5. PICK i \in Matches(items, op.long, op.name) : Opened(i)
    BY <1>4 DEF FindEntry
<1>6. /\ i \in 1 .. Slots /\ items[i][1] = "short" /\ items[i][2] = op.name
      /\ op.name = SubDir => items[i][3] \in Clusters
      /\ op.name # SubDir => op.name \in Files /\ items[i][4] \in 0 .. lines[op.name]
    BY <1>1, <1>4, EntryFound DEF Matches
<1>7. PICK q \in Places : q = <<DataSector(Here), i>>
    BY <1>1, <1>6, PlacesAre
<1>8. PICK e : e = items[i] /\ ItemAt(Newest, q) = e
    BY <1>1, <1>4, <1>6, <1>7, ReadsNewest, PlacesAre
<1>9. PICK img, first : img = Newest /\ first = handle["file"].first
    OBVIOUS
<1>10. Rooted(img) /\ Backed(img) /\ ItemAt(img, q) = e
    BY <1>8, <1>9 DEF ChainsInv, BackInv
<1>11. Due = "chdir" => op.name = SubDir
    BY <1>1, DueIs DEF UpdatesInv, InCall
<1>12. CASE op.name = SubDir
    <2>1. PICK d \in {"cwd", "dir"} : handle' = [handle EXCEPT ![d] = DirHandle(e[3])]
        <3>1. handle' = [handle EXCEPT !["cwd"] = DirHandle(e[3])]
              \/ handle' = [handle EXCEPT !["dir"] = DirHandle(e[3])]
            BY <1>4, <1>5, <1>8, <1>12 DEF Opened
        <3> QED
            BY <3>1
    <2>2. e[3] \in Clusters /\ DirHandle(e[3]).first = e[3] /\ DirHandle(e[3]).cur = e[3]
        BY <1>6, <1>8, <1>12, DirHandleIs
    <2>3. PICK r : r = DirHandle(e[3])
        OBVIOUS
    <2>4. handle'[d] = r /\ \A k \in Handles : k # d => handle'[k] = handle[k]
        BY <1>1, <2>1, <2>3 DEF Handles
    <2>5. handle'["file"] = handle["file"]
        BY <2>4 DEF Handles
    <2>6. Counted' /\ FilePc' = "start"
        BY <1>1, <1>2, <1>3, <2>5, StageCounted
    <2>7. ASSUME NEW c \in DirClusters(handle', op') \ DirClusters(handle, op) PROVE c = e[3]
        <3>1. d = "cwd" \/ d = "dir"
            OBVIOUS
        <3>2. handle'["cwd"] = IF d = "cwd" THEN r ELSE handle["cwd"]
            BY <2>4 DEF Handles
        <3>3. handle'["dir"] = IF d = "dir" THEN r ELSE handle["dir"]
            BY <2>4 DEF Handles
        <3> QED
            BY <1>3, <2>2, <2>3, <2>5, <3>2, <3>3, ConstantsAre DEF DirClusters
    <2>8. HeadAt(img, q) = e[3] /\ ~FileAt(img, q)
        BY <1>6, <1>8, <1>10, <1>12, ConstantsAre DEF HeadAt, FileAt
    <2>9. /\ IsHead(FatOn(img), e[3])
          /\ \A p \in Places : HeadAt(img, p) = e[3] => p = q
        BY <1>10, <2>2, <2>8, ConstantsAre DEF Rooted
    <2>10. ~FileHead(img, first, e[3])
        <3>1. OwnEntry(img, handle["file"])
            BY <1>9 DEF BackInv, FileClaims
        <3>2. e[3] # first
            BY <1>9, <2>2, <2>8, <3>1, ConstantsAre DEF OwnEntry
        <3> QED
            BY <2>8, <2>9, <3>2 DEF FileHead
    <2>11. Off(img, first, e[3]) /\ FatOn(img)[e[3]] # 0
        BY <2>9, <2>10, UntargetedOff DEF IsHead
    <2>12. \A c \in DirClusters(handle', op') \ DirClusters(handle, op) :
               FatOn(Newest)[c] # 0 /\ Off(Newest, handle["file"].first, c)
        BY <1>9, <2>7, <2>11
    <2> QED
        BY <1>1, <1>2, <1>3, <2>5, <2>6, <2>12, BackKept
<1>13. CASE op.name # SubDir
    <2> DEFINE h == [NoHandle EXCEPT !.of = op.name, !.first = e[3], !.cur = e[3], !.size = e[4],
                                     !.at = q]
    <2>1. handle' = [handle EXCEPT !["file"] = h]
        BY <1>4, <1>5, <1>7, <1>8, <1>11, <1>13, <1>1 DEF Opened
    <2>2. h.of = op.name /\ h.first = e[3] /\ h.cur = e[3] /\ h.pos = 0 /\ h.at = q
        BY DEF NoHandle
    <2> HIDE DEF h
    <2>3. /\ handle'["file"] = h /\ handle'["cwd"] = handle["cwd"] /\ handle'["dir"] = handle["dir"]
        BY <1>1, <2>1 DEF Handles
    <2>4. op.name \in Files /\ lines[op.name] = 0 /\ op.name # NoName
        <3>1. op.name \in Files /\ op.call = "CreateFile"
            BY <1>1, <1>6, <1>13, NameSought
        <3> QED
            BY <1>2, <3>1, ConstantsAre DEF Counted, Names
    <2>5. e[4] = 0 /\ e[3] = 0
        <3>1. e[4] = 0
            BY <1>6, <1>8, <1>13, <2>4
        <3>2. FileAt(img, q)
            BY <1>6, <1>8, <1>10, <2>4 DEF FileAt
        <3> QED
            BY <1>10, <3>1, <3>2 DEF Backed
    <2>6. Counted' /\ FilePc' = "start"
        <3>1. /\ Due' # "lines" /\ op'.pc = "start"
              /\ op'.call = "CreateFile" => op'.name = op.name
            <4>1. CASE op' = Failed
                <5>1. op'.call \in {"CreateDir", "none"} /\ op'.pc = "start" /\ op'.todo \in {<<>>, <<"chdir">>}
                    BY <4>1 DEF Failed, Idle
                <5> QED
                    BY <5>1 DEF Due
            <4>2. CASE op' = Idle
                BY <4>2, IdleIs DEF Due
            <4>3. CASE op' = NextStage(op) /\ op' # Idle
                <5>1. /\ op'.name = op.name /\ op'.pc = "start"
                      /\ op'.todo # <<>> /\ Head(op'.todo) # "lines"
                    BY <1>1, <4>3, NextStageIs DEF UpdatesInv
                <5> QED
                    BY <5>1 DEF Due
            <4> QED
                BY <1>3, <4>1, <4>2, <4>3
        <3>2. ~Writes'
            BY <1>3 DEF Writes
        <3>3. FilePc' = "start"
            BY <3>1 DEF FilePc
        <3>4. lines'[op.name] = 0
            BY <1>1, <2>4
        <3> QED
            BY <2>2, <2>3, <3>1, <3>2, <3>3, <3>4 DEF Counted
    <2>7. ASSUME NEW c \in DirClusters(handle', op') PROVE c \in DirClusters(handle, op)
        <3>1. CASE c = Here
            BY <1>1, <3>1
        <3>2. CASE c # Here
            <4>1. ~(q[1] = DataSector(c))
                BY <1>1, <1>7, <2>7, <3>2, PlacesAre DEF DirClusters
            <4> QED
                BY <1>3, <2>2, <2>3, <2>7, <4>1, ConstantsAre DEF DirClusters
        <3> QED
            BY <3>1, <3>2
    <2>8. Aside(img, <<>>, 0, DirClusters(handle', op'), Writes')
        <3>1. \A c : ~Coming(<<>>, c)
            BY DEF Coming
        <3>2. \A k \in 1 .. Len(<<>>) : FALSE
            OBVIOUS
        <3>3. ASSUME NEW c, Off(img, first, c) PROVE Off(img, 0, c)
            <4>1. \A a : FileHead(img, 0, a) => FileHead(img, first, a)
                BY ConstantsAre DEF FileHead
            <4> QED
                BY <3>3, <4>1 DEF Off
        <3>4. Aside(img, <<>>, first, DirClusters(handle, op), Writes)
            BY <1>1, <1>9 DEF BackInv, FileClaims
        <3>5. PICK old, new, own : old = DirClusters(handle, op) /\ new = DirClusters(handle', op') /\ own = Writes'
            OBVIOUS
        <3>6. \A c \in new : FatOn(img)[c] # 0 /\ Off(img, 0, c)
            BY <2>7, <3>1, <3>3, <3>4, <3>5 DEF Aside
        <3>7. Aside(img, <<>>, 0, new, own)
            BY <3>2, <3>6 DEF Aside
        <3> QED
            BY <3>5, <3>7
    <2>9. FileClaims(img, <<>>, h, DirClusters(handle', op'), Writes', FilePc')
        BY <2>2, <2>5, <2>8 DEF FileClaims, OwnEntry, Standing
    <2>10. FileClaims(Newest, op'.links, handle'["file"], DirClusters(handle', op'), Writes', FilePc')
        BY <1>3, <1>9, <2>3, <2>9
    <2>11. FileClaims(Newest', op'.links, handle'["file"], DirClusters(handle', op'), Writes', FilePc')
        BY <1>1, <2>10, KeptIsBacked
    <2> QED
        BY <1>1, <2>6, <2>11, KeptIsBacked, BackAfter
<1> QED
    BY <1>12, <1>13

\* With no link to set the position is in the last cluster, or behind it.
LEMMA StandsAt ==
    ASSUME NEW img, NEW h, NEW pc, Standing(img, <<>>, h, pc), h.first # 0
    PROVE  \E s \in Seq(Clusters) :
              /\ IsPath(FatOn(img), s, h.first) /\ Filled(img, h.of, s, h.pos)
              /\ Len(s) \in Nat \ {0} /\ h.cur = s[Len(s)] /\ h.cur \in Clusters
              /\ IF pc = "next" THEN h.pos = Len(s) * Slots
                 ELSE /\ (Len(s) - 1) * Slots <= h.pos /\ h.pos < Len(s) * Slots
                      /\ pc \in {"flush0", "clear"} => h.pos = (Len(s) - 1) * Slots
<1>1. PICK s \in Seq(Clusters) : /\ IsPath(FatOn(img), s, h.first) /\ Filled(img, h.of, s, h.pos)
                                 /\ AtEnd(<<>>, h, s, pc)
    BY DEF Standing
<1>2. Len(s) \in Nat \ {0} /\ s[Len(s)] \in Clusters
    <2>1. PICK n \in Nat : n = Len(s)
        OBVIOUS
    <2>2. n # 0
        BY <1>1, <2>1, EmptySeq DEF IsPath
    <2> QED
        BY <2>1, <2>2
<1>3. \A i \in 1 .. Len(<<>>) : FALSE
    OBVIOUS
<1> QED
    BY <1>1, <1>2, <1>3 DEF AtEnd

LEMMA StageEnds ==
    ASSUME UpdatesInv, op.todo # <<>>, op.links = <<>>, op' = NextStage(op)
    PROVE  op'.links = <<>> /\ op'.cluster = 0
<1>1. CASE op' = Idle
    BY <1>1 DEF Idle
<1>2. CASE op' # Idle
    BY <1>2, NextStageIs DEF UpdatesInv
<1> QED
    BY <1>1, <1>2

LEMMA StartWriteBacked ==
    ASSUME UpdatesInv, ChainsInv, BackInv, StartWrite
    PROVE  BackInv'
<1>1. At(Writing, "start")
    BY DEF StartWrite
<1>2. /\ op.links = <<>> /\ op.todo # <<>> /\ Due \in Writing /\ op.pc = "start" /\ Stage = Due
      /\ op \in Ops /\ handle["cwd"].cur # 0 /\ (op.call = "fat_write" <=> Due = "lines")
    BY <1>1, WritingAt
<1>3. /\ op' = [Output(op, Due) EXCEPT !.pc = IF handle[Output(op, Due).h].cur = 0
                                               THEN "first" ELSE "item"]
      /\ UNCHANGED <<cache, handle, lines>>
    BY <1>2 DEF StartWrite, history
<1>4. KeptImages
    BY <1>3, UntouchedImages DEF cache
<1>5. \/ Due = "long" /\ Output(op, Due) = [op EXCEPT !.h = "cwd", !.items = <<Long(op.name)>>]
      \/ Due = "short" /\ Output(op, Due) = [op EXCEPT !.h = "cwd",
                                                       !.items = <<Short(op.name, op.first, 0)>>]
      \/ Due = "dots" /\ Output(op, Due) = [op EXCEPT !.h = "dir", !.items = <<Dot, Dot>>]
      \/ Due = "lines" /\ Output(op, Due) = [op EXCEPT !.h = "file"]
    BY <1>2 DEF Output, Writing
<1>6. PICK k : k = Output(op, Due).h
    OBVIOUS
<1>7. /\ op'.call = op.call /\ op'.name = op.name /\ op'.todo = op.todo
      /\ op'.links = <<>> /\ op'.cluster = op.cluster
      /\ op'.pc = IF handle[k].cur = 0 THEN "first" ELSE "item"
      /\ Due = "lines" => op'.items = op.items
      /\ k = HandleOf(Due)
    BY <1>2, <1>3, <1>5, <1>6 DEF Ops, HandleOf
<1>8. Due' = Due /\ (Writes' <=> Writes)
    BY <1>7 DEF Due, Writes
<1>9. Due \in {"long", "short", "dots"} => op'.pc # "first"
    BY <1>2, <1>7 DEF HandleOf, UpdatesInv, Mounting
<1>10. Due = "lines" /\ op'.pc = "first" => handle["file"].first = 0
    <2> SUFFICES ASSUME Due = "lines", op'.pc = "first", handle["file"].first # 0 PROVE FALSE
        OBVIOUS
    <2>1. handle["file"].cur = 0
        BY <1>7 DEF HandleOf
    <2>2. Standing(Newest, <<>>, handle["file"], FilePc)
        BY <1>2 DEF BackInv, FileClaims
    <2>3. PICK img, h, pc : img = Newest /\ h = handle["file"] /\ pc = FilePc
        OBVIOUS
    <2>4. h.cur \in Clusters
        BY <2>2, <2>3, StandsAt
    <2> QED
        BY <2>1, <2>3, <2>4, ConstantsAre
<1>11. Counted'
    <2>1. Counted
        BY DEF BackInv
    <2>2. Due = "lines" => \A i \in 1 .. Len(op'.items) :
              op'.items[i] = Line(handle["file"].of, handle["file"].pos + i)
        BY <1>7, <2>1 DEF Counted
    <2>3. handle["file"].of # NoName =>
              handle["file"].pos + (IF Writes THEN Len(op'.items) ELSE 0) = lines[handle["file"].of]
        BY <1>2, <1>7, <2>1 DEF Counted, Writes
    <2>4. op'.pc \notin {"size", "flush"} /\ (op.call = "CreateFile" => lines[op.name] = 0)
        BY <1>7, <2>1 DEF Counted
    <2> QED
        BY <1>3, <1>7, <1>8, <1>9, <1>10, <2>2, <2>3, <2>4 DEF Counted
<1>12. FilePc = "start" /\ FilePc' \in {"start", "first", "item"}
    BY <1>2, <1>7, <1>8 DEF FilePc
<1>13. DirClusters(handle', op') \ DirClusters(handle, op) = {}
    BY <1>3, <1>7 DEF DirClusters
<1> QED
    BY <1>2, <1>3, <1>4, <1>7, <1>11, <1>12, <1>13, BackKept

LEMMA FlushBacked ==
    ASSUME UpdatesInv, BackInv, FlushBeforeClear \/ SyncFlush \/ WriteReturns
    PROVE  BackInv'
<1>1. PICK pc : At(Writing, pc) /\ pc \in {"flush0", "size", "flush"}
    BY DEF FlushBeforeClear, SyncFlush, WriteReturns
<1>2. /\ op.links = <<>> /\ op.todo # <<>> /\ Due \in Writing /\ op.pc = pc
      /\ op \in Ops /\ first_lba = FirstLba
    BY <1>1, WritingAt
<1>3. UNCHANGED <<handle, lines>> /\ Counted
    BY DEF FlushBeforeClear, SyncFlush, WriteReturns, Acknowledge, history, BackInv
<1>4. KeptImages
    <2>1. CASE FlushBeforeClear \/ SyncFlush
        BY <1>2, <1>3, <2>1, GetImages DEF FlushBeforeClear, SyncFlush, UpdatesInv
    <2>2. CASE WriteReturns
        BY <2>2, UntouchedImages DEF WriteReturns, cache
    <2> QED
        BY <2>1, <2>2
<1>5. CASE FlushBeforeClear
    <2>1. op.pc = "flush0" /\ op' = [op EXCEPT !.pc = "clear"]
        BY <1>5 DEF FlushBeforeClear, At
    <2>2. /\ op'.call = op.call /\ op'.name = op.name /\ op'.todo = op.todo /\ op'.links = <<>>
          /\ op'.items = op.items /\ op'.cluster = op.cluster /\ op'.pc = "clear"
        BY <1>2, <2>1 DEF Ops
    <2>3. Due' = Due /\ (Writes' <=> Writes)
        BY <2>2 DEF Due, Writes
    <2>4. Counted'
        BY <1>3, <2>2, <2>3 DEF Counted
    <2>5. /\ FilePc' = "next" <=> FilePc = "next"
          /\ FilePc' \in {"flush0", "clear"} => FilePc \in {"flush0", "clear"}
        BY <2>1, <2>2, <2>3 DEF FilePc
    <2>6. DirClusters(handle', op') \ DirClusters(handle, op) = {}
        BY <1>3, <2>2 DEF DirClusters
    <2> QED
        BY <1>2, <1>3, <1>4, <2>2, <2>4, <2>5, <2>6, BackKept
<1>6. CASE SyncFlush \/ WriteReturns
    <2>1. op' = NextStage(op) /\ op.pc \in {"size", "flush"}
        BY <1>6 DEF SyncFlush, WriteReturns, At
    <2>2. op'.links = <<>> /\ op'.cluster = 0
        BY <1>2, <2>1, StageEnds
    <2>3. Counted' /\ FilePc' = "start"
        BY <1>2, <1>3, <2>1, StageCounted DEF Counted
    <2>4. FilePc # "next"
        BY <2>1 DEF FilePc
    <2>5. DirClusters(handle', op') \ DirClusters(handle, op) = {}
        BY <1>3, <2>2, ConstantsAre DEF DirClusters
    <2> QED
        BY <1>2, <1>3, <1>4, <2>2, <2>3, <2>4, <2>5, BackKept
<1> QED
    BY <1>5, <1>6

\* A sector of a directory is written.
LEMMA OffClaims ==
    ASSUME NEW img, NEW new, NEW c \in Clusters, FatOn(new) = FatOn(img),
           \A e \in Clusters : e # c => ItemsOf(new, e) = ItemsOf(img, e),
           NEW h, h.first \in Opt, Off(img, h.first, c),
           \A p \in Places : FileAt(new, p) /\ HeadAt(new, p) # 0 =>
               HeadAt(new, p) = h.first \/ (FileAt(img, p) /\ HeadAt(img, p) = HeadAt(new, p)),
           OwnEntry(new, h), NEW links, NEW dirs, NEW own, NEW pc,
           FileClaims(img, links, h, dirs, own, pc)
    PROVE  FileClaims(new, links, h, dirs, own, pc)
<1>1. \A d : Off(img, h.first, d) => Off(new, h.first, d)
    BY DataOff
<1>2. Aside(new, links, h.first, dirs, own)
    BY <1>1 DEF FileClaims, Aside
<1>3. Standing(new, links, h, pc)
    <2>1. CASE h.first = 0
        BY <2>1 DEF FileClaims, Standing
    <2>2. CASE h.first # 0
        <3>1. PICK s \in Seq(Clusters) : /\ IsPath(FatOn(img), s, h.first)
                                         /\ Filled(img, h.of, s, h.pos) /\ AtEnd(links, h, s, pc)
            BY <2>2 DEF FileClaims, Standing
        <3>2. h.first \in Clusters /\ FileHead(img, h.first, h.first)
            BY <2>2 DEF FileHead, Opt
        <3>3. \A k \in 1 .. Len(s) : s[k] # c /\ s[k] \in Clusters
            BY <3>1, <3>2 DEF Off
        <3>4. Filled(new, h.of, s, h.pos)
            BY <3>1, <3>3 DEF Filled
        <3> QED
            BY <2>2, <3>1, <3>4 DEF Standing
    <2> QED
        BY <2>1, <2>2
<1> QED
    BY <1>2, <1>3 DEF FileClaims

\* A cluster of a directory is cleared.
LEMMA ClearedBacked ==
    ASSUME BackInv, NEW c \in DirClusters(handle, op), handle["file"] \in HandleRecords,
           WrittenImages(DataSector(c), Zeros), NEW links, NEW dirs, NEW own, NEW pc,
           FileClaims(Newest, links, handle["file"], dirs, own, pc)
    PROVE  Backed(Newest') /\ FileClaims(Newest', links, handle["file"], dirs, own, pc)
<1>1. c \in Clusters
    BY DEF DirClusters
<1>2. /\ FatOn(Newest') = FatOn(Newest)
      /\ \A e \in Clusters : e # c => ItemsOf(Newest', e) = ItemsOf(Newest, e)
      /\ \A p \in Places : ItemAt(Newest', p) = IF p[1] = DataSector(c) THEN Zeros[p[2]]
                                                ELSE ItemAt(Newest, p)
    BY <1>1, DataWritten
<1>3. PICK img, new, h : img = Newest /\ new = Newest' /\ h = handle["file"]
    OBVIOUS
<1>4. ASSUME NEW p \in Places
      PROVE  \/ ItemAt(new, p)[1] = "zero"
             \/ ItemAt(new, p) = ItemAt(img, p)
    <2>1. CASE p[1] = DataSector(c)
        <3>1. p[2] \in 1 .. Slots
            BY PlacesAre
        <3>2. Zeros[p[2]] = Zero
            BY <3>1 DEF Zeros
        <3> QED
            BY <1>2, <1>3, <2>1, <3>2 DEF Zero
    <2>2. CASE p[1] # DataSector(c)
        BY <1>2, <1>3, <2>2
    <2> QED
        BY <2>1, <2>2
<1>5. /\ \A p \in Places : FileAt(new, p) => FileAt(img, p) /\ ItemAt(new, p) = ItemAt(img, p)
      /\ \A p \in Places : HeadAt(new, p) # 0 =>
             HeadAt(new, p) = HeadAt(img, p) /\ ItemAt(new, p) = ItemAt(img, p)
    BY <1>4 DEF FileAt, HeadAt
<1>6. Off(img, h.first, c) /\ Backed(img) /\ OwnEntry(img, h)
    BY <1>3 DEF BackInv, FileClaims, Aside
<1>7. FatOn(new) = FatOn(img) /\ \A e \in Clusters : e # c => ItemsOf(new, e) = ItemsOf(img, e)
    BY <1>2, <1>3
<1>8. Backed(new)
    <2>1. \A p \in Places, s \in Seq(Clusters) :
               FileAt(img, p) /\ IsPath(FatOn(img), s, ItemAt(img, p)[3]) =>
                   \A k \in 1 .. Len(s) : s[k] # c
        BY <1>6, OffKeepsLines
    <2> QED
        BY <1>1, <1>5, <1>6, <1>7, <2>1, DataBacked
<1>9. OwnEntry(new, h)
    BY <1>5, <1>6 DEF OwnEntry, FileAt
<1>10. FileClaims(new, links, h, dirs, own, pc)
    <2>1. h.first \in Opt
        BY <1>3 DEF HandleRecords
    <2>2. \A p \in Places : FileAt(new, p) /\ HeadAt(new, p) # 0 =>
              FileAt(img, p) /\ HeadAt(img, p) = HeadAt(new, p)
        BY <1>5
    <2>3. FileClaims(img, links, h, dirs, own, pc)
        BY <1>3
    <2> QED
        BY <1>1, <1>6, <1>7, <1>9, <2>1, <2>2, <2>3, OffClaims
<1> QED
    BY <1>3, <1>8, <1>10

LEMMA MountBacked ==
    ASSUME TwoCopies, UpdatesInv, ChainsInv, BackInv,
           BlankDirectory \/ mbr_partition_init \/ fat_vol_init
    PROVE  BackInv'
<1>1. PICK stage \in {"blank", "mbr", "volume"} : At({stage}, "start")
    BY DEF BlankDirectory, mbr_partition_init, fat_vol_init
<1>2. /\ op.links = <<>> /\ op.todo # <<>> /\ Due = stage /\ Stage = Due /\ op.pc = "start"
      /\ op \in Ops /\ InCall /\ CacheInv /\ handle \in [Handles -> HandleRecords]
    BY <1>1, AtIs DEF UpdatesInv, HandlesInv
<1>3. op' = NextStage(op) /\ UNCHANGED lines
    BY DEF BlankDirectory, mbr_partition_init, fat_vol_init, history
<1>4. handle'["file"] = handle["file"]
    BY DEF BlankDirectory, mbr_partition_init, fat_vol_init, UpdatesInv, HandlesInv, Handles
<1>5. op'.links = <<>> /\ op'.cluster = 0 /\ Counted' /\ FilePc' = "start" /\ FilePc = "start"
    BY <1>2, <1>3, <1>4, StageEnds, StageCounted DEF BackInv, FilePc
<1>6. CASE BlankDirectory
    <2>1. Due = "blank" /\ Due \notin {"mbr", "volume"} /\ UNCHANGED handle
        BY <1>2, <1>6 DEF BlankDirectory, At
    <2>2. handle["dir"] \in HandleRecords /\ handle["dir"].first # 0
        BY <2>1 DEF UpdatesInv, Mounting, HandlesInv, Handles
    <2>3. PICK c \in Clusters : c = handle["dir"].first
        BY <2>2 DEF HandleRecords, Opt
    <2>4. c \in DirClusters(handle, op)
        BY <2>3 DEF DirClusters
    <2>5. first_lba = FirstLba
        BY <1>2, <2>1, Busy
    <2>6. WrittenImages(DataSector(c), Zeros)
        BY <1>2, <1>3, <1>6, <2>3, <2>5, SectorsAre, ChangedImages DEF BlankDirectory
    <2>7. PICK h, dirs, own : h = handle["file"] /\ dirs = DirClusters(handle', op') /\ own = Writes'
        OBVIOUS
    <2>8. dirs \subseteq DirClusters(handle, op)
        BY <1>5, <2>1, <2>7, ConstantsAre DEF DirClusters
    <2>9. FileClaims(Newest, <<>>, h, dirs, own, "start")
        <3>1. FileClaims(Newest, <<>>, h, DirClusters(handle, op), Writes, "start")
            BY <1>2, <1>5, <2>7 DEF BackInv
        <3>2. \A k \in 1 .. Len(<<>>) : FALSE
            OBVIOUS
        <3> QED
            BY <2>8, <3>1, <3>2 DEF FileClaims, Aside
    <2>10. Backed(Newest') /\ FileClaims(Newest', <<>>, h, dirs, own, "start")
        BY <1>2, <2>4, <2>6, <2>7, <2>9, ClearedBacked DEF Handles
    <2> QED
        BY <1>4, <1>5, <2>6, <2>7, <2>10, WrittenIsBacked, BackAfter
<1>7. CASE mbr_partition_init
    <2>1. Due = "mbr" /\ UNCHANGED handle
        BY <1>2, <1>7 DEF mbr_partition_init, At
    <2>2. ~dirty
        BY <2>1 DEF UpdatesInv, Mounting, CacheInv
    <2>3. KeptImages
        BY <1>7, <2>2, UntouchedImages DEF mbr_partition_init
    <2>4. DirClusters(handle', op') \ DirClusters(handle, op) = {}
        BY <1>5, <2>1, ConstantsAre DEF DirClusters
    <2> QED
        BY <1>2, <1>4, <1>5, <2>3, <2>4, BackKept
<1>8. CASE fat_vol_init
    <2>1. Due = "volume" /\ Get(BootSector)
        BY <1>2, <1>8 DEF fat_vol_init, At
    <2>2. op # Idle
        BY <1>2, DueIs
    <2>3. first_lba = FirstLba
        BY <2>1, <2>2 DEF UpdatesInv, Mounting, CacheInv
    <2>4. KeptImages
        BY <1>2, <1>3, <2>1, <2>3, GetImages
    <2>5. Loaded(BootSector) = RootAt(Root)
        BY <1>2, <2>3, LoadedHolds, SectorsAre, NotLastFat DEF UpdatesInv
    <2>6. handle' = [handle EXCEPT !["cwd"] = DirHandle(Root)]
        BY <1>8, <2>5 DEF fat_vol_init, RootAt
    <2>7. DirHandle(Root).first = Root /\ DirHandle(Root).cur = Root
        BY ConstantsAre, DirHandleIs
    <2>8. PICK r : r = DirHandle(Root)
        OBVIOUS
    <2>9. handle'["cwd"] = r /\ handle'["dir"] = handle["dir"]
        BY <1>2, <2>6, <2>8 DEF Handles
    <2>10. \A c \in DirClusters(handle', op') \ DirClusters(handle, op) : c = Root
        BY <1>4, <1>5, <2>7, <2>8, <2>9, ConstantsAre DEF DirClusters
    <2>11. PICK img, first : img = Newest /\ first = handle["file"].first
        OBVIOUS
    <2>12. /\ IsHead(FatOn(img), Root) /\ (first # 0 => first # Root)
           /\ \A p \in Places : HeadAt(img, p) # Root
        BY <2>11, ConstantsAre DEF ChainsInv, Rooted, Claims, Loose
    <2>13. ~FileHead(img, first, Root)
        BY <2>12, ConstantsAre DEF FileHead
    <2>14. Off(img, first, Root) /\ FatOn(img)[Root] # 0
        BY <2>12, <2>13, UntargetedOff DEF IsHead
    <2> QED
        BY <1>2, <1>4, <1>5, <2>4, <2>10, <2>11, <2>14, BackKept
<1> QED
    BY <1>6, <1>7, <1>8

\* A cluster that follows a path lengthens it.
LEMMA PathLengthened ==
    ASSUME NEW fat, NEW a, NEW s \in Seq(Clusters), IsPath(fat, s, a), NEW t \in Clusters,
           fat[s[Len(s)]] = t
    PROVE  /\ Append(s, t) \in Seq(Clusters) /\ IsPath(fat, Append(s, t), a)
           /\ Len(Append(s, t)) = Len(s) + 1 /\ Append(s, t)[Len(s) + 1] = t
           /\ \A i \in 1 .. Len(s) : Append(s, t)[i] = s[i]
<1>1. PICK n \in Nat \ {0} : n = Len(s)
    <2>1. Len(s) \in Nat /\ Len(s) # 0
        BY EmptySeq DEF IsPath
    <2> QED
        BY <2>1
<1>2. PICK r \in Seq(Clusters) : r = Append(s, t)
    BY AppendProperties
<1>3. Len(r) = n + 1 /\ r[n + 1] = t /\ \A i \in 1 .. n : r[i] = s[i]
    BY <1>1, <1>2
<1>4. ASSUME NEW i \in 1 .. n PROVE fat[r[i]] = r[i + 1]
    <2>1. CASE i = n
        BY <1>1, <1>3, <2>1
    <2>2. CASE i # n
        <3>1. i \in 1 .. n - 1 /\ i + 1 \in 1 .. n
            BY <1>1, <2>2
        <3>2. fat[s[i]] = s[i + 1]
            BY <1>1, <3>1 DEF IsPath
        <3> QED
            BY <1>3, <3>1, <3>2
    <2> QED
        BY <2>1, <2>2
<1>5. r # <<>> /\ r[1] = a /\ (n + 1) - 1 = n
    <2>1. 1 \in 1 .. n
        BY <1>1
    <2>2. r # <<>>
        BY <1>1, <1>2, <1>3, EmptySeq
    <2> QED
        BY <1>1, <1>3, <2>1, <2>2 DEF IsPath
<1>6. IsPath(fat, r, a)
    BY <1>2, <1>3, <1>4, <1>5 DEF IsPath
<1> QED
    BY <1>1, <1>2, <1>3, <1>6

\* A file goes on with one more cluster.
LEMMA FileLengthened ==
    ASSUME NEW img, NEW f, NEW a, NEW s \in Seq(Clusters), IsPath(FatOn(img), s, a),
           NEW n \in Nat, n = Len(s) * Slots, Filled(img, f, s, n),
           NEW t \in Clusters, FatOn(img)[s[Len(s)]] = t
    PROVE  \E r \in Seq(Clusters) :
              /\ IsPath(FatOn(img), r, a) /\ Filled(img, f, r, n)
              /\ r[Len(r)] = t /\ n = (Len(r) - 1) * Slots /\ n < Len(r) * Slots
<1>1. PICK m \in Nat \ {0} : m = Len(s)
    <2>1. Len(s) \in Nat /\ Len(s) # 0
        BY EmptySeq DEF IsPath
    <2> QED
        BY <2>1
<1>2. PICK r \in Seq(Clusters) :
          /\ IsPath(FatOn(img), r, a) /\ Len(r) = m + 1 /\ r[m + 1] = t
          /\ \A i \in 1 .. m : r[i] = s[i]
    <2>1. PICK r : r = Append(s, t)
        OBVIOUS
    <2>2. PICK fat : fat = FatOn(img)
        OBVIOUS
    <2>3. /\ r \in Seq(Clusters) /\ IsPath(fat, r, a)
          /\ Len(r) = Len(s) + 1 /\ r[Len(s) + 1] = t /\ \A i \in 1 .. Len(s) : r[i] = s[i]
        BY <2>1, <2>2, PathLengthened
    <2> QED
        BY <1>1, <2>2, <2>3
<1>3. PICK l \in Nat \ {0} : l = m + 1 /\ l - 1 = m
    BY <1>1
<1>4. PICK b \in Nat : /\ b = (l - 1) * Slots /\ l * Slots = b + Slots
                       /\ \A j \in 1 .. Slots : Index(l, j) = b + j
    BY IndexIs
<1>5. b = n /\ Slots \in Nat \ {0}
    BY <1>1, <1>3, <1>4, ConstantsAre
<1>6. ASSUME NEW k \in 1 .. l, NEW j \in 1 .. Slots, Index(k, j) <= n
      PROVE  ItemsOf(img, r[k])[j] = Line(f, Index(k, j))
    <2>1. CASE k = l
        BY <1>4, <1>5, <1>6, <2>1
    <2>2. CASE k # l
        <3>1. k \in 1 .. m
            BY <1>3, <2>2
        <3> QED
            BY <1>1, <1>2, <1>6, <3>1 DEF Filled
    <2> QED
        BY <2>1, <2>2
<1>7. Len(r) = l /\ n = (l - 1) * Slots /\ n < l * Slots /\ n <= l * Slots
    BY <1>2, <1>3, <1>4, <1>5
<1>8. Filled(img, f, r, n)
    BY <1>6, <1>7 DEF Filled
<1> QED
    BY <1>2, <1>3, <1>7, <1>8

\* An entry of the FAT is set.
LEMMA LinkClaims ==
    ASSUME NEW img, Backed(img), NEW h \in HandleRecords, NEW first,
           NEW links \in Seq(Link), links # <<>>, Claims(img, links, h, first),
           NEW l, l = links[1], NEW new, FatHolds(FatOn(img)),
           FatOn(new) = IF l.copy = 0 THEN [FatOn(img) EXCEPT ![l.cluster] = l.next] ELSE FatOn(img),
           \A c \in Clusters : ItemsOf(new, c) = ItemsOf(img, c),
           \A p \in Places : ItemAt(new, p) = ItemAt(img, p),
           NEW dirs \in SUBSET Clusters, NEW own, NEW pc, FileClaims(img, links, h, dirs, own, pc)
    PROVE  Backed(new) /\ FileClaims(new, Tail(links), h, dirs, own, pc)
<1> DEFINE fat == FatOn(img)
<1> DEFINE after == FatOn(new)
<1>1. PICK n \in Nat : n = Len(links)
    OBVIOUS
<1>2. n > 0 /\ Head(links) = l /\ l \in Link
    BY <1>1, EmptySeq
<1>3. PICK rest \in Seq(Link) : rest = Tail(links)
    BY HeadTailProperties
<1>4. Len(rest) = n - 1 /\ \A i \in 1 .. n - 1 : rest[i] = links[i + 1]
    BY <1>1, <1>3, HeadTailProperties
<1>5. PICK c \in Clusters, t \in Clusters \cup {Eoc} : c = l.cluster /\ t = l.next
    BY <1>2 DEF Link
<1>6. \A i \in 1 .. Len(links) : links[i].copy = 0 =>
          IF links[i].next = Eoc THEN i = 1 /\ fat[links[i].cluster] = 0
          ELSE /\ fat[links[i].cluster] = Eoc /\ Loose(fat, links, links[i].next)
               /\ links[i].next # links[i].cluster
               /\ \A j \in 1 .. Len(links) : links[j].copy = 0 /\ links[j].next # Eoc => j = i
    BY DEF Claims
<1>7. /\ \A x \in dirs : (fat[x] # 0 \/ Coming(links, x)) /\ Off(img, h.first, x)
      /\ \A i \in 1 .. Len(links) : links[i].copy = 0 /\ links[i].next # Eoc =>
            /\ fat[links[i].next] \notin Clusters
            /\ IF own THEN links[i].next \notin dirs ELSE Off(img, h.first, links[i].cluster)
    BY DEF FileClaims, Aside
<1>8. 1 \in 1 .. Len(links)
    BY <1>1, <1>2
<1>9. l.copy = 0 => /\ fat[c] \notin Clusters /\ after[c] = t
                    /\ \A e \in Clusters : e # c => after[e] = fat[e]
                    /\ t \in Clusters => t # c /\ fat[t] \notin Clusters
    <2> SUFFICES ASSUME l.copy = 0
                 PROVE  /\ fat[c] \notin Clusters /\ after[c] = t
                        /\ \A e \in Clusters : e # c => after[e] = fat[e]
                        /\ t \in Clusters => t # c /\ fat[t] \notin Clusters
        OBVIOUS
    <2>1. after = [fat EXCEPT ![c] = t]
        BY <1>5
    <2>2. after[c] = t /\ \A e \in Clusters : e # c => after[e] = fat[e]
        BY <2>1 DEF FatHolds
    <2>3. fat[c] \in {0, Eoc}
        BY <1>5, <1>6, <1>8
    <2>4. t \in Clusters => t # c /\ fat[t] \notin Clusters
        BY <1>5, <1>6, <1>7, <1>8, ConstantsAre
    <2> QED
        BY <2>2, <2>3, <2>4, ConstantsAre
<1>10. l.copy # 0 => after = fat
    OBVIOUS
<1> HIDE DEF fat, after
<1>11. Backed(new)
    <2>1. CASE l.copy = 0
        BY <1>9, <2>1, LinkBacked DEF fat, after
    <2>2. CASE l.copy # 0
        <3>1. \A f, a, k : Behind(img, f, a, k) => Behind(new, f, a, k)
            BY <1>10, <2>2, FilledReads DEF fat, after, Behind
        <3> QED
            BY <3>1 DEF Backed, FileAt
    <2> QED
        BY <2>1, <2>2
<1>12. ASSUME NEW x, Off(img, h.first, x), l.copy = 0 /\ t \in Clusters => x # t \/ Off(img, h.first, c)
       PROVE  Off(new, h.first, x)
    <2>1. CASE l.copy = 0
        <3>1. PICK a, d : a = h.first /\ d = c
            OBVIOUS
        <3>2. /\ FatOn(img)[d] \notin Clusters /\ FatOn(new)[d] = t
              /\ \A e \in Clusters : e # d => FatOn(new)[e] = FatOn(img)[e]
            BY <1>9, <2>1, <3>1 DEF fat, after
        <3>3. t \in Clusters => /\ t # d /\ FatOn(img)[t] \notin Clusters
                                /\ x # t \/ Off(img, a, d)
            BY <1>9, <1>12, <2>1, <3>1 DEF fat, after
        <3>4. Off(img, a, x)
            BY <1>12, <3>1
        <3>5. \A p \in Places : ItemAt(new, p) = ItemAt(img, p)
            OBVIOUS
        <3>6. Off(new, a, x)
            BY ONLY <3>2, <3>3, <3>4, <3>5, LinkOff
        <3> QED
            BY <3>1, <3>6
    <2>2. CASE l.copy # 0
        <3>1. \A a : FileHead(new, h.first, a) <=> FileHead(img, h.first, a)
            BY DEF FileHead, FileAt, HeadAt
        <3> QED
            BY <1>10, <1>12, <2>2, <3>1 DEF Off, fat, after
    <2> QED
        BY <2>1, <2>2
<1>13. Aside(new, rest, h.first, dirs, own)
    <2>1. ASSUME NEW x \in dirs PROVE (after[x] # 0 \/ Coming(rest, x)) /\ Off(new, h.first, x)
        <3>1. Off(new, h.first, x)
            <4>1. l.copy = 0 /\ t \in Clusters => x # t \/ Off(img, h.first, c)
                BY <1>5, <1>7, <1>8, ConstantsAre
            <4> QED
                BY <1>7, <1>12, <4>1
        <3>2. CASE fat[x] # 0
            BY <1>5, <1>9, <1>10, <3>1, <3>2, ConstantsAre
        <3>3. CASE fat[x] = 0
            <4>1. Coming(links, x)
                BY <1>7, <3>3
            <4>2. l = [copy |-> 0, cluster |-> x, next |-> Eoc]
                BY <1>2, <4>1 DEF Coming
            <4>3. l.copy = 0 /\ c = x /\ t = Eoc
                BY <1>5, <4>2
            <4> QED
                BY <1>9, <3>1, <4>3, ConstantsAre
        <3> QED
            BY <3>2, <3>3
    <2>2. ASSUME NEW i \in 1 .. Len(rest), rest[i].copy = 0, rest[i].next # Eoc
          PROVE  /\ after[rest[i].next] \notin Clusters
                 /\ IF own THEN rest[i].next \notin dirs ELSE Off(new, h.first, rest[i].cluster)
        <3>1. i + 1 \in 1 .. Len(links) /\ rest[i] = links[i + 1] /\ i + 1 # 1
            BY <1>1, <1>4
        <3>2. /\ fat[rest[i].next] \notin Clusters
              /\ IF own THEN rest[i].next \notin dirs ELSE Off(img, h.first, rest[i].cluster)
            BY <1>7, <2>2, <3>1
        <3>3. l.copy = 0 => t = Eoc
            <4>1. \A j \in 1 .. Len(links) : links[j].copy = 0 /\ links[j].next # Eoc => j = i + 1
                BY <1>6, <2>2, <3>1
            <4> QED
                BY <1>5, <1>8, <3>1, <4>1
        <3>4. rest[i].next \in Clusters
            <4>1. rest[i] \in Link
                OBVIOUS
            <4> QED
                BY <2>2, <4>1 DEF Link
        <3>5. after[rest[i].next] \notin Clusters
            BY <1>9, <1>10, <3>2, <3>3, <3>4, ConstantsAre
        <3> QED
            BY <1>12, <3>2, <3>3, <3>5, ConstantsAre
    <2> QED
        BY <2>1, <2>2 DEF Aside, after
<1>14. OwnEntry(new, h)
    BY DEF FileClaims, OwnEntry, HeadAt, FileAt
<1>15. Standing(new, rest, h, pc)
    <2>1. CASE h.first = 0
        BY <2>1 DEF FileClaims, Standing
    <2>2. CASE h.first # 0
        <3>1. PICK s \in Seq(Clusters) : /\ IsPath(fat, s, h.first)
                                         /\ Filled(img, h.of, s, h.pos) /\ AtEnd(links, h, s, pc)
            BY <2>2 DEF FileClaims, Standing, fat
        <3>2. IsPath(after, s, h.first) /\ Filled(new, h.of, s, h.pos)
            <4>1. IsPath(after, s, h.first)
                <5>1. PICK a : a = h.first
                    OBVIOUS
                <5>2. CASE l.copy = 0
                    BY <1>9, <3>1, <5>1, <5>2, PathGoesOn
                <5>3. CASE l.copy # 0
                    BY <1>10, <3>1, <5>3
                <5> QED
                    BY <5>2, <5>3
            <4> QED
                BY <3>1, <4>1, FilledReads
        <3>3. CASE AtEnd(rest, h, s, pc)
            BY <2>2, <3>2, <3>3 DEF Standing, after
        <3>4. CASE ~AtEnd(rest, h, s, pc)
            <4>1. /\ pc # "next" /\ h.pos = Len(s) * Slots
                  /\ \E i \in 1 .. Len(links) :
                        links[i] = [copy |-> 0, cluster |-> s[Len(s)], next |-> h.cur]
                BY <3>1, <3>4 DEF AtEnd
            <4>2. PICK i \in 1 .. Len(links) :
                      links[i] = [copy |-> 0, cluster |-> s[Len(s)], next |-> h.cur]
                BY <4>1
            <4>3. i = 1
                <5> SUFFICES ASSUME i # 1 PROVE FALSE
                    OBVIOUS
                <5>1. PICK j \in 1 .. Len(rest) : j = i - 1 /\ rest[j] = links[i]
                    <6>1. i - 1 \in 1 .. Len(rest) /\ (i - 1) + 1 = i /\ i - 1 \in 1 .. n - 1
                        BY <1>1, <1>4
                    <6> QED
                        BY <1>4, <6>1
                <5>2. rest[j] = [copy |-> 0, cluster |-> s[Len(s)], next |-> h.cur]
                    BY <4>2, <5>1
                <5> QED
                    BY <3>4, <4>1, <5>2 DEF AtEnd
            <4>4. l.copy = 0 /\ c = s[Len(s)] /\ t = h.cur
                BY <1>5, <4>2, <4>3
            <4>5. t \in Clusters
                <5>1. h.cur \in Opt
                    BY DEF HandleRecords
                <5> QED
                    BY <4>4, <5>1, ConstantsAre DEF Opt
            <4>6. PICK r \in Seq(Clusters) :
                      /\ IsPath(after, r, h.first) /\ Filled(new, h.of, r, h.pos)
                      /\ r[Len(r)] = t /\ h.pos = (Len(r) - 1) * Slots /\ h.pos < Len(r) * Slots
                <5>1. PICK m \in Nat : m = h.pos
                    BY DEF HandleRecords
                <5>3. PICK f, a, d : f = h.of /\ a = h.first /\ d \in {t}
                    OBVIOUS
                <5>2. after[s[Len(s)]] = t
                    BY <1>9, <4>4
                <5>4. /\ IsPath(FatOn(new), s, a) /\ m = Len(s) * Slots /\ Filled(new, f, s, m)
                      /\ FatOn(new)[s[Len(s)]] = d /\ d \in Clusters
                      /\ m \in Nat /\ s \in Seq(Clusters)
                    BY <3>2, <4>1, <4>5, <5>1, <5>2, <5>3 DEF after
                <5>5. \E r \in Seq(Clusters) :
                          /\ IsPath(FatOn(new), r, a) /\ Filled(new, f, r, m)
                          /\ r[Len(r)] = d /\ m = (Len(r) - 1) * Slots /\ m < Len(r) * Slots
                    BY ONLY <5>4, FileLengthened, SMTT(60)
                <5> QED
                    BY <5>1, <5>3, <5>5 DEF after
            <4>7. (Len(r) - 1) * Slots <= h.pos
                <5>1. h.pos \in Nat
                    BY DEF HandleRecords
                <5>2. PICK m \in Nat : m = h.pos /\ m = (Len(r) - 1) * Slots
                    BY <4>6, <5>1
                <5> QED
                    BY <5>2
            <4>8. AtEnd(rest, h, r, pc)
                BY <4>1, <4>4, <4>6, <4>7 DEF AtEnd
            <4> QED
                BY <2>2, <4>6, <4>8 DEF Standing, after
        <3> QED
            BY <3>3, <3>4
    <2> QED
        BY <2>1, <2>2
<1> QED
    BY <1>3, <1>11, <1>13, <1>14, <1>15 DEF FileClaims

LEMMA SetLinkBacked ==
    ASSUME UpdatesInv, ChainsInv, BackInv, SetLink
    PROVE  BackInv'
<1>1. PICK l \in Link : l = Head(op.links)
    BY HeadTailProperties DEF UpdatesInv, SetLink, Ops
<1>2. PICK k \in Copies, c \in Clusters, n \in Clusters \cup {Eoc} :
          k = l.copy /\ c = l.cluster /\ n = l.next
    BY DEF Link, Copies
<1>3. PICK links \in Seq(Link) : links = op.links /\ links # <<>>
    BY DEF UpdatesInv, SetLink, Ops
<1>4. /\ op'.links = Tail(links) /\ op'.call = op.call /\ op'.name = op.name /\ op'.todo = op.todo
      /\ op'.pc = op.pc /\ op'.items = op.items /\ op'.cluster = op.cluster
      /\ UNCHANGED <<handle, lines>>
    BY <1>3 DEF SetLink, UpdatesInv, Ops, history
<1>5. first_lba = FirstLba
    <2>1. op.call # "none" /\ op.call # "OpenFatInit" /\ op \in Ops
        BY <1>3, IdleIs DEF UpdatesInv, InCall
    <2>2. op.todo # <<>> /\ Due \notin {"mbr", "volume"}
        BY <2>1, StagesAre, DueIs DEF UpdatesInv, Ops
    <2> QED
        BY <2>2, Busy
<1>6. PICK s \in Sectors : s = FatSector(k)
    BY CopiesAre
<1>7. PICK d : d = [Loaded(s) EXCEPT ![c] = n] /\ Change(s, d)
    BY <1>1, <1>2, <1>6 DEF SetLink
<1>8. WrittenImages(s, d)
    BY <1>4, <1>5, <1>7, ChangedImages DEF UpdatesInv
<1>9. Loaded(s) = Newest[FirstLba + s] /\ CardHolds(Newest)
    <2>1. Loaded(s) = Current(s)
        BY <1>3, <1>5, LoadedHolds DEF UpdatesInv
    <2> QED
        BY <1>5, <2>1, NewestIs DEF UpdatesInv, Current, Lba
<1>10. FatOn(Newest') = IF l.copy = 0 THEN [FatOn(Newest) EXCEPT ![l.cluster] = l.next]
                        ELSE FatOn(Newest)
    <2>1. FatSector(0) \in Sectors /\ (FatSector(0) = s <=> k = 0)
        BY <1>6, SectorsAre, ConstantsAre DEF FatSector, Copies
    <2>2. FatOn(Newest') = IF k = 0 THEN d ELSE FatOn(Newest)
        BY <1>8, <2>1 DEF WrittenImages, FatOn
    <2>3. k = 0 => d = [FatOn(Newest) EXCEPT ![c] = n]
        BY <1>7, <1>9, <2>1 DEF FatOn
    <2> QED
        BY <1>2, <2>2, <2>3
<1>11. /\ \A p \in Places : ItemAt(Newest', p) = ItemAt(Newest, p)
       /\ \A e \in Clusters : ItemsOf(Newest', e) = ItemsOf(Newest, e)
    <2>1. ASSUME NEW p \in Places PROVE ItemAt(Newest', p) = ItemAt(Newest, p)
        <3>1. p[1] \in Sectors /\ p[1] # s
            BY <1>6, PlacesAre, SectorsAre DEF Copies
        <3> QED
            BY <1>8, <3>1 DEF WrittenImages, ItemAt
    <2>2. ASSUME NEW e \in Clusters PROVE ItemsOf(Newest', e) = ItemsOf(Newest, e)
        <3>1. DataSector(e) \in Sectors /\ DataSector(e) # s
            BY <1>6, SectorsAre DEF Copies
        <3> QED
            BY <1>8, <3>1 DEF WrittenImages, ItemsOf
    <2> QED
        BY <2>1, <2>2
<1>12. Due' = Due /\ FilePc' = FilePc /\ Writes' = Writes
    <2>1. Due' = Due
        BY <1>4 DEF Due
    <2> QED
        BY <1>4, <2>1 DEF FilePc, Writes
<1>13. DirClusters(handle', op') = DirClusters(handle, op)
    BY <1>4 DEF DirClusters
<1>14. /\ Backed(Newest')
       /\ FileClaims(Newest', Tail(links), handle["file"], DirClusters(handle, op), Writes, FilePc)
    <2>1. PICK h, first, dirs, own, pc, img, new :
              /\ h = handle["file"] /\ first = Claimed /\ dirs = DirClusters(handle, op) /\ own = Writes
              /\ pc = FilePc /\ img = Newest /\ new = Newest'
        OBVIOUS
    <2>2. /\ h \in HandleRecords /\ dirs \in SUBSET Clusters /\ FatHolds(FatOn(img))
        BY <1>9, <2>1, ImageHolds DEF UpdatesInv, HandlesInv, Handles, DirClusters
    <2>3. Backed(img) /\ Claims(img, links, h, first) /\ FileClaims(img, links, h, dirs, own, pc)
        BY <1>3, <2>1 DEF ChainsInv, BackInv
    <2>4. l = links[1]
        BY <1>1, <1>3
    <2>5. Backed(new) /\ FileClaims(new, Tail(links), h, dirs, own, pc)
        BY <1>3, <1>10, <1>11, <2>1, <2>2, <2>3, <2>4, LinkClaims
    <2> QED
        BY <2>1, <2>5
<1>15. Counted'
    <2>1. Counted
        BY DEF BackInv
    <2>2. /\ Due' = Due /\ (Writes' <=> Writes)
        BY <1>12
    <2> QED
        BY <1>4, <2>1, <2>2 DEF Counted
<1> QED
    BY <1>4, <1>8, <1>12, <1>13, <1>14, <1>15, WrittenIsBacked, BackAfter

\* All entries that are set in the copies of the FAT are the same.
LEMMA SameLinks ==
    ASSUME NEW c, NEW t
    PROVE  /\ Len(SetInCopies(c, t)) = num_fats /\ num_fats \in Nat \ {0}
           /\ \A i \in 1 .. num_fats :
                 SetInCopies(c, t)[i] = [copy |-> i - 1, cluster |-> c, next |-> t]
BY ConstantsAre DEF SetInCopies

LEMMA EndLinks ==
    ASSUME NEW c
    PROVE  \A i \in 1 .. Len(SetInCopies(c, Eoc)) : SetInCopies(c, Eoc)[i].next = Eoc
<1>1. PICK links, t : links = SetInCopies(c, t) /\ t = Eoc
    OBVIOUS
<1>2. \A i \in 1 .. Len(links) : links[i] = [copy |-> i - 1, cluster |-> c, next |-> t]
    BY <1>1, SameLinks
<1>3. ASSUME NEW i \in 1 .. Len(links) PROVE links[i].next = t
    <2>1. PICK k, r : r = links[i] /\ r = [copy |-> k, cluster |-> c, next |-> t]
        BY <1>2
    <2>2. r.next = t
        BY ONLY <2>1
    <2> QED
        BY <2>1, <2>2
<1> QED
    BY <1>1, <1>3

\* A free cluster becomes the first one of the log file.
LEMMA FirstClaims ==
    ASSUME NEW img, CardHolds(img), Rooted(img), NEW c \in Clusters, FatOn(img)[c] = 0,
           NEW h, h.first = 0, NEW k, k.first = c, k.cur = c, k.pos = 0, NEW dirs, NEW own, NEW pc,
           FileClaims(img, <<>>, h, dirs, own, pc)
    PROVE  FileClaims(img, SetInCopies(c, Eoc), k, dirs, own, "item")
<1>1. c # Root /\ Untargeted(FatOn(img), c) /\ NoEntryAt(img, c)
    BY FreeIsFree
<1>2. c # 0 /\ 0 \notin Clusters
    BY ConstantsAre
<1>3. \A i \in 1 .. Len(SetInCopies(c, Eoc)) : SetInCopies(c, Eoc)[i].next = Eoc
    BY EndLinks
<1>4. ASSUME NEW x \in dirs PROVE FatOn(img)[x] # 0 /\ Off(img, c, x)
    <2>1. FatOn(img)[x] # 0 /\ Off(img, 0, x)
        BY DEF FileClaims, Aside, Coming
    <2>2. ASSUME NEW a \in Clusters, NEW s \in Seq(Clusters), FileHead(img, c, a),
                 IsPath(FatOn(img), s, a), NEW i \in 1 .. Len(s)
          PROVE  s[i] # x
        <3>1. CASE a = c
            <4>1. PICK n \in Nat : n = Len(s)
                OBVIOUS
            <4>2. s[1] = c
                BY <2>2, <3>1 DEF IsPath
            <4>3. i = 1
                <5> SUFFICES ASSUME i # 1 PROVE FALSE
                    OBVIOUS
                <5>1. 1 \in 1 .. n - 1 /\ 2 \in 1 .. n
                    BY <4>1
                <5>2. FatOn(img)[s[1]] = s[2] /\ s[2] \in Clusters
                    BY <2>2, <4>1, <5>1 DEF IsPath
                <5> QED
                    BY <1>2, <4>2, <5>2
            <4> QED
                BY <2>1, <4>2, <4>3
        <3>2. CASE a # c
            BY <2>1, <2>2, <3>2 DEF Off, FileHead
        <3> QED
            BY <3>1, <3>2
    <2> QED
        BY <2>1, <2>2 DEF Off
<1>5. Aside(img, SetInCopies(c, Eoc), k.first, dirs, own)
    BY <1>3, <1>4 DEF Aside
<1>6. OwnEntry(img, k)
    BY <1>1 DEF OwnEntry, NoEntryAt
<1>7. Standing(img, SetInCopies(c, Eoc), k, "item")
    <2>1. PICK s \in Seq(Clusters) : s = <<c>>
        <3>1. <<c>> \in Seq(Clusters)
            OBVIOUS
        <3> QED
            BY <3>1
    <2>2. Len(s) = 1 /\ s[1] = c /\ s # <<>>
        BY <2>1
    <2>3. IsPath(FatOn(img), s, c)
        BY <2>2 DEF IsPath
    <2>4. Filled(img, k.of, s, 0)
        <3>1. ASSUME NEW i \in 1 .. 1, NEW j \in 1 .. Slots PROVE ~(Index(i, j) <= 0)
            <4>1. i = 1
                OBVIOUS
            <4> QED
                BY <4>1, ConstantsAre DEF Index
        <3> QED
            BY <2>2, <3>1, ConstantsAre DEF Filled
    <2>5. (Len(s) - 1) * Slots <= 0 /\ 0 < Len(s) * Slots
        BY <2>2, ConstantsAre
    <2>6. AtEnd(SetInCopies(c, Eoc), k, s, "item")
        BY <2>2, <2>5 DEF AtEnd
    <2> QED
        BY <1>2, <2>3, <2>4, <2>6 DEF Standing
<1> QED
    BY <1>5, <1>6, <1>7 DEF FileClaims

LEMMA FirstClusterBacked ==
    ASSUME TwoCopies, UpdatesInv, ChainsInv, BackInv, FirstCluster
    PROVE  BackInv'
<1>1. /\ At(Writing, "first") /\ Get(FatSector(0)) /\ FreeCluster # 0
      /\ handle' = [handle EXCEPT ![op.h].first = FreeCluster, ![op.h].cur = FreeCluster]
      /\ op' = [op EXCEPT !.links = SetInCopies(FreeCluster, Eoc), !.pc = "item"]
      /\ UNCHANGED lines
    BY DEF FirstCluster, history
<1>2. /\ op.links = <<>> /\ op.todo # <<>> /\ Due \in Writing /\ op.pc = "first"
      /\ Due \notin {"mbr", "volume"} /\ op \in Ops /\ first_lba = FirstLba
      /\ op.h \in Handles /\ H \in HandleRecords /\ (op.call = "fat_write" <=> Due = "lines")
      /\ (op.h = "file" <=> op.call = "fat_write")
    BY <1>1, WritingAt
<1>3. FatHolds(Fat) /\ Fat = FatOn(Newest) /\ CardHolds(Newest)
    BY <1>1, <1>2, FatRead, ReadsNewest
<1>4. PICK c \in Clusters : c = FreeCluster /\ FatOn(Newest)[c] = 0
    BY <1>1, <1>3, FreeClusterFree
<1>5. KeptImages
    BY <1>1, <1>2, GetImages DEF UpdatesInv
<1>6. /\ op'.call = op.call /\ op'.name = op.name /\ op'.todo = op.todo /\ op'.pc = "item"
      /\ op'.items = op.items /\ op'.cluster = op.cluster /\ op'.links = SetInCopies(c, Eoc)
    BY <1>1, <1>2, <1>4 DEF Ops
<1>7. Counted /\ Due = "lines" /\ op.h = "file" /\ H = handle["file"]
    BY <1>2 DEF BackInv, Counted, Writing, H
<1>8. handle["file"].first = 0 /\ handle["file"].cur = 0 /\ handle["file"].pos = 0
    BY <1>2, <1>7 DEF Counted, BackInv, FileClaims, Standing
<1>9. /\ \A k \in Handles : k # "file" => handle'[k] = handle[k]
      /\ handle'["file"].first = c /\ handle'["file"].cur = c
      /\ handle'["file"].at = handle["file"].at /\ handle'["file"].of = handle["file"].of
      /\ handle'["file"].pos = handle["file"].pos
    <2>1. PICK r : r = [H EXCEPT !.first = c, !.cur = c]
        OBVIOUS
    <2>2. handle' = [handle EXCEPT !["file"] = r]
        BY <1>1, <1>2, <1>4, <1>7, <2>1 DEF H, UpdatesInv, HandlesInv
    <2>3. r.first = c /\ r.cur = c /\ r.at = H.at /\ r.of = H.of /\ r.pos = H.pos
        BY <1>2, <2>1 DEF HandleRecords
    <2> QED
        BY <1>7, <2>2, <2>3 DEF UpdatesInv, HandlesInv, Handles
<1>10. Due' = Due /\ FilePc' = "item" /\ Writes' = Writes
    <2>1. Due' = Due
        BY <1>6 DEF Due
    <2> QED
        BY <1>6, <1>7, <2>1 DEF FilePc, Writes
<1>11. DirClusters(handle', op') = DirClusters(handle, op)
    BY <1>6, <1>9 DEF DirClusters, Handles
<1>12. Counted'
    <2>1. Counted
        BY <1>7
    <2>2. Due' = Due /\ (Writes' <=> Writes)
        BY <1>10
    <2> QED
        BY <1>1, <1>6, <1>9, <2>1, <2>2 DEF Counted
<1>13. FileClaims(Newest, SetInCopies(c, Eoc), handle'["file"], DirClusters(handle, op), Writes, "item")
    <2>1. PICK img, h, k, dirs, own, pc :
              /\ img = Newest /\ h = handle["file"] /\ k = handle'["file"]
              /\ dirs = DirClusters(handle, op) /\ own = Writes /\ pc = FilePc
        OBVIOUS
    <2>2. CardHolds(img) /\ Rooted(img) /\ FatOn(img)[c] = 0
        BY <1>3, <1>4, <2>1 DEF ChainsInv
    <2>3. FileClaims(img, <<>>, h, dirs, own, pc)
        BY <1>2, <2>1 DEF BackInv
    <2>4. h.first = 0 /\ k.first = c /\ k.cur = c /\ k.pos = 0
        BY <1>8, <1>9, <2>1
    <2>5. FileClaims(img, SetInCopies(c, Eoc), k, dirs, own, "item")
        BY <2>2, <2>3, <2>4, FirstClaims
    <2> QED
        BY <2>1, <2>5
<1>14. FileClaims(Newest', SetInCopies(c, Eoc), handle'["file"], DirClusters(handle, op), Writes, "item")
    BY <1>5, <1>13, KeptIsBacked
<1> QED
    BY <1>5, <1>6, <1>10, <1>11, <1>12, <1>14, KeptIsBacked, BackAfter

\* A cluster is taken for a directory, the log file being left alone.
LEMMA TakenClaims ==
    ASSUME NEW img, NEW h, NEW dirs, NEW own, NEW pc, FileClaims(img, <<>>, h, dirs, own, pc),
           NEW links, NEW new, NEW now,
           \A c \in new : (FatOn(img)[c] # 0 \/ Coming(links, c)) /\ Off(img, h.first, c),
           \A i \in 1 .. Len(links) : links[i].copy = 0 /\ links[i].next # Eoc =>
              /\ FatOn(img)[links[i].next] \notin Clusters
              /\ IF now THEN links[i].next \notin new ELSE Off(img, h.first, links[i].cluster)
    PROVE  FileClaims(img, links, h, new, now, pc)
<1>1. Aside(img, links, h.first, new, now)
    BY DEF Aside
<1>2. \A s : AtEnd(<<>>, h, s, pc) => AtEnd(links, h, s, pc)
    <2>1. \A i \in 1 .. Len(<<>>) : FALSE
        OBVIOUS
    <2> QED
        BY <2>1 DEF AtEnd
<1>3. Standing(img, links, h, pc)
    BY <1>2 DEF FileClaims, Standing
<1> QED
    BY <1>1, <1>3 DEF FileClaims

LEMMA DirectoryClusterBacked ==
    ASSUME TwoCopies, UpdatesInv, ChainsInv, BackInv, DirectoryCluster
    PROVE  BackInv'
<1>1. /\ At({"cluster"}, "start") /\ Get(FatSector(0)) /\ FreeCluster # 0
      /\ op' = [NextStage(op) EXCEPT !.first = FreeCluster, !.links = SetInCopies(FreeCluster, Eoc)]
      /\ UNCHANGED <<handle, lines>>
    BY DEF DirectoryCluster, history
<1>2. /\ op.links = <<>> /\ op.todo # <<>> /\ Due = "cluster" /\ Due \notin {"mbr", "volume"}
      /\ op \in Ops /\ InCall
    BY <1>1, AtIs DEF UpdatesInv
<1>3. first_lba = FirstLba /\ op.call = "CreateDir"
    BY <1>2, Busy, DueIs
<1>4. PICK c : c = FreeCluster
    OBVIOUS
<1>5. KeptImages
    BY <1>1, <1>3, GetImages DEF UpdatesInv
<1>6. PICK n : n = NextStage(op)
    OBVIOUS
<1>7. /\ n.call = op.call /\ n.pc = "start" /\ n.cluster = 0 /\ n.name = op.name
      /\ n \in Ops /\ n.todo # <<>> /\ Head(n.todo) = "short"
    BY <1>2, <1>6, NextStageIs
<1>8. op' = [n EXCEPT !.first = c, !.links = SetInCopies(c, Eoc)]
    BY <1>1, <1>4, <1>6
<1>9. /\ op'.call = op.call /\ op'.pc = "start" /\ op'.todo = n.todo /\ op'.cluster = 0
      /\ op'.links = SetInCopies(c, Eoc) /\ op'.name = op.name
    BY <1>7, <1>8 DEF Ops
<1>10. Due' = "short"
    BY <1>7, <1>9 DEF Due
<1>11. Counted' /\ FilePc' = "start" /\ FilePc = "start" /\ ~Writes /\ ~Writes'
    <2>1. Counted
        BY DEF BackInv
    <2>2. ~Writes /\ ~Writes'
        BY <1>3, <1>9 DEF Writes
    <2> QED
        BY <1>1, <1>2, <1>9, <1>10, <2>1, <2>2 DEF Counted, FilePc
<1>12. PICK img, h, dirs, new, own, now :
           /\ img = Newest /\ h = handle["file"] /\ dirs = DirClusters(handle, op)
           /\ new = DirClusters(handle', op') /\ own = Writes /\ now = Writes'
    OBVIOUS
<1>13. FileClaims(img, <<>>, h, dirs, own, "start") /\ new \subseteq dirs
    <2>1. new \subseteq dirs
        BY <1>1, <1>9, <1>12, ConstantsAre DEF DirClusters
    <2> QED
        BY <1>2, <1>11, <1>12, <2>1 DEF BackInv
<1>14. FileClaims(img, SetInCopies(c, Eoc), h, new, now, "start")
    <2>1. \A x \in new : FatOn(img)[x] # 0 /\ Off(img, h.first, x)
        BY <1>13 DEF FileClaims, Aside, Coming
    <2> QED
        BY <1>13, <2>1, EndLinks, TakenClaims
<1>15. FileClaims(Newest', SetInCopies(c, Eoc), h, new, now, "start")
    BY <1>5, <1>12, <1>14, KeptIsBacked
<1> QED
    BY <1>1, <1>5, <1>9, <1>11, <1>12, <1>15, KeptIsBacked, BackAfter

\* A cluster c is to follow d, and gets its end of chain first.
Follows(links, c, d) ==
    /\ Coming(links, c)
    /\ \A i \in 1 .. Len(links) : links[i].copy = 0 /\ links[i].next # Eoc =>
          links[i].next = c /\ links[i].cluster = d
    /\ \E i \in 1 .. Len(links) : links[i] = [copy |-> 0, cluster |-> d, next |-> c]

LEMMA NextLinks ==
    ASSUME NEW c \in Clusters, NEW d \in Clusters, NEW links,
           links = SetInCopies(c, Eoc) \o SetInCopies(d, c)
    PROVE  Follows(links, c, d)
<1> DEFINE a == SetInCopies(c, Eoc)
<1> DEFINE b == SetInCopies(d, c)
<1>1. PICK n \in Nat \ {0} : n = num_fats
    BY ConstantsAre
<1>2. /\ a \in Seq(Link) /\ Len(a) = n /\ b \in Seq(Link) /\ Len(b) = n
      /\ \A i \in 1 .. n : a[i] = [copy |-> i - 1, cluster |-> c, next |-> Eoc]
      /\ \A i \in 1 .. n : b[i] = [copy |-> i - 1, cluster |-> d, next |-> c]
    <2>1. a \in Seq(Link) /\ Len(a) = n /\ b \in Seq(Link) /\ Len(b) = n
        BY <1>1, SetInCopiesIs
    <2>2. /\ \A i \in 1 .. n : a[i] = [copy |-> i - 1, cluster |-> c, next |-> Eoc]
          /\ \A i \in 1 .. n : b[i] = [copy |-> i - 1, cluster |-> d, next |-> c]
        BY <1>1 DEF SetInCopies
    <2> HIDE DEF a, b
    <2> QED
        BY <2>1, <2>2
<1> HIDE DEF a, b
<1>3. links = a \o b
    BY DEF a, b
<1>4. /\ links \in Seq(Link) /\ Len(links) = n + n
      /\ \A i \in 1 .. n : links[i] = a[i] /\ links[n + i] = b[i]
    <2>1. links \in Seq(Link) /\ Len(links) = n + n
        <3>1. a \in Seq(Link) /\ b \in Seq(Link)
            BY <1>2
        <3>2. a \o b \in Seq(Link) /\ Len(a \o b) = Len(a) + Len(b)
            BY <3>1, ConcatProperties
        <3> QED
            BY <1>2, <1>3, <3>2
    <2>2. \A i \in 1 .. n : links[i] = a[i]
        BY <1>2, <1>3
    <2>3. \A i \in 1 .. n : links[n + i] = b[i]
        BY <1>2, <1>3
    <2> QED
        BY <2>1, <2>2, <2>3
<1>5. Coming(links, c)
    <2>1. links # <<>> /\ Head(links) = links[1]
        BY <1>4, EmptySeq
    <2>2. 1 \in 1 .. n
        BY <1>1
    <2>3. PICK k : k = 1 - 1 /\ a[1] = [copy |-> k, cluster |-> c, next |-> Eoc]
        BY <1>2, <2>2
    <2>4. k = 0
        BY <2>3
    <2>5. links[1] = a[1]
        BY <1>4, <2>2
    <2> QED
        BY <2>1, <2>3, <2>4, <2>5 DEF Coming
<1>6. ASSUME NEW i \in 1 .. n + n
      PROVE  links[i].next = Eoc \/ (links[i].next = c /\ links[i].cluster = d)
    <2>1. CASE i <= n
        <3>1. i \in 1 .. n
            BY <2>1
        <3>2. links[i] = [copy |-> i - 1, cluster |-> c, next |-> Eoc]
            BY <1>2, <1>4, <3>1
        <3> QED
            BY <3>2
    <2>2. CASE ~(i <= n)
        <3>1. i - n \in 1 .. n /\ n + (i - n) = i
            BY <2>2
        <3>2. links[i] = [copy |-> (i - n) - 1, cluster |-> d, next |-> c]
            BY <1>2, <1>4, <3>1
        <3> QED
            BY <3>2
    <2> QED
        BY <2>1, <2>2
<1>7. n + 1 \in 1 .. n + n /\ links[n + 1] = [copy |-> 0, cluster |-> d, next |-> c]
    <2>1. 1 \in 1 .. n
        BY <1>1
    <2>2. PICK k : k = 1 - 1 /\ b[1] = [copy |-> k, cluster |-> d, next |-> c]
        BY <1>2, <2>1
    <2>3. k = 0
        BY <2>2
    <2>4. links[n + 1] = b[1] /\ n + 1 \in 1 .. n + n
        BY <1>4, <2>1
    <2> QED
        BY <2>2, <2>3, <2>4
<1> QED
    BY <1>4, <1>5, <1>6, <1>7 DEF Follows

\* The log file goes on in its next cluster, or in a free one.
LEMMA NextClaims ==
    ASSUME NEW img, NEW h \in HandleRecords, h.first # 0, NEW k,
           k.first = h.first, k.of = h.of, k.pos = h.pos, NEW t \in Clusters, k.cur = t,
           NEW dirs, FileClaims(img, <<>>, h, dirs, TRUE, "next"), NEW pc, pc # "next"
    PROVE  /\ h.cur \in Clusters
           /\ FatOn(img)[h.cur] = t /\ pc \notin {"flush0", "clear"} =>
                 FileClaims(img, <<>>, k, dirs, TRUE, pc)
           /\ FatOn(img)[t] = 0 =>
                 FileClaims(img, SetInCopies(t, Eoc) \o SetInCopies(h.cur, t), k, dirs, TRUE, pc)
<1>1. /\ Aside(img, <<>>, h.first, dirs, TRUE) /\ OwnEntry(img, h) /\ Standing(img, <<>>, h, "next")
    BY DEF FileClaims
<1>2. PICK s \in Seq(Clusters) :
          /\ IsPath(FatOn(img), s, h.first) /\ Filled(img, h.of, s, h.pos)
          /\ Len(s) \in Nat \ {0} /\ h.cur = s[Len(s)] /\ h.cur \in Clusters
          /\ h.pos = Len(s) * Slots
    BY <1>1, StandsAt
<1>3. OwnEntry(img, k)
    BY <1>1 DEF OwnEntry
<1>4. \A c \in dirs : FatOn(img)[c] # 0 /\ Off(img, h.first, c)
    BY <1>1 DEF Aside, Coming
<1>5. ASSUME FatOn(img)[h.cur] = t, pc \notin {"flush0", "clear"}
      PROVE  FileClaims(img, <<>>, k, dirs, TRUE, pc)
    <2>1. PICK m \in Nat, f \in {h.of}, a \in {h.first} : m = h.pos /\ f = h.of /\ a = h.first
        BY DEF HandleRecords
    <2>2. /\ IsPath(FatOn(img), s, a) /\ m = Len(s) * Slots /\ Filled(img, f, s, m)
          /\ FatOn(img)[s[Len(s)]] = t /\ t \in Clusters
          /\ m \in Nat /\ s \in Seq(Clusters)
        BY <1>2, <1>5, <2>1
    <2>3. \E r \in Seq(Clusters) :
              /\ IsPath(FatOn(img), r, a) /\ Filled(img, f, r, m)
              /\ r[Len(r)] = t /\ m = (Len(r) - 1) * Slots /\ m < Len(r) * Slots
        BY ONLY <2>2, FileLengthened, SMTT(60)
    <2>4. PICK r \in Seq(Clusters) :
              /\ IsPath(FatOn(img), r, a) /\ Filled(img, f, r, m)
              /\ r[Len(r)] = t /\ m = (Len(r) - 1) * Slots /\ m < Len(r) * Slots
        BY <2>3
    <2>5. (Len(r) - 1) * Slots <= m
        BY <2>4
    <2>6. AtEnd(<<>>, k, r, pc)
        BY <1>5, <2>1, <2>4, <2>5 DEF AtEnd
    <2>7. Standing(img, <<>>, k, pc)
        BY <2>1, <2>4, <2>6 DEF Standing
    <2> QED
        BY <1>1, <1>3, <2>7 DEF FileClaims
<1>6. ASSUME FatOn(img)[t] = 0
      PROVE  FileClaims(img, SetInCopies(t, Eoc) \o SetInCopies(h.cur, t), k, dirs, TRUE, pc)
    <2>0. PICK d \in Clusters : d = h.cur
        BY <1>2
    <2>1. PICK links : links = SetInCopies(t, Eoc) \o SetInCopies(d, t)
        OBVIOUS
    <2>2. /\ \A i \in 1 .. Len(links) : links[i].copy = 0 /\ links[i].next # Eoc => links[i].next = t
          /\ \E i \in 1 .. Len(links) : links[i] = [copy |-> 0, cluster |-> d, next |-> t]
        <3>1. Follows(links, t, d)
            BY <2>1, NextLinks
        <3> QED
            BY <3>1 DEF Follows
    <2>3. Aside(img, links, k.first, dirs, TRUE)
        <3>1. FatOn(img)[t] \notin Clusters /\ t \notin dirs
            BY <1>4, <1>6, ConstantsAre
        <3> QED
            BY <1>4, <2>2, <3>1 DEF Aside
    <2>4. AtEnd(links, k, s, pc)
        BY <1>2, <2>0, <2>1, <2>2 DEF AtEnd
    <2>5. Standing(img, links, k, pc)
        BY <1>2, <2>4 DEF Standing
    <2> QED
        BY <1>3, <2>0, <2>1, <2>3, <2>5 DEF FileClaims
<1> QED
    BY <1>2, <1>5, <1>6

LEMMA NextClusterBacked ==
    ASSUME TwoCopies, UpdatesInv, ChainsInv, BackInv, NextCluster
    PROVE  BackInv'
<1> DEFINE linked == Fat[H.cur] # Eoc
<1> DEFINE next == IF linked THEN Fat[H.cur] ELSE FreeCluster
<1> DEFINE links == IF linked THEN <<>> ELSE SetInCopies(next, Eoc) \o SetInCopies(H.cur, next)
<1>1. /\ At(Writing, "next") /\ Get(FatSector(0)) /\ next # 0
      /\ handle' = [handle EXCEPT ![op.h].cur = next]
      /\ op' = [op EXCEPT !.links = links,
                          !.pc = IF ~linked /\ H.size = 0 THEN "flush0" ELSE AfterNext]
      /\ UNCHANGED lines
    BY DEF NextCluster, history
<1>2. /\ op.links = <<>> /\ op.todo # <<>> /\ Due \in Writing /\ op.pc = "next"
      /\ Due \notin {"mbr", "volume"} /\ op \in Ops /\ first_lba = FirstLba
      /\ op.h \in Handles /\ H \in HandleRecords /\ (op.call = "fat_write" <=> Due = "lines")
      /\ (op.h = "file" <=> op.call = "fat_write")
    BY <1>1, WritingAt
<1>3. FatHolds(Fat) /\ Fat = FatOn(Newest) /\ CardHolds(Newest)
    BY <1>1, <1>2, FatRead, ReadsNewest
<1>4. KeptImages
    BY <1>1, <1>2, GetImages DEF UpdatesInv
<1>5. PICK d \in Clusters : d = H.cur
    BY <1>2 DEF UpdatesInv, AtPlace, HandleRecords, Opt
<1>6. PICK t \in Clusters : t = next /\ (~linked => FatOn(Newest)[t] = 0)
    <2>1. CASE linked
        <3>1. Fat[d] \in Links
            BY <1>3 DEF FatHolds
        <3> QED
            BY <1>1, <1>5, <2>1, <3>1 DEF Links
    <2>2. CASE ~linked
        BY <1>1, <1>3, <2>2, FreeClusterFree
    <2> QED
        BY <2>1, <2>2
<1>7. /\ linked => links = <<>> /\ FatOn(Newest)[d] = t
      /\ ~linked => links = SetInCopies(t, Eoc) \o SetInCopies(d, t) /\ FatOn(Newest)[t] = 0
    BY <1>3, <1>5, <1>6
<1>8. /\ op'.call = op.call /\ op'.name = op.name /\ op'.todo = op.todo
      /\ op'.items = op.items /\ op'.cluster = op.cluster /\ op'.links = links
      /\ op'.pc = IF ~linked /\ H.size = 0 THEN "flush0" ELSE AfterNext
    <2> HIDE DEF next, linked, links
    <2> QED
        BY <1>1, <1>2 DEF Ops
<1> HIDE DEF next, linked, links
<1>9. /\ op'.pc \in {"flush0", "size", "item"} /\ (op'.pc = "size" => op.items = <<>>)
      /\ linked => op'.pc # "flush0"
    BY <1>8 DEF AfterNext
<1>10. /\ \A k \in Handles : k # op.h => handle'[k] = handle[k]
       /\ handle'[op.h].cur = t /\ handle'[op.h].first = H.first /\ handle'[op.h].at = H.at
       /\ handle'[op.h].of = H.of /\ handle'[op.h].pos = H.pos
    <2>1. PICK r : r = [H EXCEPT !.cur = t]
        OBVIOUS
    <2>2. handle' = [handle EXCEPT ![op.h] = r]
        BY <1>1, <1>2, <1>6, <2>1 DEF H, UpdatesInv, HandlesInv
    <2>3. r.cur = t /\ r.first = H.first /\ r.at = H.at /\ r.of = H.of /\ r.pos = H.pos
        BY <1>2, <2>1 DEF HandleRecords
    <2> QED
        BY <1>2, <2>2, <2>3 DEF UpdatesInv, HandlesInv
<1>11. Due' = Due /\ (Writes' <=> Writes)
    BY <1>8 DEF Due, Writes
<1>12. Counted'
    <2>1. Counted
        BY DEF BackInv
    <2>2. handle'["file"].of = handle["file"].of /\ handle'["file"].pos = handle["file"].pos
        BY <1>2, <1>10 DEF Handles, H
    <2> QED
        BY <1>1, <1>8, <1>9, <1>11, <2>1, <2>2 DEF Counted
<1>13. PICK img, h, k, dirs, new, pc :
           /\ img = Newest /\ h = handle["file"] /\ k = handle'["file"] /\ pc = FilePc'
           /\ dirs = DirClusters(handle, op) /\ new = DirClusters(handle', op')
    OBVIOUS
<1>14. FileClaims(img, <<>>, h, dirs, Writes, FilePc)
    BY <1>2, <1>13 DEF BackInv
<1>15. CASE Due = "lines"
    <2>1. op.h = "file" /\ H = h /\ h \in HandleRecords
        BY <1>2, <1>13, <1>15 DEF H
    <2>2. FilePc = "next" /\ Writes /\ Writes' /\ pc = op'.pc
        BY <1>2, <1>8, <1>11, <1>13, <1>15 DEF FilePc, Writes
    <2>3. h.first # 0
        BY <1>5, <1>14, <2>1, ConstantsAre DEF FileClaims, Standing
    <2>4. new = dirs
        BY <1>2, <1>8, <1>10, <1>13, <2>1 DEF DirClusters, Handles
    <2>5. FileClaims(img, <<>>, h, dirs, TRUE, "next")
        BY <1>14, <2>2
    <2>6. k.first = h.first /\ k.of = h.of /\ k.pos = h.pos /\ k.cur = t
        BY <1>10, <1>13, <2>1
    <2>7. pc # "next" /\ (linked => pc \notin {"flush0", "clear"})
        BY <1>9, <2>2
    <2>8. /\ FatOn(img)[d] = t /\ pc \notin {"flush0", "clear"} =>
                 FileClaims(img, <<>>, k, dirs, TRUE, pc)
          /\ FatOn(img)[t] = 0 =>
                 FileClaims(img, SetInCopies(t, Eoc) \o SetInCopies(d, t), k, dirs, TRUE, pc)
        BY <1>5, <2>1, <2>3, <2>5, <2>6, <2>7, NextClaims
    <2>9. FileClaims(img, links, k, new, TRUE, pc)
        BY <1>7, <1>13, <2>4, <2>7, <2>8
    <2>10. FileClaims(Newest', op'.links, handle'["file"], new, TRUE, pc)
        BY <1>4, <1>8, <1>13, <2>9, KeptIsBacked
    <2> QED
        BY <1>4, <1>12, <1>13, <2>2, <2>10, KeptIsBacked, BackAfter
<1>16. CASE Due # "lines"
    <2>1. op.h \in {"cwd", "dir"} /\ k = h /\ ~Writes /\ ~Writes'
        BY <1>2, <1>10, <1>11, <1>13, <1>16 DEF Handles, Writes
    <2>2. FilePc = "start" /\ pc = "start"
        BY <1>11, <1>13, <1>16 DEF FilePc
    <2>3. d \in dirs
        BY <1>5, <1>13, <2>1 DEF DirClusters, H
    <2>4. \A c \in dirs : FatOn(img)[c] # 0 /\ Off(img, h.first, c)
        BY <1>14 DEF FileClaims, Aside, Coming
    <2>5. ASSUME NEW c \in new PROVE c \in dirs \cup {t}
        <3>1. \A j \in {"cwd", "dir"} :
                  handle'[j].first = handle[j].first /\ handle'[j].cur \in {handle[j].cur, t}
            BY <1>10, <2>1 DEF Handles, H
        <3> QED
            BY <1>8, <1>13, <2>1, <2>5, <3>1 DEF DirClusters
    <2>6. Rooted(img) /\ HeadsApart(img, h.first) /\ Forest(FatOn(img))
        BY <1>13, FileHeads DEF ChainsInv
    <2>7. CASE linked
        <3>1. Off(img, h.first, t) /\ FatOn(img)[t] # 0
            <4>1. PICK first : first = h.first
                OBVIOUS
            <4>2. FatOn(img)[d] = t /\ Off(img, first, d) /\ HeadsApart(img, first)
                BY <1>7, <1>13, <2>3, <2>4, <2>6, <2>7, <4>1
            <4> QED
                BY <2>6, <4>1, <4>2, FollowsOff
        <3>2. \A c \in new : FatOn(img)[c] # 0 /\ Off(img, h.first, c)
            BY <2>4, <2>5, <3>1
        <3>3. \A i \in 1 .. Len(<<>>) : FALSE
            OBVIOUS
        <3>4. FileClaims(img, <<>>, h, new, FALSE, "start")
            BY <1>14, <2>2, <3>2, <3>3, TakenClaims
        <3>5. FileClaims(Newest', op'.links, handle'["file"], new, FALSE, pc)
            BY <1>4, <1>7, <1>8, <1>13, <2>1, <2>2, <2>7, <3>4, KeptIsBacked
        <3>11. Writes' = FALSE
            BY <2>1 DEF Writes
        <3>12. FileClaims(Newest', op'.links, handle'["file"], DirClusters(handle', op'), Writes', FilePc')
            BY <1>13, <3>11, <3>5
        <3> QED
            BY <1>4, <1>12, <3>12, KeptIsBacked, BackAfter
    <2>8. CASE ~linked
        <3>1. FatOn(img)[t] = 0 /\ CardHolds(img) /\ links = SetInCopies(t, Eoc) \o SetInCopies(d, t)
            BY <1>3, <1>7, <1>13, <2>8
        <3>2. Untargeted(FatOn(img), t) /\ NoEntryAt(img, t)
            BY <2>6, <3>1, FreeIsFree
        <3>3. h.first # 0 => FatOn(img)[h.first] # 0
            BY <1>2, <1>13 DEF ChainsInv, Claims, Loose, Coming
        <3>4. ~FileHead(img, h.first, t)
            BY <3>1, <3>2, <3>3, ConstantsAre DEF FileHead, NoEntryAt
        <3>5. Off(img, h.first, t)
            BY <3>2, <3>4, UntargetedOff
        <3>6. Follows(links, t, d)
            BY <3>1, NextLinks
        <3>7. \A c \in new : (FatOn(img)[c] # 0 \/ Coming(links, c)) /\ Off(img, h.first, c)
            BY <2>4, <2>5, <3>5, <3>6 DEF Follows
        <3>8. \A i \in 1 .. Len(links) : links[i].copy = 0 /\ links[i].next # Eoc =>
                 FatOn(img)[links[i].next] \notin Clusters /\ Off(img, h.first, links[i].cluster)
            BY <2>3, <2>4, <3>1, <3>6, ConstantsAre DEF Follows
        <3>9. FileClaims(img, links, h, new, FALSE, "start")
            BY <1>14, <2>2, <3>7, <3>8, TakenClaims
        <3>10. FileClaims(Newest', op'.links, handle'["file"], new, FALSE, pc)
            BY <1>4, <1>8, <1>13, <2>1, <2>2, <3>9, KeptIsBacked
        <3>11. Writes' = FALSE
            BY <2>1 DEF Writes
        <3>12. FileClaims(Newest', op'.links, handle'["file"], DirClusters(handle', op'), Writes', FilePc')
            BY <1>13, <3>11, <3>10
        <3> QED
            BY <1>4, <1>12, <3>12, KeptIsBacked, BackAfter
    <2> QED
        BY <2>7, <2>8
<1> QED
    BY <1>15, <1>16

\* A sector of the log file is written, the last one s has, behind its position.
Onward(img, new, h, s, m, c) ==
    /\ CardHolds(img) /\ Counts /\ Forest(FatOn(img)) /\ Backed(img)
    /\ h \in HandleRecords /\ HeadsApart(img, h.first) /\ OwnEntry(img, h) /\ h.first # 0
    /\ s \in Seq(Clusters) /\ IsPath(FatOn(img), s, h.first) /\ Filled(img, h.of, s, h.pos)
    /\ m \in Nat \ {0} /\ m = Len(s) /\ c \in Clusters /\ c = s[m] /\ FatOn(new) = FatOn(img)
    /\ \A e \in Clusters : e # c => ItemsOf(new, e) = ItemsOf(img, e)
    /\ \A j \in 1 .. Slots : Index(m, j) <= h.pos => ItemsOf(new, c)[j] = ItemsOf(img, c)[j]
    /\ \A p \in Places : ItemAt(new, p) = ItemAt(img, p) \/ ItemAt(new, p)[1] # "short"

LEMMA FileWritten ==
    ASSUME NEW img, NEW new, NEW h, NEW s, NEW m, NEW c, Onward(img, new, h, s, m, c)
    PROVE  /\ Backed(new) /\ OwnEntry(new, h)
           /\ \A x : Off(img, h.first, x) => Off(new, h.first, x)
           /\ \A k \in 1 .. m, j \in 1 .. Slots : Index(k, j) <= h.pos =>
                 ItemsOf(new, s[k])[j] = Line(h.of, Index(k, j))
<1>0. /\ CardHolds(img) /\ Counts /\ Forest(FatOn(img)) /\ Backed(img)
      /\ h \in HandleRecords /\ HeadsApart(img, h.first) /\ OwnEntry(img, h) /\ h.first # 0
      /\ s \in Seq(Clusters) /\ IsPath(FatOn(img), s, h.first) /\ Filled(img, h.of, s, h.pos)
      /\ m \in Nat \ {0} /\ m = Len(s) /\ c \in Clusters /\ c = s[m] /\ FatOn(new) = FatOn(img)
      /\ \A e \in Clusters : e # c => ItemsOf(new, e) = ItemsOf(img, e)
      /\ \A j \in 1 .. Slots : Index(m, j) <= h.pos => ItemsOf(new, c)[j] = ItemsOf(img, c)[j]
      /\ \A p \in Places : ItemAt(new, p) = ItemAt(img, p) \/ ItemAt(new, p)[1] # "short"
    BY DEF Onward
<1> USE <1>0
<1>1. PICK a \in Clusters, n \in Nat : a = h.first /\ n = h.pos
    BY DEF HandleRecords, Opt
<1>2. FileHead(img, a, a) /\ HeadsApart(img, a)
    BY <1>1 DEF FileHead
<1>3. Slots \in Nat \ {0}
    BY ConstantsAre
<1>4. \A k \in 1 .. m, j \in 1 .. Slots : Index(k, j) \in Nat
    <2> SUFFICES ASSUME NEW k \in 1 .. m, NEW j \in 1 .. Slots PROVE Index(k, j) \in Nat
        OBVIOUS
    <2>1. PICK q \in Nat : q = k - 1
        OBVIOUS
    <2>2. q * Slots \in Nat
        BY <1>3, <2>1
    <2> QED
        BY <1>3, <2>1, <2>2 DEF Index
<1>5. ASSUME NEW p \in Places, NEW t \in Seq(Clusters), FileAt(img, p),
             IsPath(FatOn(img), t, ItemAt(img, p)[3]),
             NEW k \in 1 .. Len(t), NEW j \in 1 .. Slots, t[k] = c, Index(k, j) <= ItemAt(img, p)[4]
      PROVE  ItemsOf(new, c)[j] = ItemsOf(img, c)[j]
    <2>1. PICK b : b = ItemAt(img, p)[3]
        OBVIOUS
    <2>2. HeadAt(img, p) = b
        BY <1>5, <2>1 DEF HeadAt, FileAt
    <2>3. b \in Clusters
        <3>1. PICK l \in Nat : l = Len(t)
            OBVIOUS
        <3>2. 1 \in 1 .. l
            BY <3>1
        <3>3. t[1] \in Clusters
            BY <3>1, <3>2
        <3> QED
            BY <1>5, <2>1, <3>3 DEF IsPath
    <2>4. Untargeted(FatOn(img), a) /\ Untargeted(FatOn(img), b)
        <3>1. FileHead(img, a, b)
            BY <1>5, <2>2, <2>3 DEF FileHead
        <3> QED
            BY <1>2, <3>1 DEF HeadsApart
    <2>5. k = m /\ b = a
        <3>1. PICK fat : fat = FatOn(img)
            OBVIOUS
        <3>2. /\ Forest(fat) /\ Untargeted(fat, b) /\ Untargeted(fat, a)
              /\ IsPath(fat, t, b) /\ IsPath(fat, s, a) /\ m \in 1 .. Len(s) /\ t[k] = s[m]
              /\ k \in 1 .. Len(t)
            BY <1>1, <1>5, <2>1, <2>4, <3>1
        <3> QED
            BY ONLY <3>2, PathsApart
    <2>6. ItemAt(img, p)[4] <= n
        BY <1>1, <2>2, <2>3, <2>5 DEF OwnEntry
    <2>7. ItemAt(img, p)[4] \in Nat
        <3>1. Sound(ItemAt(img, p)) /\ ItemAt(img, p)[1] = "short" /\ ItemAt(img, p)[2] \in Files
            BY <1>5, ImageHolds DEF FileAt
        <3>2. \A f \in Files : lines[f] \in Nat
            BY DEF Counts
        <3> QED
            BY <3>1, <3>2, ConstantsAre DEF Sound
    <2>8. PICK i \in Nat, l \in Nat : i = Index(k, j) /\ l = ItemAt(img, p)[4] /\ i <= l /\ l <= n
        BY <1>4, <1>5, <2>5, <2>6, <2>7
    <2>9. Index(m, j) <= h.pos
        BY <1>1, <2>5, <2>8
    <2> QED
        BY <2>9
<1>6. \A p \in Places : FileAt(new, p) => FileAt(img, p) /\ ItemAt(new, p) = ItemAt(img, p)
    BY DEF FileAt
<1>7. \A p \in Places : HeadAt(new, p) # 0 =>
          HeadAt(new, p) = HeadAt(img, p) /\ ItemAt(new, p) = ItemAt(img, p)
    BY DEF HeadAt
<1>8. Backed(new)
    BY <1>5, <1>6, DataBacked
<1>9. OwnEntry(new, h)
    BY <1>7 DEF OwnEntry, FileAt
<1>10. \A x : Off(img, a, x) => Off(new, a, x)
    <2>1. \A p \in Places : FileAt(new, p) /\ HeadAt(new, p) # 0 =>
              FileAt(img, p) /\ HeadAt(img, p) = HeadAt(new, p)
        BY <1>6, <1>7
    <2> QED
        BY <2>1, DataOff
<1>11. ASSUME NEW k \in 1 .. m, NEW j \in 1 .. Slots, Index(k, j) <= h.pos
       PROVE  ItemsOf(new, s[k])[j] = Line(h.of, Index(k, j))
    <2>1. ItemsOf(img, s[k])[j] = Line(h.of, Index(k, j)) /\ s[k] \in Clusters
        BY <1>11 DEF Filled
    <2>2. CASE s[k] # c
        BY <2>1, <2>2
    <2>3. CASE s[k] = c
        <3>1. k = m
            <4>1. PICK fat : fat = FatOn(img)
                OBVIOUS
            <4>2. Untargeted(fat, a)
                BY <1>2, <4>1 DEF HeadsApart
            <4>3. /\ Forest(fat) /\ Untargeted(fat, a) /\ IsPath(fat, s, a)
                  /\ m \in 1 .. Len(s) /\ k \in 1 .. Len(s) /\ s[k] = s[m]
                BY <1>1, <2>3, <4>1, <4>2
            <4> QED
                BY ONLY <4>3, PathsApart
        <3> QED
            BY <1>11, <2>1, <2>3, <3>1
    <2> QED
        BY <2>2, <2>3
<1> QED
    BY <1>1, <1>8, <1>9, <1>10, <1>11

\* The slot of the next item in the last of m clusters.
LEMMA SlotIs ==
    ASSUME NEW m \in Nat \ {0}, NEW n \in Nat, (m - 1) * Slots <= n, n < m * Slots,
           NEW i, i = (n % Slots) + 1
    PROVE  /\ i \in 1 .. Slots /\ Index(m, i) = n + 1 /\ n + 1 <= m * Slots
           /\ \A k \in 1 .. m, j \in 1 .. Slots :
                 Index(k, j) <= n + 1 => Index(k, j) <= n \/ (k = m /\ j = i)
           /\ (n + 1) % Slots = 0 <=> n + 1 = m * Slots
<1>1. PICK b \in Nat :
          /\ b = (m - 1) * Slots /\ m * Slots = b + Slots /\ b = Slots * (m - 1)
          /\ \A j \in 1 .. Slots : Index(m, j) = b + j
          /\ \A k \in 1 .. m - 1, j \in 1 .. Slots : Index(k, j) \in Nat /\ Index(k, j) <= b
    BY IndexIs
<1>2. PICK q \in Nat \ {0}, u \in Nat : q = Slots /\ u = m - 1 /\ b = q * u
    <2>1. m - 1 \in Nat /\ Slots \in Nat \ {0}
        BY ConstantsAre
    <2> QED
        BY <1>1, <2>1
<1>3. PICK r \in 0 .. q - 1 : n = b + r
    <2>1. n - b \in 0 .. q - 1 /\ n = b + (n - b)
        BY <1>1, <1>2
    <2> QED
        BY <2>1
<1>4. n % q = r
    <2>1. (q * u + r) % q = r
        BY QuotientIs
    <2> QED
        BY <1>2, <1>3, <2>1
<1>5. i = r + 1 /\ i \in 1 .. q
    BY <1>2, <1>4
<1>6. Index(m, i) = n + 1 /\ n + 1 <= m * Slots
    BY <1>1, <1>2, <1>3, <1>5
<1>7. ASSUME NEW k \in 1 .. m, NEW j \in 1 .. Slots, Index(k, j) <= n + 1,
             ~(k = m /\ j = i)
      PROVE  Index(k, j) <= n
    <2>1. CASE k = m
        BY <1>1, <1>2, <1>3, <1>5, <1>7, <2>1
    <2>2. CASE k # m
        <3>1. k \in 1 .. m - 1
            BY <2>2
        <3>2. PICK x \in Nat : x = Index(k, j) /\ x <= b
            BY <1>1, <3>1
        <3> QED
            BY <1>3, <3>2
    <2> QED
        BY <2>1, <2>2
<1>8. (n + 1) % q = 0 <=> r + 1 = q
    <2>1. CASE r + 1 = q
        <3>1. n + 1 = q * (u + 1) /\ u + 1 \in Int
            BY <1>2, <1>3, <2>1
        <3>2. (q * (u + 1)) % q = 0
            BY <3>1, MultipleIs
        <3> QED
            BY <2>1, <3>1, <3>2
    <2>2. CASE r + 1 # q
        <3>1. PICK t \in 0 .. q - 1 : t = r + 1
            BY <2>2
        <3>2. (q * u + t) % q = t
            BY QuotientIs
        <3>3. n + 1 = q * u + t
            BY <1>2, <1>3, <3>1
        <3>4. (n + 1) % q = t
            BY <3>2, <3>3
        <3> QED
            BY <2>2, <3>1, <3>4
    <2> QED
        BY <2>1, <2>2
<1>9. (n + 1) % Slots = 0 <=> n + 1 = m * Slots
    <2>1. n + 1 = m * Slots <=> r + 1 = q
        BY <1>1, <1>2, <1>3
    <2> QED
        BY <1>2, <1>8, <2>1
<1> QED
    BY <1>2, <1>5, <1>6, <1>7, <1>9

LEMMA ClearClusterBacked ==
    ASSUME TwoCopies, UpdatesInv, ChainsInv, BackInv, ClearCluster
    PROVE  BackInv'
<1>1. /\ At(Writing, "clear") /\ WriteThrough(DataSector(H.cur), Zeros)
      /\ op' = [op EXCEPT !.pc = AfterNext] /\ UNCHANGED <<handle, lines>>
    BY DEF ClearCluster, history
<1>2. /\ op.links = <<>> /\ op.todo # <<>> /\ Due \in Writing /\ op.pc = "clear"
      /\ Due \notin {"mbr", "volume"} /\ op \in Ops /\ first_lba = FirstLba
      /\ op.h \in Handles /\ H \in HandleRecords /\ (op.call = "fat_write" <=> Due = "lines")
      /\ (op.h = "file" <=> op.call = "fat_write")
    BY <1>1, WritingAt
<1>3. PICK c \in Clusters : c = H.cur /\ ~dirty
    BY <1>2 DEF UpdatesInv, AtPlace, HandleRecords, Opt
<1>4. DataSector(c) \in Sectors /\ Holds(DataSector(c), Zeros)
    BY SectorsAre, ZerosHold DEF UpdatesInv
<1>5. WrittenImages(DataSector(c), Zeros)
    BY <1>1, <1>2, <1>3, <1>4, ClearedImages DEF UpdatesInv
<1>6. /\ op'.call = op.call /\ op'.name = op.name /\ op'.todo = op.todo /\ op'.links = <<>>
      /\ op'.items = op.items /\ op'.cluster = op.cluster /\ op'.pc = AfterNext
    BY <1>1, <1>2 DEF Ops
<1>7. AfterNext \in {"size", "item"} /\ (AfterNext = "size" => op.items = <<>>)
    BY DEF AfterNext
<1>8. Due' = Due /\ (Writes' <=> Writes)
    BY <1>6 DEF Due, Writes
<1>9. Counted'
    <2>1. Counted
        BY DEF BackInv
    <2> QED
        BY <1>1, <1>6, <1>7, <1>8, <2>1 DEF Counted
<1>10. PICK img, new, h, dirs, own, pc :
           /\ img = Newest /\ new = Newest' /\ h = handle["file"] /\ pc = FilePc'
           /\ dirs = DirClusters(handle, op) /\ own = Writes
    OBVIOUS
<1>11. DirClusters(handle', op') = dirs /\ Writes' = own
    BY <1>1, <1>6, <1>10 DEF DirClusters, Writes
<1>12. FileClaims(img, <<>>, h, dirs, own, FilePc) /\ Backed(img) /\ h \in HandleRecords
    BY <1>2, <1>10 DEF BackInv, UpdatesInv, HandlesInv, Handles
<1>13. /\ FatOn(new) = FatOn(img) /\ ItemsOf(new, c) = Zeros
       /\ \A e \in Clusters : e # c => ItemsOf(new, e) = ItemsOf(img, e)
       /\ \A p \in Places : ItemAt(new, p) = IF p[1] = DataSector(c) THEN Zeros[p[2]]
                                             ELSE ItemAt(img, p)
    BY <1>5, <1>10, DataWritten
<1>14. Backed(new) /\ FileClaims(new, <<>>, h, dirs, own, pc)
    <2>1. CASE Due # "lines"
        <3>1. FilePc = "start" /\ pc = "start"
            BY <1>8, <1>10, <2>1 DEF FilePc
        <3>2. c \in DirClusters(handle, op)
            BY <1>2, <1>3, <2>1 DEF DirClusters, H, Handles
        <3> QED
            BY <1>5, <1>10, <1>12, <3>1, <3>2, ClearedBacked
    <2>2. CASE Due = "lines"
        <3>1. H = h /\ FilePc = "clear" /\ pc \in {"size", "item"}
            BY <1>2, <1>6, <1>7, <1>8, <1>10, <2>2 DEF H, FilePc
        <3>2. Aside(img, <<>>, h.first, dirs, own) /\ OwnEntry(img, h) /\ Standing(img, <<>>, h, "clear")
            BY <1>12, <3>1 DEF FileClaims
        <3>3. h.first # 0
            BY <1>3, <3>1, <3>2, ConstantsAre DEF Standing
        <3>4. PICK s \in Seq(Clusters) :
                  /\ IsPath(FatOn(img), s, h.first) /\ Filled(img, h.of, s, h.pos)
                  /\ Len(s) \in Nat \ {0} /\ h.cur = s[Len(s)] /\ h.cur \in Clusters
                  /\ (Len(s) - 1) * Slots <= h.pos /\ h.pos < Len(s) * Slots
                  /\ h.pos = (Len(s) - 1) * Slots
            BY <3>2, <3>3, StandsAt
        <3>5. PICK m \in Nat \ {0}, n \in Nat : m = Len(s) /\ n = h.pos
            BY <1>12, <3>4 DEF HandleRecords
        <3>6. c = s[m] /\ n = (m - 1) * Slots /\ Slots \in Nat \ {0}
            BY <1>3, <3>1, <3>4, <3>5, ConstantsAre
        <3>7. \A j \in 1 .. Slots : ~(Index(m, j) <= h.pos)
            <4>1. PICK b \in Nat : b = (m - 1) * Slots /\ \A j \in 1 .. Slots : Index(m, j) = b + j
                BY IndexIs
            <4> QED
                BY <3>5, <3>6, <4>1
        <3>8. \A p \in Places : ItemAt(new, p) = ItemAt(img, p) \/ ItemAt(new, p)[1] # "short"
            <4> SUFFICES ASSUME NEW p \in Places, p[1] = DataSector(c)
                         PROVE  ItemAt(new, p)[1] # "short"
                BY <1>13
            <4>1. Zeros[p[2]] = Zero
                BY PlacesAre DEF Zeros
            <4> QED
                BY <1>13, <4>1 DEF Zero
        <3>9. CardHolds(img) /\ Counts /\ Forest(FatOn(img)) /\ HeadsApart(img, h.first)
            BY <1>2, <1>10, ReadsNewest, FileHeads DEF UpdatesInv
        <3>20. Backed(img) /\ h \in HandleRecords /\ OwnEntry(img, h) /\ h.first # 0
            BY <1>12, <3>2, <3>3
        <3>21. s \in Seq(Clusters) /\ IsPath(FatOn(img), s, h.first) /\ Filled(img, h.of, s, h.pos)
            BY <3>4
        <3>22. m \in Nat \ {0} /\ m = Len(s) /\ c \in Clusters /\ c = s[m] /\ FatOn(new) = FatOn(img)
            BY <1>13, <3>5, <3>6
        <3>23. \A e \in Clusters : e # c => ItemsOf(new, e) = ItemsOf(img, e)
            BY <1>13
        <3>24. \A j \in 1 .. Slots : Index(m, j) <= h.pos => ItemsOf(new, c)[j] = ItemsOf(img, c)[j]
            BY <3>7
        <3>25. Onward(img, new, h, s, m, c)
            BY ONLY <3>8, <3>9, <3>20, <3>21, <3>22, <3>23, <3>24 DEF Onward
        <3>10. /\ Backed(new) /\ OwnEntry(new, h)
               /\ \A x : Off(img, h.first, x) => Off(new, h.first, x)
               /\ \A k \in 1 .. m, j \in 1 .. Slots : Index(k, j) <= h.pos =>
                     ItemsOf(new, s[k])[j] = Line(h.of, Index(k, j))
            BY <3>25, FileWritten
        <3>11. Filled(new, h.of, s, h.pos)
            BY <3>4, <3>5, <3>10 DEF Filled
        <3>12. AtEnd(<<>>, h, s, pc)
            BY <3>1, <3>4 DEF AtEnd
        <3>13. Standing(new, <<>>, h, pc)
            BY <1>13, <3>3, <3>4, <3>11, <3>12 DEF Standing
        <3>14. Aside(new, <<>>, h.first, dirs, own)
            <4>1. \A i \in 1 .. Len(<<>>) : FALSE
                OBVIOUS
            <4> QED
                BY <1>13, <3>2, <3>10, <4>1 DEF Aside
        <3> QED
            BY <3>10, <3>13, <3>14 DEF FileClaims
    <2> QED
        BY <2>1, <2>2
<1>15. FileClaims(Newest', op'.links, handle'["file"], DirClusters(handle', op'), Writes', FilePc')
    BY <1>1, <1>6, <1>10, <1>11, <1>14
<1> QED
    BY <1>5, <1>9, <1>10, <1>14, <1>15, WrittenIsBacked, BackAfter

\* One item of a sector of data is another one.
Replaced(img, new, c, i, x) ==
    /\ c \in Clusters /\ i \in 1 .. Slots /\ FatOn(new) = FatOn(img)
    /\ \A e \in Clusters : e # c => ItemsOf(new, e) = ItemsOf(img, e)
    /\ \A j \in 1 .. Slots : ItemsOf(new, c)[j] = IF j = i THEN x ELSE ItemsOf(img, c)[j]
    /\ <<DataSector(c), i>> \in Places
    /\ \A p \in Places :
          ItemAt(new, p) = IF p = <<DataSector(c), i>> THEN x ELSE ItemAt(img, p)

LEMMA ReplacedIs ==
    ASSUME CardHolds(Newest), NEW c \in Clusters, NEW i \in 1 .. Slots, NEW x,
           WrittenImages(DataSector(c), [ItemsOf(Newest, c) EXCEPT ![i] = x])
    PROVE  Replaced(Newest, Newest', c, i, x)
<1>1. PICK d : d = [ItemsOf(Newest, c) EXCEPT ![i] = x] /\ WrittenImages(DataSector(c), d)
    OBVIOUS
<1>2. /\ FatOn(Newest') = FatOn(Newest) /\ ItemsOf(Newest', c) = d
      /\ \A e \in Clusters : e # c => ItemsOf(Newest', e) = ItemsOf(Newest, e)
    BY <1>1, DataWritten
<1>3. DOMAIN ItemsOf(Newest, c) = 1 .. Slots
    BY ImageHolds DEF DataHolds
<1>4. \A j \in 1 .. Slots : d[j] = IF j = i THEN x ELSE ItemsOf(Newest, c)[j]
    BY <1>1, <1>3
<1>5. PICK q : q = <<DataSector(c), i>>
    OBVIOUS
<1>6. /\ q \in Places
      /\ \A p \in Places : ItemAt(Newest', p) = IF p = q THEN x ELSE ItemAt(Newest, p)
    BY <1>5, ItemReplaced
<1> QED
    BY <1>2, <1>4, <1>5, <1>6 DEF Replaced

\* An item of a directory that is no entry of the log file, nor has lines.
LEMMA DirectoryItem ==
    ASSUME NEW img, NEW new, NEW c, NEW i, NEW x, Replaced(img, new, c, i, x), Backed(img),
           NEW h \in HandleRecords, Off(img, h.first, c),
           x[1] = "short" /\ x[3] # 0 => x[3] # h.first /\ x[2] \notin Files,
           x[1] = "short" /\ x[2] \in Files => x[4] = 0,
           NEW dirs, NEW own, NEW pc, FileClaims(img, <<>>, h, dirs, own, pc)
    PROVE  Backed(new) /\ FileClaims(new, <<>>, h, dirs, own, pc)
<1>1. /\ c \in Clusters /\ FatOn(new) = FatOn(img)
      /\ \A e \in Clusters : e # c => ItemsOf(new, e) = ItemsOf(img, e)
      /\ \A p \in Places : ItemAt(new, p) = x \/ ItemAt(new, p) = ItemAt(img, p)
    BY DEF Replaced
<1>2. \A p \in Places : FileAt(new, p) =>
          \/ ItemAt(new, p)[4] = 0 /\ ItemAt(new, p)[3] = 0
          \/ FileAt(img, p) /\ ItemAt(new, p) = ItemAt(img, p)
    BY <1>1 DEF FileAt
<1>3. ASSUME NEW p \in Places, FileAt(new, p), HeadAt(new, p) # 0
      PROVE  FileAt(img, p) /\ HeadAt(img, p) = HeadAt(new, p)
    BY <1>2, <1>3 DEF FileAt, HeadAt
<1>4. OwnEntry(new, h)
    <2> SUFFICES ASSUME h.first # 0, NEW p \in Places, HeadAt(new, p) = h.first
                 PROVE  FileAt(new, p) /\ ItemAt(new, p)[2] = h.of /\ ItemAt(new, p)[4] <= h.pos
        BY DEF OwnEntry
    <2>1. ItemAt(new, p) = ItemAt(img, p)
        BY <1>1 DEF HeadAt
    <2>2. HeadAt(img, p) = h.first
        BY <2>1 DEF HeadAt
    <2>3. FileAt(img, p) /\ ItemAt(img, p)[2] = h.of /\ ItemAt(img, p)[4] <= h.pos
        BY <2>2 DEF FileClaims, OwnEntry
    <2> QED
        BY <2>1, <2>3 DEF FileAt
<1>5. Backed(new)
    <2>1. \A p \in Places, s \in Seq(Clusters) :
               FileAt(img, p) /\ IsPath(FatOn(img), s, ItemAt(img, p)[3]) =>
                   \A k \in 1 .. Len(s) : s[k] # c
        BY OffKeepsLines
    <2> QED
        BY <1>1, <1>2, <2>1, DataBacked
<1>6. h.first \in Opt
    BY DEF HandleRecords
<1> QED
    BY <1>1, <1>3, <1>4, <1>5, <1>6, OffClaims

\* The next line of the log file.
LEMMA FileItem ==
    ASSUME NEW img, CardHolds(img), Counts, Forest(FatOn(img)), Backed(img),
           NEW h \in HandleRecords, HeadsApart(img, h.first), h.cur # 0,
           NEW dirs, NEW own, FileClaims(img, <<>>, h, dirs, own, "item"),
           NEW new, NEW i, i = (h.pos % Slots) + 1, NEW x, x = Line(h.of, h.pos + 1),
           Replaced(img, new, h.cur, i, x),
           NEW k, k.of = h.of, k.first = h.first, k.cur = h.cur, k.pos = h.pos + 1,
           NEW pc \in {"next", "item", "size"}, pc = "next" <=> (h.pos + 1) % Slots = 0
    PROVE  Backed(new) /\ FileClaims(new, <<>>, k, dirs, own, pc)
<1>1. Aside(img, <<>>, h.first, dirs, own) /\ OwnEntry(img, h) /\ Standing(img, <<>>, h, "item")
    BY DEF FileClaims
<1>2. h.first # 0
    BY <1>1 DEF Standing
<1>3. PICK s \in Seq(Clusters) :
          /\ IsPath(FatOn(img), s, h.first) /\ Filled(img, h.of, s, h.pos)
          /\ Len(s) \in Nat \ {0} /\ h.cur = s[Len(s)] /\ h.cur \in Clusters
          /\ (Len(s) - 1) * Slots <= h.pos /\ h.pos < Len(s) * Slots
    BY <1>1, <1>2, StandsAt
<1>4. PICK m \in Nat \ {0}, n \in Nat, c \in Clusters : m = Len(s) /\ n = h.pos /\ c = h.cur
    BY <1>3 DEF HandleRecords
<1>5. /\ i \in 1 .. Slots /\ Index(m, i) = n + 1 /\ n + 1 <= m * Slots
      /\ \A l \in 1 .. m, j \in 1 .. Slots :
            Index(l, j) <= n + 1 => Index(l, j) <= n \/ (l = m /\ j = i)
      /\ (n + 1) % Slots = 0 <=> n + 1 = m * Slots
    <2>1. (m - 1) * Slots <= n /\ n < m * Slots /\ i = (n % Slots) + 1
        BY <1>3, <1>4
    <2> QED
        BY ONLY <2>1, SlotIs, m \in Nat \ {0}, n \in Nat
<1>6. FatOn(new) = FatOn(img) /\ \A e \in Clusters : e # c => ItemsOf(new, e) = ItemsOf(img, e)
    BY <1>4 DEF Replaced
<1>7. \A j \in 1 .. Slots : ItemsOf(new, c)[j] = IF j = i THEN x ELSE ItemsOf(img, c)[j]
    BY <1>4 DEF Replaced
<1>8. \A j \in 1 .. Slots : Index(m, j) <= h.pos => ItemsOf(new, c)[j] = ItemsOf(img, c)[j]
    <2> SUFFICES ASSUME NEW j \in 1 .. Slots, Index(m, j) <= n PROVE j # i
        BY <1>4, <1>7
    <2> QED
        BY <1>5
<1>9. \A p \in Places : ItemAt(new, p) = ItemAt(img, p) \/ ItemAt(new, p)[1] # "short"
    BY DEF Replaced, Line
<1>10. Onward(img, new, h, s, m, c)
    <2>1. CardHolds(img) /\ Counts /\ Forest(FatOn(img)) /\ Backed(img) /\ h \in HandleRecords
        OBVIOUS
    <2>2. HeadsApart(img, h.first) /\ OwnEntry(img, h) /\ h.first # 0
        BY <1>1, <1>2
    <2>3. s \in Seq(Clusters) /\ IsPath(FatOn(img), s, h.first) /\ Filled(img, h.of, s, h.pos)
        BY <1>3
    <2>4. m \in Nat \ {0} /\ m = Len(s) /\ c \in Clusters /\ c = s[m]
        BY <1>3, <1>4
    <2> QED
        BY ONLY <1>6, <1>8, <1>9, <2>1, <2>2, <2>3, <2>4 DEF Onward
<1>11. /\ Backed(new) /\ OwnEntry(new, h)
       /\ \A y : Off(img, h.first, y) => Off(new, h.first, y)
       /\ \A l \in 1 .. m, j \in 1 .. Slots : Index(l, j) <= h.pos =>
             ItemsOf(new, s[l])[j] = Line(h.of, Index(l, j))
    BY <1>10, FileWritten
<1>12. Filled(new, h.of, s, n + 1)
    <2> SUFFICES ASSUME NEW l \in 1 .. m, NEW j \in 1 .. Slots, Index(l, j) <= n + 1
                 PROVE  ItemsOf(new, s[l])[j] = Line(h.of, Index(l, j))
        BY <1>4, <1>5 DEF Filled
    <2>1. CASE Index(l, j) <= n
        BY <1>4, <1>11, <2>1
    <2>2. CASE l = m /\ j = i
        BY <1>3, <1>4, <1>5, <1>7, <2>2
    <2> QED
        BY <1>5, <2>1, <2>2
<1>13. AtEnd(<<>>, k, s, pc)
    <2>1. k.cur = s[Len(s)] /\ k.pos = n + 1 /\ Len(s) = m
        BY <1>3, <1>4
    <2>2. CASE pc = "next"
        BY <1>4, <1>5, <2>1, <2>2 DEF AtEnd
    <2>3. CASE pc # "next"
        <3>1. PICK a \in Nat, b \in Nat : a = (m - 1) * Slots /\ b = m * Slots
            BY ConstantsAre
        <3>2. a <= n /\ n + 1 <= b /\ n + 1 # b
            BY <1>3, <1>4, <1>5, <2>3, <3>1
        <3>3. a <= n + 1 /\ n + 1 < b
            BY <3>2
        <3> QED
            BY <2>1, <2>3, <3>1, <3>3 DEF AtEnd
    <2> QED
        BY <2>2, <2>3
<1>14. Standing(new, <<>>, k, pc)
    BY <1>2, <1>3, <1>4, <1>6, <1>12, <1>13 DEF Standing
<1>15. Aside(new, <<>>, k.first, dirs, own)
    <2>1. \A l \in 1 .. Len(<<>>) : FALSE
        OBVIOUS
    <2> QED
        BY <1>1, <1>6, <1>11, <2>1 DEF Aside
<1>16. OwnEntry(new, k)
    <2> SUFFICES ASSUME NEW p \in Places, HeadAt(new, p) = h.first
                 PROVE  FileAt(new, p) /\ ItemAt(new, p)[2] = h.of /\ ItemAt(new, p)[4] <= n + 1
        BY <1>4 DEF OwnEntry
    <2>1. FileAt(new, p) /\ ItemAt(new, p)[2] = h.of /\ ItemAt(new, p)[4] <= n
        BY <1>2, <1>4, <1>11 DEF OwnEntry
    <2>2. ItemAt(new, p)[4] \in Nat
        <3>1. ItemAt(new, p) = ItemAt(img, p) /\ FileAt(img, p)
            BY <1>9, <2>1 DEF FileAt
        <3>2. Sound(ItemAt(img, p)) /\ ItemAt(img, p)[1] = "short" /\ ItemAt(img, p)[2] \in Files
            BY <3>1, ImageHolds DEF FileAt
        <3>3. \A f \in Files : lines[f] \in Nat
            BY DEF Counts
        <3> QED
            BY <3>1, <3>2, <3>3, ConstantsAre DEF Sound
    <2> QED
        BY <2>1, <2>2
<1> QED
    BY <1>11, <1>14, <1>15, <1>16 DEF FileClaims

LEMMA WriteItemBacked ==
    ASSUME TwoCopies, UpdatesInv, ChainsInv, BackInv, WriteItem
    PROVE  BackInv'
<1> DEFINE s == DataSector(H.cur)
<1> DEFINE slot == (H.pos % Slots) + 1
<1>1. /\ At(Writing, "item") /\ Change(s, [Loaded(s) EXCEPT ![slot] = Head(op.items)])
      /\ handle' = [handle EXCEPT ![op.h].pos = @ + 1]
      /\ op' = [op EXCEPT !.items = Tail(@),
                          !.pc = IF (H.pos + 1) % Slots = 0 THEN "next"
                                 ELSE IF Len(op.items) > 1 THEN "item" ELSE "size"]
      /\ UNCHANGED lines
    BY DEF WriteItem, history
<1>2. /\ op.links = <<>> /\ op.todo # <<>> /\ Due \in Writing /\ op.pc = "item"
      /\ op \in Ops /\ first_lba = FirstLba /\ op.h \in Handles /\ H \in HandleRecords
      /\ (op.call = "fat_write" <=> Due = "lines") /\ (op.h = "file" <=> op.call = "fat_write")
    BY <1>1, WritingAt
<1>3. H.cur \in Clusters /\ op.items # <<>> /\ op.items \in Seq(Written) /\ H.pos \in Nat
    BY <1>2 DEF UpdatesInv, AtPlace, HandleRecords, Opt, Ops
<1>4. slot \in 1 .. Slots
    <2>1. H.pos % Slots \in 0 .. Slots - 1
        BY <1>3, ConstantsAre, DivisionIs
    <2> QED
        BY <2>1, ConstantsAre
<1>5. PICK c \in Clusters, i \in 1 .. Slots, x \in {Head(op.items)} :
          c = H.cur /\ i = slot /\ x = Head(op.items)
    BY <1>3, <1>4
<1>6. i = (H.pos % Slots) + 1
    BY <1>5
<1> HIDE DEF slot
<1>7. Loaded(s) = ItemsOf(Newest, c) /\ CardHolds(Newest)
    BY <1>2, <1>5, ReadsNewest
<1>8. WrittenImages(DataSector(c), [ItemsOf(Newest, c) EXCEPT ![i] = x])
    <2>1. Change(DataSector(c), [ItemsOf(Newest, c) EXCEPT ![i] = x]) /\ DataSector(c) \in Sectors
        BY <1>1, <1>5, <1>7, SectorsAre
    <2> QED
        BY <1>1, <1>2, <2>1, ChangedImages DEF UpdatesInv
<1>9. Replaced(Newest, Newest', c, i, x)
    BY <1>7, <1>8, ReplacedIs
<1> HIDE DEF s
<1>10. PICK items \in Seq(Written) : items = op.items /\ items # <<>>
    BY <1>3
<1>11. /\ Len(items) \in Nat \ {0} /\ Tail(items) \in Seq(Written) /\ x = items[1]
       /\ Len(Tail(items)) = Len(items) - 1
       /\ \A j \in 1 .. Len(Tail(items)) : Tail(items)[j] = items[j + 1]
    BY <1>5, <1>10, HeadTailProperties
<1>12. /\ op'.call = op.call /\ op'.name = op.name /\ op'.todo = op.todo
       /\ op'.cluster = op.cluster /\ op'.items = Tail(items) /\ op'.links = <<>>
       /\ op'.pc = IF (H.pos + 1) % Slots = 0 THEN "next"
                   ELSE IF Len(items) > 1 THEN "item" ELSE "size"
    BY <1>1, <1>2, <1>10 DEF Ops
<1>13. Due' = Due
    BY <1>12 DEF Due
<1>14. PICK r : r = [H EXCEPT !.pos = H.pos + 1]
    OBVIOUS
<1>15. /\ r.of = H.of /\ r.first = H.first /\ r.cur = H.cur /\ r.pos = H.pos + 1 /\ r.at = H.at
    BY <1>2, <1>14 DEF HandleRecords
<1>16. \A k \in Handles : handle'[k] = IF k = op.h THEN r ELSE handle[k]
    <2>1. handle' = [handle EXCEPT ![op.h] = r]
        BY <1>1, <1>2, <1>14 DEF H, UpdatesInv, HandlesInv
    <2> QED
        BY <2>1 DEF UpdatesInv, HandlesInv
<1>17. PICK img, new, h, k, dirs, own, pc :
           /\ img = Newest /\ new = Newest' /\ h = handle["file"] /\ k = handle'["file"]
           /\ dirs = DirClusters(handle, op) /\ own = Writes /\ pc = FilePc'
    OBVIOUS
<1>18. DirClusters(handle', op') = dirs /\ Writes' = own
    <2>1. \A y \in Handles : /\ handle'[y].first = handle[y].first /\ handle'[y].cur = handle[y].cur
                             /\ handle'[y].at = handle[y].at
        BY <1>2, <1>15, <1>16 DEF H
    <2> QED
        BY <1>12, <1>17, <2>1 DEF DirClusters, Writes, Handles
<1>19. FileClaims(img, <<>>, h, dirs, own, FilePc) /\ Backed(img) /\ h \in HandleRecords
    BY <1>2, <1>17 DEF BackInv, UpdatesInv, HandlesInv, Handles
<1>20. Counted
    BY DEF BackInv
<1>21. CASE Due = "lines"
    <2>1. h = H /\ k = r /\ op.h = "file" /\ Writes /\ Writes' /\ FilePc = "item" /\ pc = op'.pc
        BY <1>2, <1>12, <1>13, <1>16, <1>17, <1>21 DEF H, Handles, Writes, FilePc
    <2>2. \A j \in 1 .. Len(items) : items[j] = Line(h.of, h.pos + j)
        BY <1>10, <1>17, <1>20, <1>21 DEF Counted
    <2>3. x = Line(h.of, h.pos + 1)
        <3>1. 1 \in 1 .. Len(items)
            BY <1>11
        <3> QED
            BY <1>11, <2>2, <3>1
    <2>4. Counted'
        <3>1. h.of # NoName
            BY <1>2, <1>17, <1>21 DEF UpdatesInv, InCall
        <3>2. h.pos + Len(items) = lines[h.of]
            BY <1>10, <1>17, <1>20, <2>1, <3>1 DEF Counted
        <3>3. k.of = h.of /\ k.pos = h.pos + 1 /\ h.pos \in Nat
            BY <1>3, <1>15, <2>1
        <3>4. k.pos + Len(op'.items) = lines'[k.of]
            <4>1. PICK a \in Nat \ {0} : a = Len(items)
                BY <1>11
            <4>2. PICK n \in Nat : n = h.pos
                BY <3>3
            <4>3. Len(op'.items) = a - 1
                BY <1>11, <1>12, <4>1
            <4>4. lines'[k.of] = lines[h.of] /\ k.pos = n + 1
                BY <1>1, <3>3, <4>2
            <4>5. n + a = lines[h.of] /\ n + 1 + (a - 1) = n + a
                BY <3>2, <4>1, <4>2
            <4> QED
                BY <4>3, <4>4, <4>5
        <3>5. \A j \in 1 .. Len(op'.items) : op'.items[j] = Line(k.of, k.pos + j)
            <4> SUFFICES ASSUME NEW j \in 1 .. Len(Tail(items))
                         PROVE  Tail(items)[j] = Line(h.of, h.pos + 1 + j)
                BY <1>12, <3>3
            <4>1. PICK l \in 1 .. Len(items) : l = j + 1
                BY <1>11
            <4>2. Tail(items)[j] = Line(h.of, h.pos + l)
                BY <1>11, <2>2, <4>1
            <4>3. h.pos + l = h.pos + 1 + j
                BY <3>3, <4>1
            <4> QED
                BY <4>2, <4>3
        <3>6. op'.pc \notin {"first", "flush"} /\ (op'.pc = "size" => op'.items = <<>>)
            <4>1. op'.pc = "size" => Len(Tail(items)) = 0
                BY <1>11, <1>12
            <4> QED
                BY <1>11, <1>12, <4>1, EmptySeq
        <3>7. op'.call # "CreateFile" /\ Due' = "lines"
            BY <1>2, <1>12, <1>13, <1>21
        <3> QED
            BY <1>17, <2>1, <3>4, <3>5, <3>6, <3>7 DEF Counted
    <2>5. Backed(new) /\ FileClaims(new, <<>>, k, dirs, own, pc)
        <3>1. CardHolds(img) /\ Counts /\ Forest(FatOn(img)) /\ HeadsApart(img, h.first)
            BY <1>7, <1>17, FileHeads DEF UpdatesInv
        <3>2. /\ h.cur # 0 /\ FileClaims(img, <<>>, h, dirs, own, "item") /\ i = (h.pos % Slots) + 1
              /\ Replaced(img, new, h.cur, i, x) /\ Backed(img) /\ h \in HandleRecords
            BY <1>3, <1>5, <1>6, <1>9, <1>17, <1>19, <2>1, ConstantsAre
        <3>3. k.of = h.of /\ k.first = h.first /\ k.cur = h.cur /\ k.pos = h.pos + 1
            BY <1>15, <2>1
        <3>4. pc \in {"next", "item", "size"} /\ (pc = "next" <=> (h.pos + 1) % Slots = 0)
            BY <1>12, <2>1
        <3> QED
            BY <2>3, <3>1, <3>2, <3>3, <3>4, FileItem
    <2>6. FileClaims(Newest', op'.links, handle'["file"], DirClusters(handle', op'), Writes', FilePc')
        BY <1>12, <1>17, <1>18, <2>5
    <2> QED
        BY <1>8, <1>17, <2>4, <2>5, <2>6, WrittenIsBacked, BackAfter
<1>22. CASE Due # "lines"
    <2>1. op.h # "file" /\ ~Writes /\ h = k /\ FilePc = "start"
        BY <1>2, <1>16, <1>17, <1>22 DEF Handles, Writes, FilePc
    <2>2. Counted' /\ pc = "start"
        <3>1. op'.pc # "first"
            BY <1>12
        <3> QED
            BY <1>1, <1>12, <1>17, <1>20, <1>22, <2>1, <3>1, CallCounted
    <2>3. c \in dirs
        BY <1>2, <1>5, <1>17, <2>1 DEF DirClusters, H, Handles
    <2>4. Off(img, h.first, c)
        BY <1>19, <2>3 DEF FileClaims, Aside
    <2>5. EntryItems /\ Claims(img, <<>>, h, Claimed)
        BY <1>2, <1>17 DEF ChainsInv
    <2>6. /\ x[1] = "short" /\ x[3] # 0 => x[3] # h.first /\ x[2] \notin Files
          /\ x[1] = "short" /\ x[2] \in Files => x[4] = 0
        <3>1. CASE Due = "short"
            <4>1. items = <<Short(op.name, op.first, 0)>>
                BY <1>2, <1>10, <2>5, <3>1 DEF EntryItems
            <4>2. x = Short(op.name, op.first, 0)
                BY <1>11, <4>1
            <4>3. x[2] = op.name /\ x[3] = op.first /\ x[4] = 0
                BY <4>2 DEF Short
            <4>4. op.first # 0 => op.name \notin Files
                BY <2>5, ConstantsAre DEF EntryItems, UpdatesInv, InCall
            <4>5. op.first # 0 => op.first # h.first
                BY <1>2, <2>5, <3>1 DEF Claimed, Claims
            <4> QED
                BY <4>3, <4>4, <4>5
        <3>2. CASE Due # "short"
            <4>1. \A j \in 1 .. Len(items) : items[j][1] # "short"
                BY <1>2, <1>10, <2>5, <3>2 DEF EntryItems, Writing
            <4>2. 1 \in 1 .. Len(items)
                BY <1>11
            <4> QED
                BY <1>11, <4>1, <4>2
        <3> QED
            BY <3>1, <3>2
    <2>7. Backed(new) /\ FileClaims(new, <<>>, h, dirs, own, "start")
        <3>1. Replaced(img, new, c, i, x) /\ FileClaims(img, <<>>, h, dirs, own, "start")
            BY <1>9, <1>17, <1>19, <2>1
        <3> QED
            BY <1>19, <2>4, <2>6, <3>1, DirectoryItem
    <2>8. FileClaims(Newest', op'.links, handle'["file"], DirClusters(handle', op'), Writes', FilePc')
        BY <1>12, <1>17, <1>18, <2>1, <2>2, <2>7
    <2> QED
        BY <1>8, <1>17, <2>2, <2>7, <2>8, WrittenIsBacked, BackAfter
<1> QED
    BY <1>21, <1>22

\* The entry of the log file gets the size that its chain holds.
LEMMA SizeItem ==
    ASSUME NEW img, NEW new, NEW c, NEW i, NEW x, Replaced(img, new, c, i, x), Backed(img),
           NEW h \in HandleRecords, x = Short(h.of, h.first, h.pos), h.of \in Files, h.pos # 0,
           NEW dirs, c \in dirs, NEW own, FileClaims(img, <<>>, h, dirs, own, "size")
    PROVE  Backed(new) /\ FileClaims(new, <<>>, h, dirs, own, "flush")
<1>1. Aside(img, <<>>, h.first, dirs, own) /\ OwnEntry(img, h) /\ Standing(img, <<>>, h, "size")
    BY DEF FileClaims
<1>2. h.first # 0 /\ h.first \in Clusters
    BY <1>1 DEF Standing, HandleRecords, Opt
<1>3. Off(img, h.first, c) /\ FileHead(img, h.first, h.first)
    BY <1>1, <1>2 DEF Aside, FileHead
<1>4. /\ c \in Clusters /\ FatOn(new) = FatOn(img)
      /\ \A e \in Clusters : e # c => ItemsOf(new, e) = ItemsOf(img, e)
      /\ \A p \in Places : ItemAt(new, p) = x \/ ItemAt(new, p) = ItemAt(img, p)
    BY DEF Replaced
<1>5. x[1] = "short" /\ x[2] = h.of /\ x[3] = h.first /\ x[4] = h.pos
    BY DEF Short
<1>6. Behind(new, h.of, h.first, h.pos)
    <2>1. PICK s \in Seq(Clusters) : IsPath(FatOn(img), s, h.first) /\ Filled(img, h.of, s, h.pos)
        BY <1>1, <1>2 DEF Standing
    <2>2. \A k \in 1 .. Len(s) : s[k] # c /\ s[k] \in Clusters
        BY <1>2, <1>3, <2>1 DEF Off
    <2>3. Filled(new, h.of, s, h.pos)
        BY <1>4, <2>1, <2>2 DEF Filled
    <2> QED
        BY <1>4, <2>1, <2>3 DEF Behind
<1>7. Backed(new)
    <2>1. \A p \in Places, s \in Seq(Clusters) :
               FileAt(img, p) /\ IsPath(FatOn(img), s, ItemAt(img, p)[3]) =>
                   \A k \in 1 .. Len(s) : s[k] # c
        BY <1>3, OffKeepsLines
    <2>2. ASSUME NEW p \in Places, FileAt(new, p)
          PROVE  \/ ItemAt(new, p)[4] = 0 /\ ItemAt(new, p)[3] = 0
                 \/ FileAt(img, p) /\ ItemAt(new, p) = ItemAt(img, p)
                 \/ /\ ItemAt(new, p)[4] # 0
                    /\ Behind(new, ItemAt(new, p)[2], ItemAt(new, p)[3], ItemAt(new, p)[4])
        BY <1>4, <1>5, <1>6, <2>2 DEF FileAt
    <2> QED
        BY <1>4, <2>1, <2>2, DataBacked
<1>8. ASSUME NEW p \in Places, FileAt(new, p), HeadAt(new, p) # 0
      PROVE  HeadAt(new, p) = h.first \/ (FileAt(img, p) /\ HeadAt(img, p) = HeadAt(new, p))
    BY <1>4, <1>5, <1>8 DEF FileAt, HeadAt
<1>9. OwnEntry(new, h)
    <2> SUFFICES ASSUME NEW p \in Places, HeadAt(new, p) = h.first
                 PROVE  FileAt(new, p) /\ ItemAt(new, p)[2] = h.of /\ ItemAt(new, p)[4] <= h.pos
        BY DEF OwnEntry
    <2>1. CASE ItemAt(new, p) = x
        <3>1. h.pos \in Nat
            BY DEF HandleRecords
        <3> QED
            BY <1>5, <2>1, <3>1 DEF FileAt
    <2>2. CASE ItemAt(new, p) = ItemAt(img, p)
        <3>1. HeadAt(img, p) = h.first
            BY <2>2 DEF HeadAt
        <3> QED
            BY <1>1, <1>2, <2>2, <3>1 DEF OwnEntry, FileAt
    <2> QED
        BY <1>4, <2>1, <2>2
<1>10. h.first \in Opt
    BY DEF HandleRecords
<1>11. FileClaims(new, <<>>, h, dirs, own, "size")
    BY <1>3, <1>4, <1>8, <1>9, <1>10, OffClaims
<1>12. Standing(new, <<>>, h, "flush")
    <2>1. \A s : AtEnd(<<>>, h, s, "size") => AtEnd(<<>>, h, s, "flush")
        BY DEF AtEnd
    <2> QED
        BY <1>11, <2>1 DEF FileClaims, Standing
<1> QED
    BY <1>7, <1>11, <1>12 DEF FileClaims

LEMMA SyncEntryBacked ==
    ASSUME TwoCopies, UpdatesInv, ChainsInv, BackInv, SyncEntry
    PROVE  BackInv'
<1>1. /\ At(Writing, "size") /\ H.at # <<>> /\ H.pos > H.size
      /\ Change(H.at[1], [Loaded(H.at[1]) EXCEPT ![H.at[2]] = Short(H.of, H.first, H.pos)])
      /\ handle' = [handle EXCEPT ![op.h].size = H.pos]
      /\ op' = [op EXCEPT !.pc = "flush"] /\ UNCHANGED lines
    BY DEF SyncEntry, history
<1>2. /\ op.links = <<>> /\ op.todo # <<>> /\ Due \in Writing /\ op.pc = "size"
      /\ op \in Ops /\ first_lba = FirstLba /\ H \in HandleRecords
      /\ (op.call = "fat_write" <=> Due = "lines") /\ op.h \in Handles
      /\ (op.h = "file" <=> op.call = "fat_write")
    BY <1>1, WritingAt
<1>3. H = handle["file"] /\ op.h = "file" /\ Due = "lines" /\ H.of \in Files
    BY <1>1, <1>2, ConstantsAre DEF H, Handles, UpdatesInv, HandlesInv, HandleRecords
<1>4. PICK q \in Places : q = H.at
    BY <1>1, <1>2 DEF HandleRecords
<1>5. PICK c \in Clusters, i \in 1 .. Slots :
          q = <<DataSector(c), i>> /\ q[1] = DataSector(c) /\ q[2] = i
    BY PlacesAre
<1>6. PICK x : x = Short(H.of, H.first, H.pos)
    OBVIOUS
<1>7. Loaded(DataSector(c)) = ItemsOf(Newest, c) /\ CardHolds(Newest)
    BY <1>2, ReadsNewest
<1>8. WrittenImages(DataSector(c), [ItemsOf(Newest, c) EXCEPT ![i] = x])
    <2>1. Change(DataSector(c), [ItemsOf(Newest, c) EXCEPT ![i] = x]) /\ DataSector(c) \in Sectors
        BY <1>1, <1>4, <1>5, <1>6, <1>7, SectorsAre
    <2> QED
        BY <1>1, <1>2, <2>1, ChangedImages DEF UpdatesInv
<1>9. Replaced(Newest, Newest', c, i, x)
    BY <1>7, <1>8, ReplacedIs
<1>10. PICK r : r = [H EXCEPT !.size = H.pos]
    OBVIOUS
<1>11. r.of = H.of /\ r.first = H.first /\ r.cur = H.cur /\ r.pos = H.pos /\ r.at = H.at
    BY <1>2, <1>10 DEF HandleRecords
<1>12. \A k \in Handles : handle'[k] = IF k = "file" THEN r ELSE handle[k]
    <2>1. handle' = [handle EXCEPT !["file"] = r]
        BY <1>1, <1>3, <1>10
    <2> QED
        BY <2>1 DEF UpdatesInv, HandlesInv
<1>13. PICK img, new, h, k, dirs, own :
           /\ img = Newest /\ new = Newest' /\ h = handle["file"] /\ k = handle'["file"]
           /\ dirs = DirClusters(handle, op) /\ own = Writes
    OBVIOUS
<1>14. /\ op'.call = op.call /\ op'.name = op.name /\ op'.todo = op.todo /\ op'.links = <<>>
       /\ op'.items = op.items /\ op'.cluster = op.cluster /\ op'.pc = "flush"
    BY <1>1, <1>2 DEF Ops
<1>15. Due' = "lines" /\ FilePc = "size" /\ FilePc' = "flush"
    BY <1>2, <1>3, <1>14 DEF Due, FilePc
<1>16. DirClusters(handle', op') = dirs /\ Writes' = own
    <2>1. \A y \in Handles : /\ handle'[y].first = handle[y].first /\ handle'[y].cur = handle[y].cur
                             /\ handle'[y].at = handle[y].at
        BY <1>3, <1>11, <1>12
    <2> QED
        BY <1>13, <1>14, <2>1 DEF DirClusters, Writes, Handles
<1>17. c \in dirs
    BY <1>1, <1>3, <1>4, <1>5, <1>13 DEF DirClusters
<1>18. Backed(new) /\ FileClaims(new, <<>>, h, dirs, own, "flush")
    <2>1. h \in HandleRecords /\ x = Short(h.of, h.first, h.pos) /\ h.of \in Files /\ h.pos # 0
        BY <1>1, <1>2, <1>3, <1>6, <1>13 DEF HandleRecords
    <2>2. Backed(img) /\ FileClaims(img, <<>>, h, dirs, own, "size") /\ Replaced(img, new, c, i, x)
        BY <1>2, <1>9, <1>13, <1>15 DEF BackInv
    <2> QED
        BY <1>17, <2>1, <2>2, SizeItem
<1>19. k.of = h.of /\ k.first = h.first /\ k.cur = h.cur /\ k.pos = h.pos
    BY <1>3, <1>11, <1>12, <1>13 DEF Handles
<1>20. FileClaims(new, <<>>, k, dirs, own, "flush")
    BY <1>18, <1>19 DEF FileClaims, OwnEntry, Standing, AtEnd
<1>21. Counted'
    <2>1. Counted
        BY DEF BackInv
    <2>2. op.items = <<>>
        BY <1>2, <1>3, <2>1 DEF Counted
    <2>3. \A j \in 1 .. Len(<<>>) : FALSE
        OBVIOUS
    <2> QED
        BY <1>1, <1>13, <1>14, <1>15, <1>16, <1>19, <1>2, <1>3, <2>1, <2>2, <2>3 DEF Counted
<1>22. FileClaims(Newest', op'.links, handle'["file"], DirClusters(handle', op'), Writes', FilePc')
    BY <1>13, <1>14, <1>15, <1>16, <1>20
<1> QED
    BY <1>8, <1>13, <1>18, <1>21, <1>22, WrittenIsBacked, BackAfter

LEMMA CallersBacked ==
    ASSUME UpdatesInv, BackInv,
           \/ OpenFatInit \/ CreateDir \/ \E f \in Files : lines[f] = 0 /\ CreateFile(f)
           \/ \E n \in 1 .. 2 : fat_write(n)
    PROVE  BackInv'
<1>1. op = Idle /\ UNCHANGED <<cache, handle>>
    BY DEF OpenFatInit, CreateDir, CreateFile, fat_write
<1>2. op.links = <<>> /\ op.todo = <<>> /\ op.call = "none" /\ op.cluster = 0
    BY <1>1, IdleIs DEF Idle
<1>3. KeptImages
    BY <1>1, UntouchedImages DEF cache
<1>4. op'.links = <<>> /\ op'.cluster = 0 /\ op'.pc = "start"
    BY DEF OpenFatInit, CreateDir, CreateFile, fat_write, Call, Idle
<1>5. FilePc = "start" /\ FilePc' = "start"
    BY <1>2, <1>4 DEF FilePc, Due
<1>6. DirClusters(handle', op') = DirClusters(handle, op)
    BY <1>1, <1>2, <1>4 DEF DirClusters
<1>7. PICK h, f : h = handle["file"] /\ f = h.of
    OBVIOUS
<1>8. f # NoName => h.pos = lines[f] /\ f \in Files
    <2>1. Counted /\ ~Writes
        BY <1>2 DEF BackInv, Writes
    <2>2. h.pos \in Nat /\ f \in Files \cup {NoName}
        BY <1>7 DEF UpdatesInv, HandlesInv, Handles, HandleRecords
    <2> QED
        BY <1>7, <2>1, <2>2 DEF Counted
<1>9. Counted'
    <2>1. CASE \E n \in 1 .. 2 : fat_write(n)
        <3>1. PICK n \in 1 .. 2 : fat_write(n)
            BY <2>1
        <3>2. f # NoName /\ lines' = [lines EXCEPT ![f] = @ + n]
            BY <1>7, <3>1 DEF fat_write
        <3>3. /\ op'.todo = <<"lines">> /\ op'.call = "fat_write"
              /\ op'.items = [i \in 1 .. n |-> Line(f, lines[f] + i)]
            BY <1>7, <3>1 DEF fat_write, Idle
        <3>4. Len(op'.items) = n /\ \A i \in 1 .. n : op'.items[i] = Line(f, lines[f] + i)
            <4>1. Len([i \in 1 .. n |-> Line(f, lines[f] + i)]) = n
                OBVIOUS
            <4> QED
                BY <3>3, <4>1
        <3>5. lines'[f] = lines[f] + n
            BY <1>8, <3>2 DEF UpdatesInv, Counts
        <3>6. h.pos = lines[f] /\ handle'["file"] = h
            BY <1>1, <1>7, <1>8, <3>2
        <3>7. h.pos + Len(op'.items) = lines'[f]
            BY <3>4, <3>5, <3>6
        <3>8. \A i \in 1 .. Len(op'.items) : op'.items[i] = Line(f, h.pos + i)
            BY <3>4, <3>6
        <3>9. Writes'
            BY <3>3 DEF Writes
        <3>10. /\ op'.pc \notin {"first", "size", "flush"} /\ op'.call # "CreateFile"
            BY <1>4, <3>3
        <3> QED
            BY <1>7, <3>6, <3>7, <3>8, <3>9, <3>10 DEF Counted
    <2>2. CASE OpenFatInit \/ CreateDir \/ \E g \in Files : lines[g] = 0 /\ CreateFile(g)
        <3>1. \/ op'.todo = <<"mbr", "volume">>
              \/ op'.todo = <<"exists", "seek", "long", "cluster", "short", "open", "blank", "dots", "chdir">>
              \/ op'.todo = <<"exists", "seek", "long", "short", "open">>
            BY <2>2 DEF OpenFatInit, CreateDir, CreateFile, Call, Idle
        <3>7. op'.call # "fat_write" /\ UNCHANGED lines
            BY <2>2 DEF OpenFatInit, CreateDir, CreateFile, Call, Idle, history
        <3>2. op'.call = "CreateFile" => lines[op'.name] = 0
            <4>1. CASE OpenFatInit \/ CreateDir
                <5>1. op'.call \in {"OpenFatInit", "CreateDir"}
                    BY <4>1 DEF OpenFatInit, CreateDir, Call, Idle
                <5> QED
                    BY <5>1
            <4>2. CASE \E g \in Files : lines[g] = 0 /\ CreateFile(g)
                <5>1. PICK g \in Files : lines[g] = 0 /\ CreateFile(g)
                    BY <4>2
                <5>2. op'.name = g
                    BY <5>1 DEF CreateFile, Call, Idle
                <5> QED
                    BY <5>1, <5>2
            <4> QED
                BY <2>2, <4>1, <4>2
        <3>3. Due' \in {"mbr", "exists"}
            <4>1. PICK t : t = op'.todo
                OBVIOUS
            <4>2. t # <<>> /\ Head(t) \in {"mbr", "exists"}
                BY <3>1, <4>1
            <4> QED
                BY <4>1, <4>2 DEF Due
        <3>4. Writes' = FALSE
            BY <3>7 DEF Writes
        <3>5. f # NoName => h.pos + 0 = lines[f]
            BY <1>7, <1>8 DEF UpdatesInv, HandlesInv, Handles, HandleRecords
        <3>6. handle'["file"] = h
            BY <1>1, <1>7
        <3> QED
            BY <1>7, <3>2, <3>3, <3>4, <3>5, <3>6, <3>7 DEF Counted
    <2> QED
        BY <2>1, <2>2
<1> QED
    BY <1>1, <1>2, <1>3, <1>4, <1>5, <1>6, <1>9, BackKept

\* Without an open file and a mounted volume there is nothing to claim.
LEMMA NothingClaimed ==
    ASSUME NEW img, NEW hs, hs = [k \in {"cwd", "file", "dir"} |-> NoHandle],
           NEW o, o = Idle, NEW own, NEW pc
    PROVE  FileClaims(img, o.links, hs["file"], DirClusters(hs, o), own, pc)
<1>1. hs["file"] = NoHandle /\ hs["cwd"] = NoHandle /\ hs["dir"] = NoHandle
    OBVIOUS
<1>2. NoHandle.first = 0 /\ NoHandle.cur = 0 /\ NoHandle.pos = 0 /\ NoHandle.at = <<>>
    BY DEF NoHandle
<1>3. o.links = <<>> /\ o.cluster = 0
    BY DEF Idle
<1>4. DirClusters(hs, o) = {}
    <2>1. 0 \notin Clusters
        BY ConstantsAre
    <2> QED
        BY <1>1, <1>2, <1>3, <2>1 DEF DirClusters
<1>5. \A i \in 1 .. Len(<<>>) : FALSE
    OBVIOUS
<1>6. Aside(img, <<>>, 0, {}, own)
    BY <1>5 DEF Aside
<1> QED
    BY <1>1, <1>2, <1>3, <1>4, <1>6 DEF FileClaims, OwnEntry, Standing

LEMMA PowerCutBacked ==
    ASSUME UpdatesInv, BackInv, PowerCut
    PROVE  BackInv'
<1>1. /\ card' \in Survivors /\ undo' = <<>> /\ dirty' = FALSE /\ op' = Idle
      /\ handle' = [h \in {"cwd", "file", "dir"} |-> NoHandle]
    BY DEF PowerCut, PowerUp
<1>2. Backed(card') /\ DOMAIN card' = DOMAIN card
    <2>1. Backed(card')
        BY <1>1 DEF BackInv
    <2>2. DOMAIN card' = DOMAIN card
        BY <1>1 DEF Survivors
    <2> QED
        BY <2>1, <2>2
<1>3. \A s \in Sectors : FirstLba + s \in DOMAIN card'
    BY <1>2, BlocksAre DEF UpdatesInv, CacheInv, CardHolds
<1>4. Alike(Newest', card')
    BY <1>1, <1>3 DEF Alike, Newest
<1>5. ASSUME NEW img \in Survivors' PROVE Alike(img, card')
    <2> DEFINE same == [l \in DOMAIN card' |-> IF l \in DOMAIN undo' THEN undo'[l] ELSE card'[l]]
    <2>1. Alike(same, card')
        BY <1>1, <1>3 DEF Alike
    <2>2. Survivors' = {card', same}
        BY DEF Survivors
    <2> QED
        BY <2>1, <2>2 DEF Alike
<1>6. Backed(Newest') /\ \A img \in Survivors' : Backed(img)
    BY <1>2, <1>4, <1>5, BackedReads
<1>7. Counted'
    <2>1. op'.todo = <<>> /\ op'.call = "none"
        BY <1>1, IdleIs DEF Idle
    <2>2. handle'["file"].of = NoName
        BY <1>1 DEF NoHandle
    <2> QED
        BY <2>1, <2>2 DEF Counted, Due
<1>8. PICK img, hs, o, own, pc :
          img = Newest' /\ hs = handle' /\ o = op' /\ own = Writes' /\ pc = FilePc'
    OBVIOUS
<1>9. FileClaims(img, o.links, hs["file"], DirClusters(hs, o), own, pc)
    BY <1>1, <1>8, NothingClaimed
<1> QED
    BY <1>6, <1>7, <1>8, <1>9, BackAfter

LEMMA InitialBacked ==
    ASSUME Init
    PROVE  BackInv
<1>1. /\ op = Idle /\ ~dirty /\ undo = <<>> /\ card = FreshCard
      /\ handle = [h \in {"cwd", "file", "dir"} |-> NoHandle]
    BY DEF Init
<1>2. DOMAIN card = 0 .. FirstLba + Last /\ \A s \in Sectors : FirstLba + s \in DOMAIN card
    <2>1. Last \in Nat /\ FirstLba \in Nat
        BY ConstantsAre DEF Last, DataSector
    <2>2. DOMAIN card = 0 .. FirstLba + Last
        BY <1>1 DEF FreshCard, Last
    <2> QED
        BY <2>1, <2>2 DEF Sectors
<1>3. ASSUME NEW p \in Places PROVE ~FileAt(card, p)
    <2>1. PICK c \in Clusters, i \in 1 .. Slots :
              p = <<DataSector(c), i>> /\ p[1] = DataSector(c) /\ p[2] = i
        BY PlacesAre
    <2> DEFINE l == FirstLba + DataSector(c)
    <2>2. /\ l \in Nat /\ l # Mbr /\ ~(l < FirstLba) /\ l # FirstLba + BootSector
          /\ ~(l < FirstLba + DataSector(2))
        BY ConstantsAre DEF DataSector, BootSector, Mbr, Clusters
    <2>3. l \in 0 .. FirstLba + DataSector(cluster_count + 1)
        BY <1>2, SectorsAre DEF Last
    <2>4. \/ FreshCard[l] = [k \in 1 .. Slots |-> IF k <= RootLabels THEN Label ELSE Zero]
          \/ FreshCard[l] = [k \in 1 .. Slots |-> Junk]
        <3> HIDE DEF l
        <3> QED
            BY <2>2, <2>3 DEF FreshCard
    <2>5. FreshCard[l][i] \in {Label, Zero, Junk}
        <3> HIDE DEF l
        <3> QED
            BY <2>4
    <2>6. ItemAt(card, p) \in {Label, Zero, Junk}
        BY <1>1, <2>1, <2>5 DEF ItemAt
    <2> QED
        BY <2>6 DEF FileAt, Label, Zero, Junk
<1>4. Backed(card)
    BY <1>3 DEF Backed
<1>5. Alike(Newest, card)
    BY <1>1, <1>2 DEF Alike, Newest
<1>6. \A img \in Survivors : Alike(img, card)
    <2> DEFINE same == [l \in DOMAIN card |-> IF l \in DOMAIN undo THEN undo[l] ELSE card[l]]
    <2>1. Alike(same, card)
        BY <1>1, <1>2 DEF Alike
    <2>2. Survivors = {card, same} /\ Alike(card, card)
        BY DEF Survivors, Alike
    <2> QED
        BY <2>1, <2>2
<1>7. Backed(Newest) /\ \A img \in Survivors : Backed(img)
    BY <1>4, <1>5, <1>6, BackedReads
<1>8. Counted
    <2>1. op.todo = <<>> /\ op.call = "none"
        BY <1>1, IdleIs DEF Idle
    <2>2. handle["file"].of = NoName
        BY <1>1 DEF NoHandle
    <2> QED
        BY <2>1, <2>2 DEF Counted, Due
<1>9. FileClaims(Newest, op.links, handle["file"], DirClusters(handle, op), Writes, FilePc)
    BY <1>1, NothingClaimed
<1> QED
    BY <1>7, <1>8, <1>9 DEF BackInv

LEMMA StepBacked ==
    ASSUME TwoCopies, UpdatesInv, ChainsInv, BackInv, [Next]_vars
    PROVE  BackInv'
<1>1. CASE Step
    <2>1. CASE SetLink
        BY <2>1, SetLinkBacked
    <2>2. CASE FindEntry \/ EndOfDirectory \/ SeekEmpty \/ SearchOn \/ WalkOn \/ PastEnd
        BY <2>2, FindEntryBacked, SearchBacked
    <2>3. CASE FirstCluster \/ DirectoryCluster \/ NextCluster
        BY <2>3, FirstClusterBacked, DirectoryClusterBacked, NextClusterBacked
    <2>4. CASE StartWrite \/ WriteItem \/ ClearCluster \/ SyncEntry
        BY <2>4, StartWriteBacked, WriteItemBacked, ClearClusterBacked, SyncEntryBacked
    <2>5. CASE FlushBeforeClear \/ SyncFlush \/ WriteReturns
        BY <2>5, FlushBacked
    <2>6. CASE BlankDirectory \/ mbr_partition_init \/ fat_vol_init
        BY <2>6, MountBacked
    <2> QED
        BY <1>1, <2>1, <2>2, <2>3, <2>4, <2>5, <2>6 DEF Step
<1>2. CASE \/ OpenFatInit \/ CreateDir \/ \E f \in Files : lines[f] = 0 /\ CreateFile(f)
           \/ \E n \in 1 .. 2 : fat_write(n)
    BY <1>2, CallersBacked
<1>3. CASE PowerCut
    BY <1>3, PowerCutBacked
<1>4. CASE UNCHANGED vars
    <2>1. UNCHANGED <<cache, op, handle, lines>>
        BY <1>4 DEF vars, calls, history
    <2>2. Newest' = Newest /\ Survivors' = Survivors
        BY <2>1 DEF Newest, Survivors, cache
    <2>3. /\ Writes' = Writes /\ FilePc' = FilePc
          /\ DirClusters(handle', op') = DirClusters(handle, op)
        BY <2>1 DEF Writes, FilePc, Due
    <2>4. Counted'
        BY <2>1 DEF BackInv, Counted, Writes, Due
    <2> QED
        BY <2>1, <2>2, <2>3, <2>4 DEF BackInv
<1> QED
    BY <1>1, <1>2, <1>3, <1>4 DEF Next

LEMMA BackInvHolds ==
    ASSUME TwoCopies
    PROVE  Spec => [](UpdatesInv /\ ChainsInv /\ BackInv)
<1>1. Init => BackInv
    BY InitialBacked
<1>2. (UpdatesInv /\ ChainsInv) /\ BackInv /\ [Next]_vars => BackInv'
    BY StepBacked
<1>3. Spec => [](UpdatesInv /\ ChainsInv)
    BY ChainsInvHolds
<1> QED
    BY <1>1, <1>2, <1>3, PTL DEF Spec

\* However often the power goes, and between any two sectors, an entry that a
\* search finds has no line that fat_write was not given at that place, nor
\* more lines than its chain holds.
THEOREM LinesBehindEntries ==
    ASSUME TwoCopies
    PROVE  Spec => []EntriesBehindData
<1>1. UpdatesInv /\ ChainsInv /\ BackInv => EntriesBehindData
    <2> SUFFICES ASSUME UpdatesInv, ChainsInv, BackInv, NEW img \in Survivors, NEW f \in Files,
                        NEW e \in FileEntries(img, f)
                 PROVE  LET items == ItemsAlong(img, ChainOn(img, e[3]))
                        IN  /\ e[4] <= Len(items) /\ e[4] <= lines[f]
                            /\ \A i \in 1 .. e[4] : items[i] = Line(f, i)
        BY DEF EntriesBehindData
    <2>1. CardHolds(img) /\ Rooted(img) /\ Backed(img) /\ Counts
        BY SurvivorsHold DEF UpdatesInv, ChainsInv, BackInv
    <2> QED
        BY <2>1, BackedEntries
<1>2. Spec => [](UpdatesInv /\ ChainsInv /\ BackInv)
    BY BackInvHolds
<1> QED
    BY <1>1, <1>2, PTL

=============================================================================
