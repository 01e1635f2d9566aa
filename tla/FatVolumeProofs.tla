-------------------------- MODULE FatVolumeProofs ---------------------------
(***************************************************************************)
(* Proofs about FatVolume: who owns which cluster, for every geometry of   *)
(* the card, and where a position in a file lies.                          *)
(***************************************************************************)
EXTENDS FatVolume, NatLemmas, SequenceTheorems, TLAPS

-----------------------------------------------------------------------------
(* The inductive invariant                                                 *)

Links   == Clusters \cup {0, Eoc}
Entries == [first : Clusters \cup {0}, size : Nat, at : Int]
Handles(owners) ==
    [of : owners, first : Clusters \cup {0}, cur : Links, pos : Nat, size : Nat]
UnitValues == Values \cup Files \cup {Zero, LongName, Deleted}
Ops == [pc : {"idle", "seek", "write", "read", "unlink"}, h : Owners \cup {NoFile},
        name : Files \cup {NoFile}, n : Nat, sector : Int, offset : 0 .. BPS - 1,
        val : UnitValues, at : Int, cluster : Links]

Types ==
    /\ fat \in [Clusters -> Links]
    /\ last_cluster_alloc \in Clusters
    /\ entry \in [Files -> Entries]
    /\ disk \in [Units -> UnitValues]
    /\ file \in Handles(Files \cup {NoFile})
    /\ cwd \in Handles({Dir})
    /\ op \in Ops
    /\ chain \in [Owners -> Seq(Clusters)]

\* Whose handle the call in progress uses, and which name.
Whose ==
    /\ op.pc = "read" => op.h = file.of /\ op.h \in Files
    /\ op.pc \in {"seek", "write"} =>
          \/ op.h = Dir /\ op.name \in Files /\ entry[op.name] = NoEntry
          \/ op.h = file.of /\ op.h \in Files
    /\ op.pc = "unlink" => op.name \in Files \ {file.of}

\* No call touches the clusters of other files.
OthersKept == \A c \in Occupied : fat[c] = Eoc /\ \A o \in Owners : c \notin In(o)

Held == ChainsDisjoint /\ FatHoldsChains /\ OthersKept

Freed(f) == op.pc = "unlink" /\ op.name = f

First(o) == IF chain[o] = <<>> THEN 0 ELSE chain[o][1]

\* The open handle or else the entry knows where the chain starts; of a chain
\* that is being freed, the loop that frees it does.
Heads ==
    /\ cwd.first = Root
    /\ chain[Dir] # <<>> /\ chain[Dir][1] = Root
    /\ \A f \in Files : ~Freed(f) =>
          /\ First(f) = IF f = file.of THEN file.first ELSE entry[f].first
          /\ chain[f] = <<>> => entry[f].size = 0
    /\ op.pc = "unlink" =>
          IF chain[op.name] = <<>> THEN op.cluster \notin Clusters
          ELSE op.cluster = chain[op.name][1]

\* The open handle agrees with its entry, but for a chain that fat_write has
\* started and has not yet written to the entry.
Synced ==
    /\ file.of \in Files => file.size = entry[file.of].size
    /\ file.of = NoFile => file.size = 0
    /\ file.of \in Files /\ entry[file.of].first # file.first =>
          /\ op.pc = "write" /\ op.h = file.of
          /\ file.size = 0
          /\ op.n > 0 \/ file.pos > 0

\* Handles stay in their chains.
Inside ==
    /\ file.of \in Files =>
          \/ file.cur \in In(file.of) \cup {Eoc}
          \/ file.cur = 0 /\ chain[file.of] = <<>>
    /\ cwd.cur \in In(Dir) \cup {Eoc}
    /\ op.pc = "write" \/ (op.pc = "read" /\ op.n > 0) => h.cur \in In(op.h)
    /\ file.pos <= file.size \/ (op.pc = "write" /\ op.h = file.of)
    /\ op.pc = "read" => file.pos + op.n <= file.size

VolumeInv == Types /\ Whose /\ Held /\ Heads /\ Synced /\ Inside

-----------------------------------------------------------------------------
(* Chains                                                                  *)

LEMMA ClustersAre ==
    /\ \A c \in Clusters : c \in Nat /\ c > 1
    /\ Eoc \in Nat /\ Eoc > 1 /\ Eoc \notin Clusters
    /\ 0 \notin Clusters
    /\ Dir \notin Files /\ NoFile \notin Files /\ NoFile # Dir
BY VolumeAssumption DEF Clusters, Eoc, Owners

LEMMA InTypes ==
    ASSUME Types, NEW o \in Owners
    PROVE  /\ In(o) \subseteq Clusters
           /\ chain[o] \in Seq(Clusters)
           /\ chain[o] = <<>> <=> Len(chain[o]) = 0
           /\ chain[o] = <<>> <=> In(o) = {}
           /\ chain[o] # <<>> => chain[o][1] \in In(o)
<1>1. chain[o] \in Seq(Clusters) /\ Len(chain[o]) \in Nat
    BY DEF Types
<1>2. \A i \in 1 .. Len(chain[o]) : chain[o][i] \in Clusters
    BY <1>1
<1>3. chain[o] = <<>> <=> Len(chain[o]) = 0
    BY <1>1
<1>4. In(o) \subseteq Clusters
    BY <1>2 DEF In
<1>5. Len(chain[o]) > 0 => chain[o][1] \in In(o)
    BY <1>1 DEF In
<1>6. Len(chain[o]) = 0 => In(o) = {}
    BY DEF In
<1> QED
    BY <1>1, <1>3, <1>4, <1>5, <1>6

LEMMA NextInChain ==
    ASSUME Types, Held, NEW o \in Owners, NEW c \in In(o)
    PROVE  fat[c] \in In(o) \cup {Eoc}
<1>1. PICK i \in 1 .. Len(chain[o]) : c = chain[o][i]
    BY DEF In
<1>2. chain[o] \in Seq(Clusters)
    BY DEF Types
<1>3. CASE i = Len(chain[o])
    BY <1>1, <1>3 DEF Held, FatHoldsChains
<1>4. CASE i # Len(chain[o])
    <2>1. i + 1 \in 1 .. Len(chain[o])
        BY <1>2, <1>4
    <2>2. fat[c] = chain[o][i + 1]
        BY <1>1, <1>4 DEF Held, FatHoldsChains
    <2> QED
        BY <2>1, <2>2 DEF In
<1> QED
    BY <1>3, <1>4

\* A free cluster belongs to nobody.
LEMMA FreeIsNobodys ==
    ASSUME Types, Held, NEW c, Free(c)
    PROVE  c \in Clusters /\ c \notin Occupied /\ \A o \in Owners : c \notin In(o)
<1>1. c \in Clusters /\ fat[c] = 0
    BY VolumeAssumption DEF Free, NextCluster, Clusters
<1>2. c \notin Occupied
    BY <1>1, ClustersAre DEF Held, OthersKept
<1>3. \A o \in Owners : c \notin In(o)
    BY <1>1, ClustersAre, NextInChain, InTypes
<1> QED
    BY <1>1, <1>2, <1>3

\* Held in other words: with at, the place of a cluster in its chain.
LEMMA Disjoint ==
    ASSUME Types, ChainsDisjoint, NEW o \in Owners, NEW p \in Owners,
           NEW i \in 1 .. Len(chain[o]), NEW j \in 1 .. Len(chain[p]), chain[o][i] = chain[p][j]
    PROVE  o = p /\ i = j
BY DEF ChainsDisjoint

LEMMA StartHolds ==
    ASSUME Types, Held, NEW o \in Owners, chain[o] = <<>>, NEW c, StartChain(o, c)
    PROVE  /\ Held'
           /\ fat' \in [Clusters -> Links] /\ last_cluster_alloc' \in Clusters
           /\ chain' \in [Owners -> Seq(Clusters)]
           /\ c \in Clusters /\ chain'[o] = <<c>> /\ In(o)' = {c}
           /\ \A p \in Owners \ {o} : chain'[p] = chain[p] /\ In(p)' = In(p)
<1>1. Free(c) /\ c \in Clusters /\ c \notin Occupied /\ \A p \in Owners : c \notin In(p)
    BY FreeIsNobodys DEF StartChain, fat_find_free_cluster
<1>2. /\ fat' = [fat EXCEPT ![c] = Eoc] /\ last_cluster_alloc' = c
      /\ chain' = [chain EXCEPT ![o] = <<c>>]
    BY DEF StartChain, Linked
<1>3. fat' \in [Clusters -> Links] /\ chain' \in [Owners -> Seq(Clusters)]
    BY <1>1, <1>2 DEF Types, Links
<1>4. chain'[o] = <<c>> /\ \A p \in Owners \ {o} : chain'[p] = chain[p]
    BY <1>2 DEF Types
<1>5. \A d \in Clusters : fat'[d] = IF d = c THEN Eoc ELSE fat[d]
    BY <1>1, <1>2 DEF Types
<1>6. In(o)' = {c} /\ \A p \in Owners \ {o} : In(p)' = In(p)
    BY <1>4 DEF In
<1>7. \A p \in Owners \ {o} : \A i \in 1 .. Len(chain[p]) : chain[p][i] # c /\ chain[p][i] \in Clusters
    BY <1>1, InTypes DEF In
<1>8. ChainsDisjoint'
    BY <1>4, <1>7 DEF ChainsDisjoint, Held
<1>9. FatHoldsChains'
    <2>1. \A p \in Owners : \A i \in 1 .. Len(chain'[p]) :
              fat'[chain'[p][i]] = IF i = Len(chain'[p]) THEN Eoc ELSE chain'[p][i + 1]
        BY <1>1, <1>4, <1>5, <1>7 DEF Held, FatHoldsChains
    <2>2. ASSUME NEW d \in Clusters, fat'[d] # 0, d \notin Occupied
          PROVE  \E p \in Owners : d \in In(p)'
        <3>1. CASE d = c
            BY <1>6, <3>1
        <3>2. CASE d # c
            <4>1. PICK p \in Owners : d \in In(p)
                BY <1>5, <2>2, <3>2 DEF Held, FatHoldsChains
            <4>2. p # o
                BY <4>1, InTypes
            <4> QED
                BY <1>6, <4>1, <4>2
        <3> QED
            BY <3>1, <3>2
    <2> QED
        BY <2>1, <2>2 DEF FatHoldsChains
<1>10. OthersKept'
    BY <1>1, <1>5, <1>6, VolumeAssumption DEF Held, OthersKept
<1> QED
    BY <1>1, <1>2, <1>3, <1>4, <1>6, <1>8, <1>9, <1>10 DEF Held

LEMMA ExtendHolds ==
    ASSUME Types, Held, NEW o \in Owners, NEW last \in In(o), fat[last] = Eoc,
           NEW c, ExtendChain(o, last, c)
    PROVE  /\ Held'
           /\ fat' \in [Clusters -> Links] /\ last_cluster_alloc' \in Clusters
           /\ chain' \in [Owners -> Seq(Clusters)]
           /\ c \in Clusters /\ In(o)' = In(o) \cup {c}
           /\ chain'[o] = Append(chain[o], c)
           /\ last = chain[o][Len(chain[o])]
           /\ chain'[o] # <<>> /\ chain'[o][1] = chain[o][1]
           /\ \A p \in Owners \ {o} : chain'[p] = chain[p] /\ In(p)' = In(p)
<1> DEFINE n == Len(chain[o])
<1>1. Free(c) /\ c \in Clusters /\ c \notin Occupied /\ \A p \in Owners : c \notin In(p)
    BY FreeIsNobodys DEF ExtendChain, fat_find_free_cluster
<1>2. /\ fat' = [[fat EXCEPT ![c] = Eoc] EXCEPT ![last] = c] /\ last_cluster_alloc' = c
      /\ chain' = [chain EXCEPT ![o] = Append(chain[o], c)]
    BY DEF ExtendChain, Linked
<1>3. last \in Clusters /\ chain[o] \in Seq(Clusters) /\ last # c
    BY <1>1, InTypes
<1>4. fat' \in [Clusters -> Links] /\ chain' \in [Owners -> Seq(Clusters)]
    <2>1. Append(chain[o], c) \in Seq(Clusters)
        BY <1>1, <1>3
    <2> QED
        BY <1>1, <1>2, <1>3, <2>1 DEF Types, Links
<1>5. chain'[o] = Append(chain[o], c) /\ \A p \in Owners \ {o} : chain'[p] = chain[p]
    BY <1>2 DEF Types
<1>6. \A d \in Clusters : fat'[d] = IF d = c THEN Eoc ELSE IF d = last THEN c ELSE fat[d]
    BY <1>1, <1>2, <1>3 DEF Types
<1>7. n \in Nat /\ Len(chain'[o]) = n + 1 /\ chain'[o][n + 1] = c
      /\ \A i \in 1 .. n : chain'[o][i] = chain[o][i]
    BY <1>3, <1>5
<1>8. n > 0 /\ last = chain[o][n]
    <2>1. PICK i \in 1 .. n : last = chain[o][i]
        BY DEF In
    <2>2. i = n
        <3> SUFFICES ASSUME i # n PROVE FALSE
            OBVIOUS
        <3>1. i + 1 \in 1 .. n
            BY <1>7
        <3>2. fat[last] = chain[o][i + 1]
            BY <2>1 DEF Held, FatHoldsChains
        <3>3. chain[o][i + 1] \in Clusters
            BY <1>3, <3>1
        <3> QED
            BY <3>2, <3>3, ClustersAre
    <2> QED
        BY <1>7, <2>1, <2>2
<1>9. In(o)' = In(o) \cup {c} /\ \A p \in Owners \ {o} : In(p)' = In(p)
    <2>1. In(o)' = {chain'[o][i] : i \in 1 .. n + 1}
        BY <1>7 DEF In
    <2> QED
        BY <1>5, <1>7, <2>1 DEF In
<1>10. \A p \in Owners : \A i \in 1 .. Len(chain[p]) :
           /\ chain[p][i] # c /\ chain[p][i] \in Clusters
           /\ chain[p][i] = last <=> p = o /\ i = n
    <2> SUFFICES ASSUME NEW p \in Owners, NEW i \in 1 .. Len(chain[p])
                 PROVE  /\ chain[p][i] # c /\ chain[p][i] \in Clusters
                        /\ chain[p][i] = last <=> p = o /\ i = n
        OBVIOUS
    <2>1. chain[p][i] \in In(p) /\ In(p) \subseteq Clusters
        BY InTypes DEF In
    <2>2. n \in 1 .. Len(chain[o])
        BY <1>7, <1>8
    <2> QED
        BY <1>1, <1>8, <2>1, <2>2 DEF Held, ChainsDisjoint
<1>11. ChainsDisjoint'
    <2> SUFFICES ASSUME NEW p \in Owners, NEW q \in Owners, NEW i \in 1 .. Len(chain'[p]),
                        NEW j \in 1 .. Len(chain'[q]), chain'[p][i] = chain'[q][j]
                 PROVE  p = q /\ i = j
        BY DEF ChainsDisjoint
    <2>1. ASSUME NEW r \in Owners, NEW k \in 1 .. Len(chain'[r])
          PROVE  \/ r = o /\ k = n + 1 /\ chain'[r][k] = c
                 \/ k \in 1 .. Len(chain[r]) /\ chain'[r][k] = chain[r][k]
        <3>1. CASE r = o
            <4>1. k = n + 1 \/ k \in 1 .. n
                BY <1>7, <3>1
            <4> QED
                BY <1>7, <3>1, <4>1
        <3>2. CASE r # o
            BY <1>5, <3>2
        <3> QED
            BY <3>1, <3>2
    <2>2. \/ p = o /\ i = n + 1 /\ chain'[p][i] = c
          \/ i \in 1 .. Len(chain[p]) /\ chain'[p][i] = chain[p][i]
        BY <2>1
    <2>3. \/ q = o /\ j = n + 1 /\ chain'[q][j] = c
          \/ j \in 1 .. Len(chain[q]) /\ chain'[q][j] = chain[q][j]
        BY <2>1
    <2> QED
        BY <1>10, <2>2, <2>3 DEF Held, ChainsDisjoint
<1>12. FatHoldsChains'
    <2>1. ASSUME NEW p \in Owners, NEW i \in 1 .. Len(chain'[p])
          PROVE  fat'[chain'[p][i]] = IF i = Len(chain'[p]) THEN Eoc ELSE chain'[p][i + 1]
        <3>1. CASE p = o
            <4>1. CASE i = n + 1
                BY <1>1, <1>6, <1>7, <3>1, <4>1
            <4>2. CASE i = n
                BY <1>3, <1>6, <1>7, <1>8, <3>1, <4>2
            <4>3. CASE i \in 1 .. n - 1
                <5>1. fat[chain[o][i]] = chain[o][i + 1] /\ i + 1 \in 1 .. n
                    BY <1>7, <4>3 DEF Held, FatHoldsChains
                <5>2. fat'[chain[o][i]] = fat[chain[o][i]]
                    <6>1. i \in 1 .. Len(chain[o]) /\ i # n
                        BY <1>7, <4>3
                    <6> QED
                        BY <1>6, <1>10, <6>1
                <5> QED
                    BY <1>7, <3>1, <4>3, <5>1, <5>2
            <4> QED
                BY <1>7, <3>1, <4>1, <4>2, <4>3
        <3>2. CASE p # o
            <4>1. i \in 1 .. Len(chain[p]) /\ chain'[p] = chain[p]
                BY <1>5, <3>2
            <4>2. fat'[chain[p][i]] = fat[chain[p][i]]
                BY <1>6, <1>10, <3>2, <4>1
            <4> QED
                BY <4>1, <4>2 DEF Held, FatHoldsChains
        <3> QED
            BY <3>1, <3>2
    <2>2. ASSUME NEW d \in Clusters, fat'[d] # 0, d \notin Occupied
          PROVE  \E p \in Owners : d \in In(p)'
        <3>1. CASE d = c \/ d = last
            BY <1>9, <3>1
        <3>2. CASE d # c /\ d # last
            BY <1>6, <1>9, <2>2, <3>2 DEF Held, FatHoldsChains
        <3> QED
            BY <3>1, <3>2
    <2> QED
        BY <2>1, <2>2 DEF FatHoldsChains
<1>13. OthersKept'
    <2>1. last \notin Occupied
        BY DEF Held, OthersKept
    <2> QED
        BY <1>1, <1>6, <1>9, <2>1, VolumeAssumption DEF Held, OthersKept
<1>14. chain'[o] # <<>> /\ chain'[o][1] = chain[o][1]
    BY <1>7, <1>8
<1> QED
    BY <1>1, <1>2, <1>4, <1>5, <1>8, <1>9, <1>11, <1>12, <1>13, <1>14 DEF Held

LEMMA UnlinkHolds ==
    ASSUME Types, Held, NEW o \in Owners, chain[o] # <<>>,
           fat' = Linked(fat, chain[o][1], 0), chain' = [chain EXCEPT ![o] = Tail(@)]
    PROVE  /\ Held'
           /\ fat' \in [Clusters -> Links]
           /\ chain' \in [Owners -> Seq(Clusters)]
           /\ IF chain'[o] = <<>> THEN fat[chain[o][1]] \notin Clusters
              ELSE fat[chain[o][1]] = chain'[o][1]
           /\ \A p \in Owners \ {o} : chain'[p] = chain[p] /\ In(p)' = In(p)
<1> DEFINE n == Len(chain[o])
<1> DEFINE first == chain[o][1]
<1>1. chain[o] \in Seq(Clusters) /\ first \in Clusters /\ n \in Nat \ {0}
    BY InTypes DEF Types
<1>2. chain'[o] = Tail(chain[o]) /\ \A p \in Owners \ {o} : chain'[p] = chain[p]
    BY DEF Types
<1>3. /\ Tail(chain[o]) \in Seq(Clusters) /\ Len(chain'[o]) = n - 1
      /\ \A i \in 1 .. n - 1 : chain'[o][i] = chain[o][i + 1]
    <2>1. /\ Tail(chain[o]) \in Seq(Clusters) /\ Len(Tail(chain[o])) = n - 1
          /\ \A i \in 1 .. Len(Tail(chain[o])) : Tail(chain[o])[i] = chain[o][i + 1]
        BY <1>1, HeadTailProperties
    <2> QED
        BY <1>2, <2>1
<1>4. fat' \in [Clusters -> Links] /\ chain' \in [Owners -> Seq(Clusters)]
    <2>1. fat' \in [Clusters -> Links]
        BY <1>1 DEF Types, Links, Linked
    <2>2. \A p \in Owners : chain'[p] \in Seq(Clusters)
        BY <1>1, <1>2, <1>3 DEF Types
    <2> QED
        BY <2>1, <2>2 DEF Types
<1>5. \A d \in Clusters : fat'[d] = IF d = first THEN 0 ELSE fat[d]
    BY <1>1 DEF Types, Linked
<1>6. \A p \in Owners : \A i \in 1 .. Len(chain[p]) :
          chain[p][i] \in Clusters /\ (chain[p][i] = first <=> p = o /\ i = 1)
    <2> SUFFICES ASSUME NEW p \in Owners, NEW i \in 1 .. Len(chain[p])
                 PROVE  chain[p][i] \in Clusters /\ (chain[p][i] = first <=> p = o /\ i = 1)
        OBVIOUS
    <2>1. chain[p][i] \in In(p) /\ In(p) \subseteq Clusters
        BY InTypes DEF In
    <2>2. 1 \in 1 .. Len(chain[o])
        BY <1>1
    <2> QED
        BY <2>1, <2>2 DEF Held, ChainsDisjoint
<1>7. ASSUME NEW p \in Owners, NEW i \in 1 .. Len(chain'[p])
      PROVE  \/ p = o /\ i + 1 \in 2 .. Len(chain[o]) /\ chain'[p][i] = chain[o][i + 1]
             \/ p # o /\ i \in 1 .. Len(chain[p]) /\ chain'[p][i] = chain[p][i]
    BY <1>1, <1>2, <1>3, <1>7
<1>8. ChainsDisjoint'
    <2> SUFFICES ASSUME NEW p \in Owners, NEW q \in Owners, NEW i \in 1 .. Len(chain'[p]),
                        NEW j \in 1 .. Len(chain'[q]), chain'[p][i] = chain'[q][j]
                 PROVE  p = q /\ i = j
        BY DEF ChainsDisjoint
    <2>1. \/ p = o /\ i + 1 \in 1 .. Len(chain[o]) /\ chain'[p][i] = chain[o][i + 1]
          \/ p # o /\ i \in 1 .. Len(chain[p]) /\ chain'[p][i] = chain[p][i]
        BY <1>7
    <2>2. \/ q = o /\ j + 1 \in 1 .. Len(chain[o]) /\ chain'[q][j] = chain[o][j + 1]
          \/ q # o /\ j \in 1 .. Len(chain[q]) /\ chain'[q][j] = chain[q][j]
        BY <1>7
    <2>3. i + 1 = j + 1 => i = j
        BY <1>3, <1>4
    <2> QED
        BY <2>1, <2>2, <2>3 DEF Held, ChainsDisjoint
<1>9. FatHoldsChains'
    <2>1. ASSUME NEW p \in Owners, NEW i \in 1 .. Len(chain'[p])
          PROVE  fat'[chain'[p][i]] = IF i = Len(chain'[p]) THEN Eoc ELSE chain'[p][i + 1]
        <3>1. CASE p = o
            <4>1. i + 1 \in 1 .. n /\ i + 1 # 1
                BY <1>1, <1>3, <3>1
            <4>2. fat'[chain[o][i + 1]] = fat[chain[o][i + 1]]
                BY <1>5, <1>6, <4>1
            <4>3. fat[chain[o][i + 1]] = IF i + 1 = n THEN Eoc ELSE chain[o][(i + 1) + 1]
                BY <4>1 DEF Held, FatHoldsChains
            <4>4. CASE i = n - 1
                BY <1>3, <3>1, <4>1, <4>2, <4>3, <4>4
            <4>5. CASE i # n - 1
                <5>1. i + 1 \in 1 .. n - 1
                    BY <1>1, <1>3, <3>1, <4>5
                <5> QED
                    BY <1>3, <3>1, <4>1, <4>2, <4>3, <5>1
            <4> QED
                BY <4>4, <4>5
        <3>2. CASE p # o
            <4>1. i \in 1 .. Len(chain[p]) /\ chain'[p] = chain[p]
                BY <1>2, <3>2
            <4>2. fat'[chain[p][i]] = fat[chain[p][i]]
                BY <1>5, <1>6, <3>2, <4>1
            <4> QED
                BY <4>1, <4>2 DEF Held, FatHoldsChains
        <3> QED
            BY <3>1, <3>2
    <2>2. ASSUME NEW d \in Clusters, fat'[d] # 0, d \notin Occupied
          PROVE  \E p \in Owners : d \in In(p)'
        <3>1. d # first /\ fat[d] # 0
            BY <1>5, <2>2
        <3>2. PICK p \in Owners : \E i \in 1 .. Len(chain[p]) : d = chain[p][i]
            BY <2>2, <3>1 DEF Held, FatHoldsChains, In
        <3> PICK i \in 1 .. Len(chain[p]) : d = chain[p][i]
            BY <3>2
        <3>3. CASE p = o
            <4>1. i # 1 /\ i \in 1 .. n
                BY <3>1, <3>3
            <4>2. i - 1 \in 1 .. Len(chain'[o]) /\ chain'[o][i - 1] = d
                BY <1>1, <1>3, <3>3, <4>1
            <4> QED
                BY <4>2 DEF In
        <3>4. CASE p # o
            BY <1>2, <3>4 DEF In
        <3> QED
            BY <3>3, <3>4
    <2> QED
        BY <2>1, <2>2 DEF FatHoldsChains
<1>10. \A p \in Owners : In(p)' \subseteq In(p)
    <2> SUFFICES ASSUME NEW p \in Owners, NEW i \in 1 .. Len(chain'[p])
                 PROVE  chain'[p][i] \in In(p)
        BY DEF In
    <2>1. \/ p = o /\ i + 1 \in 1 .. Len(chain[o]) /\ chain'[p][i] = chain[o][i + 1]
          \/ p # o /\ i \in 1 .. Len(chain[p]) /\ chain'[p][i] = chain[p][i]
        BY <1>7
    <2> QED
        BY <2>1 DEF In
<1>11. OthersKept'
    <2>1. first \notin Occupied
        BY InTypes DEF Held, OthersKept
    <2> QED
        BY <1>5, <1>10, <2>1, VolumeAssumption DEF Held, OthersKept
<1>12. IF chain'[o] = <<>> THEN fat[first] \notin Clusters ELSE fat[first] = chain'[o][1]
    <2>1. 1 \in 1 .. n
        BY <1>1
    <2>2. fat[first] = IF 1 = n THEN Eoc ELSE chain[o][1 + 1]
        BY <2>1 DEF Held, FatHoldsChains
    <2>3. chain'[o] \in Seq(Clusters)
        BY <1>1, <1>2, <1>3
    <2>4. chain'[o] = <<>> <=> n = 1
        <3>1. chain'[o] = <<>> <=> Len(chain'[o]) = 0
            BY <2>3, EmptySeq
        <3> QED
            BY <1>1, <1>3, <3>1
    <2>5. ASSUME n # 1 PROVE chain'[o][1] = chain[o][1 + 1]
        <3>1. n \in Nat /\ n > 0
            BY <1>1
        <3>2. \A m \in Nat : m > 0 /\ m # 1 => 1 \in 1 .. m - 1
            OBVIOUS
        <3>3. 1 \in 1 .. n - 1
            BY <2>5, <3>1, <3>2
        <3> QED
            BY <1>3, <3>3
    <2>6. CASE n = 1
        BY <2>2, <2>4, <2>6, ClustersAre
    <2>7. CASE n # 1
        BY <2>2, <2>4, <2>5, <2>7
    <2> QED
        BY <2>6, <2>7
<1>13. \A p \in Owners \ {o} : In(p)' = In(p)
    BY <1>2 DEF In
<1> QED
    BY <1>2, <1>4, <1>8, <1>9, <1>11, <1>12, <1>13 DEF Held

-----------------------------------------------------------------------------
(* Handles and loops                                                       *)

LEMMA HandleTypes ==
    ASSUME Types
    PROVE  /\ \A f \in Files : Handle(f, entry[f]) \in Handles(Files \cup {NoFile})
           /\ Rewound \in Handles({Dir})
           /\ NoEntry \in Entries
           /\ Idle \in Ops
<1>1. \A f \in Files : entry[f] \in Entries
    BY DEF Types
<1>2. ASSUME NEW f \in Files PROVE Handle(f, entry[f]) \in Handles(Files \cup {NoFile})
    <2>1. entry[f].first \in Clusters \cup {0} /\ entry[f].size \in Nat
        BY <1>1 DEF Entries
    <2> QED
        BY <2>1 DEF Handle, Handles, Links
<1>3. Rewound \in Handles({Dir})
    BY VolumeAssumption DEF Handle, Rewound, Handles, Links
<1>4. NoEntry \in Entries
    BY DEF NoEntry, Entries
<1>5. Idle \in Ops
    <2>1. 0 \in 0 .. BPS - 1
        BY VolumeAssumption
    <2> QED
        BY <2>1 DEF Idle, Links, Ops, UnitValues
<1> QED
    BY <1>2, <1>3, <1>4, <1>5

LEMMA PlaceTypes ==
    ASSUME NEW x \in Handles(Owners \cup {NoFile})
    PROVE  /\ OffsetOf(x) \in 0 .. BPS - 1
           /\ SectorOf(x) \in Int
           /\ Unit(SectorOf(x), OffsetOf(x)) \in Int
<1>1. x.pos \in Nat /\ x.cur \in Int
    <2>1. x.pos \in Nat /\ x.cur \in Links
        BY DEF Handles
    <2> QED
        BY <2>1, ClustersAre DEF Links
<1>2. OffsetOf(x) \in 0 .. BPS - 1
    BY <1>1, VolumeAssumption DEF OffsetOf
<1>3. fat_first_sector_of_cluster(x.cur) \in Int
    BY <1>1, VolumeAssumption DEF fat_first_sector_of_cluster
<1>4. (x.pos \div BPS) % SPC \in Int
    BY <1>1, VolumeAssumption
<1>5. SectorOf(x) \in Int
    BY <1>3, <1>4 DEF SectorOf
<1> QED
    BY <1>2, <1>5, VolumeAssumption DEF Unit

\* The loop of a transfer starts with a piece to go.
LEMMA LoopTypes ==
    ASSUME Types, NEW pc \in {"write", "read"}, NEW x \in Handles(Owners), NEW n \in Nat,
           NEW v \in UnitValues, Loop(pc, x, n, v)
    PROVE  /\ op' \in Ops /\ op'.pc = pc /\ op'.h = x.of /\ op'.n = n /\ op'.val = v
           /\ op'.name = op.name
BY PlaceTypes DEF Loop, Types, Ops, Handles

LEMMA PieceTypes ==
    ASSUME Types, op.n > 0, h \in Handles(Owners)
    PROVE  /\ Piece \in 1 .. op.n
           /\ Moved = [h EXCEPT !.pos = h.pos + Piece]
           /\ Moved.pos = h.pos + Piece
           /\ Moved \in Handles(Owners)
<1>1. Piece \in 1 .. op.n
    <2>1. op.n \in Nat /\ op.offset \in 0 .. BPS - 1
        BY DEF Types, Ops
    <2> QED
        BY <2>1, VolumeAssumption DEF Piece
<1>2. h.pos + Piece \in Nat
    BY <1>1 DEF Handles, Types, Ops
<1> QED
    BY <1>1, <1>2 DEF Moved, Handles

LEMMA KeptInPlace ==
    ASSUME UNCHANGED <<fat, chain>>
    PROVE  /\ \A o \in Owners : In(o)' = In(o) /\ First(o)' = First(o)
           /\ Held => Held'
BY DEF In, First, Held, ChainsDisjoint, FatHoldsChains, OthersKept

LEMMA FirstIs ==
    ASSUME Types, NEW o \in Owners
    PROVE  /\ First(o) \in Clusters \cup {0}
           /\ First(o) = 0 <=> chain[o] = <<>>
           /\ First(o) # 0 => First(o) \in In(o)
BY InTypes, ClustersAre DEF First

\* Between calls the entry knows the chain, also that of the open file.
LEMMA IdleKnows ==
    ASSUME VolumeInv, op.pc = "idle", NEW f \in Files
    PROVE  entry[f].first = First(f) /\ (chain[f] = <<>> => entry[f].size = 0)
BY DEF VolumeInv, Heads, Synced, Freed

LEMMA RewoundInside == ASSUME Types, Heads PROVE Rewound.cur \in In(Dir) /\ Rewound.first = Root
BY InTypes DEF Rewound, Handle, Heads, Owners

\* There is room for two entries at position i of the directory.
Vacant(i) ==
    \/ DirUnit(i) = Zero
    \/ DirUnit(i) = Deleted /\ DirUnit(i + 1) \in {Zero, Deleted}

\* EmptySlot is the first such position, at most the end of the directory.
LEMMA EmptySlotIs ==
    ASSUME Types
    PROVE  /\ EmptySlot \in 0 .. Len(chain[Dir]) * SPC * BPS
           /\ Vacant(EmptySlot)
           /\ \A i \in Nat : i < EmptySlot => ~Vacant(i)
<1> DEFINE top == Len(chain[Dir]) * SPC * BPS
<1> DEFINE slots == {i \in 0 .. top : Vacant(i)}
<1> DEFINE k == SPC * BPS
<1> DEFINE len == Len(chain[Dir])
<1>1. len \in Nat /\ k \in Nat \ {0} /\ top \in Nat /\ top = k * len
    <2>1. len \in Nat
        BY DEF Types, Owners
    <2>2. top = len * SPC * BPS
        OBVIOUS
    <2> HIDE DEF len, top
    <2>3. SPC \in Nat \ {0} /\ BPS \in Nat \ {0}
        BY VolumeAssumption
    <2>4. k \in Nat \ {0} /\ len * SPC * BPS \in Nat /\ len * SPC * BPS = k * len
        BY <2>1, <2>3, ProductsAre
    <2> QED
        BY <2>1, <2>2, <2>4
<1>2. Vacant(top)
    <2>1. top \div k = len
        <3> HIDE DEF k, len, top
        <3> QED
            BY <1>1, MultipleIs
    <2>2. ~(top \div k < len)
        BY <1>1, <2>1
    <2> QED
        BY <2>2 DEF DirUnit, Placed, Vacant
<1>3. slots \in SUBSET Nat /\ slots # {}
    BY <1>1, <1>2
<1>4. \E i \in slots : \A j \in slots : i <= j
    BY <1>3, LeastOfNat
<1>5. Least(slots) \in slots /\ \A j \in slots : Least(slots) <= j
    BY <1>4 DEF Least
<1>6. EmptySlot = Least(slots)
    BY DEF EmptySlot, Vacant
<1>7. EmptySlot \in slots /\ \A j \in slots : EmptySlot <= j
    BY <1>5, <1>6
<1> QED
    BY <1>1, <1>7

LEMMA OpenKeeps == ASSUME VolumeInv, NEW f \in Files, fat_open(f) PROVE VolumeInv'
<1>1. /\ Types /\ Whose /\ Held /\ Heads /\ Synced /\ Inside
      /\ op.pc = "idle" /\ file' = Handle(f, entry[f])
      /\ UNCHANGED <<fat, last_cluster_alloc, entry, disk, cwd, op, chain>>
    BY DEF VolumeInv, fat_open, Idle
<1>2. Types'
    BY <1>1, HandleTypes DEF Types
<1>3. file'.of = f /\ file'.first = First(f) /\ file'.cur = First(f) /\ file'.pos = 0 /\ file'.size = entry[f].size
    BY <1>1, IdleKnows DEF Handle
<1>4. Whose'
    BY <1>1 DEF Whose
<1>5. Heads'
    BY <1>1, <1>3, IdleKnows, KeptInPlace, ClustersAre DEF Heads, Freed, Owners
<1>6. Synced'
    BY <1>1, <1>3, IdleKnows, ClustersAre DEF Synced
<1>7. Inside'
    <2>1. f \in Owners /\ Dir \in Owners /\ entry[f].size \in Nat
        BY <1>1 DEF Owners, Types, Entries
    <2>2. In(f)' = In(f) /\ In(Dir)' = In(Dir)
        BY <1>1, <2>1, KeptInPlace
    <2> QED
        BY <1>1, <1>3, <2>1, <2>2, FirstIs DEF Inside
<1> QED
    BY <1>1, <1>2, <1>4, <1>5, <1>6, <1>7, KeptInPlace DEF VolumeInv

LEMMA CreateKeeps == ASSUME VolumeInv, NEW f \in Files, fat_create(f) PROVE VolumeInv'
<1>1. /\ Types /\ Whose /\ Held /\ Heads /\ Synced /\ Inside
      /\ op.pc = "idle" /\ entry[f] = NoEntry
      /\ cwd' = [cwd EXCEPT !.pos = EmptySlot, !.cur = cwd.first]
      /\ op' = [Idle EXCEPT !.pc = "seek", !.h = Dir, !.name = f, !.n = EmptySlot]
      /\ UNCHANGED <<fat, last_cluster_alloc, entry, disk, file, chain>>
    BY DEF VolumeInv, fat_create, Exists, Idle
<1>2. EmptySlot \in Nat
    BY <1>1, EmptySlotIs
<1>3. Types'
    <2>1. cwd' \in Handles({Dir})
        BY <1>1, <1>2 DEF Types, Handles, Links
    <2>2. op' \in Ops
        BY <1>1, <1>2, HandleTypes DEF Ops, Owners
    <2> QED
        BY <1>1, <2>1, <2>2 DEF Types
<1>4. op'.pc = "seek" /\ op'.h = Dir /\ op'.name = f
    BY <1>1 DEF Idle
<1>5. Whose'
    BY <1>1, <1>4 DEF Whose
<1>6. cwd'.first = Root /\ cwd'.cur = Root
    BY <1>1 DEF Types, Handles, Heads
<1>7. Heads'
    BY <1>1, <1>4, <1>6, KeptInPlace DEF Heads, Freed, Owners
<1>8. Synced'
    BY <1>1, <1>4 DEF Synced
<1>9. Inside'
    <2>1. Root \in In(Dir) /\ UNCHANGED chain
        BY <1>1, InTypes DEF Heads, Owners
    <2> QED
        BY <1>1, <1>4, <1>6, <2>1 DEF Inside, In
<1> QED
    BY <1>1, <1>3, <1>5, <1>7, <1>8, <1>9, KeptInPlace DEF VolumeInv

LEMMA LongNameKeeps == ASSUME VolumeInv, WriteLongName PROVE VolumeInv'
<1>1. /\ Types /\ Whose /\ Held /\ Heads /\ Synced /\ Inside
      /\ op.pc = "seek" /\ op.h = Dir
      /\ UNCHANGED <<fat, last_cluster_alloc, entry, disk, file, chain>>
    BY DEF VolumeInv, WriteLongName
<1>2. Dir \in Owners /\ cwd \in Handles(Owners) /\ cwd.of = Dir /\ LongName \in UnitValues
    BY <1>1 DEF Types, Handles, Owners, UnitValues
<1>3. CASE cwd.cur \in Clusters
    <2>1. Loop("write", cwd, 1, LongName) /\ UNCHANGED cwd
        BY <1>3 DEF WriteLongName
    <2>2. /\ op' \in Ops /\ op'.pc = "write" /\ op'.h = Dir /\ op'.n = 1 /\ op'.name = op.name
        BY <1>1, <1>2, <2>1, LoopTypes
    <2>3. op.name \in Files /\ entry[op.name] = NoEntry
        BY <1>1, ClustersAre DEF Whose
    <2>4. Types' /\ Whose'
        BY <1>1, <2>1, <2>2, <2>3 DEF Types, Whose
    <2>5. Heads' /\ Synced'
        BY <1>1, <2>1, <2>2, KeptInPlace DEF Heads, Synced, Freed, Owners
    <2>6. cwd.cur \in In(Dir)
        BY <1>1, <1>3, ClustersAre DEF Inside
    <2>7. Inside'
        BY <1>1, <2>1, <2>2, <2>6 DEF Inside, In, h
    <2> QED
        BY <1>1, <2>4, <2>5, <2>7, KeptInPlace DEF VolumeInv
<1>4. CASE cwd.cur \notin Clusters
    <2>1. op' = Idle /\ cwd' = Rewound
        BY <1>4 DEF WriteLongName
    <2>2. op'.pc = "idle"
        BY <2>1 DEF Idle
    <2>3. Types' /\ Whose'
        BY <1>1, <2>1, <2>2, HandleTypes DEF Types, Whose
    <2>4. Heads' /\ Synced'
        BY <1>1, <2>1, <2>2, KeptInPlace, RewoundInside DEF Heads, Synced, Freed, Owners
    <2>5. Inside'
        BY <1>1, <2>1, <2>2, RewoundInside, ClustersAre DEF Inside, In, Whose
    <2> QED
        BY <1>1, <2>3, <2>4, <2>5, KeptInPlace DEF VolumeInv
<1> QED
    BY <1>3, <1>4

LEMMA ShortNameKeeps == ASSUME VolumeInv, WriteShortName PROVE VolumeInv'
<1>1. /\ Types /\ Whose /\ Held /\ Heads /\ Synced /\ Inside
      /\ op.pc = "write" /\ op.h = Dir /\ Loop("write", cwd, 1, op.name)
      /\ UNCHANGED <<fat, last_cluster_alloc, entry, disk, file, cwd, chain>>
    BY DEF VolumeInv, WriteShortName
<1>2. op.name \in Files /\ entry[op.name] = NoEntry
    BY <1>1, ClustersAre DEF Whose
<1>3. Dir \in Owners /\ cwd \in Handles(Owners) /\ cwd.of = Dir /\ op.name \in UnitValues
    BY <1>1, <1>2 DEF Types, Handles, Owners, UnitValues
<1>4. op' \in Ops /\ op'.pc = "write" /\ op'.h = Dir /\ op'.n = 1 /\ op'.name = op.name
    BY <1>1, <1>3, LoopTypes
<1>5. Types' /\ Whose'
    BY <1>1, <1>2, <1>4 DEF Types, Whose
<1>6. Heads' /\ Synced'
    BY <1>1, <1>4, KeptInPlace DEF Heads, Synced, Freed, Owners
<1>7. Inside'
    BY <1>1, <1>4 DEF Inside, In, h
<1> QED
    BY <1>1, <1>5, <1>6, <1>7, KeptInPlace DEF VolumeInv

LEMMA CreateReturnKeeps == ASSUME VolumeInv, CreateReturns PROVE VolumeInv'
<1> DEFINE f == op.name
<1> DEFINE e == [first |-> 0, size |-> 0, at |-> op.at]
<1>1. /\ Types /\ Whose /\ Held /\ Heads /\ Synced /\ Inside
      /\ op.pc = "write" /\ op.h = Dir
      /\ entry' = [entry EXCEPT ![f] = e] /\ file' = Handle(f, entry'[f])
      /\ cwd' = Rewound /\ op' = Idle
      /\ UNCHANGED <<fat, last_cluster_alloc, disk, chain>>
    BY DEF VolumeInv, CreateReturns
<1>2. f \in Files /\ entry[f] = NoEntry /\ f \in Owners
    BY <1>1, ClustersAre DEF Whose, Owners
<1>3. entry'[f] = e /\ \A g \in Files \ {f} : entry'[g] = entry[g]
    BY <1>1, <1>2 DEF Types
<1>4. Types'
    <2>1. e \in Entries
        BY <1>1 DEF Entries, Types, Ops
    <2>2. entry' \in [Files -> Entries]
        BY <1>1, <2>1 DEF Types
    <2>3. Handle(f, e) \in Handles(Files \cup {NoFile})
        BY <1>2 DEF Handle, Handles, Links
    <2> QED
        BY <1>1, <1>3, <2>2, <2>3, HandleTypes DEF Types
<1>5. op'.pc = "idle" /\ Whose'
    BY <1>1 DEF Idle, Whose
<1>6. /\ file'.of = f /\ file'.first = 0 /\ file'.cur = 0 /\ file'.pos = 0 /\ file'.size = 0
      /\ cwd'.first = Root /\ cwd'.cur \in In(Dir)
    BY <1>1, <1>3, RewoundInside DEF Handle
<1>7. \A g \in Files : entry[g].first = First(g) /\ (chain[g] = <<>> => entry[g].size = 0)
    BY <1>1, ClustersAre DEF Heads, Synced, Freed
<1>8. First(f) = 0 /\ chain[f] = <<>>
    BY <1>1, <1>2, <1>7, FirstIs DEF NoEntry
<1>9. Heads'
    BY <1>1, <1>3, <1>5, <1>6, <1>7, <1>8, KeptInPlace DEF Heads, Freed, Owners
<1>10. Synced'
    BY <1>3, <1>6, <1>2, ClustersAre DEF Synced
<1>11. Inside'
    BY <1>1, <1>5, <1>6, <1>8 DEF Inside, In
<1> QED
    BY <1>1, <1>4, <1>5, <1>9, <1>10, <1>11, KeptInPlace DEF VolumeInv

LEMMA UnlinkKeeps == ASSUME VolumeInv, NEW f \in Files, fat_unlink(f) PROVE VolumeInv'
<1>1. /\ Types /\ Whose /\ Held /\ Heads /\ Synced /\ Inside
      /\ op.pc = "idle" /\ f # file.of
      /\ op' = [Idle EXCEPT !.pc = "unlink", !.name = f, !.cluster = entry[f].first]
      /\ UNCHANGED <<fat, last_cluster_alloc, entry, disk, file, cwd, chain>>
    BY DEF VolumeInv, fat_unlink, Idle
<1>2. op'.pc = "unlink" /\ op'.name = f /\ op'.cluster = First(f)
    BY <1>1, IdleKnows DEF Idle
<1>3. f \in Owners /\ First(f) \in Links
    BY <1>1, FirstIs DEF Owners, Links
<1>4. Types' /\ Whose'
    <2>1. op' \in Ops
        BY <1>1, <1>2, <1>3, HandleTypes, IdleKnows DEF Ops
    <2> QED
        BY <1>1, <1>2, <2>1 DEF Types, Whose
<1>5. Heads'
    BY <1>1, <1>2, <1>3, KeptInPlace, FirstIs, ClustersAre DEF Heads, Freed, Owners, First
<1>6. Synced' /\ Inside'
    BY <1>1, <1>2 DEF Synced, Inside, In
<1> QED
    BY <1>1, <1>4, <1>5, <1>6, KeptInPlace DEF VolumeInv

LEMMA ChainUnlinkKeeps == ASSUME VolumeInv, fat_chain_unlink PROVE VolumeInv'
<1> DEFINE f == op.name
<1>1. /\ Types /\ Whose /\ Held /\ Heads /\ Synced /\ Inside
      /\ op.pc = "unlink" /\ op.cluster \in Clusters
      /\ fat' = Linked(fat, op.cluster, 0)
      /\ op' = [op EXCEPT !.cluster = fat[op.cluster]]
      /\ chain' = [chain EXCEPT ![f] = Tail(@)]
      /\ UNCHANGED <<last_cluster_alloc, entry, disk, file, cwd>>
    BY DEF VolumeInv, fat_chain_unlink, NextCluster
<1>2. f \in Files /\ f # file.of /\ f \in Owners /\ f # Dir
    BY <1>1, ClustersAre DEF Whose, Owners
<1>3. chain[f] # <<>> /\ op.cluster = chain[f][1]
    BY <1>1 DEF Heads
<1>4. /\ Held' /\ fat' \in [Clusters -> Links] /\ chain' \in [Owners -> Seq(Clusters)]
      /\ IF chain'[f] = <<>> THEN fat[chain[f][1]] \notin Clusters
         ELSE fat[chain[f][1]] = chain'[f][1]
      /\ \A p \in Owners \ {f} : chain'[p] = chain[p] /\ In(p)' = In(p)
    BY <1>1, <1>2, <1>3, UnlinkHolds
<1>5. op' \in Ops /\ op'.pc = "unlink" /\ op'.name = f /\ op'.cluster = fat[chain[f][1]]
      /\ op'.h = op.h
    <2>1. fat[op.cluster] \in Links
        BY <1>1 DEF Types
    <2> QED
        BY <1>1, <1>3, <2>1 DEF Types, Ops
<1>6. Types' /\ Whose'
    BY <1>1, <1>2, <1>4, <1>5 DEF Types, Whose
<1>7. Heads'
    <2>1. \A g \in Files : g # f => First(g)' = First(g) /\ chain'[g] = chain[g]
        BY <1>4 DEF First, Owners
    <2>2. chain'[Dir] = chain[Dir]
        BY <1>2, <1>4 DEF Owners
    <2> QED
        BY <1>1, <1>4, <1>5, <2>1, <2>2 DEF Heads, Freed
<1>8. Synced'
    BY <1>1, <1>5 DEF Synced
<1>9. Inside'
    <2>1. ASSUME file.of \in Files PROVE In(file.of)' = In(file.of) /\ chain'[file.of] = chain[file.of]
        <3>1. file.of \in Owners \ {f}
            BY <1>2, <2>1 DEF Owners
        <3> QED
            BY <1>1, <1>4, <3>1
    <2>2. In(Dir)' = In(Dir)
        BY <1>2, <1>4 DEF Owners
    <2> QED
        BY <1>1, <1>5, <2>1, <2>2 DEF Inside
<1> QED
    BY <1>4, <1>6, <1>7, <1>8, <1>9 DEF VolumeInv

LEMMA UnlinkReturnKeeps == ASSUME VolumeInv, UnlinkReturns PROVE VolumeInv'
<1> DEFINE f == op.name
<1>1. /\ Types /\ Whose /\ Held /\ Heads /\ Synced /\ Inside
      /\ op.pc = "unlink" /\ op.cluster \notin Clusters
      /\ disk' = [disk EXCEPT ![entry[f].at] = Deleted]
      /\ entry' = [entry EXCEPT ![f] = NoEntry]
      /\ op' = Idle
      /\ UNCHANGED <<fat, last_cluster_alloc, file, cwd, chain>>
    BY DEF VolumeInv, UnlinkReturns
<1>2. f \in Files /\ f # file.of /\ f \in Owners
    BY <1>1, ClustersAre DEF Whose, Owners
<1>3. chain[f] = <<>>
    BY <1>1, <1>2, InTypes DEF Heads
<1>4. entry'[f] = NoEntry /\ \A g \in Files \ {f} : entry'[g] = entry[g]
    BY <1>1, <1>2 DEF Types
<1>5. Types'
    <2>1. disk' \in [Units -> UnitValues]
        BY <1>1 DEF Types, UnitValues
    <2>2. entry' \in [Files -> Entries]
        BY <1>1, HandleTypes DEF Types
    <2> QED
        BY <1>1, <2>1, <2>2, HandleTypes DEF Types
<1>6. op'.pc = "idle" /\ Whose'
    BY <1>1 DEF Idle, Whose
<1>7. Heads'
    <2>1. First(f) = 0 /\ entry'[f].first = 0 /\ entry'[f].size = 0
        BY <1>3, <1>4 DEF First, NoEntry
    <2> QED
        BY <1>1, <1>2, <1>4, <1>6, <2>1, KeptInPlace DEF Heads, Freed, Owners
<1>8. Synced'
    BY <1>1, <1>2, <1>4, <1>6 DEF Synced
<1>9. Inside'
    BY <1>1, <1>6 DEF Inside, In
<1> QED
    BY <1>1, <1>5, <1>6, <1>7, <1>8, <1>9, KeptInPlace DEF VolumeInv

\* The handle of a call on a file or the directory.
LEMMA HandleOfCall ==
    ASSUME Types, Whose, op.pc \in {"seek", "write", "read"}
    PROVE  /\ op.h \in Owners /\ h.of = op.h /\ h \in Handles(Owners)
           /\ op.h # Dir => op.h = file.of /\ op.h \in Files /\ h = file
           /\ op.h = Dir => h = cwd
<1>1. file \in Handles(Files \cup {NoFile}) /\ cwd \in Handles({Dir})
    BY DEF Types
<1>2. CASE op.h = Dir
    BY <1>1, <1>2 DEF h, Handles, Owners
<1>3. CASE op.h # Dir
    <2>1. op.h = file.of /\ op.h \in Files /\ h = file
        BY <1>3 DEF Whose, h
    <2> QED
        BY <1>1, <1>3, <2>1 DEF Handles, Owners
<1> QED
    BY <1>2, <1>3

LEMMA LseekKeeps ==
    ASSUME VolumeInv, NEW p \in 0 .. file.size, fat_lseek(p)
    PROVE  VolumeInv'
<1>1. /\ Types /\ Whose /\ Held /\ Heads /\ Synced /\ Inside
      /\ op.pc = "idle" /\ file.of # NoFile /\ p <= file.size
      /\ file' = [file EXCEPT !.pos = p, !.cur = file.first]
      /\ op' = [Idle EXCEPT !.pc = "seek", !.h = file.of, !.n = p]
      /\ UNCHANGED <<fat, last_cluster_alloc, entry, disk, cwd, chain>>
    BY DEF VolumeInv, fat_lseek, Idle
<1>2. file.of \in Files /\ file.of \in Owners /\ p \in Nat
    BY <1>1 DEF Types, Handles, Owners
<1>3. op' \in Ops /\ op'.pc = "seek" /\ op'.h = file.of
    <2>1. Idle \in Ops
        BY <1>1, HandleTypes
    <2> QED
        BY <1>1, <1>2, <2>1 DEF Ops, Idle
<1>4. /\ file' \in Handles(Files \cup {NoFile})
      /\ file'.of = file.of /\ file'.first = file.first /\ file'.cur = file.first
      /\ file'.pos = p /\ file'.size = file.size
    BY <1>1, <1>2 DEF Types, Handles, Links
<1>5. Types' /\ Whose'
    BY <1>1, <1>2, <1>3, <1>4 DEF Types, Whose
<1>6. Heads' /\ Synced'
    BY <1>1, <1>2, <1>3, <1>4, KeptInPlace DEF Heads, Synced, Freed, Owners
<1>7. file.first = First(file.of)
    BY <1>1, <1>2 DEF Heads, Freed
<1>8. Inside'
    BY <1>1, <1>2, <1>3, <1>4, <1>7, FirstIs DEF Inside, In
<1> QED
    BY <1>1, <1>5, <1>6, <1>8, KeptInPlace DEF VolumeInv

LEMMA SeekKeeps == ASSUME VolumeInv, SeekCluster PROVE VolumeInv'
<1> DEFINE c == fat[h.cur]
<1> DEFINE x == [h EXCEPT !.cur = c]
<1>1. /\ Types /\ Whose /\ Held /\ Heads /\ Synced /\ Inside
      /\ op.pc = "seek" /\ op.n >= SPC * BPS /\ h.cur \in Clusters
      /\ SetHandle(x)
      /\ op' = [op EXCEPT !.n = op.n - SPC * BPS]
      /\ UNCHANGED <<fat, last_cluster_alloc, entry, disk, chain>>
    BY DEF VolumeInv, SeekCluster, NextCluster
<1>2. /\ op.h \in Owners /\ h.of = op.h /\ h \in Handles(Owners)
      /\ op.h # Dir => op.h = file.of /\ op.h \in Files /\ h = file
      /\ op.h = Dir => h = cwd
    BY <1>1, HandleOfCall
<1>3. op' \in Ops /\ op'.pc = "seek" /\ op'.h = op.h /\ op'.name = op.name
    <2>1. op.n \in Nat /\ SPC * BPS \in Nat
        BY <1>1, ProductsAre, VolumeAssumption DEF Types, Ops
    <2>2. op.n - SPC * BPS \in Nat
        BY <1>1, <2>1
    <2> QED
        BY <1>1, <2>2 DEF Types, Ops
<1>4. c \in In(op.h) \cup {Eoc} /\ c \in Links
    <2>1. h.cur \in In(op.h)
        BY <1>1, <1>2, ClustersAre DEF Inside
    <2> QED
        BY <1>1, <1>2, <2>1, NextInChain DEF Types
<1>5. /\ x.of = h.of /\ x.first = h.first /\ x.pos = h.pos /\ x.size = h.size /\ x.cur = c
      /\ x \in Handles(Owners)
    BY <1>2, <1>4 DEF Handles
<1>6. CASE op.h = Dir
    <2>1. cwd' = x /\ UNCHANGED file /\ h = cwd
        BY <1>1, <1>2, <1>6 DEF SetHandle
    <2>2. Types' /\ Whose'
        BY <1>1, <1>2, <1>3, <1>5, <1>6, <2>1 DEF Types, Whose, Handles
    <2>3. Heads' /\ Synced'
        BY <1>1, <1>3, <1>5, <2>1, KeptInPlace DEF Heads, Synced, Freed, Owners
    <2>4. Inside'
        BY <1>1, <1>3, <1>4, <1>5, <1>6, <2>1 DEF Inside, In
    <2> QED
        BY <1>1, <2>2, <2>3, <2>4, KeptInPlace DEF VolumeInv
<1>7. CASE op.h # Dir
    <2>1. file' = x /\ UNCHANGED cwd /\ h = file /\ op.h = file.of /\ op.h \in Files
        BY <1>1, <1>2, <1>7 DEF SetHandle
    <2>2. Types' /\ Whose'
        BY <1>1, <1>2, <1>3, <1>5, <2>1 DEF Types, Whose, Handles
    <2>3. Heads' /\ Synced'
        BY <1>1, <1>3, <1>5, <2>1, KeptInPlace DEF Heads, Synced, Freed, Owners
    <2>4. Inside'
        BY <1>1, <1>3, <1>4, <1>5, <2>1 DEF Inside, In
    <2> QED
        BY <1>1, <2>2, <2>3, <2>4, KeptInPlace DEF VolumeInv
<1> QED
    BY <1>6, <1>7

\* LseekReturns and ReadReturns
LEMMA ReturnKeeps ==
    ASSUME VolumeInv, op.h # Dir, op.pc \in {"seek", "read"}, op' = Idle,
           UNCHANGED <<fat, last_cluster_alloc, entry, disk, file, cwd, chain>>
    PROVE  VolumeInv'
<1>1. Types /\ Whose /\ Held /\ Heads /\ Synced /\ Inside /\ op'.pc = "idle"
    BY DEF VolumeInv, Idle
<1>2. Types' /\ Whose'
    BY <1>1, HandleTypes DEF Types, Whose
<1>3. Heads' /\ Synced'
    BY <1>1, KeptInPlace DEF Heads, Synced, Freed, Owners
<1>4. Inside'
    BY <1>1 DEF Inside, In
<1> QED
    BY <1>1, <1>2, <1>3, <1>4, KeptInPlace DEF VolumeInv

\* An iteration of fat_write or fat_read: the handle moves by a piece and goes
\* on in cluster x.cur.
LEMMA PieceKeeps ==
    ASSUME VolumeInv, op.pc \in {"write", "read"}, op.n > 0,
           NEW x \in Handles(Owners), SetHandle(x),
           x.of = h.of, x.first = h.first, x.size = h.size, x.pos = h.pos + Piece,
           op' \in Ops, op'.pc = op.pc, op'.h = op.h, op'.name = op.name,
           op'.n \in 0 .. op.n - Piece,
           x.cur \in In(op.h)' \/ (op.pc = "read" /\ x.cur = Eoc /\ op'.n = 0),
           Held', fat' \in [Clusters -> Links], last_cluster_alloc' \in Clusters,
           chain' \in [Owners -> Seq(Clusters)], disk' \in [Units -> UnitValues],
           UNCHANGED entry,
           \A o \in Owners : /\ \A c \in In(o) : c \in In(o)'
                             /\ chain'[o] = <<>> <=> chain[o] = <<>>
                             /\ chain'[o] # <<>> => chain'[o][1] = chain[o][1]
    PROVE  VolumeInv'
<1>1. Types /\ Whose /\ Held /\ Heads /\ Synced /\ Inside
    BY DEF VolumeInv
<1>2. /\ op.h \in Owners /\ h.of = op.h /\ h \in Handles(Owners)
      /\ op.h # Dir => op.h = file.of /\ op.h \in Files /\ h = file
      /\ op.h = Dir => h = cwd
    BY <1>1, HandleOfCall
<1>3. Piece \in 1 .. op.n /\ op.n \in Nat /\ op'.n \in Nat
    BY <1>1, <1>2, PieceTypes DEF Types, Ops
<1>4. \A o \in Owners : First(o)' = First(o)
    BY DEF First
<1>5. CASE op.h = Dir
    <2>1. cwd' = x /\ UNCHANGED file /\ h = cwd /\ op.pc = "write"
        BY <1>1, <1>2, <1>5, ClustersAre DEF SetHandle, Whose
    <2>2. Types' /\ Whose'
        BY <1>1, <1>2, <1>5, <2>1 DEF Types, Whose, Handles
    <2>3. Heads' /\ Synced'
        BY <1>1, <1>4, <1>5, <2>1, ClustersAre DEF Heads, Synced, Freed, Owners
    <2>4. Inside'
        <3>1. x.cur \in In(Dir)'
            BY <1>5, <2>1
        <3>2. file.of \in Files => \/ file.cur \in In(file.of)' \cup {Eoc}
                                   \/ file.cur = 0 /\ chain'[file.of] = <<>>
            BY <1>1, <2>1 DEF Inside, Owners
        <3> QED
            BY <1>1, <1>5, <2>1, <3>1, <3>2, ClustersAre DEF Inside, h
    <2> QED
        BY <2>2, <2>3, <2>4 DEF VolumeInv
<1>6. CASE op.h # Dir
    <2>1. file' = x /\ UNCHANGED cwd /\ h = file /\ op.h = file.of /\ op.h \in Files
        BY <1>1, <1>2, <1>6 DEF SetHandle
    <2>2. Types' /\ Whose'
        BY <1>1, <1>2, <2>1 DEF Types, Whose, Handles
    <2>3. x.pos \in Nat /\ x.pos > 0 /\ file.pos \in Nat
        BY <1>1, <1>3, <2>1 DEF Types, Handles
    <2>4. Heads' /\ Synced'
        BY <1>1, <1>2, <1>4, <2>1, <2>3 DEF Heads, Synced, Freed, Owners
    <2>5. Inside'
        <3>1. x.cur \in In(file.of)' \cup {Eoc}
            BY <2>1
        <3>2. cwd.cur \in In(Dir)' \cup {Eoc}
            BY <1>1 DEF Inside, Owners
        <3>3. op.pc = "read" => x.pos + op'.n <= x.size /\ x.pos <= x.size
            BY <1>1, <1>3, <2>1, <2>3 DEF Inside, Types, Handles
        <3> QED
            BY <1>1, <1>2, <1>6, <2>1, <3>1, <3>2, <3>3 DEF Inside, h
    <2> QED
        BY <2>2, <2>4, <2>5 DEF VolumeInv
<1> QED
    BY <1>5, <1>6

LEMMA OpStays ==
    ASSUME op \in Ops, NEW n \in Nat, NEW o \in 0 .. BPS - 1, NEW s \in Int,
           op' = [op EXCEPT !.n = n, !.offset = o, !.sector = s]
    PROVE  op' \in Ops /\ op'.pc = op.pc /\ op'.h = op.h /\ op'.name = op.name /\ op'.n = n
BY DEF Ops

\* What each of the three ends of an iteration leaves to PieceKeeps.
LEMMA PieceShapes ==
    ASSUME VolumeInv, op.pc \in {"write", "read"}, op.n > 0
    PROVE  /\ h \in Handles(Owners) /\ op.h \in Owners
           /\ Moved \in Handles(Owners)
           /\ Moved.of = h.of /\ Moved.first = h.first /\ Moved.size = h.size
           /\ Moved.pos = h.pos + Piece /\ Moved.cur = h.cur
           /\ h.cur \in In(op.h) /\ h.cur \in Clusters
           /\ fat[h.cur] \in In(op.h) \cup {Eoc}
           /\ PieceInCluster =>
                 /\ op' \in Ops /\ op'.pc = op.pc /\ op'.h = op.h /\ op'.name = op.name
                 /\ op'.n \in 0 .. op.n - Piece
           /\ \A c \in Links :
                 /\ [Moved EXCEPT !.cur = c] \in Handles(Owners)
                 /\ [Moved EXCEPT !.cur = c].of = h.of /\ [Moved EXCEPT !.cur = c].first = h.first
                 /\ [Moved EXCEPT !.cur = c].size = h.size
                 /\ [Moved EXCEPT !.cur = c].pos = h.pos + Piece
                 /\ [Moved EXCEPT !.cur = c].cur = c
                 /\ PieceToCluster(c) \/ PieceThenBreak(c) =>
                       /\ op' \in Ops /\ op'.pc = op.pc /\ op'.h = op.h /\ op'.name = op.name
                       /\ op'.n \in 0 .. op.n - Piece
                       /\ PieceThenBreak(c) => op'.n = 0
<1>1. Types /\ Whose /\ Held /\ Inside
    BY DEF VolumeInv
<1>2. h \in Handles(Owners) /\ op.h \in Owners
    BY <1>1, HandleOfCall
<1>3. Piece \in 1 .. op.n /\ Moved = [h EXCEPT !.pos = h.pos + Piece] /\ Moved \in Handles(Owners)
    BY <1>1, <1>2, PieceTypes
<1>4. /\ Moved.of = h.of /\ Moved.first = h.first /\ Moved.size = h.size
      /\ Moved.pos = h.pos + Piece /\ Moved.cur = h.cur
    BY <1>2, <1>3 DEF Handles
<1>5. h.cur \in In(op.h)
    BY <1>1 DEF Inside
<1>6. h.cur \in Clusters /\ fat[h.cur] \in In(op.h) \cup {Eoc}
    BY <1>1, <1>2, <1>5, InTypes, NextInChain
<1>7. op.n \in Nat /\ op.n - Piece \in Nat /\ 0 \in 0 .. BPS - 1 /\ op.offset \in Nat
    BY <1>1, <1>3, VolumeAssumption DEF Types, Ops
<1>8. ASSUME PieceInCluster
      PROVE  /\ op' \in Ops /\ op'.pc = op.pc /\ op'.h = op.h /\ op'.name = op.name
             /\ op'.n \in 0 .. op.n - Piece
    <2>1. (op.offset + Piece) % BPS \in 0 .. BPS - 1
        BY <1>3, <1>7, VolumeAssumption
    <2> DEFINE s == IF EndsSector THEN op.sector + 1 ELSE op.sector
    <2>2. op' = [op EXCEPT !.n = op.n - Piece, !.offset = (op.offset + Piece) % BPS, !.sector = s]
        BY <1>8 DEF PieceInCluster
    <2>3. s \in Int /\ op \in Ops
        BY <1>1 DEF Types, Ops
    <2>4. op' \in Ops /\ op'.pc = op.pc /\ op'.h = op.h /\ op'.name = op.name /\ op'.n = op.n - Piece
        <3> HIDE DEF s
        <3> QED
            BY <1>7, <2>1, <2>2, <2>3, OpStays
    <2> QED
        BY <1>7, <2>4
<1>9. ASSUME NEW c \in Links
      PROVE  /\ [Moved EXCEPT !.cur = c] \in Handles(Owners)
             /\ [Moved EXCEPT !.cur = c].of = h.of /\ [Moved EXCEPT !.cur = c].first = h.first
             /\ [Moved EXCEPT !.cur = c].size = h.size
             /\ [Moved EXCEPT !.cur = c].pos = h.pos + Piece
             /\ [Moved EXCEPT !.cur = c].cur = c
    BY <1>3, <1>4 DEF Handles
<1>10. ASSUME NEW c \in Links, PieceToCluster(c)
       PROVE  /\ op' \in Ops /\ op'.pc = op.pc /\ op'.h = op.h /\ op'.name = op.name
              /\ op'.n \in 0 .. op.n - Piece
    <2>1. fat_first_sector_of_cluster(c) \in Int
        BY ClustersAre, VolumeAssumption DEF Links, fat_first_sector_of_cluster
    <2> QED
        <3>1. op' = [op EXCEPT !.n = op.n - Piece, !.offset = 0,
                               !.sector = fat_first_sector_of_cluster(c)]
            BY <1>10 DEF PieceToCluster
        <3>2. op' \in Ops /\ op'.pc = op.pc /\ op'.h = op.h /\ op'.name = op.name /\ op'.n = op.n - Piece
            BY <1>1, <1>7, <2>1, <3>1, OpStays DEF Types
        <3> QED
            BY <1>7, <3>2
<1>11. ASSUME NEW c \in Links, PieceThenBreak(c)
       PROVE  /\ op' \in Ops /\ op'.pc = op.pc /\ op'.h = op.h /\ op'.name = op.name
              /\ op'.n \in 0 .. op.n - Piece /\ op'.n = 0
    <2>1. op' = [op EXCEPT !.n = 0]
        BY <1>11 DEF PieceThenBreak
    <2>2. op' \in Ops /\ op'.pc = op.pc /\ op'.h = op.h /\ op'.name = op.name /\ op'.n = 0
        BY <1>1, <2>1 DEF Types, Ops
    <2> QED
        BY <1>7, <2>2
<1> QED
    BY <1>2, <1>3, <1>4, <1>5, <1>6, <1>8, <1>9, <1>10, <1>11

LEMMA TransferTypes ==
    ASSUME Types, NEW cleared, Transfer(cleared)
    PROVE  disk' \in [Units -> UnitValues]
<1>1. op.val \in UnitValues /\ Zero \in UnitValues /\ disk \in [Units -> UnitValues]
    BY DEF Types, Ops, UnitValues
<1> QED
    BY <1>1 DEF Transfer

LEMMA WriteInClusterKeeps == ASSUME VolumeInv, WriteInCluster PROVE VolumeInv'
<1>1. /\ op.pc = "write" /\ op.n > 0 /\ PieceInCluster /\ SetHandle(Moved) /\ Transfer({})
      /\ UNCHANGED <<fat, last_cluster_alloc, entry, chain>>
    BY DEF WriteInCluster, PieceInCluster
<1>2. Types /\ Held
    BY DEF VolumeInv
<1>3. \A o \in Owners : In(o)' = In(o)
    BY <1>1, KeptInPlace
<1>4. /\ fat' \in [Clusters -> Links] /\ last_cluster_alloc' \in Clusters
      /\ chain' \in [Owners -> Seq(Clusters)] /\ disk' \in [Units -> UnitValues] /\ Held'
    BY <1>1, <1>2, TransferTypes, KeptInPlace DEF Types
<1>5. /\ Moved \in Handles(Owners) /\ Moved.of = h.of /\ Moved.first = h.first
      /\ Moved.size = h.size /\ Moved.pos = h.pos + Piece /\ Moved.cur = h.cur
      /\ h.cur \in In(op.h) /\ op.h \in Owners
      /\ op' \in Ops /\ op'.pc = op.pc /\ op'.h = op.h /\ op'.name = op.name
      /\ op'.n \in 0 .. op.n - Piece
    BY <1>1, PieceShapes
<1>6. Moved.cur \in In(op.h)'
    BY <1>3, <1>5
<1> QED
    BY <1>1, <1>3, <1>4, <1>5, <1>6, PieceKeeps

LEMMA WriteToNextKeeps == ASSUME VolumeInv, WriteToNext PROVE VolumeInv'
<1> DEFINE c == fat[h.cur]
<1> DEFINE x == [Moved EXCEPT !.cur = c]
<1>1. /\ op.pc = "write" /\ op.n > 0 /\ c # Eoc /\ PieceToCluster(c) /\ SetHandle(x)
      /\ Transfer({}) /\ UNCHANGED <<fat, last_cluster_alloc, entry, chain>>
    BY DEF WriteToNext, PieceToCluster, NextCluster
<1>2. Types /\ Held
    BY DEF VolumeInv
<1>3. \A o \in Owners : In(o)' = In(o)
    BY <1>1, KeptInPlace
<1>4. /\ fat' \in [Clusters -> Links] /\ last_cluster_alloc' \in Clusters
      /\ chain' \in [Owners -> Seq(Clusters)] /\ disk' \in [Units -> UnitValues] /\ Held'
    BY <1>1, <1>2, TransferTypes, KeptInPlace DEF Types
<1>5. c \in Links /\ c \in In(op.h) /\ op.h \in Owners
    BY <1>1, <1>2, PieceShapes DEF Types
<1>6. /\ x \in Handles(Owners) /\ x.of = h.of /\ x.first = h.first
      /\ x.size = h.size /\ x.pos = h.pos + Piece /\ x.cur = c
      /\ op' \in Ops /\ op'.pc = op.pc /\ op'.h = op.h /\ op'.name = op.name
      /\ op'.n \in 0 .. op.n - Piece
    BY <1>1, <1>5, PieceShapes
<1>7. x.cur \in In(op.h)'
    BY <1>3, <1>5, <1>6
<1> HIDE DEF x, c
<1> QED
    BY <1>1, <1>3, <1>4, <1>6, <1>7, PieceKeeps

LEMMA WriteToNewKeeps == ASSUME VolumeInv, WriteToNew PROVE VolumeInv'
<1>1. PICK c \in Clusters :
          /\ op.pc = "write" /\ op.n > 0 /\ fat[h.cur] = Eoc
          /\ PieceToCluster(c) /\ SetHandle([Moved EXCEPT !.cur = c])
          /\ ExtendChain(op.h, h.cur, c)
          /\ Transfer(IF h.size = 0 THEN ClusterUnits(c) ELSE {})
          /\ UNCHANGED entry
    BY DEF WriteToNew, PieceToCluster, NextCluster
<1> DEFINE x == [Moved EXCEPT !.cur = c]
<1>2. Types /\ Held
    BY DEF VolumeInv
<1>3. h.cur \in In(op.h) /\ op.h \in Owners /\ c \in Links
    BY <1>1, PieceShapes DEF Links
<1> PICK o \in Owners : o = op.h
    BY <1>3
<1>4. /\ Held' /\ fat' \in [Clusters -> Links] /\ last_cluster_alloc' \in Clusters
      /\ chain' \in [Owners -> Seq(Clusters)]
      /\ In(o)' = In(o) \cup {c}
      /\ chain'[o] # <<>> /\ chain'[o][1] = chain[o][1]
      /\ \A p \in Owners \ {o} : chain'[p] = chain[p] /\ In(p)' = In(p)
    BY <1>1, <1>2, <1>3, ExtendHolds
<1>5. disk' \in [Units -> UnitValues]
    BY <1>1, <1>2, TransferTypes
<1>6. /\ x \in Handles(Owners) /\ x.of = h.of /\ x.first = h.first
      /\ x.size = h.size /\ x.pos = h.pos + Piece /\ x.cur = c
      /\ op' \in Ops /\ op'.pc = op.pc /\ op'.h = op.h /\ op'.name = op.name
      /\ op'.n \in 0 .. op.n - Piece
    BY <1>1, <1>3, PieceShapes
<1>7. chain[o] # <<>>
    BY <1>2, <1>3, InTypes
<1>8. \A p \in Owners : /\ \A d \in In(p) : d \in In(p)'
                        /\ chain'[p] = <<>> <=> chain[p] = <<>>
                        /\ chain'[p] # <<>> => chain'[p][1] = chain[p][1]
    <2> SUFFICES ASSUME NEW p \in Owners
                 PROVE  /\ \A d \in In(p) : d \in In(p)'
                        /\ chain'[p] = <<>> <=> chain[p] = <<>>
                        /\ chain'[p] # <<>> => chain'[p][1] = chain[p][1]
        OBVIOUS
    <2>1. CASE p = o
        BY <1>4, <1>7, <2>1
    <2>2. CASE p # o
        BY <1>4, <2>2
    <2> QED
        BY <2>1, <2>2
<1>9. op'.h = o /\ x.cur \in In(o)'
    BY <1>4, <1>6
<1>10. x.cur \in In(op.h)'
    BY <1>9
<1> HIDE DEF x
<1>11. SetHandle(x)
    BY <1>1 DEF x
<1> QED
    BY <1>1, <1>4, <1>5, <1>6, <1>8, <1>10, <1>11, PieceKeeps

LEMMA WriteClippedKeeps == ASSUME VolumeInv, WriteClipped PROVE VolumeInv'
<1> DEFINE c == h.cur
<1> DEFINE x == [Moved EXCEPT !.cur = c]
<1>1. /\ op.pc = "write" /\ op.n > 0 /\ PieceThenBreak(c) /\ SetHandle(x)
      /\ Transfer({}) /\ UNCHANGED <<fat, last_cluster_alloc, entry, chain>>
    BY DEF WriteClipped, PieceThenBreak
<1>2. Types /\ Held
    BY DEF VolumeInv
<1>3. \A o \in Owners : In(o)' = In(o)
    BY <1>1, KeptInPlace
<1>4. /\ fat' \in [Clusters -> Links] /\ last_cluster_alloc' \in Clusters
      /\ chain' \in [Owners -> Seq(Clusters)] /\ disk' \in [Units -> UnitValues] /\ Held'
    BY <1>1, <1>2, TransferTypes, KeptInPlace DEF Types
<1>5. c \in Links /\ c \in In(op.h) /\ op.h \in Owners
    BY <1>1, <1>2, PieceShapes DEF Links
<1>6. /\ x \in Handles(Owners) /\ x.of = h.of /\ x.first = h.first
      /\ x.size = h.size /\ x.pos = h.pos + Piece /\ x.cur = c
      /\ op' \in Ops /\ op'.pc = op.pc /\ op'.h = op.h /\ op'.name = op.name
      /\ op'.n \in 0 .. op.n - Piece
    BY <1>1, <1>5, PieceShapes
<1>7. x.cur \in In(op.h)'
    BY <1>3, <1>5, <1>6
<1> HIDE DEF x, c
<1> QED
    BY <1>1, <1>3, <1>4, <1>6, <1>7, PieceKeeps

LEMMA WriteKeeps ==
    ASSUME VolumeInv, NEW n \in Nat \ {0}, NEW v \in Values, fat_write(n, v)
    PROVE  VolumeInv'
<1>1. /\ Types /\ Whose /\ Held /\ Heads /\ Synced /\ Inside
      /\ op.pc = "idle" /\ file.of # NoFile /\ UNCHANGED <<entry, disk, cwd>>
    BY DEF VolumeInv, fat_write, Idle
<1> PICK f \in Files : f = file.of
    BY <1>1 DEF Types, Handles
<1>2. f \in Owners /\ f # Dir /\ v \in UnitValues /\ n \in Nat /\ n > 0
    BY ClustersAre DEF Owners, UnitValues
<1>3. file.first = First(f)
    BY <1>1 DEF Heads, Freed
<1>4. CASE /\ file.cur \in Clusters /\ Loop("write", file, n, v)
           /\ UNCHANGED <<fat, last_cluster_alloc, file, chain>>
    <2>1. file \in Handles(Owners)
        BY <1>1, <1>2 DEF Types, Handles
    <2>2. op' \in Ops /\ op'.pc = "write" /\ op'.h = f /\ op'.n = n
        BY <1>1, <1>2, <1>4, <2>1, LoopTypes
    <2>3. Types' /\ Whose'
        BY <1>1, <1>2, <1>4, <2>2 DEF Types, Whose
    <2>4. Heads' /\ Synced'
        BY <1>1, <1>4, <2>2, KeptInPlace DEF Heads, Synced, Freed, Owners
    <2>5. file.cur \in In(f)
        BY <1>1, <1>4, ClustersAre DEF Inside
    <2>6. Inside'
        BY <1>1, <1>2, <1>4, <2>2, <2>5 DEF Inside, In, h
    <2> QED
        BY <1>1, <1>4, <2>3, <2>4, <2>6, KeptInPlace DEF VolumeInv
<1>5. ASSUME NEW c \in Clusters, file.cur = 0, StartChain(f, c),
             file' = [file EXCEPT !.first = c, !.cur = c], Loop("write", file', n, v)
      PROVE  VolumeInv'
    <2>1. chain[f] = <<>>
        BY <1>1, <1>5, InTypes, ClustersAre, <1>2 DEF Inside
    <2>2. /\ Held' /\ fat' \in [Clusters -> Links] /\ last_cluster_alloc' \in Clusters
          /\ chain' \in [Owners -> Seq(Clusters)]
          /\ chain'[f] = <<c>> /\ In(f)' = {c}
          /\ \A p \in Owners \ {f} : chain'[p] = chain[p] /\ In(p)' = In(p)
        BY <1>1, <1>2, <1>5, <2>1, StartHolds
    <2>3. /\ file' \in Handles(Files \cup {NoFile}) /\ file' \in Handles(Owners)
          /\ file'.of = f /\ file'.first = c /\ file'.cur = c
          /\ file'.pos = file.pos /\ file'.size = file.size
        BY <1>1, <1>2, <1>5 DEF Types, Handles, Links
    <2>4. op' \in Ops /\ op'.pc = "write" /\ op'.h = f /\ op'.n = n
        <3>1. ASSUME NEW x \in Handles(Owners), x.of = f, Loop("write", x, n, v)
              PROVE  op' \in Ops /\ op'.pc = "write" /\ op'.h = f /\ op'.n = n
            BY <1>1, <1>2, <3>1, LoopTypes
        <3> QED
            BY <1>5, <2>3, <3>1
    <2>5. Types' /\ Whose'
        BY <1>1, <1>2, <2>2, <2>3, <2>4 DEF Types, Whose
    <2>6. First(f) = 0 /\ First(f)' = c /\ chain'[f] # <<>>
        BY <2>1, <2>2 DEF First
    <2>7. \A g \in Files \ {f} : First(g)' = First(g) /\ chain'[g] = chain[g]
        BY <2>2 DEF First, Owners
    <2>8. chain'[Dir] = chain[Dir] /\ In(Dir)' = In(Dir)
        BY <1>2, <2>2 DEF Owners
    <2>9. Heads'
        BY <1>1, <2>3, <2>4, <2>6, <2>7, <2>8 DEF Heads, Freed
    <2>10. Synced'
        BY <1>1, <1>2, <2>1, <2>3, <2>4 DEF Synced, Heads, Freed
    <2>11. Inside'
        <3>1. file'.cur \in In(f)'
            BY <2>2, <2>3
        <3>2. cwd'.cur \in In(Dir)' \cup {Eoc}
            BY <1>1, <2>8 DEF Inside
        <3>3. h' = file'
            BY <1>2, <2>4 DEF h
        <3>4. In(file.of)' = In(f)' /\ In(op.h)' = In(f)'
            BY <2>3, <2>4
        <3> QED
            BY <2>3, <2>4, <3>1, <3>2, <3>3, <3>4 DEF Inside
    <2> QED
        BY <2>2, <2>5, <2>9, <2>10, <2>11 DEF VolumeInv
<1> QED
    BY <1>4, <1>5 DEF fat_write

LEMMA WriteReturnKeeps == ASSUME VolumeInv, WriteReturns PROVE VolumeInv'
<1>1. /\ Types /\ Whose /\ Held /\ Heads /\ Synced /\ Inside
      /\ op.pc = "write" /\ op.h # Dir /\ op.n = 0 /\ op' = Idle /\ op'.pc = "idle"
      /\ UNCHANGED <<fat, last_cluster_alloc, disk, cwd, chain>>
    BY DEF VolumeInv, WriteReturns, Idle
<1> PICK f \in Files : f = file.of /\ op.h = f
    BY <1>1 DEF Whose
<1>2. f \in Owners /\ file.cur \in In(f) /\ file.first = First(f) /\ h = file
    BY <1>1 DEF Inside, Heads, Freed, h, Owners
<1>3. chain[f] # <<>> /\ file \in Handles(Files \cup {NoFile})
    BY <1>1, <1>2, InTypes DEF Types
<1>4. CASE file.pos > file.size
    <2>1. /\ file' = [file EXCEPT !.size = file.pos]
          /\ entry' = [entry EXCEPT ![f].first = file.first, ![f].size = file.pos]
        BY <1>4 DEF WriteReturns
    <2>2. /\ file' \in Handles(Files \cup {NoFile})
          /\ file'.of = f /\ file'.first = file.first /\ file'.cur = file.cur
          /\ file'.pos = file.pos /\ file'.size = file.pos /\ file.pos \in Nat
        BY <1>1, <1>3, <2>1 DEF Handles
    <2>3. /\ entry'[f].first = file.first /\ entry'[f].size = file.pos
          /\ entry' \in [Files -> Entries]
          /\ \A g \in Files \ {f} : entry'[g] = entry[g]
        <3>1. entry[f] \in Entries /\ file.first \in Clusters \cup {0} /\ file.pos \in Nat
            BY <1>1, <1>3 DEF Types, Handles
        <3>2. DEFINE e == [entry[f] EXCEPT !.first = file.first, !.size = file.pos]
        <3>3. e \in Entries /\ e.first = file.first /\ e.size = file.pos
            BY <3>1 DEF Entries
        <3>4. entry' = [entry EXCEPT ![f] = e]
            BY <1>1, <2>1 DEF Types
        <3> HIDE DEF e
        <3> QED
            BY <1>1, <3>3, <3>4 DEF Types
    <2>4. Types' /\ Whose'
        BY <1>1, <2>2, <2>3, HandleTypes DEF Types, Whose
    <2>5. Heads'
        BY <1>1, <1>2, <1>3, <2>2, <2>3, KeptInPlace DEF Heads, Freed, Owners
    <2>6. Synced'
        BY <1>1, <2>2, <2>3, ClustersAre DEF Synced
    <2>7. Inside'
        BY <1>1, <1>2, <2>2 DEF Inside, In
    <2> QED
        BY <1>1, <2>4, <2>5, <2>6, <2>7, KeptInPlace DEF VolumeInv
<1>5. CASE ~(file.pos > file.size)
    <2>1. UNCHANGED <<file, entry>>
        BY <1>5 DEF WriteReturns
    <2>2. file.pos \in Nat /\ file.size \in Nat /\ file.pos <= file.size
        BY <1>3, <1>5 DEF Handles
    <2>3. Types' /\ Whose'
        BY <1>1, <2>1, HandleTypes DEF Types, Whose
    <2>4. Heads' /\ Synced'
        BY <1>1, <2>1, <2>2, KeptInPlace DEF Heads, Synced, Freed, Owners
    <2>5. Inside'
        BY <1>1, <2>1, <2>2 DEF Inside, In
    <2> QED
        BY <1>1, <2>3, <2>4, <2>5, KeptInPlace DEF VolumeInv
<1> QED
    BY <1>4, <1>5

LEMMA ReadKeeps == ASSUME VolumeInv, NEW n \in Nat \ {0}, fat_read(n) PROVE VolumeInv'
<1> DEFINE m == IF file.pos + n > file.size THEN file.size - file.pos ELSE n
<1>1. /\ Types /\ Whose /\ Held /\ Heads /\ Synced /\ Inside
      /\ op.pc = "idle" /\ file.size > 0 /\ file.cur \in Clusters /\ Loop("read", file, m, Zero)
      /\ UNCHANGED <<fat, last_cluster_alloc, entry, disk, file, cwd, chain>>
    BY DEF VolumeInv, fat_read, Idle
<1> PICK f \in Files : f = file.of
    BY <1>1 DEF Types, Handles, Synced
<1>2. f \in Owners /\ f # Dir /\ Zero \in UnitValues
    BY ClustersAre DEF Owners, UnitValues
<1>3. m \in Nat /\ file.pos + m <= file.size /\ file \in Handles(Owners)
    BY <1>1, <1>2 DEF Inside, Types, Handles
<1>4. op' \in Ops /\ op'.pc = "read" /\ op'.h = f /\ op'.n = m
    <2> HIDE DEF m
    <2> QED
        BY <1>1, <1>2, <1>3, LoopTypes
<1> HIDE DEF m
<1>5. Types' /\ Whose'
    BY <1>1, <1>2, <1>4 DEF Types, Whose
<1>6. Heads' /\ Synced'
    BY <1>1, <1>4, KeptInPlace DEF Heads, Synced, Freed, Owners
<1>7. file.cur \in In(f)
    BY <1>1, ClustersAre DEF Inside
<1>8. Inside'
    BY <1>1, <1>2, <1>3, <1>4, <1>7 DEF Inside, In, h
<1> QED
    BY <1>1, <1>5, <1>6, <1>8, KeptInPlace DEF VolumeInv

LEMMA ReadPieceKeeps == ASSUME VolumeInv, ReadPiece PROVE VolumeInv'
<1> DEFINE X(c) == [Moved EXCEPT !.cur = c]
<1>1. /\ op.pc = "read" /\ op.n > 0
      /\ UNCHANGED <<fat, last_cluster_alloc, entry, disk, chain>>
    BY DEF ReadPiece
<1>2. Types /\ Held
    BY DEF VolumeInv
<1>3. \A o \in Owners : In(o)' = In(o)
    BY <1>1, KeptInPlace
<1>4. /\ fat' \in [Clusters -> Links] /\ last_cluster_alloc' \in Clusters
      /\ chain' \in [Owners -> Seq(Clusters)] /\ disk' \in [Units -> UnitValues] /\ Held'
    BY <1>1, <1>2, KeptInPlace DEF Types
<1>5. op.h \in Owners /\ h.cur \in In(op.h) /\ fat[h.cur] \in Links /\ Eoc \in Links
      /\ fat[h.cur] \in In(op.h) \cup {Eoc}
    BY <1>1, <1>2, PieceShapes DEF Types, Links
<1>6. CASE PieceInCluster
    <2>1. /\ Moved \in Handles(Owners) /\ Moved.of = h.of /\ Moved.first = h.first
          /\ Moved.size = h.size /\ Moved.pos = h.pos + Piece /\ Moved.cur = h.cur
          /\ op' \in Ops /\ op'.pc = op.pc /\ op'.h = op.h /\ op'.name = op.name
          /\ op'.n \in 0 .. op.n - Piece /\ SetHandle(Moved)
        BY <1>1, <1>6, PieceShapes DEF PieceInCluster
    <2>2. Moved.cur \in In(op.h)'
        BY <1>3, <1>5, <2>1
    <2> QED
        BY <1>1, <1>3, <1>4, <2>1, <2>2, PieceKeeps
<1>7. ASSUME NEW c \in Links, PieceToCluster(c) \/ PieceThenBreak(c),
             c \in In(op.h) \/ (c = Eoc /\ PieceThenBreak(c))
      PROVE  VolumeInv'
    <2>1. /\ X(c) \in Handles(Owners) /\ X(c).of = h.of /\ X(c).first = h.first
          /\ X(c).size = h.size /\ X(c).pos = h.pos + Piece /\ X(c).cur = c
          /\ op' \in Ops /\ op'.pc = op.pc /\ op'.h = op.h /\ op'.name = op.name
          /\ op'.n \in 0 .. op.n - Piece /\ (PieceThenBreak(c) => op'.n = 0)
        BY <1>1, <1>7, PieceShapes
    <2>2. SetHandle(X(c))
        BY <1>7 DEF PieceToCluster, PieceThenBreak
    <2> HIDE DEF X
    <2>3. X(c).cur \in In(op.h)' \/ (op.pc = "read" /\ X(c).cur = Eoc /\ op'.n = 0)
        BY <1>1, <1>3, <1>5, <1>7, <2>1
    <2> QED
        BY <1>1, <1>3, <1>4, <2>1, <2>2, <2>3, PieceKeeps
<1> QED
    BY <1>5, <1>6, <1>7 DEF ReadPiece, NextCluster

-----------------------------------------------------------------------------
(* The invariant and its theorems                                          *)

LEMMA InitVolume == Init => VolumeInv
<1> SUFFICES ASSUME Init PROVE VolumeInv
    OBVIOUS
<1> USE DEF Init
<1>1. Root \in Clusters /\ Occupied \subseteq Clusters \ {Root} /\ Dir \in Owners
      /\ Files \subseteq Owners
    BY VolumeAssumption DEF Owners
<1>2. /\ file.of = NoFile /\ file.first = 0 /\ file.cur = 0 /\ file.pos = 0 /\ file.size = 0
      /\ cwd.of = Dir /\ cwd.first = Root /\ cwd.cur = Root
      /\ op.pc = "idle"
    BY DEF Handle, NoEntry, Rewound, Idle
<1>3. chain \in [Owners -> Seq(Clusters)] /\ chain[Dir] = <<Root>>
      /\ \A o \in Owners : o # Dir => chain[o] = <<>>
    <2>1. <<Root>> \in Seq(Clusters) /\ <<>> \in Seq(Clusters)
        BY <1>1
    <2> QED
        BY <1>1, <2>1
<1>4. Types
    <2>1. fat \in [Clusters -> Links]
        BY DEF Links
    <2>2. last_cluster_alloc \in Clusters
        BY VolumeAssumption DEF Clusters
    <2>3. entry \in [Files -> Entries]
        BY DEF NoEntry, Entries
    <2>4. disk \in [Units -> UnitValues]
        BY DEF UnitValues
    <2>5. file \in Handles(Files \cup {NoFile})
        BY DEF Handle, NoEntry, Handles, Links
    <2>6. cwd \in Handles({Dir})
        BY <1>1 DEF Handle, Rewound, Handles, Links
    <2>7. op \in Ops
        <3>1. 0 \in 0 .. BPS - 1
            BY VolumeAssumption
        <3> QED
            BY <3>1 DEF Idle, Links, Ops, UnitValues
    <2> QED
        BY <1>3, <2>1, <2>2, <2>3, <2>4, <2>5, <2>6, <2>7 DEF Types
<1>5. Whose
    BY <1>2 DEF Whose
<1>6. \A o \in Owners : In(o) = IF o = Dir THEN {Root} ELSE {}
    BY <1>3 DEF In
<1>7. Held
    <2>1. \A o \in Owners : \A i \in 1 .. Len(chain[o]) : o = Dir /\ i = 1 /\ chain[o][i] = Root
                                                           /\ i = Len(chain[o])
        BY <1>3
    <2>2. ChainsDisjoint
        BY <2>1 DEF ChainsDisjoint
    <2>3. FatHoldsChains
        BY <1>1, <1>6, <2>1 DEF FatHoldsChains
    <2>4. OthersKept
        BY <1>1, <1>6 DEF OthersKept
    <2> QED
        BY <2>2, <2>3, <2>4 DEF Held
<1>8. Heads /\ Synced
    <2>1. \A f \in Files : f # Dir /\ entry[f] = NoEntry /\ chain[f] = <<>> /\ f # NoFile
        BY <1>1, <1>3, ClustersAre
    <2> QED
        BY <1>2, <1>3, <2>1, ClustersAre DEF Heads, Synced, Freed, First, NoEntry
<1>9. Inside
    BY <1>1, <1>2, <1>6, ClustersAre DEF Inside
<1> QED
    BY <1>4, <1>5, <1>7, <1>8, <1>9 DEF VolumeInv

LEMMA VolumeStep == VolumeInv /\ [Next]_vars => VolumeInv'
<1> SUFFICES ASSUME VolumeInv, [Next]_vars PROVE VolumeInv'
    OBVIOUS
<1>1. CASE \E f \in Files : fat_open(f) \/ fat_create(f) \/ fat_unlink(f)
    BY <1>1, OpenKeeps, CreateKeeps, UnlinkKeeps
<1>2. CASE WriteLongName \/ WriteShortName \/ CreateReturns \/ fat_chain_unlink \/ UnlinkReturns
    BY <1>2, LongNameKeeps, ShortNameKeeps, CreateReturnKeeps, ChainUnlinkKeeps, UnlinkReturnKeeps
<1>3. CASE \E p \in 0 .. file.size : fat_lseek(p)
    BY <1>3, LseekKeeps
<1>4. CASE SeekCluster
    BY <1>4, SeekKeeps
<1>5. CASE LseekReturns
    BY <1>5, ReturnKeeps DEF LseekReturns
<1>6. CASE \E n \in Nat \ {0}, v \in Values : fat_write(n, v)
    BY <1>6, WriteKeeps
<1>7. CASE WriteInCluster \/ WriteToNext \/ WriteToNew \/ WriteClipped \/ WriteReturns
    BY <1>7, WriteInClusterKeeps, WriteToNextKeeps, WriteToNewKeeps, WriteClippedKeeps,
       WriteReturnKeeps
<1>8. CASE \E n \in Nat \ {0} : fat_read(n)
    BY <1>8, ReadKeeps
<1>9. CASE ReadPiece
    BY <1>9, ReadPieceKeeps
<1>10. CASE ReadReturns
    <2>1. op.h # Dir
        BY <1>10, ClustersAre DEF ReadReturns, VolumeInv, Whose
    <2> QED
        BY <1>10, <2>1, ReturnKeeps DEF ReadReturns
<1>11. CASE UNCHANGED vars
    <2>1. UNCHANGED <<fat, last_cluster_alloc, entry, disk, file, cwd, op, chain>>
        BY <1>11 DEF vars
    <2> QED
        BY <2>1, KeptInPlace DEF VolumeInv, Types, Whose, Heads, Synced, Inside, Freed, First, In, h
<1> QED
    BY <1>1, <1>2, <1>3, <1>4, <1>5, <1>6, <1>7, <1>8, <1>9, <1>10, <1>11 DEF Next

LEMMA VolumeInvariant == Spec => []VolumeInv
BY InitVolume, VolumeStep, PTL DEF Spec

\* The data area starts at a multiple of sectors_per_cluster, so that the loops
\* know the last sector of a cluster by its number.
Aligned == first_data_sector % SPC = 0

\* In an aligned volume with a caller that heeds the free space, entries, handles
\* and links of the FAT stay within the volume, whatever the calls.  This and the
\* next three are stated only there because elsewhere data can land on the
\* directory (see entry in FatVolume); the invariant itself needs neither.
THEOREM FatTypeCorrect ==
    ASSUME Aligned
    PROVE  HeedingSpec => []FatTypeOK
<1>1. VolumeInv => FatTypeOK
    <2> SUFFICES ASSUME Types PROVE FatTypeOK
        BY DEF VolumeInv
    <2>1. Links \subseteq 0 .. Eoc
        BY VolumeAssumption DEF Links, Clusters, Eoc
    <2>2. fat \in [Clusters -> 0 .. Eoc]
        BY <2>1 DEF Types
    <2>3. \A f \in Files : entry[f] \in Entries
        BY DEF Types
    <2> QED
        BY <2>2, <2>3, ClustersAre
        DEF FatTypeOK, Types, HandleOK, Handles, Links, Entries, Ops, UnitValues
<1> QED
    BY <1>1, VolumeInvariant, PTL DEF HeedingSpec

\* No cluster is ever in two files or twice in one, however writes, seeks,
\* creations and the steps of deletions follow each other.
THEOREM NoClusterShared ==
    ASSUME Aligned
    PROVE  HeedingSpec => []ChainsDisjoint
<1>1. VolumeInv => ChainsDisjoint
    BY DEF VolumeInv, Held
<1> QED
    BY <1>1, VolumeInvariant, PTL DEF HeedingSpec

\* The FAT holds the chains of the files and the directory and loses no
\* cluster, also between the steps of an allocation or a deletion.
THEOREM NoClusterLost ==
    ASSUME Aligned
    PROVE  HeedingSpec => []FatHoldsChains
<1>1. VolumeInv => FatHoldsChains
    BY DEF VolumeInv, Held
<1> QED
    BY <1>1, VolumeInvariant, PTL DEF HeedingSpec

\* The clusters of files that were on the card before are never linked, freed
\* or given to another file.
THEOREM OthersUntouched ==
    ASSUME Aligned
    PROVE  HeedingSpec => []OthersKept
<1>1. VolumeInv => OthersKept
    BY DEF VolumeInv, Held
<1> QED
    BY <1>1, VolumeInvariant, PTL DEF HeedingSpec

-----------------------------------------------------------------------------
(* Where the loops of fat_write, fat_read and fat_lseek stand, for every   *)
(* geometry with an aligned data area                                      *)

PerCluster == SPC * BPS

-----------------------------------------------------------------------------
(* The inductive invariant                                                 *)

\* c is the j-th cluster of the chain s, counted from 0, or s is over.
Nth(s, j, c) == IF j < Len(s) THEN c = s[j + 1] ELSE c \notin Clusters

\* Position p is in cluster c of s, or at the end of s.
At(s, p, c) ==
    \E j \in 0 .. Len(s), r \in 0 .. PerCluster - 1 :
        /\ p = PerCluster * j + r
        /\ Nth(s, j, c)
        /\ j = Len(s) => r = 0

\* On the way to p, n units before it, a seek has come to cluster c of s.
Seeks(s, p, n, c) ==
    /\ p <= PerCluster * Len(s)
    /\ \E j \in 0 .. Len(s) : p - n = PerCluster * j /\ Nth(s, j, c)

\* A handle is at its place; or it is behind the last cluster, where a write has
\* been cut short.
Stands(o, x) ==
    \/ At(chain[o], x.pos, x.cur)
    \/ clipped /\ x.pos = PerCluster * Len(chain[o])

Positions ==
    /\ file.of \in Files /\ ~(op.pc = "seek" /\ op.h = file.of) => Stands(file.of, file)
    /\ op.pc = "write" /\ op.h = Dir /\ op.val = LongName => At(chain[Dir], cwd.pos, cwd.cur)
    /\ op.pc = "seek" => Seeks(chain[op.h], h.pos, op.n, h.cur)
    /\ \A f \in Files : ~Freed(f) => entry[f].size <= PerCluster * Len(chain[f])
    /\ op.pc \in {"write", "read"} /\ op.n > 0
          => At(chain[op.h], h.pos, h.cur) /\ op.sector = SectorOf(h) /\ op.offset = OffsetOf(h)
    /\ op.pc = "write" /\ op.h = Dir => op.n \in {0, 1}

\* A file is being created with a cluster to spare, until its name is written.
Room ==
    op.h = Dir /\ (op.pc = "seek" \/ (op.pc = "write" /\ op.val = LongName /\ op.n > 0))
        => ~NoFreeCluster

-----------------------------------------------------------------------------
(* Positions in a chain                                                    *)

LEMMA PerClusterIs == PerCluster \in Nat \ {0} /\ PerCluster \in Nat /\ PerCluster > 0
BY ProductsAre, VolumeAssumption DEF PerCluster

LEMMA AtStart ==
    ASSUME NEW s \in Seq(Clusters)
    PROVE  At(s, 0, IF s = <<>> THEN 0 ELSE s[1])
<1>1. Len(s) \in Nat /\ (s = <<>> <=> Len(s) = 0)
    BY EmptySeq
<1>2. 0 \in 0 .. Len(s) /\ 0 \in 0 .. PerCluster - 1 /\ 0 = PerCluster * 0 + 0
    BY <1>1, PerClusterIs
<1>3. Nth(s, 0, IF s = <<>> THEN 0 ELSE s[1])
    BY <1>1, ClustersAre DEF Nth
<1> QED
    BY <1>2, <1>3 DEF At

LEMMA AtWithin ==
    ASSUME NEW s \in Seq(Clusters), NEW p \in Nat, NEW c, At(s, p, c)
    PROVE  p <= PerCluster * Len(s)
<1>1. Len(s) \in Nat
    OBVIOUS
<1>2. PICK j \in 0 .. Len(s), r \in 0 .. PerCluster - 1 : p = PerCluster * j + r /\ (j = Len(s) => r = 0)
    BY DEF At
<1>3. CASE j = Len(s)
    BY <1>1, <1>2, <1>3, PerClusterIs
<1>4. CASE j < Len(s)
    <2>1. PerCluster * (j + 1) <= PerCluster * Len(s)
        BY <1>1, <1>4, PerClusterIs
    <2> QED
        BY <1>1, <1>2, <2>1, PerClusterIs
<1> QED
    BY <1>1, <1>3, <1>4

\* In a cluster, the position tells which one.
LEMMA AtInside ==
    ASSUME NEW s \in Seq(Clusters), NEW p \in Nat, NEW c \in Clusters, At(s, p, c)
    PROVE  /\ p \div PerCluster \in Nat /\ p \div PerCluster < Len(s)
           /\ s[(p \div PerCluster) + 1] = c
           /\ p % PerCluster \in 0 .. PerCluster - 1
           /\ p = PerCluster * (p \div PerCluster) + (p % PerCluster)
<1>1. Len(s) \in Nat
    OBVIOUS
<1>2. PICK j \in 0 .. Len(s), r \in 0 .. PerCluster - 1 : p = PerCluster * j + r /\ Nth(s, j, c)
    BY DEF At
<1>3. p \div PerCluster = j /\ p % PerCluster = r
    <2>1. (PerCluster * j + r) \div PerCluster = j /\ (PerCluster * j + r) % PerCluster = r
        BY <1>1, PerClusterIs, QuotientIs
    <2> QED
        BY <1>2, <2>1
<1>4. j < Len(s) /\ c = s[j + 1]
    BY <1>2 DEF Nth
<1> QED
    BY <1>1, <1>2, <1>3, <1>4

\* d follows c in the chain s.
Follows(s, c, d) ==
    \A i \in 1 .. Len(s) : s[i] = c => IF i = Len(s) THEN d \notin Clusters ELSE d = s[i + 1]

LEMMA FatFollows ==
    ASSUME Types, Held, NEW o \in Owners, NEW c \in Clusters
    PROVE  Follows(chain[o], c, fat[c])
BY ClustersAre DEF Follows, Held, FatHoldsChains

LEMMA SeekStart ==
    ASSUME NEW s \in Seq(Clusters), NEW p \in Nat, p <= PerCluster * Len(s)
    PROVE  Seeks(s, p, p, IF s = <<>> THEN 0 ELSE s[1])
<1>1. Len(s) \in Nat /\ (s = <<>> <=> Len(s) = 0)
    BY EmptySeq
<1>2. Nth(s, 0, IF s = <<>> THEN 0 ELSE s[1])
    BY <1>1, ClustersAre DEF Nth
<1>3. 0 \in 0 .. Len(s) /\ p - p = PerCluster * 0
    BY <1>1, PerClusterIs
<1> QED
    BY <1>2, <1>3 DEF Seeks

LEMMA SeekStep ==
    ASSUME NEW s \in Seq(Clusters), NEW p \in Nat, NEW n \in Nat, NEW c \in Clusters,
           Seeks(s, p, n, c), NEW d, Follows(s, c, d)
    PROVE  Seeks(s, p, n - PerCluster, d)
<1>1. Len(s) \in Nat
    OBVIOUS
<1>2. PICK j \in 0 .. Len(s) : p - n = PerCluster * j /\ Nth(s, j, c)
    BY DEF Seeks
<1>3. j < Len(s) /\ c = s[j + 1] /\ j + 1 \in 1 .. Len(s)
    BY <1>1, <1>2 DEF Nth
<1>4. IF j + 1 = Len(s) THEN d \notin Clusters ELSE d = s[(j + 1) + 1]
    BY <1>3 DEF Follows
<1>5. Nth(s, j + 1, d)
    BY <1>1, <1>3, <1>4 DEF Nth
<1>6. p - (n - PerCluster) = PerCluster * (j + 1) /\ j + 1 \in 0 .. Len(s)
    BY <1>1, <1>2, <1>3, PerClusterIs
<1> QED
    BY <1>5, <1>6 DEF Seeks

LEMMA SeekEnd ==
    ASSUME NEW s \in Seq(Clusters), NEW p \in Nat, NEW n \in Nat, NEW c,
           Seeks(s, p, n, c), n < PerCluster
    PROVE  At(s, p, c)
<1>1. Len(s) \in Nat
    OBVIOUS
<1>2. PICK j \in 0 .. Len(s) : p - n = PerCluster * j /\ Nth(s, j, c)
    BY DEF Seeks
<1>3. p = PerCluster * j + n /\ n \in 0 .. PerCluster - 1
    BY <1>1, <1>2, PerClusterIs
<1>4. j = Len(s) => n = 0
    BY <1>1, <1>3, PerClusterIs DEF Seeks
<1> QED
    BY <1>2, <1>3, <1>4 DEF At

\* A piece of m units from p on that ends with the last sector of its cluster
\* leads to the next cluster of the chain, any other stays in c.
LEMMA PieceMoves ==
    ASSUME NEW s \in Seq(Clusters), NEW p \in Nat, NEW c \in Clusters, At(s, p, c),
           NEW m \in 1 .. BPS - (p % BPS)
    PROVE  IF (p % BPS) + m = BPS /\ ((p \div BPS) % SPC) + 1 = SPC
           THEN \A d : Follows(s, c, d) => At(s, p + m, d)
           ELSE At(s, p + m, c)
<1>1. Len(s) \in Nat /\ m \in Nat
    BY VolumeAssumption
<1> DEFINE j == p \div PerCluster
<1> DEFINE r == p % PerCluster
<1>2. j \in Nat /\ j < Len(s) /\ s[j + 1] = c /\ r \in 0 .. PerCluster - 1
    BY AtInside
<1>3. j + 1 \in 1 .. Len(s) /\ j + 1 \in 0 .. Len(s) /\ j \in 0 .. Len(s)
    BY <1>1, <1>2
<1> DEFINE ends == (p % BPS) + m = BPS /\ ((p \div BPS) % SPC) + 1 = SPC
<1>4. /\ ends => p + m = PerCluster * (j + 1)
      /\ ~ends => r + m \in 0 .. PerCluster - 1 /\ p + m = PerCluster * j + (r + m)
    <2>1. SPC \in Nat \ {0} /\ BPS \in Nat \ {0}
        BY VolumeAssumption
    <2>2. ends => p + m = (SPC * BPS) * ((p \div (SPC * BPS)) + 1)
        BY <2>1, PieceInChain
    <2>3. ~ends => (p % (SPC * BPS)) + m \in 0 .. SPC * BPS - 1
        BY <2>1, PieceInChain
    <2>4. p = PerCluster * j + r
        BY AtInside
    <2>5. p + m = PerCluster * j + (r + m)
        <3> HIDE DEF j, r
        <3> QED
            BY <1>1, <1>2, <2>4, PerClusterIs
    <2> QED
        BY <2>2, <2>3, <2>5 DEF PerCluster
<1> HIDE DEF j, r
<1>5. ASSUME p + m = PerCluster * (j + 1), NEW d, Follows(s, c, d) PROVE At(s, p + m, d)
    <2>1. IF j + 1 = Len(s) THEN d \notin Clusters ELSE d = s[(j + 1) + 1]
        BY <1>2, <1>3, <1>5 DEF Follows
    <2>2. Nth(s, j + 1, d)
        BY <1>1, <1>2, <1>3, <2>1 DEF Nth
    <2>3. 0 \in 0 .. PerCluster - 1 /\ p + m = PerCluster * (j + 1) + 0
        BY <1>2, <1>5, PerClusterIs
    <2> QED
        BY <1>3, <2>2, <2>3 DEF At
<1>6. ASSUME r + m \in 0 .. PerCluster - 1, p + m = PerCluster * j + (r + m) PROVE At(s, p + m, c)
    BY <1>1, <1>2, <1>3, <1>6 DEF At, Nth
<1> QED
    BY <1>4, <1>5, <1>6

LEMMA AtLonger ==
    ASSUME NEW s \in Seq(Clusters), NEW p \in Nat, NEW c \in Clusters, At(s, p, c), NEW d \in Clusters
    PROVE  At(Append(s, d), p, c) /\ Append(s, d) \in Seq(Clusters) /\ Len(Append(s, d)) = Len(s) + 1
<1>1. /\ Len(s) \in Nat /\ Append(s, d) \in Seq(Clusters) /\ Len(Append(s, d)) = Len(s) + 1
      /\ \A i \in 1 .. Len(s) : Append(s, d)[i] = s[i]
    OBVIOUS
<1>2. PICK j \in 0 .. Len(s), r \in 0 .. PerCluster - 1 : p = PerCluster * j + r /\ Nth(s, j, c)
    BY DEF At
<1>3. j < Len(s) /\ c = s[j + 1] /\ j + 1 \in 1 .. Len(s) /\ j \in 0 .. Len(Append(s, d))
      /\ j # Len(Append(s, d))
    BY <1>1, <1>2 DEF Nth
<1>4. Nth(Append(s, d), j, c)
    BY <1>1, <1>3 DEF Nth
<1> QED
    BY <1>1, <1>2, <1>3, <1>4 DEF At

\* The sector and the offset that a loop carries are those of its position.
LEMMA PlaceIs ==
    ASSUME Types, NEW o \in Owners, NEW x \in Handles(Owners), x.cur \in Clusters,
           At(chain[o], x.pos, x.cur)
    PROVE  Placed(o, x.pos) /\ Unit(SectorOf(x), OffsetOf(x)) = Place(o, x.pos)
<1> DEFINE t == (x.pos \div BPS) % SPC
<1> DEFINE first == fat_first_sector_of_cluster(x.cur)
<1>1. x.pos \in Nat /\ x.cur \in Nat /\ chain[o] \in Seq(Clusters)
    BY ClustersAre DEF Handles, Types
<1>2. /\ x.pos \div PerCluster < Len(chain[o])
      /\ chain[o][(x.pos \div PerCluster) + 1] = x.cur
    BY <1>1, AtInside
<1>3. x.pos % PerCluster = BPS * t + (x.pos % BPS) /\ t \in Nat /\ x.pos % BPS \in Nat
    <2>1. SPC \in Nat \ {0} /\ BPS \in Nat \ {0}
        BY VolumeAssumption
    <2>2. /\ t \in 0 .. SPC - 1 /\ x.pos % BPS \in 0 .. BPS - 1
          /\ x.pos % PerCluster = BPS * t + (x.pos % BPS)
        BY <1>1, <2>1, SplitIs DEF PerCluster
    <2> QED
        BY <2>1, <2>2
<1>4. first \in Int
    BY <1>1, VolumeAssumption DEF fat_first_sector_of_cluster
<1>5. Unit(SectorOf(x), OffsetOf(x)) = (first + t) * BPS + (x.pos % BPS)
    BY DEF Unit, SectorOf, OffsetOf
<1>6. Place(o, x.pos) = (first * BPS + 0) + (x.pos % PerCluster)
    BY <1>2 DEF Place, Unit, PerCluster
<1> HIDE DEF first, t
<1>7. (first + t) * BPS = first * BPS + BPS * t
    BY <1>3, <1>4, VolumeAssumption
<1>8. first * BPS \in Int /\ BPS * t \in Int
    BY <1>3, <1>4, VolumeAssumption
<1> QED
    BY <1>2, <1>3, <1>5, <1>6, <1>7, <1>8 DEF Placed, PerCluster

LEMMA InPlaceHolds == VolumeInv /\ Positions => InPlace
<1> SUFFICES ASSUME VolumeInv, Positions, op.pc \in {"write", "read"}, op.n > 0
             PROVE  Placed(op.h, h.pos) /\ Unit(op.sector, op.offset) = Place(op.h, h.pos)
    BY DEF InPlace
<1>1. Types /\ Whose
    BY DEF VolumeInv
<1>2. /\ op.h \in Owners /\ h \in Handles(Owners)
      /\ op.h # Dir => op.h = file.of /\ op.h \in Files /\ h = file
      /\ op.h = Dir => h = cwd
    BY <1>1, HandleOfCall
<1>3. h.cur \in Clusters
    BY PieceShapes
<1>4. At(chain[op.h], h.pos, h.cur)
    BY DEF Positions
<1> QED
    BY <1>1, <1>2, <1>3, <1>4, PlaceIs DEF Positions

-----------------------------------------------------------------------------
(* Steps that move no piece                                                *)

LEMMA FirstAt ==
    ASSUME Types, NEW o \in Owners
    PROVE  /\ At(chain[o], 0, First(o))
           /\ \A p \in Nat : p <= PerCluster * Len(chain[o]) => Seeks(chain[o], p, p, First(o))
<1>1. chain[o] \in Seq(Clusters)
    BY DEF Types
<1> QED
    BY <1>1, AtStart, SeekStart DEF First

\* The open file and the entries when a step leaves them alone.
LEMMA FileStays ==
    ASSUME VolumeInv, Positions, UNCHANGED <<file, entry, chain, clipped>>,
           op.pc # "seek" \/ op.h = Dir, op.pc # "unlink", op'.pc # "unlink"
    PROVE  /\ file'.of \in Files => Stands(file.of, file)'
           /\ \A f \in Files : entry'[f].size <= PerCluster * Len(chain'[f])
BY ClustersAre DEF Positions, Freed, Stands

LEMMA OpenPositions ==
    ASSUME VolumeInv, Positions, NEW f \in Files, fat_open(f)
    PROVE  Positions'
<1>1. Types /\ op.pc = "idle" /\ file' = Handle(f, entry[f]) /\ UNCHANGED <<entry, op, chain, clipped>>
    BY DEF VolumeInv, fat_open, Idle
<1>2. file'.of = f /\ file'.cur = First(f) /\ file'.pos = 0 /\ f \in Owners
    BY <1>1, IdleKnows DEF Handle, Owners
<1>3. At(chain[f], 0, First(f))
    BY <1>1, <1>2, FirstAt
<1> QED
    BY <1>1, <1>2, <1>3 DEF Positions, Stands, Freed

LEMMA CreatePositions ==
    ASSUME VolumeInv, Positions, NEW f \in Files, fat_create(f)
    PROVE  Positions'
<1>1. /\ Types /\ Heads /\ op.pc = "idle"
      /\ cwd' = [cwd EXCEPT !.pos = EmptySlot, !.cur = cwd.first]
      /\ op' = [Idle EXCEPT !.pc = "seek", !.h = Dir, !.name = f, !.n = EmptySlot]
      /\ UNCHANGED <<entry, file, chain, clipped>>
    BY DEF VolumeInv, fat_create, Idle
<1>2. op'.pc = "seek" /\ op'.h = Dir /\ op'.n = EmptySlot
    BY <1>1 DEF Idle
<1>3. cwd'.pos = EmptySlot /\ cwd'.cur = First(Dir) /\ h' = cwd'
    BY <1>1, <1>2 DEF Types, Handles, Heads, First, h
<1>4. EmptySlot \in Nat /\ EmptySlot <= PerCluster * Len(chain[Dir])
    <2> DEFINE len == Len(chain[Dir])
    <2>1. len \in Nat /\ SPC \in Nat \ {0} /\ BPS \in Nat \ {0}
        BY <1>1, VolumeAssumption DEF Types, Owners
    <2>2. EmptySlot \in 0 .. len * SPC * BPS
        BY <1>1, EmptySlotIs
    <2> HIDE DEF len
    <2>3. len * SPC * BPS = (SPC * BPS) * len /\ len * SPC * BPS \in Nat
        BY <2>1, ProductsAre
    <2>4. EmptySlot \in Nat /\ EmptySlot <= (SPC * BPS) * len
        BY <2>2, <2>3
    <2> QED
        BY <2>4 DEF PerCluster, len
<1>5. Seeks(chain[Dir], EmptySlot, EmptySlot, First(Dir))
    BY <1>1, <1>4, FirstAt DEF Owners
<1> QED
    BY <1>1, <1>2, <1>3, <1>5, FileStays DEF Positions, Stands

LEMMA LongNamePositions ==
    ASSUME VolumeInv, Positions, WriteLongName
    PROVE  Positions'
<1>1. /\ Types /\ op.pc = "seek" /\ op.h = Dir /\ op.n < PerCluster /\ h = cwd
      /\ UNCHANGED <<entry, file, chain, clipped>>
    BY DEF VolumeInv, WriteLongName, PerCluster, h
<1>2. At(chain[Dir], cwd.pos, cwd.cur)
    <2>1. chain[Dir] \in Seq(Clusters) /\ cwd.pos \in Nat /\ op.n \in Nat
        BY <1>1 DEF Types, Handles, Ops, Owners
    <2>2. Seeks(chain[Dir], cwd.pos, op.n, cwd.cur)
        BY <1>1 DEF Positions, Stands
    <2> QED
        BY <1>1, <2>1, <2>2, SeekEnd
<1>3. CASE cwd.cur \in Clusters
    <2>1. Loop("write", cwd, 1, LongName) /\ UNCHANGED cwd /\ cwd.of = Dir /\ op \in Ops
        BY <1>1, <1>3 DEF WriteLongName, Types, Handles
    <2>2. /\ op'.pc = "write" /\ op'.h = Dir /\ op'.n = 1
          /\ op'.sector = SectorOf(cwd) /\ op'.offset = OffsetOf(cwd)
        BY <2>1 DEF Loop, Ops
    <2>3. h' = cwd
        BY <2>1, <2>2 DEF h
    <2> QED
        BY <1>1, <1>2, <2>1, <2>2, <2>3, FileStays DEF Positions, Stands, SectorOf, OffsetOf
<1>4. CASE cwd.cur \notin Clusters
    <2>1. op'.pc = "idle"
        BY <1>4 DEF WriteLongName, Idle
    <2> QED
        BY <1>1, <2>1, FileStays DEF Positions, Stands
<1> QED
    BY <1>3, <1>4

LEMMA ShortNamePositions ==
    ASSUME VolumeInv, Positions, WriteShortName
    PROVE  Positions'
<1>1. /\ Types /\ op.pc = "write" /\ op.h = Dir /\ Loop("write", cwd, 1, op.name)
      /\ op \in Ops /\ cwd.of = Dir /\ UNCHANGED <<entry, file, cwd, chain, clipped>>
      /\ At(chain[Dir], cwd.pos, cwd.cur)
    BY DEF VolumeInv, WriteShortName, Types, Handles, Positions
<1>2. /\ op'.pc = "write" /\ op'.h = Dir /\ op'.n = 1
      /\ op'.sector = SectorOf(cwd) /\ op'.offset = OffsetOf(cwd)
    BY <1>1 DEF Loop, Ops
<1>3. h' = cwd
    BY <1>1, <1>2 DEF h
<1> QED
    BY <1>1, <1>2, <1>3, FileStays DEF Positions, Stands, SectorOf, OffsetOf

LEMMA CreateReturnPositions ==
    ASSUME VolumeInv, Positions, CreateReturns
    PROVE  Positions'
<1> DEFINE f == op.name
<1> DEFINE e == [first |-> 0, size |-> 0, at |-> op.at]
<1>1. /\ Types /\ Whose /\ Heads /\ Synced /\ op.pc = "write" /\ op.h = Dir
      /\ entry' = [entry EXCEPT ![f] = e] /\ file' = Handle(f, entry'[f])
      /\ op'.pc = "idle" /\ UNCHANGED <<chain, clipped>>
    BY DEF VolumeInv, CreateReturns, Idle
<1>2. f \in Files /\ f \in Owners /\ entry[f] = NoEntry
    BY <1>1, ClustersAre DEF Whose, Owners
<1>3. entry'[f] = e /\ \A g \in Files \ {f} : entry'[g] = entry[g]
    BY <1>1, <1>2 DEF Types
<1>4. First(f) = 0
    BY <1>1, <1>2, ClustersAre DEF Heads, Synced, Freed, NoEntry
<1>5. file'.of = f /\ file'.cur = 0 /\ file'.pos = 0 /\ At(chain[f], 0, 0)
    BY <1>1, <1>2, <1>3, <1>4, FirstAt DEF Handle
<1>6. \A g \in Files : entry'[g].size <= PerCluster * Len(chain[g])
    <2>1. PerCluster * Len(chain[f]) >= 0
        BY <1>1, <1>2, PerClusterIs DEF Types
    <2> QED
        BY <1>1, <1>2, <1>3, <2>1 DEF Positions, Stands, Freed
<1> QED
    BY <1>1, <1>5, <1>6 DEF Positions, Stands

LEMMA UnlinkPositions ==
    ASSUME VolumeInv, Positions, NEW f \in Files, fat_unlink(f)
    PROVE  Positions'
<1>1. /\ op.pc = "idle" /\ op'.pc = "unlink" /\ op'.name = f /\ UNCHANGED <<entry, file, chain, clipped>>
    BY DEF fat_unlink, Idle
<1> QED
    BY <1>1 DEF Positions, Stands, Freed

LEMMA ChainUnlinkPositions ==
    ASSUME VolumeInv, Positions, fat_chain_unlink
    PROVE  Positions'
<1>1. /\ Types /\ Whose /\ op.pc = "unlink" /\ op'.pc = "unlink" /\ op'.name = op.name
      /\ chain' = [chain EXCEPT ![op.name] = Tail(@)] /\ UNCHANGED <<entry, file, clipped>>
    BY DEF VolumeInv, fat_chain_unlink, Types, Ops
<1>2. op.name \in Files /\ op.name # file.of /\ \A g \in Files : g # op.name => chain'[g] = chain[g]
    BY <1>1 DEF Whose, Types, Owners
<1> QED
    BY <1>1, <1>2 DEF Positions, Stands, Freed

LEMMA UnlinkReturnPositions ==
    ASSUME VolumeInv, Positions, UnlinkReturns
    PROVE  Positions'
<1> DEFINE f == op.name
<1>1. /\ Types /\ Whose /\ op.pc = "unlink" /\ op'.pc = "idle"
      /\ entry' = [entry EXCEPT ![f] = NoEntry] /\ UNCHANGED <<file, chain, clipped>>
    BY DEF VolumeInv, UnlinkReturns, Idle
<1>2. f \in Files /\ f \in Owners
    BY <1>1 DEF Whose, Owners
<1>3. entry'[f].size = 0 /\ \A g \in Files \ {f} : entry'[g] = entry[g]
    BY <1>1, <1>2 DEF Types, NoEntry
<1>4. PerCluster * Len(chain[f]) >= 0
    BY <1>1, <1>2, PerClusterIs DEF Types
<1> QED
    BY <1>1, <1>3, <1>4 DEF Positions, Stands, Freed

LEMMA LseekPositions ==
    ASSUME VolumeInv, Positions, NEW p \in 0 .. file.size, fat_lseek(p)
    PROVE  Positions'
<1>1. /\ Types /\ Heads /\ Synced /\ op.pc = "idle" /\ file.of # NoFile /\ p <= file.size
      /\ file' = [file EXCEPT !.pos = p, !.cur = file.first]
      /\ op' = [Idle EXCEPT !.pc = "seek", !.h = file.of, !.n = p]
      /\ UNCHANGED <<entry, cwd, chain, clipped>>
    BY DEF VolumeInv, fat_lseek, Idle
<1> PICK f \in Files : f = file.of
    BY <1>1 DEF Types, Handles
<1>2. f \in Owners /\ f # Dir /\ p \in Nat /\ file.first = First(f) /\ file.size = entry[f].size
    BY <1>1, ClustersAre DEF Owners, Heads, Freed, Synced
<1>3. op'.pc = "seek" /\ op'.h = f /\ op'.n = p
    BY <1>1 DEF Idle
<1>4. file'.of = f /\ file'.pos = p /\ file'.cur = First(f) /\ h' = file'
    BY <1>1, <1>2, <1>3 DEF Types, Handles, h
<1>5. p <= PerCluster * Len(chain[f])
    <2>1. entry[f].size <= PerCluster * Len(chain[f]) /\ entry[f].size \in Nat
        BY <1>1 DEF Positions, Stands, Freed, Types, Entries
    <2>2. PerCluster * Len(chain[f]) \in Nat
        BY <1>1, <1>2, PerClusterIs DEF Types
    <2> QED
        BY <1>1, <1>2, <2>1, <2>2
<1>6. Seeks(chain[f], p, p, First(f))
    BY <1>1, <1>2, <1>5, FirstAt
<1> QED
    BY <1>1, <1>2, <1>3, <1>4, <1>6 DEF Positions, Stands, Freed

LEMMA SeekPositions ==
    ASSUME VolumeInv, Positions, SeekCluster
    PROVE  Positions'
<1> DEFINE c == fat[h.cur]
<1> DEFINE x == [h EXCEPT !.cur = c]
<1>1. /\ Types /\ Whose /\ Held /\ op.pc = "seek" /\ op.n >= PerCluster /\ h.cur \in Clusters
      /\ SetHandle(x) /\ op' = [op EXCEPT !.n = op.n - PerCluster] /\ UNCHANGED <<entry, chain, clipped>>
    BY DEF VolumeInv, SeekCluster, NextCluster, PerCluster
<1>2. /\ op.h \in Owners /\ h \in Handles(Owners)
      /\ op.h # Dir => op.h = file.of /\ op.h \in Files /\ h = file
      /\ op.h = Dir => h = cwd
    BY <1>1, HandleOfCall
<1>3. op'.pc = "seek" /\ op'.h = op.h /\ op'.n = op.n - PerCluster
    BY <1>1 DEF Types, Ops
<1>4. x.of = h.of /\ x.pos = h.pos /\ x.cur = c
    BY <1>2 DEF Handles
<1>5. Seeks(chain[op.h], h.pos, op.n - PerCluster, c)
    <2>1. chain[op.h] \in Seq(Clusters) /\ h.pos \in Nat /\ op.n \in Nat
        BY <1>1, <1>2 DEF Types, Handles, Ops
    <2>2. Seeks(chain[op.h], h.pos, op.n, h.cur)
        BY <1>1 DEF Positions, Stands
    <2>3. Follows(chain[op.h], h.cur, c)
        BY <1>1, <1>2, FatFollows
    <2> QED
        BY <1>1, <2>1, <2>2, <2>3, SeekStep
<1>6. h' = x
    BY <1>1, <1>3 DEF SetHandle, h
<1>7. file'.of \in Files /\ ~(op'.pc = "seek" /\ op'.h = file'.of) => UNCHANGED file /\ op.h = Dir
    <2>1. op.h # Dir => file' = x
        BY <1>1 DEF SetHandle
    <2>2. op.h # Dir => file'.of = op.h
        BY <1>2, <1>4, <2>1, <1>1, HandleOfCall
    <2> QED
        BY <1>1, <1>3, <2>2 DEF SetHandle
<1> HIDE DEF x, c
<1>8. Seeks(chain'[op'.h], h'.pos, op'.n, h'.cur)
    BY <1>1, <1>3, <1>4, <1>5, <1>6
<1>9. file'.of \in Files /\ ~(op'.pc = "seek" /\ op'.h = file'.of)
          => Stands(file.of, file)'
    BY <1>1, <1>7, ClustersAre DEF Positions, Stands
<1> QED
    BY <1>1, <1>3, <1>8, <1>9 DEF Positions, Stands, Freed

LEMMA LseekReturnPositions ==
    ASSUME VolumeInv, Positions, LseekReturns
    PROVE  Positions'
<1>1. /\ Types /\ Whose /\ op.pc = "seek" /\ op.h # Dir /\ op.n < PerCluster /\ op'.pc = "idle"
      /\ UNCHANGED <<entry, file, chain, clipped>>
    BY DEF VolumeInv, LseekReturns, Idle, PerCluster
<1>2. op.h = file.of /\ op.h \in Files /\ h = file
    BY <1>1, HandleOfCall
<1>3. At(chain[file.of], file.pos, file.cur)
    <2>1. chain[file.of] \in Seq(Clusters) /\ file.pos \in Nat /\ op.n \in Nat
        BY <1>1, <1>2 DEF Types, Handles, Ops, Owners
    <2>2. Seeks(chain[file.of], file.pos, op.n, file.cur)
        BY <1>1, <1>2 DEF Positions, Stands
    <2> QED
        BY <1>1, <2>1, <2>2, SeekEnd
<1> QED
    BY <1>1, <1>3 DEF Positions, Stands, Freed

-----------------------------------------------------------------------------
(* Steps of the loops                                                      *)

LEMMA PieceIs ==
    ASSUME Aligned, VolumeInv, Positions, op.pc \in {"write", "read"}, op.n > 0
    PROVE  /\ h \in Handles(Owners) /\ h.pos \in Nat /\ h.cur \in Clusters /\ op.h \in Owners
           /\ chain[op.h] \in Seq(Clusters) /\ At(chain[op.h], h.pos, h.cur)
           /\ op.sector = SectorOf(h) /\ op.offset = OffsetOf(h)
           /\ Piece \in 1 .. BPS - (h.pos % BPS)
           /\ EndsSector <=> (h.pos % BPS) + Piece = BPS
           /\ EndsCluster <=> (h.pos % BPS) + Piece = BPS /\ ((h.pos \div BPS) % SPC) + 1 = SPC
<1>1. Types /\ Whose
    BY DEF VolumeInv
<1>2. /\ op.h \in Owners /\ h \in Handles(Owners)
      /\ op.h # Dir => op.h = file.of /\ op.h \in Files /\ h = file
      /\ op.h = Dir => h = cwd
    BY <1>1, HandleOfCall
<1>3. h.cur \in Clusters /\ h.pos \in Nat /\ Moved.pos = h.pos + Piece
    BY <1>2, PieceShapes DEF Handles
<1>4. At(chain[op.h], h.pos, h.cur)
    BY DEF Positions
<1>5. op.sector = SectorOf(h) /\ op.offset = h.pos % BPS
    BY DEF Positions, OffsetOf
<1>6. h.pos % BPS \in 0 .. BPS - 1 /\ (h.pos \div BPS) % SPC \in 0 .. SPC - 1
    BY <1>3, VolumeAssumption, SplitIs
<1>7. Piece \in 1 .. BPS - (h.pos % BPS)
    <2>1. op.n \in Nat /\ op.n > 0 /\ BPS \in Nat
        BY <1>1, VolumeAssumption DEF Types, Ops
    <2> DEFINE u == h.pos % BPS
    <2>2. u \in 0 .. BPS - 1 /\ Piece = IF op.n < BPS - u THEN op.n ELSE BPS - u
        BY <1>5, <1>6 DEF Piece
    <2> HIDE DEF u
    <2>3. Piece \in 1 .. BPS - u
        BY <2>1, <2>2
    <2> QED
        BY <2>3 DEF u
<1>8. EndsSector <=> (h.pos % BPS) + Piece = BPS
    <2>1. BPS \in Nat \ {0}
        BY VolumeAssumption
    <2>2. (h.pos + Piece) % BPS = 0 <=> (h.pos % BPS) + Piece = BPS
        BY <1>3, <1>7, <2>1, PieceInSector
    <2> QED
        BY <1>3, <2>2 DEF EndsSector
<1>9. (op.sector + 1) % SPC = 0 <=> ((h.pos \div BPS) % SPC) + 1 = SPC
    <2> DEFINE t == (h.pos \div BPS) % SPC
    <2> DEFINE first == fat_first_sector_of_cluster(h.cur)
    <2>1. SPC \in Nat \ {0} /\ first_data_sector \in Nat /\ h.cur - 2 \in Int
        BY <1>3, ClustersAre, VolumeAssumption
    <2>2. first \in Int /\ first % SPC = 0
        <3> DEFINE c == h.cur - 2
        <3>1. first = c * SPC + first_data_sector /\ first_data_sector % SPC = 0
            BY DEF Aligned, fat_first_sector_of_cluster
        <3>2. c \in Int /\ first \in Int
            BY <2>1, <3>1
        <3> HIDE DEF c, first
        <3>3. (c * SPC + first_data_sector) % SPC = 0
            BY <2>1, <3>1, <3>2, ClusterAligned
        <3> QED
            BY <3>1, <3>2, <3>3
    <2>3. op.sector = first + t
        BY <1>5 DEF SectorOf
    <2> HIDE DEF t, first
    <2>4. (first + t + 1) % SPC = 0 <=> t + 1 = SPC
        BY <1>6, <2>1, <2>2, LastSectorIs DEF t
    <2> QED
        BY <2>3, <2>4 DEF t
<1> QED
    BY <1>1, <1>2, <1>3, <1>4, <1>5, <1>7, <1>8, <1>9 DEF EndsCluster, Types, OffsetOf

\* The sector and the offset after a piece.
LEMMA PlaceMoves ==
    ASSUME NEW p \in Nat, NEW m \in 1 .. BPS - (p % BPS)
    PROVE  LET ends == (p % BPS) + m = BPS
               t    == (p \div BPS) % SPC
           IN  /\ (p + m) % BPS = ((p % BPS) + m) % BPS
               /\ ~ends => (p + m) \div BPS = p \div BPS
               /\ ends /\ t + 1 # SPC => ((p + m) \div BPS) % SPC = t + 1
               /\ ends /\ t + 1 = SPC => ((p + m) \div BPS) % SPC = 0 /\ (p + m) % BPS = 0
<1> DEFINE q == p \div BPS
<1> DEFINE t == q % SPC
<1> DEFINE u == p % BPS
<1>1. SPC \in Nat \ {0} /\ BPS \in Nat \ {0}
    BY VolumeAssumption
<1>2. /\ (p + m) % BPS = (u + m) % BPS
      /\ u + m < BPS => (p + m) \div BPS = q
      /\ u + m = BPS => (p + m) \div BPS = q + 1 /\ (p + m) % BPS = 0
    BY <1>1, PieceInSector
<1>3. q \in Nat /\ t \in 0 .. SPC - 1 /\ u \in 0 .. BPS - 1
    BY <1>1
<1>4. u + m < BPS \/ u + m = BPS
    BY <1>1, <1>3
<1> HIDE DEF q, u
<1>5. t + 1 # SPC => (q + 1) % SPC = t + 1
    <2>1. 1 \in 1 .. SPC - (q % SPC)
        BY <1>1, <1>3
    <2>2. (q % SPC) + 1 < SPC => (q + 1) % SPC = (q % SPC) + 1
        BY <1>1, <1>3, <2>1, PieceInSector
    <2> QED
        BY <1>1, <1>3, <2>2
<1>6. t + 1 = SPC => (q + 1) % SPC = 0
    <2>1. 1 \in 1 .. SPC - (q % SPC)
        BY <1>1, <1>3
    <2>2. (q % SPC) + 1 = SPC => (q + 1) % SPC = 0
        BY <1>1, <1>3, <2>1, PieceInSector
    <2> QED
        BY <2>2
<1> QED
    BY <1>2, <1>4, <1>5, <1>6 DEF q, u

LEMMA HandleMoves ==
    ASSUME VolumeInv, Positions, op.pc \in {"write", "read"}, op.n > 0,
           NEW x \in Handles(Owners), SetHandle(x), x.of = h.of,
           op'.pc = op.pc, op'.h = op.h, op'.n \in 0 .. op.n - Piece, UNCHANGED entry,
           op'.n > 0 => op'.sector = SectorOf(x) /\ op'.offset = OffsetOf(x),
           \/ At(chain'[op.h], x.pos, x.cur) /\ UNCHANGED clipped
           \/ /\ clipped' /\ x.pos = PerCluster * Len(chain'[op.h]) /\ op'.n = 0
              /\ op.h = Dir => op'.val # LongName,
           chain' \in [Owners -> Seq(Clusters)],
           \A o \in Owners \ {op.h} : chain'[o] = chain[o],
           Len(chain'[op.h]) >= Len(chain[op.h])
    PROVE  Positions'
<1>1. Types /\ Whose
    BY DEF VolumeInv
<1>2. /\ op.h \in Owners /\ h \in Handles(Owners)
      /\ op.h # Dir => op.h = file.of /\ op.h \in Files /\ h = file
      /\ op.h = Dir => h = cwd
    BY <1>1, HandleOfCall
<1>3. h' = x
    BY DEF h, SetHandle
<1>4. file'.of \in Files => Stands(file.of, file)'
    <2>1. CASE op.h = Dir
        <3>1. UNCHANGED file /\ (file.of \in Files => file.of \in Owners \ {op.h})
            BY <2>1, ClustersAre DEF SetHandle, Owners
        <3>2. file.of \in Files => Stands(file.of, file)
            BY DEF Positions
        <3>3. (clipped => clipped') /\ (file.of \in Files => chain'[file.of] = chain[file.of])
            BY <3>1
        <3> QED
            BY <3>1, <3>2, <3>3 DEF Stands
    <2>2. CASE op.h # Dir
        BY <1>2, <2>2 DEF SetHandle, Stands
    <2> QED
        BY <2>1, <2>2
<1>5. op.h = Dir /\ op'.val = LongName => At(chain'[Dir], cwd'.pos, cwd'.cur)
    BY DEF SetHandle
<1>6. \A f \in Files : entry'[f].size <= PerCluster * Len(chain'[f])
    <2> SUFFICES ASSUME NEW f \in Files
                 PROVE  entry[f].size <= PerCluster * Len(chain'[f])
        OBVIOUS
    <2>1. f \in Owners /\ entry[f].size <= PerCluster * Len(chain[f]) /\ entry[f].size \in Nat
        BY <1>1 DEF Positions, Freed, Owners, Types, Entries
    <2>2. Len(chain[f]) \in Nat /\ Len(chain'[f]) \in Nat /\ Len(chain[f]) <= Len(chain'[f])
        <3>1. chain[f] \in Seq(Clusters) /\ chain'[f] \in Seq(Clusters)
            BY <1>1, <2>1 DEF Types
        <3>2. CASE f = op.h
            BY <3>1, <3>2
        <3>3. CASE f # op.h
            BY <2>1, <3>1, <3>3
        <3> QED
            BY <3>2, <3>3
    <2>3. /\ PerCluster * Len(chain[f]) <= PerCluster * Len(chain'[f])
          /\ PerCluster * Len(chain[f]) \in Nat /\ PerCluster * Len(chain'[f]) \in Nat
        BY <2>2, PerClusterIs, ProductGrows
    <2> QED
        BY <2>1, <2>3
<1>7. op.pc = "write" /\ op.h = Dir => op'.n \in {0, 1}
    <2>1. Piece \in 1 .. op.n
        BY <1>1, <1>2, PieceTypes
    <2> QED
        BY <2>1 DEF Positions
<1>8. op'.n > 0 => At(chain'[op.h], x.pos, x.cur)
    BY <1>7
<1> QED
    BY <1>3, <1>4, <1>5, <1>6, <1>7, <1>8 DEF Positions, SectorOf, OffsetOf

\* A piece that stays in its cluster.
LEMMA StayPositions ==
    ASSUME Aligned, VolumeInv, Positions, op.pc \in {"write", "read"}, op.n > 0,
           PieceInCluster, UNCHANGED <<entry, chain, clipped>>
    PROVE  Positions'
<1> DEFINE t == (h.pos \div BPS) % SPC
<1> DEFINE u == h.pos % BPS
<1>1. /\ h.pos \in Nat /\ h.cur \in Clusters /\ op.h \in Owners
      /\ chain[op.h] \in Seq(Clusters) /\ At(chain[op.h], h.pos, h.cur)
      /\ op.sector = SectorOf(h) /\ op.offset = u /\ Piece \in 1 .. BPS - u
      /\ EndsSector <=> u + Piece = BPS
      /\ EndsCluster <=> u + Piece = BPS /\ t + 1 = SPC
    BY PieceIs DEF OffsetOf
<1>2. /\ Moved \in Handles(Owners) /\ Moved.of = h.of /\ Moved.pos = h.pos + Piece
      /\ Moved.cur = h.cur /\ op'.pc = op.pc /\ op'.h = op.h /\ op'.n \in 0 .. op.n - Piece
      /\ ~EndsCluster /\ SetHandle(Moved)
    BY PieceShapes DEF PieceInCluster
<1>3. At(chain[op.h], Moved.pos, Moved.cur)
    BY <1>1, <1>2, PieceMoves
<1>4. /\ (h.pos + Piece) % BPS = (u + Piece) % BPS
      /\ ~EndsSector => (h.pos + Piece) \div BPS = h.pos \div BPS
      /\ EndsSector => ((h.pos + Piece) \div BPS) % SPC = t + 1
    BY <1>1, <1>2, PlaceMoves
<1>5. /\ op'.offset = (u + Piece) % BPS
      /\ op'.sector = IF EndsSector THEN op.sector + 1 ELSE op.sector
    <2>1. op \in Ops
        BY DEF VolumeInv, Types
    <2> QED
        BY <1>1, <2>1 DEF PieceInCluster, Ops
<1>6. OffsetOf(Moved) = op'.offset
    BY <1>2, <1>4, <1>5 DEF OffsetOf
<1>7. SectorOf(Moved) = op'.sector
    <2> DEFINE first == fat_first_sector_of_cluster(h.cur)
    <2>1. SectorOf(Moved) = first + (((h.pos + Piece) \div BPS) % SPC) /\ SectorOf(h) = first + t
        BY <1>2 DEF SectorOf
    <2>2. first \in Int /\ t \in Int
        BY <1>1, ClustersAre, VolumeAssumption DEF fat_first_sector_of_cluster
    <2> HIDE DEF first
    <2>3. CASE EndsSector
        <3>1. SectorOf(Moved) = first + (t + 1) /\ op'.sector = (first + t) + 1
            BY <1>1, <1>4, <1>5, <2>1, <2>3
        <3> HIDE DEF t
        <3> QED
            BY <2>2, <3>1
    <2>4. CASE ~EndsSector
        BY <1>1, <1>4, <1>5, <2>1, <2>4
    <2> QED
        BY <2>3, <2>4
<1> HIDE DEF t, u
<1>8. chain' \in [Owners -> Seq(Clusters)] /\ Len(chain[op.h]) \in Nat
    BY <1>1 DEF VolumeInv, Types
<1> QED
    BY <1>1, <1>2, <1>3, <1>6, <1>7, <1>8, HandleMoves

\* One that goes on in cluster c.
LEMMA NextPositions ==
    ASSUME Aligned, VolumeInv, Positions, op.pc \in {"write", "read"}, op.n > 0,
           NEW c \in Links, PieceToCluster(c), UNCHANGED <<entry, clipped>>,
           chain' \in [Owners -> Seq(Clusters)],
           \A o \in Owners \ {op.h} : chain'[o] = chain[o],
           Len(chain'[op.h]) >= Len(chain[op.h]),
           At(chain'[op.h], h.pos, h.cur), Follows(chain'[op.h], h.cur, c)
    PROVE  Positions'
<1> DEFINE x == [Moved EXCEPT !.cur = c]
<1> DEFINE t == (h.pos \div BPS) % SPC
<1> DEFINE u == h.pos % BPS
<1>1. /\ h.pos \in Nat /\ h.cur \in Clusters /\ op.h \in Owners
      /\ Piece \in 1 .. BPS - u
      /\ EndsCluster <=> u + Piece = BPS /\ t + 1 = SPC
    BY PieceIs
<1>2. /\ x \in Handles(Owners) /\ x.of = h.of /\ x.pos = h.pos + Piece
      /\ x.cur = c /\ op'.pc = op.pc /\ op'.h = op.h /\ op'.n \in 0 .. op.n - Piece
      /\ EndsCluster /\ SetHandle(x)
    BY PieceShapes DEF PieceToCluster
<1>3. At(chain'[op.h], x.pos, x.cur)
    <2>1. chain'[op.h] \in Seq(Clusters)
        BY <1>1
    <2> QED
        BY <1>1, <1>2, <2>1, PieceMoves
<1>4. (h.pos + Piece) % BPS = 0 /\ ((h.pos + Piece) \div BPS) % SPC = 0
    BY <1>1, <1>2, PlaceMoves
<1>5. op'.offset = 0 /\ op'.sector = fat_first_sector_of_cluster(c)
    BY DEF PieceToCluster, VolumeInv, Types, Ops
<1>6. fat_first_sector_of_cluster(c) \in Int
    BY ClustersAre, VolumeAssumption DEF Links, fat_first_sector_of_cluster
<1>7. op'.offset = OffsetOf(x) /\ op'.sector = SectorOf(x)
    BY <1>2, <1>4, <1>5, <1>6 DEF OffsetOf, SectorOf
<1> HIDE DEF x, t, u
<1> QED
    BY <1>1, <1>2, <1>3, <1>7, HandleMoves

LEMMA ChainsStay ==
    ASSUME VolumeInv, UNCHANGED chain, NEW o \in Owners
    PROVE  /\ chain' \in [Owners -> Seq(Clusters)]
           /\ Len(chain'[o]) >= Len(chain[o])
<1>1. chain[o] \in Seq(Clusters) /\ chain' \in [Owners -> Seq(Clusters)]
    BY DEF VolumeInv, Types
<1> QED
    BY <1>1

LEMMA WriteInClusterPositions ==
    ASSUME Aligned, VolumeInv, Positions, WriteInCluster
    PROVE  Positions'
BY StayPositions DEF WriteInCluster

LEMMA WriteToNextPositions ==
    ASSUME Aligned, VolumeInv, Positions, WriteToNext
    PROVE  Positions'
<1>1. /\ op.pc = "write" /\ op.n > 0 /\ PieceToCluster(fat[h.cur]) /\ UNCHANGED <<entry, chain, clipped>>
      /\ Types /\ Held
    BY DEF WriteToNext, NextCluster, VolumeInv
<1>2. h.cur \in Clusters /\ op.h \in Owners /\ At(chain[op.h], h.pos, h.cur)
    BY <1>1, PieceIs
<1>3. fat[h.cur] \in Links /\ Follows(chain[op.h], h.cur, fat[h.cur])
    BY <1>1, <1>2, FatFollows DEF Types
<1> QED
    BY <1>1, <1>2, <1>3, ChainsStay, NextPositions

LEMMA WriteToNewPositions ==
    ASSUME Aligned, VolumeInv, Positions, WriteToNew
    PROVE  Positions'
<1>1. PICK c \in Clusters :
          /\ op.pc = "write" /\ op.n > 0 /\ fat[h.cur] = Eoc /\ PieceToCluster(c)
          /\ ExtendChain(op.h, h.cur, c) /\ UNCHANGED <<entry, clipped>>
    BY DEF WriteToNew, NextCluster
<1>2. Types /\ Held /\ c \in Links
    BY DEF VolumeInv, Links
<1>3. /\ h.cur \in Clusters /\ h.pos \in Nat /\ op.h \in Owners
      /\ chain[op.h] \in Seq(Clusters) /\ At(chain[op.h], h.pos, h.cur)
    BY <1>1, PieceIs
<1> PICK o \in Owners : o = op.h
    BY <1>3
<1>4. h.cur \in In(o)
    BY <1>1, PieceShapes
<1>5. /\ Held' /\ chain' \in [Owners -> Seq(Clusters)] /\ chain'[o] = Append(chain[o], c)
      /\ h.cur = chain[o][Len(chain[o])]
      /\ \A p \in Owners \ {o} : chain'[p] = chain[p]
    BY <1>1, <1>2, <1>4, ExtendHolds
<1>6. /\ At(chain'[o], h.pos, h.cur) /\ Len(chain'[o]) = Len(chain[o]) + 1
    BY <1>3, <1>5, AtLonger
<1>7. Len(chain[o]) \in Nat /\ Len(chain'[o]) >= Len(chain[o])
    BY <1>3, <1>6
<1>8. Follows(chain'[o], h.cur, c)
    <2> DEFINE n == Len(chain[o])
    <2>1. n \in 1 .. Len(chain'[o]) /\ n + 1 = Len(chain'[o])
        <3>1. n > 0
            BY <1>2, <1>4, InTypes, EmptySeq
        <3> QED
            BY <1>6, <1>7, <3>1
    <2>2. chain'[o][n] = h.cur /\ chain'[o][n + 1] = c
        BY <1>3, <1>5, <2>1
    <2>3. \A i \in 1 .. Len(chain'[o]) : chain'[o][i] = h.cur => i = n
        <3> SUFFICES ASSUME NEW i \in 1 .. Len(chain'[o]), chain'[o][i] = chain'[o][n] PROVE i = n
            BY <2>2
        <3>1. ChainsDisjoint'
            BY <1>5 DEF Held
        <3> HIDE DEF n
        <3> QED
            BY <2>1, <3>1 DEF ChainsDisjoint
    <2> QED
        BY <1>7, <2>1, <2>2, <2>3 DEF Follows
<1> QED
    BY <1>1, <1>2, <1>5, <1>6, <1>7, <1>8, NextPositions

LEMMA ReadPiecePositions ==
    ASSUME Aligned, VolumeInv, Positions, ReadPiece
    PROVE  Positions'
<1>1. op.pc = "read" /\ op.n > 0 /\ UNCHANGED <<entry, chain, clipped>> /\ Types /\ Held
    BY DEF ReadPiece, VolumeInv
<1>2. /\ h.cur \in Clusters /\ op.h \in Owners /\ h.pos \in Nat /\ At(chain[op.h], h.pos, h.cur)
      /\ chain[op.h] \in Seq(Clusters) /\ Piece \in 1 .. BPS - (h.pos % BPS)
    BY <1>1, PieceIs
<1>3. fat[h.cur] \in Links /\ Follows(chain[op.h], h.cur, fat[h.cur])
    BY <1>1, <1>2, FatFollows DEF Types
<1>4. CASE PieceInCluster
    BY <1>1, <1>4, StayPositions
<1>5. CASE PieceToCluster(fat[h.cur])
    BY <1>1, <1>2, <1>3, <1>5, ChainsStay, NextPositions
<1>6. CASE fat[h.cur] = Eoc /\ PieceThenBreak(Eoc)
    <2> DEFINE x == [Moved EXCEPT !.cur = Eoc]
    <2>1. /\ x \in Handles(Owners) /\ x.of = h.of /\ x.pos = h.pos + Piece /\ x.cur = Eoc
          /\ op'.pc = op.pc /\ op'.h = op.h /\ op'.n \in 0 .. op.n - Piece /\ op'.n = 0
          /\ EndsCluster /\ SetHandle(x)
        BY <1>1, <1>6, PieceShapes DEF PieceThenBreak, Links
    <2>2. (h.pos % BPS) + Piece = BPS /\ ((h.pos \div BPS) % SPC) + 1 = SPC
        BY <1>1, <2>1, PieceIs
    <2>3. At(chain[op.h], x.pos, x.cur)
        BY <1>2, <1>3, <1>6, <2>1, <2>2, PieceMoves
    <2> HIDE DEF x
    <2> QED
        BY <1>1, <1>2, <2>1, <2>3, ChainsStay, HandleMoves
<1> QED
    BY <1>4, <1>5, <1>6 DEF ReadPiece, NextCluster

LEMMA ClippedPositions ==
    ASSUME Aligned, VolumeInv, Positions, Room, WriteClipped
    PROVE  Positions'
<1> DEFINE x == [Moved EXCEPT !.cur = h.cur]
<1>1. /\ op.pc = "write" /\ op.n > 0 /\ fat[h.cur] \in {0, Eoc} /\ (fat[h.cur] = Eoc => NoFreeCluster)
      /\ PieceThenBreak(h.cur) /\ clipped' /\ UNCHANGED <<entry, chain>> /\ Types /\ Held
    BY DEF WriteClipped, NextCluster, VolumeInv
<1>2. /\ h.cur \in Clusters /\ op.h \in Owners /\ h.pos \in Nat /\ At(chain[op.h], h.pos, h.cur)
      /\ chain[op.h] \in Seq(Clusters) /\ Piece \in 1 .. BPS - (h.pos % BPS)
    BY <1>1, PieceIs
<1>3. fat[h.cur] = Eoc
    BY <1>1, PieceShapes, InTypes, ClustersAre
<1>4. /\ x \in Handles(Owners) /\ x.of = h.of /\ x.pos = h.pos + Piece
      /\ op'.pc = op.pc /\ op'.h = op.h /\ op'.n \in 0 .. op.n - Piece /\ op'.n = 0
      /\ EndsCluster /\ SetHandle(x)
    BY <1>1, <1>2, PieceShapes DEF PieceThenBreak, Links
<1>5. Follows(chain[op.h], h.cur, Eoc)
    BY <1>1, <1>2, <1>3, FatFollows
<1>6. At(chain[op.h], x.pos, Eoc)
    <2>1. (h.pos % BPS) + Piece = BPS /\ ((h.pos \div BPS) % SPC) + 1 = SPC
        BY <1>1, <1>4, PieceIs
    <2> QED
        BY <1>2, <1>4, <1>5, <2>1, PieceMoves
<1>7. x.pos = PerCluster * Len(chain[op.h])
    <2>1. PICK j \in 0 .. Len(chain[op.h]), r \in 0 .. PerCluster - 1 :
              /\ x.pos = PerCluster * j + r /\ Nth(chain[op.h], j, Eoc)
              /\ j = Len(chain[op.h]) => r = 0
        BY <1>6 DEF At
    <2>2. Len(chain[op.h]) \in Nat
        BY <1>2
    <2>3. j = Len(chain[op.h])
        <3> SUFFICES ASSUME j < Len(chain[op.h]) PROVE FALSE
            BY <2>2
        <3>1. j + 1 \in 1 .. Len(chain[op.h]) /\ chain[op.h][j + 1] = Eoc
            BY <2>1, <2>2 DEF Nth
        <3> QED
            BY <1>2, <3>1, ClustersAre
    <2> QED
        BY <2>1, <2>2, <2>3, PerClusterIs
<1>8. op.h = Dir => op'.val # LongName
    BY <1>1, <1>3, PieceShapes DEF Room, PieceThenBreak, Types, Ops
<1> HIDE DEF x
<1>9. clipped' /\ x.pos = PerCluster * Len(chain'[op.h]) /\ (op'.n > 0 => FALSE)
    BY <1>1, <1>4, <1>7
<1>10. /\ chain' \in [Owners -> Seq(Clusters)] /\ Len(chain'[op.h]) >= Len(chain[op.h])
       /\ \A o \in Owners \ {op.h} : chain'[o] = chain[o]
    BY <1>1, <1>2, ChainsStay
<1> QED
    BY <1>1, <1>4, <1>8, <1>9, <1>10, HandleMoves

LEMMA WritePositions ==
    ASSUME VolumeInv, Positions, NEW n \in Nat \ {0}, NEW v \in Values, fat_write(n, v), CallerHeeds
    PROVE  Positions'
<1>1. /\ Types /\ Inside /\ op.pc = "idle" /\ op \in Ops /\ file.of # NoFile
      /\ file.of \in Files /\ op'.pc = "write" /\ UNCHANGED <<entry, clipped>>
    BY DEF VolumeInv, fat_write, Idle, Types, Handles, Loop
<1> PICK f \in Files : f = file.of
    BY <1>1
<1>2. f \in Owners /\ f # Dir
    BY ClustersAre DEF Owners
<1>3. At(chain[f], file.pos, file.cur)
    BY <1>1 DEF Positions, Stands, CallerHeeds
<1>4. ASSUME NEW x, Loop("write", x, n, v), file' = x, x.of = f
      PROVE  /\ op'.pc = "write" /\ op'.h = f /\ h' = x
             /\ op'.sector = SectorOf(x) /\ op'.offset = OffsetOf(x)
    BY <1>1, <1>2, <1>4 DEF Loop, Ops, h
<1>5. CASE Loop("write", file, n, v) /\ UNCHANGED <<file, chain>>
    <2>1. op'.pc = "write" /\ op'.h = f /\ h' = file
          /\ op'.sector = SectorOf(file) /\ op'.offset = OffsetOf(file)
        BY <1>4, <1>5
    <2> QED
        BY <1>1, <1>2, <1>3, <1>5, <2>1 DEF Positions, Freed, Stands, SectorOf, OffsetOf
<1>6. ASSUME NEW c \in Clusters, file.cur = 0, StartChain(f, c),
             file' = [file EXCEPT !.first = c, !.cur = c], Loop("write", file', n, v)
      PROVE  Positions'
    <2>1. chain[f] = <<>> /\ chain[f] \in Seq(Clusters)
        BY <1>1, <1>6, <1>2, InTypes, ClustersAre DEF Inside
    <2>2. file.pos = 0
        <3>1. file.pos \in Nat /\ Len(chain[f]) = 0
            BY <1>1, <2>1 DEF Types, Handles
        <3>2. file.pos <= PerCluster * Len(chain[f])
            BY <1>3, <2>1, <3>1, AtWithin
        <3> QED
            BY <3>1, <3>2, PerClusterIs
    <2>3. chain' \in [Owners -> Seq(Clusters)] /\ chain'[f] = <<c>>
          /\ \A p \in Owners \ {f} : chain'[p] = chain[p]
        BY <1>1, <1>2, <1>6, <2>1, StartHolds DEF VolumeInv
    <2>4. file'.of = f /\ file'.pos = 0 /\ file'.cur = c
        BY <1>1, <1>6, <2>2 DEF Types, Handles
    <2>5. At(chain'[f], 0, c)
        <3>1. <<c>> \in Seq(Clusters) /\ <<c>> # <<>> /\ <<c>>[1] = c
            OBVIOUS
        <3>2. At(<<c>>, 0, IF <<c>> = <<>> THEN 0 ELSE <<c>>[1])
            BY <3>1, AtStart
        <3> QED
            BY <2>3, <3>1, <3>2
    <2>6. /\ op'.pc = "write" /\ op'.h = f /\ h' = file'
          /\ op'.sector = SectorOf(file') /\ op'.offset = OffsetOf(file')
        BY <1>4, <1>6, <2>4
    <2>7. \A g \in Files : entry[g].size <= PerCluster * Len(chain'[g])
        <3> SUFFICES ASSUME NEW g \in Files PROVE entry[g].size <= PerCluster * Len(chain'[g])
            OBVIOUS
        <3>1. entry[g].size <= PerCluster * Len(chain[g]) /\ entry[g].size \in Nat
            BY <1>1 DEF Positions, Freed, Types, Entries
        <3>2. CASE g # f
            BY <2>3, <3>1, <3>2 DEF Owners
        <3>3. CASE g = f
            <4>1. Len(chain'[f]) = 1 /\ Len(chain[f]) = 0
                BY <2>1, <2>3
            <4> QED
                BY <3>1, <3>3, <4>1, PerClusterIs
        <3> QED
            BY <3>2, <3>3
    <2> QED
        BY <1>1, <1>2, <2>4, <2>5, <2>6, <2>7 DEF Positions, Stands, SectorOf, OffsetOf
<1> QED
    BY <1>5, <1>6 DEF fat_write

LEMMA WriteReturnPositions ==
    ASSUME VolumeInv, Positions, WriteReturns
    PROVE  Positions'
<1>1. /\ Types /\ Whose /\ op.pc = "write" /\ op.h # Dir /\ op'.pc = "idle"
      /\ UNCHANGED <<chain, clipped>>
    BY DEF VolumeInv, WriteReturns, Idle
<1> PICK f \in Files : f = file.of
    BY <1>1 DEF Whose
<1>2. /\ f \in Owners /\ chain[f] \in Seq(Clusters) /\ file.pos \in Nat
      /\ Stands(f, file)
    BY <1>1 DEF Positions, Owners, Types, Handles
<1>3. file.pos <= PerCluster * Len(chain[f])
    BY <1>2, AtWithin DEF Stands
<1>4. file'.of = f /\ file'.pos = file.pos /\ file'.cur = file.cur
    BY <1>1 DEF WriteReturns, Types, Handles
<1>5. \A g \in Files : entry'[g].size <= PerCluster * Len(chain[g])
    <2>1. \A g \in Files : entry[g].size <= PerCluster * Len(chain[g])
        BY <1>1 DEF Positions, Freed
    <2>2. CASE UNCHANGED entry
        BY <2>1, <2>2
    <2>3. CASE entry' = [entry EXCEPT ![f].first = file.first, ![f].size = file.pos]
        <3>1. entry'[f].size = file.pos /\ \A g \in Files \ {f} : entry'[g] = entry[g]
            BY <1>1, <2>3 DEF Types, Entries
        <3> QED
            BY <1>3, <2>1, <3>1
    <2> QED
        BY <2>2, <2>3 DEF WriteReturns
<1> QED
    BY <1>1, <1>2, <1>4, <1>5 DEF Positions, Stands

\* Of a handle behind the last cluster nothing is read.
LEMMA ReadPositions ==
    ASSUME VolumeInv, Positions, NEW n \in Nat \ {0}, fat_read(n)
    PROVE  Positions'
<1> DEFINE m == IF file.pos + n > file.size THEN file.size - file.pos ELSE n
<1>1. /\ Types /\ Inside /\ Synced /\ op.pc = "idle" /\ op \in Ops /\ file.of \in Files /\ file.of # Dir
      /\ Loop("read", file, m, Zero) /\ UNCHANGED <<entry, file, cwd, chain, clipped>>
    BY ClustersAre DEF VolumeInv, fat_read, Idle, Types, Handles, Synced
<1>2. m > 0 => At(chain[file.of], file.pos, file.cur)
    <2> SUFFICES ASSUME file.pos = PerCluster * Len(chain[file.of]) PROVE ~(m > 0)
        BY <1>1 DEF Positions, Stands
    <2>1. file.size <= file.pos /\ file.pos <= file.size
        BY <1>1 DEF Positions, Freed, Synced, Inside
    <2>2. file.size \in Nat /\ file.pos \in Nat
        BY <1>1 DEF Types, Handles
    <2> QED
        BY <2>1, <2>2
<1> HIDE DEF m
<1>3. op'.pc = "read" /\ op'.h = file.of /\ h' = file /\ op'.n = m
      /\ op'.sector = SectorOf(file) /\ op'.offset = OffsetOf(file)
    BY <1>1 DEF Loop, Ops, h
<1> QED
    BY <1>1, <1>2, <1>3 DEF Positions, Freed, Stands, SectorOf, OffsetOf

LEMMA ReadReturnPositions ==
    ASSUME VolumeInv, Positions, ReadReturns
    PROVE  Positions'
<1>1. op.pc = "read" /\ op'.pc = "idle" /\ UNCHANGED <<entry, file, chain, clipped>>
    BY DEF ReadReturns, Idle
<1> QED
    BY <1>1 DEF Positions, Freed, Stands

-----------------------------------------------------------------------------
(* The theorem                                                             *)

LEMMA InitPositions == Init => Positions /\ Room
<1> SUFFICES ASSUME Init PROVE Positions /\ Room
    OBVIOUS
<1>1. op.pc = "idle" /\ file.of = NoFile
    BY DEF Init, Idle, Handle
<1>2. \A f \in Files : entry[f].size = 0 /\ Len(chain[f]) = 0
    BY ClustersAre DEF Init, NoEntry, Owners
<1> QED
    BY <1>1, <1>2, ClustersAre, PerClusterIs DEF Positions, Room

LEMMA RoomStep ==
    ASSUME VolumeInv, Positions, Room, [Next]_vars, [CallerHeeds]_vars
    PROVE  Room'
<1> SUFFICES ASSUME op'.h = Dir, \/ op'.pc = "seek"
                                 \/ op'.pc = "write" /\ op'.val = LongName /\ op'.n > 0
             PROVE  ~NoFreeCluster'
    BY DEF Room
<1>1. Types /\ Whose /\ op \in Ops /\ Idle.h # Dir /\ Dir # NoFile
    BY ClustersAre DEF VolumeInv, Types, Idle
<1>2. CASE UNCHANGED vars
    BY <1>2 DEF vars, Room, NoFreeCluster, Free, NextCluster
<1>3. ASSUME UNCHANGED fat, ~NoFreeCluster PROVE ~NoFreeCluster'
    BY <1>3 DEF NoFreeCluster, Free, NextCluster
<1>4. ASSUME NEW f \in Files, fat_open(f) \/ fat_unlink(f) PROVE FALSE
    BY <1>1, <1>4 DEF fat_open, fat_unlink, Idle
<1>5. ASSUME NEW f \in Files, fat_create(f) PROVE ~NoFreeCluster'
    <2>1. op.pc = "idle" /\ UNCHANGED fat /\ op'.pc = "seek"
        BY <1>5 DEF fat_create, Idle
    <2> QED
        BY <1>3, <2>1 DEF CallerHeeds, vars
<1>6. CASE SeekCluster \/ WriteLongName
    <2>1. UNCHANGED fat /\ op.pc = "seek"
        BY <1>6 DEF SeekCluster, WriteLongName
    <2>2. op.h = Dir
        BY <1>1, <1>6 DEF SeekCluster, WriteLongName, Ops
    <2> QED
        BY <1>3, <2>1, <2>2 DEF Room
<1>7. CASE WriteShortName
    <2>1. op'.val = op.name /\ op'.pc = "write" /\ op.name \in Files
        BY <1>1, <1>7, ClustersAre DEF WriteShortName, Loop, Ops, Whose
    <2> QED
        BY <2>1, VolumeAssumption
<1>8. CASE \/ CreateReturns \/ UnlinkReturns \/ LseekReturns \/ WriteReturns \/ ReadReturns
    BY <1>1, <1>8 DEF CreateReturns, UnlinkReturns, LseekReturns, WriteReturns, ReadReturns
<1>9. CASE fat_chain_unlink \/ ReadPiece
    <2>1. op'.pc = op.pc /\ op.pc \in {"unlink", "read"}
        BY <1>1, <1>9, PieceShapes, ClustersAre
        DEF fat_chain_unlink, ReadPiece, Ops, PieceInCluster, PieceToCluster, PieceThenBreak
    <2> QED
        BY <2>1
<1>10. ASSUME NEW p \in 0 .. file.size, fat_lseek(p) PROVE FALSE
    BY <1>1, <1>10, ClustersAre DEF fat_lseek, Idle, Types, Handles
<1>11. ASSUME NEW n \in Nat \ {0}, NEW v \in Values, fat_write(n, v) PROVE FALSE
    <2>1. op'.h = file.of
        <3>1. CASE Loop("write", file, n, v)
            BY <1>1, <3>1 DEF Loop, Ops
        <3>2. ASSUME NEW c, file' = [file EXCEPT !.first = c, !.cur = c], Loop("write", file', n, v)
              PROVE  op'.h = file.of
            <4>1. file'.of = file.of
                BY <1>1, <3>2 DEF Types, Handles
            <4> QED
                BY <1>1, <3>2, <4>1 DEF Loop, Ops
        <3> QED
            BY <1>11, <3>1, <3>2 DEF fat_write
    <2> QED
        BY <1>1, <2>1, ClustersAre DEF Types, Handles
<1>12. CASE WriteInCluster \/ WriteToNext \/ WriteToNew \/ WriteClipped
    <2>1. op.pc = "write" /\ op.n > 0
        BY <1>12 DEF WriteInCluster, WriteToNext, WriteToNew, WriteClipped
    <2>2. Piece \in 1 .. op.n
        BY <1>1, <2>1, HandleOfCall, PieceTypes
    <2>3. op'.pc = "write" /\ op'.h = op.h /\ (op'.n = op.n - Piece \/ op'.n = 0)
        BY <1>1, <1>12, <2>1 DEF WriteInCluster, WriteToNext, WriteToNew, WriteClipped, Ops,
                           PieceInCluster, PieceToCluster, PieceThenBreak
    <2>4. op.n \in {0, 1}
        BY <2>1, <2>3 DEF Positions
    <2>5. op'.n = 0
        BY <2>1, <2>2, <2>3, <2>4
    <2> QED
        BY <2>3, <2>5
<1>13. ASSUME NEW n \in Nat \ {0}, fat_read(n) PROVE FALSE
    BY <1>1, <1>13 DEF fat_read, Loop, Ops
<1> QED
    BY <1>2, <1>4, <1>5, <1>6, <1>7, <1>8, <1>9, <1>10, <1>11, <1>12, <1>13 DEF Next

LEMMA PositionsStep ==
    ASSUME Aligned, VolumeInv, Positions, Room, [Next]_vars, [CallerHeeds]_vars
    PROVE  Positions'
<1>1. CASE UNCHANGED vars
    BY <1>1 DEF vars, Positions, Freed, Stands, h, SectorOf, OffsetOf
<1>2. ASSUME NEW f \in Files, fat_open(f) \/ fat_create(f) \/ fat_unlink(f) PROVE Positions'
    BY <1>2, OpenPositions, CreatePositions, UnlinkPositions
<1>3. CASE \/ WriteLongName \/ WriteShortName \/ CreateReturns \/ fat_chain_unlink \/ UnlinkReturns
    BY <1>3, LongNamePositions, ShortNamePositions, CreateReturnPositions, ChainUnlinkPositions,
       UnlinkReturnPositions
<1>4. ASSUME NEW p \in 0 .. file.size, fat_lseek(p) PROVE Positions'
    BY <1>4, LseekPositions
<1>5. CASE SeekCluster \/ LseekReturns
    BY <1>5, SeekPositions, LseekReturnPositions
<1>6. ASSUME NEW n \in Nat \ {0}, NEW v \in Values, fat_write(n, v) PROVE Positions'
    <2>1. CASE UNCHANGED vars
        BY <1>1, <2>1
    <2>2. CASE CallerHeeds
        BY <1>6, <2>2, WritePositions
    <2> QED
        BY <2>1, <2>2
<1>7. CASE WriteInCluster \/ WriteToNext \/ WriteToNew \/ WriteClipped \/ WriteReturns
    BY <1>7, WriteInClusterPositions, WriteToNextPositions, WriteToNewPositions, ClippedPositions,
       WriteReturnPositions
<1>8. ASSUME NEW n \in Nat \ {0}, fat_read(n) PROVE Positions'
    BY <1>8, ReadPositions
<1>9. CASE ReadPiece \/ ReadReturns
    BY <1>9, ReadPiecePositions, ReadReturnPositions
<1> QED
    BY <1>1, <1>2, <1>3, <1>4, <1>5, <1>6, <1>7, <1>8, <1>9 DEF Next

LEMMA PlacesInvariant ==
    ASSUME Aligned
    PROVE  HeedingSpec => [](VolumeInv /\ Positions /\ Room)
<1>1. Init => Positions /\ Room
    BY InitPositions
<1>2. VolumeInv /\ Positions /\ Room /\ [Next]_vars /\ [CallerHeeds]_vars => Positions' /\ Room'
    BY PositionsStep, RoomStep
<1>3. Spec => []VolumeInv
    BY VolumeInvariant
<1> QED
    BY <1>1, <1>2, <1>3, PTL DEF HeedingSpec, Spec

\* Where every cluster starts at a multiple of its size, and the caller heeds the
\* free space, the sector and the offset that fat_write and fat_read carry from
\* piece to piece are those of the position in the file: nothing is written to,
\* or read from, a wrong place, whatever calls to fat_lseek, fat_write and
\* fat_read came before.
THEOREM PositionsInPlace ==
    ASSUME Aligned
    PROVE  HeedingSpec => []InPlace
<1>1. HeedingSpec => [](VolumeInv /\ Positions /\ Room)
    BY PlacesInvariant
<1>2. VolumeInv /\ Positions => InPlace
    BY InPlaceHolds
<1> QED
    BY <1>1, <1>2, PTL

=============================================================================
