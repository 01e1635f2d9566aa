----------------------------- MODULE NatLemmas ------------------------------
(***************************************************************************)
(* Facts about natural numbers that the proofs need.                       *)
(***************************************************************************)
EXTENDS Integers, WellFoundedInduction, TLAPS

LEMMA LeastOfNat ==
    ASSUME NEW T \in SUBSET Nat, T # {}
    PROVE  \E x \in T : \A y \in T : x <= y
<1> DEFINE R == OpToRel(<, Nat)
<1>1. \A x, y \in Nat : x < y => <<x, y>> \in R
    <2>1. R = {ss \in Nat \X Nat : ss[1] < ss[2]}
        BY DEF OpToRel
    <2> HIDE DEF R
    <2> QED
        BY <2>1
<1>2. IsWellFoundedOn(R, Nat)
    BY NatLessThanWellFounded
<1> HIDE DEF R
<1>3. \E x \in T : \A y \in T : ~(<<y, x>> \in R)
    BY <1>2, WFMin
<1>4. \A y, x \in Nat : <<y, x>> \notin R => x <= y
    BY <1>1
<1> QED
    BY <1>3, <1>4

LEMMA QuotientIs ==
    ASSUME NEW k \in Nat \ {0}, NEW q \in Int, NEW r \in 0 .. k - 1
    PROVE  (k * q + r) \div k = q /\ (k * q + r) % k = r
OBVIOUS

LEMMA MultipleIs ==
    ASSUME NEW k \in Nat \ {0}, NEW q \in Int
    PROVE  (k * q) \div k = q /\ (k * q) % k = 0
OBVIOUS

LEMMA ProductsAre ==
    ASSUME NEW l \in Nat, NEW s \in Nat \ {0}, NEW b \in Nat \ {0}
    PROVE  /\ s * b \in Nat \ {0} /\ l * s * b \in Nat
           /\ l * s * b = (s * b) * l
OBVIOUS

LEMMA ProductGrows ==
    ASSUME NEW k \in Nat, NEW a \in Nat, NEW b \in Nat, a <= b
    PROVE  k * a \in Nat /\ k * b \in Nat /\ k * a <= k * b
OBVIOUS

LEMMA DivisionIs ==
    ASSUME NEW k \in Nat \ {0}, NEW p \in Nat
    PROVE  /\ p \div k \in Nat /\ p % k \in 0 .. k - 1 /\ p = k * (p \div k) + (p % k)
           /\ \A n \in Nat : p < k * n => p \div k < n
<1> DEFINE q == p \div k
<1> DEFINE r == p % k
<1>1. q \in Nat /\ r \in 0 .. k - 1 /\ p = k * q + r
    OBVIOUS
<1> HIDE DEF q, r
<1>2. ASSUME NEW n \in Nat, p < k * n, n <= q PROVE FALSE
    <2>1. k * n <= k * q /\ k * q \in Nat /\ k * n \in Nat
        BY <1>1, <1>2, ProductGrows
    <2> QED
        BY <1>1, <1>2, <2>1
<1>3. \A n \in Nat : p < k * n => q < n
    BY <1>1, <1>2
<1> QED
    BY <1>1, <1>3 DEF q, r

-----------------------------------------------------------------------------
(* Positions: s sectors of b units are a cluster of s * b units            *)

\* A position in its cluster is one in its sector behind whole sectors.
LEMMA SplitIs ==
    ASSUME NEW s \in Nat \ {0}, NEW b \in Nat \ {0}, NEW p \in Nat
    PROVE  /\ (p \div b) % s \in 0 .. s - 1 /\ p % b \in 0 .. b - 1
           /\ p % (s * b) = b * ((p \div b) % s) + (p % b)
<1>1. s * b \in Nat \ {0}
    OBVIOUS
<1> DEFINE q == p \div b
<1> DEFINE r == p % b
<1> DEFINE x == q \div s
<1> DEFINE t == q % s
<1>2. p = b * q + r /\ r \in 0 .. b - 1 /\ q \in Nat
    OBVIOUS
<1>3. q = s * x + t /\ t \in 0 .. s - 1 /\ x \in Nat
    BY <1>2
<1> HIDE DEF q, r, x, t
<1>4. p = (s * b) * x + (b * t + r)
    BY <1>2, <1>3
<1>5. b * t + r \in 0 .. s * b - 1
    <2>1. b * t <= b * (s - 1)
        BY <1>3
    <2> QED
        BY <1>2, <1>3, <2>1
<1>6. p % (s * b) = b * t + r
    <2> DEFINE k == s * b
    <2> DEFINE y == b * t + r
    <2>1. k \in Nat \ {0} /\ y \in 0 .. k - 1 /\ p = k * x + y
        BY <1>1, <1>4, <1>5
    <2> HIDE DEF k, y
    <2>2. p % k = y
        BY <1>3, <2>1, QuotientIs
    <2> QED
        BY <2>2 DEF k, y
<1> QED
    BY <1>2, <1>3, <1>6 DEF q, r, t

\* m units from p on, within the sector of p.
LEMMA PieceInSector ==
    ASSUME NEW b \in Nat \ {0}, NEW p \in Nat, NEW m \in 1 .. b - (p % b)
    PROVE  /\ (p + m) % b = ((p % b) + m) % b
           /\ (p % b) + m < b => (p + m) \div b = p \div b /\ (p + m) % b = (p % b) + m
           /\ (p % b) + m = b => (p + m) \div b = (p \div b) + 1 /\ (p + m) % b = 0
           /\ (p + m) % b = 0 <=> (p % b) + m = b
<1> DEFINE q == p \div b
<1> DEFINE r == p % b
<1>1. p = b * q + r /\ r \in 0 .. b - 1 /\ q \in Nat
    OBVIOUS
<1>2. m \in 1 .. b - r
    OBVIOUS
<1> HIDE DEF q, r
<1>3. r + m < b => (p + m) \div b = q /\ (p + m) % b = r + m /\ (r + m) % b = r + m
    <2> SUFFICES ASSUME r + m < b
                 PROVE  (p + m) \div b = q /\ (p + m) % b = r + m /\ (r + m) % b = r + m
        OBVIOUS
    <2>1. p + m = b * q + (r + m) /\ r + m \in 0 .. b - 1
        BY <1>1, <1>2
    <2>2. (b * q + (r + m)) \div b = q /\ (b * q + (r + m)) % b = r + m
        BY <1>1, <2>1, QuotientIs
    <2>3. (r + m) % b = r + m
        BY <2>1
    <2> QED
        BY <2>1, <2>2, <2>3
<1>4. r + m = b => (p + m) \div b = q + 1 /\ (p + m) % b = 0 /\ (r + m) % b = 0
    <2> SUFFICES ASSUME r + m = b
                 PROVE  (p + m) \div b = q + 1 /\ (p + m) % b = 0 /\ (r + m) % b = 0
        OBVIOUS
    <2>1. p + m = b * (q + 1)
        BY <1>1, <1>2
    <2>2. (b * (q + 1)) \div b = q + 1 /\ (b * (q + 1)) % b = 0
        <3>1. q + 1 \in Int
            BY <1>1
        <3> QED
            BY <3>1, MultipleIs
    <2> QED
        BY <2>1, <2>2
<1>5. r + m < b \/ r + m = b
    BY <1>1, <1>2
<1> QED
    BY <1>1, <1>2, <1>3, <1>4, <1>5 DEF q, r

\* The piece of m units from position p of a chain on ends in the cluster of p
\* unless it ends with the last sector.
LEMMA PieceInChain ==
    ASSUME NEW s \in Nat \ {0}, NEW b \in Nat \ {0}, NEW p \in Nat, NEW m \in 1 .. b - (p % b)
    PROVE  IF (p % b) + m = b /\ ((p \div b) % s) + 1 = s
           THEN p + m = (s * b) * ((p \div (s * b)) + 1)
           ELSE (p % (s * b)) + m \in 0 .. s * b - 1
<1> DEFINE k == s * b
<1> DEFINE j == p \div k
<1> DEFINE r == p % k
<1> DEFINE t == (p \div b) % s
<1> DEFINE u == p % b
<1>1. k \in Nat \ {0} /\ t \in 0 .. s - 1 /\ u \in 0 .. b - 1
    BY SplitIs
<1>2. p = k * j + r /\ r \in 0 .. k - 1 /\ j \in Nat
    <2> HIDE DEF k
    <2> QED
        BY <1>1
<1>3. r = b * t + u
    BY SplitIs
<1>4. m \in 1 .. b - u
    OBVIOUS
<1> HIDE DEF t, u, j, r
<1>5. CASE u + m = b /\ t + 1 = s
    <2>1. r + m = b * t + b
        BY <1>1, <1>3, <1>4, <1>5
    <2>2. b * t + b = b * (t + 1)
        BY <1>1
    <2>3. r + m = s * b
        BY <1>5, <2>1, <2>2
    <2>4. p + m = (s * b) * (j + 1)
        BY <1>2, <1>4, <2>3
    <2> QED
        BY <1>5, <2>4 DEF t, u, j
<1>6. CASE ~(u + m = b /\ t + 1 = s)
    <2>1. t + 1 <= s /\ u + m <= b
        BY <1>1, <1>4
    <2>2. b * (t + 1) <= b * s
        BY <1>1, <2>1
    <2>3. r + m = b * t + (u + m)
        BY <1>1, <1>3, <1>4
    <2>4. r + m < b * s
        <3>1. CASE u + m < b
            BY <1>1, <1>4, <2>2, <2>3, <3>1
        <3>2. CASE u + m = b
            <4>1. t + 1 <= s - 1
                BY <1>1, <1>6, <2>1, <3>2
            <4>2. b * (t + 1) <= b * (s - 1)
                BY <1>1, <4>1
            <4> QED
                BY <1>1, <2>3, <3>2, <4>2
        <3> QED
            BY <1>1, <1>4, <2>1, <3>1, <3>2
    <2>5. r + m \in 0 .. s * b - 1 /\ p + m = (s * b) * j + (r + m)
        BY <1>1, <1>2, <1>4, <2>4
    <2> QED
        BY <1>6, <2>5 DEF t, u, j, r
<1> QED
    BY <1>5, <1>6

\* Every unit of the piece is in the cluster of its first.
LEMMA PieceWithin ==
    ASSUME NEW s \in Nat \ {0}, NEW b \in Nat \ {0}, NEW p \in Nat,
           NEW m \in 1 .. b - (p % b), NEW i \in 0 .. m - 1
    PROVE  /\ (p + i) \div (s * b) = p \div (s * b)
           /\ (p + i) % (s * b) = (p % (s * b)) + i
<1> DEFINE k == s * b
<1> DEFINE j == p \div k
<1> DEFINE r == p % k
<1> DEFINE t == (p \div b) % s
<1> DEFINE u == p % b
<1>1. k \in Nat \ {0} /\ t \in 0 .. s - 1 /\ u \in 0 .. b - 1
    BY SplitIs
<1>0. r = b * t + u
    BY SplitIs
<1>2. p = k * j + r /\ r \in 0 .. k - 1 /\ j \in Nat
    <2> HIDE DEF k
    <2> QED
        BY <1>1
<1>3. m \in 1 .. b - u /\ i \in 0 .. m - 1
    OBVIOUS
<1> HIDE DEF t, u, j, r
<1>4. b * (t + 1) <= b * s
    BY <1>1
<1>5. r + i < b * s
    BY <1>0, <1>1, <1>3, <1>4
<1>6. r + i \in 0 .. k - 1 /\ p + i = k * j + (r + i)
    BY <1>1, <1>2, <1>3, <1>5
<1> HIDE DEF k
<1>7. (k * j + (r + i)) \div k = j /\ (k * j + (r + i)) % k = r + i
    BY <1>1, <1>2, <1>6, QuotientIs
<1>8. (p + i) \div k = j /\ (p + i) % k = r + i
    BY <1>6, <1>7
<1> QED
    BY <1>8 DEF k, j, r

\* With an aligned data area every cluster starts at a multiple of its size.
LEMMA ClusterAligned ==
    ASSUME NEW s \in Nat \ {0}, NEW d \in Nat, d % s = 0, NEW c \in Int
    PROVE  (c * s + d) % s = 0
<1> DEFINE e == d \div s
<1>1. d = s * e /\ e \in Int
    OBVIOUS
<1> HIDE DEF e
<1>2. c * s + d = s * (c + e) /\ c + e \in Int
    BY <1>1
<1>3. (s * (c + e)) % s = 0
    BY <1>2, MultipleIs
<1> QED
    BY <1>2, <1>3

\* Then the last sector of a cluster is known by its number.
LEMMA LastSectorIs ==
    ASSUME NEW s \in Nat \ {0}, NEW f \in Int, f % s = 0, NEW t \in 0 .. s - 1
    PROVE  (f + t + 1) % s = 0 <=> t + 1 = s
<1> DEFINE e == f \div s
<1>1. f = s * e /\ e \in Int
    OBVIOUS
<1> HIDE DEF e
<1>2. CASE t + 1 = s
    <2>1. f + t + 1 = s * (e + 1) /\ e + 1 \in Int
        BY <1>1, <1>2
    <2>2. (s * (e + 1)) % s = 0
        BY <2>1, MultipleIs
    <2> QED
        BY <1>2, <2>1, <2>2
<1>3. CASE t + 1 # s
    <2>1. t + 1 \in 0 .. s - 1 /\ f + t + 1 = s * e + (t + 1)
        BY <1>1, <1>3
    <2>2. (s * e + (t + 1)) % s = t + 1
        BY <1>1, <2>1, QuotientIs
    <2> QED
        BY <1>3, <2>1, <2>2
<1> QED
    BY <1>2, <1>3

=============================================================================
