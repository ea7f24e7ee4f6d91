---------------------------- MODULE Fat16Proofs -----------------------------
(***************************************************************************)
(* The chains of a volume stay sound and apart, nothing leaks and the FAT  *)
(* cache stays coherent, for every geometry, set of names and number of    *)
(* calls.  A chain is a list of different clusters, each of which holds    *)
(* the number of the next; every step of a call makes one of a few changes *)
(* to one such list and leaves the others alone.                           *)
(***************************************************************************)
EXTENDS Fat16, SequenceTheorems, FiniteSetTheorems, WellFoundedInduction, TLAPS

(* What holds from 0 on up to N.                                           *)
LEMMA Induction ==
  ASSUME NEW N \in Nat, NEW P, 0 \in P,
         \A k \in 0 .. N - 1 : k \in P => k + 1 \in P
  PROVE  \A k \in 0 .. N : k \in P
<1> DEFINE R == OpToRel(<, Nat)
           T == (0 .. N) \ P
<1> SUFFICES ASSUME T # {} PROVE FALSE
  OBVIOUS
<1>1. IsWellFoundedOn(R, Nat)
  BY NatLessThanWellFounded
<1>2. PICK x \in T : \A y \in T : <<y, x>> \notin R
  <2> HIDE DEF R, T
  <2>1. T \subseteq Nat
    BY DEF T
  <2>2. QED
    BY <1>1, <2>1, WFMin
<1>3. x # 0 /\ x - 1 \in 0 .. N - 1
  OBVIOUS
<1>4. x - 1 \notin P
  BY <1>3
<1>5. x - 1 \in T /\ <<x - 1, x>> \in R
  BY <1>3, <1>4 DEF OpToRel
<1>6. QED
  BY <1>2, <1>5

LEMMA Least ==
  ASSUME NEW S \in SUBSET Nat, S # {}
  PROVE  \E m \in S : \A n \in S : m <= n
<1>1. IsWellFoundedOn(OpToRel(<, Nat), Nat)
  BY NatLessThanWellFounded
<1>2. PICK m \in S : \A n \in S : <<n, m>> \notin OpToRel(<, Nat)
  BY <1>1, WFMin
<1>3. \A n \in S : ~(n < m)
  BY <1>2 DEF OpToRel
<1>4. QED
  BY <1>3

-----------------------------------------------------------------------------
(* The geometry.                                                           *)
LEMMA Geometry ==
  /\ FatStart \in Nat \ {0} /\ FatSize \in Nat \ {0} /\ RootSectors \in Nat \ {0}
  /\ SPC \in Nat \ {0} /\ EPS \in Nat \ {0} /\ DPS \in Nat \ {0}
  /\ TotalSecs \in Nat /\ Window \in Nat
  /\ RootStart \in Nat /\ DataStart \in Nat
  /\ RootStart = FatStart + 2 * FatSize /\ DataStart = RootStart + RootSectors
  /\ DataStart < Window /\ Window <= TotalSecs
<1>1. /\ FatStart \in Nat \ {0} /\ FatSize \in Nat \ {0}
      /\ RootSectors \in Nat \ {0}
      /\ SPC \in Nat \ {0} /\ EPS \in Nat \ {0} /\ DPS \in Nat \ {0}
  BY GeometryAssumption
<1>2. RootStart = FatStart + 2 * FatSize /\ DataStart = RootStart + RootSectors
  BY DEF RootStart, DataStart, NumFats
<1>3. TotalSecs \in Nat /\ Window \in Nat
  BY GeometryAssumption
<1>4. QED
  BY <1>1, <1>2, <1>3, GeometryAssumption

LEMMA ClusterNumbers ==
  /\ MaxC \in Nat /\ MaxC > 2
  /\ MaxC = (TotalSecs - DataStart) \div SPC + 2
  /\ MaxC <= FatSize * EPS
  /\ Clusters = 2 .. MaxC - 1
  /\ 2 \in Clusters /\ MaxC - 1 \in Clusters
  /\ \A c \in Clusters : c \in 0 .. MaxC - 1 /\ c # 0 /\ ~IsEnd(c)
  /\ IsEnd(EOC) /\ EOC # 0 /\ EOC \in Nat /\ ~IsEnd(0)
<1> DEFINE n == (TotalSecs - DataStart) \div SPC
<1>1. n \in 1 .. MostClusters /\ n + 2 <= FatSize * EPS
  BY GeometryAssumption
<1> HIDE DEF n
<1>2. n \in Nat /\ 1 <= n /\ n <= 65524
  <2>1. n \in Nat /\ 1 <= n /\ n <= MostClusters
    <3>1. MostClusters \in Nat
      BY SMT DEF MostClusters
    <3>2. QED
      BY <1>1, <3>1
  <2>2. QED
    BY <2>1, SMT DEF MostClusters
<1>3. (n + 2) % 65536 = n + 2
  BY <1>2, SMT
<1>4. MaxC = n + 2
  BY <1>3, SMT DEF MaxC, n
<1>5. MaxC \in Nat /\ MaxC > 2 /\ MaxC <= 65526
  BY <1>2, <1>4, SMT
<1>6. Clusters = 2 .. MaxC - 1 /\ 2 \in Clusters /\ MaxC - 1 \in Clusters
  BY <1>5, SMT DEF Clusters
<1>7. \A c \in Clusters : c \in 0 .. MaxC - 1 /\ c # 0 /\ ~IsEnd(c)
  BY <1>5, <1>6, SMT DEF IsEnd
<1>8. IsEnd(EOC) /\ EOC # 0 /\ EOC \in Nat /\ ~IsEnd(0)
  BY SMT DEF IsEnd, EOC
<1>9. QED
  BY <1>1, <1>4, <1>5, <1>6, <1>7, <1>8 DEF n

LEMMA FatPlace ==
  ASSUME NEW c \in 0 .. MaxC - 1
  PROVE  /\ FatSec(c) \in 0 .. FatSize - 1
         /\ c % EPS \in 0 .. EPS - 1
         /\ c = EPS * FatSec(c) + (c % EPS)
<1>1. EPS \in Nat \ {0} /\ FatSize \in Nat \ {0}
  BY Geometry
<1>2. c \in Nat /\ c < FatSize * EPS
  BY ClusterNumbers, <1>1
<1>3. /\ c \div EPS \in Nat /\ c % EPS \in 0 .. EPS - 1
      /\ c = EPS * (c \div EPS) + (c % EPS)
  BY <1>1, <1>2
<1>4. c \div EPS < FatSize
  <2> SUFFICES ASSUME c \div EPS >= FatSize PROVE FALSE
    BY <1>1, <1>3
  <2>1. EPS * (c \div EPS) >= EPS * FatSize
    BY <1>1, <1>3
  <2>2. QED
    BY <1>1, <1>2, <1>3, <2>1
<1>5. QED
  BY <1>1, <1>3, <1>4 DEF FatSec

LEMMA OtherPlace ==
  ASSUME NEW c \in 0 .. MaxC - 1, NEW d \in 0 .. MaxC - 1, c # d,
         FatSec(c) = FatSec(d)
  PROVE  c % EPS # d % EPS
BY FatPlace

(* Where the clusters lie.                                                 *)
LEMMA ClusterPlace ==
  ASSUME NEW c \in Clusters
  PROVE  /\ clus_lba(c) \in Nat /\ DataStart <= clus_lba(c)
         /\ clus_lba(c) + SPC <= TotalSecs
         /\ ClusterLbas(c) = clus_lba(c) .. clus_lba(c) + SPC - 1
<1>1. /\ SPC \in Nat \ {0} /\ DataStart \in Nat /\ TotalSecs \in Nat
      /\ DataStart < TotalSecs
  BY Geometry
<1> DEFINE n == (TotalSecs - DataStart) \div SPC
<1>2. n \in Nat /\ SPC * n <= TotalSecs - DataStart
  BY <1>1
<1> HIDE DEF n
<1>3. c \in Nat /\ 2 <= c /\ c - 1 <= n
  BY ClusterNumbers, <1>2 DEF n
<1>4. (c - 2) * SPC \in Nat
  BY <1>1, <1>3
<1>5. (c - 2) * SPC + SPC <= SPC * n
  <2>1. (c - 2) * SPC + SPC = SPC * (c - 1)
    BY <1>1, <1>3
  <2>2. SPC * (c - 1) <= SPC * n
    BY <1>1, <1>2, <1>3
  <2>3. SPC * (c - 1) \in Int /\ SPC * n \in Int
    BY <1>1, <1>2, <1>3
  <2>4. QED
    BY <2>1, <2>2
<1>6. SPC * n \in Int
  BY <1>1, <1>2
<1>7. QED
  BY <1>1, <1>2, <1>4, <1>5, <1>6 DEF clus_lba, ClusterLbas

LEMMA ClusterOrder ==
  ASSUME NEW c \in Clusters, NEW d \in Clusters, c < d
  PROVE  clus_lba(c) + SPC <= clus_lba(d)
<1>1. SPC \in Nat \ {0} /\ DataStart \in Nat
  BY Geometry
<1>2. c \in Nat /\ d \in Nat /\ 2 <= c
  BY ClusterNumbers
<1>3. (c - 2) * SPC + SPC = SPC * (c - 1)
  BY <1>1, <1>2
<1>4. SPC * (c - 1) <= SPC * (d - 2)
  BY <1>1, <1>2
<1>5. SPC * (d - 2) = (d - 2) * SPC
  BY <1>1, <1>2
<1>6. (c - 2) * SPC \in Int /\ (d - 2) * SPC \in Int /\ SPC * (c - 1) \in Int
  BY <1>1, <1>2
<1>7. QED
  BY <1>1, <1>3, <1>4, <1>5, <1>6 DEF clus_lba

LEMMA ClustersApart ==
  ASSUME NEW c \in Clusters, NEW d \in Clusters, c # d
  PROVE  ClusterLbas(c) \intersect ClusterLbas(d) = {}
<1>1. c \in Nat /\ d \in Nat
  BY ClusterNumbers
<1>2. SPC \in Nat \ {0}
  BY Geometry
<1>3. CASE c < d
  BY <1>2, <1>3, ClusterPlace, ClusterOrder
<1>4. CASE d < c
  BY <1>2, <1>4, ClusterPlace, ClusterOrder
<1>5. QED
  BY <1>1, <1>3, <1>4

-----------------------------------------------------------------------------
(* The walk along a chain, a recursive function, and what it finds.        *)
LEMMA WalkDef ==
  ASSUME NEW fat, NEW c
  PROVE  Walk(fat, c) = [n \in 0 .. MaxC |->
           IF n = 0 THEN c
           ELSE IF Walk(fat, c)[n - 1] \in Clusters THEN fat[Walk(fat, c)[n - 1]]
                ELSE Walk(fat, c)[n - 1]]
<1> DEFINE E(w, n) == IF n = 0 THEN c
                      ELSE IF w[n - 1] \in Clusters THEN fat[w[n - 1]] ELSE w[n - 1]
           Up(w, m) == w = [n \in 0 .. m |-> E(w, n)]
           P == {m \in 0 .. MaxC : \E w : Up(w, m)}
<1>0. MaxC \in Nat
  BY ClusterNumbers
<1>1. 0 \in P
  <2> DEFINE w == [n \in 0 .. 0 |-> c]
  <2>1. Up(w, 0)
    OBVIOUS
  <2> HIDE DEF w, Up
  <2>2. QED
    BY <1>0, <2>1
<1>2. ASSUME NEW m \in 0 .. MaxC - 1, m \in P
      PROVE  m + 1 \in P
  <2>1. PICK g : g = [n \in 0 .. m |-> E(g, n)]
    BY <1>2
  <2> DEFINE h == [n \in 0 .. m + 1 |-> IF n = m + 1 THEN E(g, m + 1) ELSE g[n]]
  <2>2. ASSUME NEW n \in 0 .. m + 1
        PROVE  h[n] = E(h, n)
    <3>1. CASE n = 0
      BY <2>1, <3>1
    <3>2. CASE n # 0
      <4>1. n - 1 \in 0 .. m /\ h[n - 1] = g[n - 1]
        BY <3>2
      <4>2. h[n] = E(g, n)
        BY <2>1, <3>2
      <4>3. QED
        BY <4>1, <4>2
    <3>3. QED
      BY <3>1, <3>2
  <2>3. Up(h, m + 1)
    BY <2>2
  <2>4. m + 1 \in 0 .. MaxC
    BY <1>0
  <2> HIDE DEF h, Up
  <2>5. QED
    BY <2>3, <2>4
<1>3. MaxC \in P
  <2> HIDE DEF P
  <2>1. \A m \in 0 .. MaxC : m \in P
    BY <1>0, <1>1, <1>2, Induction
  <2>2. QED
    BY <1>0, <2>1
<1>4. PICK g : g = [n \in 0 .. MaxC |-> E(g, n)]
  BY <1>3
<1> DEFINE w == CHOOSE f : f = [n \in 0 .. MaxC |-> E(f, n)]
<1>5. w = [n \in 0 .. MaxC |-> E(w, n)]
  BY <1>4
<1>6. Walk(fat, c) = w
  BY DEF Walk
<1> HIDE DEF w
<1>7. QED
  BY <1>5, <1>6

LEMMA WalkSteps ==
  ASSUME NEW fat, NEW c
  PROVE  /\ Walk(fat, c)[0] = c
         /\ \A n \in 1 .. MaxC :
              Walk(fat, c)[n] = IF Walk(fat, c)[n - 1] \in Clusters
                                THEN fat[Walk(fat, c)[n - 1]]
                                ELSE Walk(fat, c)[n - 1]
<1> DEFINE w == Walk(fat, c)
<1>1. w = [n \in 0 .. MaxC |->
             IF n = 0 THEN c
             ELSE IF w[n - 1] \in Clusters THEN fat[w[n - 1]] ELSE w[n - 1]]
  BY WalkDef
<1>2. MaxC \in Nat
  BY ClusterNumbers
<1> HIDE DEF w
<1>3. w[0] = c
  BY <1>1, <1>2
<1>4. \A n \in 1 .. MaxC : w[n] = IF w[n - 1] \in Clusters THEN fat[w[n - 1]] ELSE w[n - 1]
  BY <1>1, <1>2
<1>5. QED
  BY <1>3, <1>4 DEF w

(* A set of numbers with each number below one of its own is an interval.  *)
LEMMA Initial ==
  ASSUME NEW N \in Nat, NEW D \in SUBSET (0 .. N),
         \A n \in D : n # 0 => n - 1 \in D
  PROVE  Cardinality(D) \in 0 .. N + 1 /\ D = 0 .. Cardinality(D) - 1
<1> DEFINE S == {n \in 0 .. N + 1 : n \notin D}
<1>1. S \in SUBSET Nat /\ N + 1 \in S
  OBVIOUS
<1>2. PICK m \in S : \A n \in S : m <= n
  <2> HIDE DEF S
  <2>1. QED
    BY <1>1, Least
<1>3. m \in 0 .. N + 1 /\ m \notin D
  OBVIOUS
<1>4. \A n \in 0 .. N : n < m => n \in D
  BY <1>2, <1>3
<1> DEFINE P == {n \in 0 .. N - m : n + m \notin D}
<1>5. \A n \in 0 .. N : n >= m => n \notin D
  <2>1. CASE m = N + 1
    BY <2>1
  <2>2. CASE m # N + 1
    <3>1. N - m \in Nat /\ 0 \in P
      BY <1>3, <2>2
    <3>2. ASSUME NEW k \in 0 .. (N - m) - 1, k \in P
          PROVE  k + 1 \in P
      <4>1. k + 1 \in 0 .. N - m /\ (k + 1) + m - 1 = k + m /\ (k + 1) + m # 0
        BY <1>3
      <4>2. (k + 1) + m \notin D
        BY <3>2, <4>1
      <4>3. QED
        BY <4>1, <4>2
    <3>3. \A k \in 0 .. N - m : k \in P
      <4> HIDE DEF P
      <4>1. QED
        BY <3>1, <3>2, Induction
    <3>4. \A n \in 0 .. N : n >= m => n - m \in 0 .. N - m /\ (n - m) + m = n
      BY <1>3
    <3>5. QED
      BY <3>3, <3>4
  <2>3. QED
    BY <2>1, <2>2
<1> HIDE DEF S, P
<1>6. D = 0 .. m - 1
  <2>1. D \subseteq 0 .. m - 1
    BY <1>3, <1>5
  <2>2. 0 .. m - 1 \subseteq D
    <3>1. \A n \in 0 .. m - 1 : n \in 0 .. N /\ n < m
      BY <1>3
    <3>2. QED
      BY <1>4, <3>1
  <2>3. QED
    BY <2>1, <2>2
<1>7. Cardinality(0 .. m - 1) = m
  BY <1>3, FS_Interval
<1>8. QED
  BY <1>3, <1>6, <1>7

(* The links of any walk are clusters of the volume.                       *)
LEMMA ChainShape ==
  ASSUME NEW fat, NEW c
  PROVE  /\ ChainLen(fat, c) \in 0 .. MaxC + 1
         /\ \A n \in 0 .. MaxC :
              Walk(fat, c)[n] \in Clusters <=> n < ChainLen(fat, c)
         /\ Len(Chain(fat, c)) = ChainLen(fat, c)
         /\ DOMAIN Chain(fat, c) = 1 .. ChainLen(fat, c)
         /\ \A n \in 1 .. ChainLen(fat, c) :
              Chain(fat, c)[n] = Walk(fat, c)[n - 1] /\ Chain(fat, c)[n] \in Clusters
         /\ Chain(fat, c) \in Seq(Clusters)
<1> DEFINE w == Walk(fat, c)
           D == {n \in 0 .. MaxC : w[n] \in Clusters}
           k == ChainLen(fat, c)
           ch == Chain(fat, c)
<1>1. MaxC \in Nat
  BY ClusterNumbers
<1>2. \A n \in D : n # 0 => n - 1 \in D
  <2> SUFFICES ASSUME NEW n \in 0 .. MaxC, w[n] \in Clusters, n # 0
               PROVE  w[n - 1] \in Clusters /\ n - 1 \in 0 .. MaxC
    OBVIOUS
  <2>1. n \in 1 .. MaxC
    BY <1>1
  <2>2. w[n] = IF w[n - 1] \in Clusters THEN fat[w[n - 1]] ELSE w[n - 1]
    BY <2>1, WalkSteps
  <2>3. n - 1 \in 0 .. MaxC
    BY <1>1, <2>1
  <2>4. w[n] \in Clusters
    OBVIOUS
  <2> HIDE DEF w
  <2>5. QED
    BY <2>2, <2>3, <2>4
<1>3. k = Cardinality(D)
  BY DEF ChainLen
<1>4. k \in 0 .. MaxC + 1 /\ D = 0 .. k - 1
  <2> HIDE DEF D, k
  <2>1. D \in SUBSET (0 .. MaxC)
    BY DEF D
  <2>2. QED
    BY <1>1, <1>2, <1>3, <2>1, Initial
<1>5. \A n \in 0 .. MaxC : w[n] \in Clusters <=> n < k
  <2> HIDE DEF k, w
  <2>1. QED
    BY <1>1, <1>4
<1>6. ch = [n \in 1 .. k |-> w[n - 1]]
  BY DEF Chain
<1> HIDE DEF w, k, ch, D
<1>7. \A n \in 1 .. k : ch[n] = w[n - 1] /\ ch[n] \in Clusters
  <2> SUFFICES ASSUME NEW n \in 1 .. k PROVE ch[n] = w[n - 1] /\ w[n - 1] \in Clusters
    OBVIOUS
  <2>1. n - 1 \in 0 .. MaxC /\ n - 1 < k
    BY <1>1, <1>4
  <2>2. QED
    BY <1>5, <1>6, <2>1
<1>8. ch \in [1 .. k -> Clusters]
  BY <1>6, <1>7
<1>9. ch \in Seq(Clusters) /\ Len(ch) = k /\ DOMAIN ch = 1 .. k
  BY <1>4, <1>8
<1>10. QED
  BY <1>4, <1>5, <1>7, <1>9 DEF w, k, ch

-----------------------------------------------------------------------------
(* ch is the chain that starts with cluster c.                             *)
Chained(fat, c, ch) ==
  /\ ch \in Seq(Clusters) /\ ch # <<>> /\ ch[1] = c
  /\ \A i, j \in 1 .. Len(ch) : ch[i] = ch[j] => i = j
  /\ \A i \in 1 .. Len(ch) - 1 : fat[ch[i]] = ch[i + 1]
  /\ IsEnd(fat[ch[Len(ch)]])

Members(ch) == {ch[n] : n \in DOMAIN ch}

LEMMA ChainedShape ==
  ASSUME NEW fat, NEW c, NEW ch, Chained(fat, c, ch)
  PROVE  /\ Len(ch) \in Nat \ {0} /\ DOMAIN ch = 1 .. Len(ch)
         /\ \A n \in 1 .. Len(ch) : ch[n] \in Clusters
         /\ ch[1] = c /\ c \in Clusters
         /\ Members(ch) \subseteq Clusters
         /\ Members(ch) = {ch[n] : n \in 1 .. Len(ch)}
         /\ c \in Members(ch) /\ ch[Len(ch)] \in Members(ch)
<1>1. ch \in Seq(Clusters) /\ ch # <<>> /\ ch[1] = c
  BY DEF Chained
<1>2. Len(ch) \in Nat \ {0} /\ DOMAIN ch = 1 .. Len(ch)
  BY <1>1, EmptySeq
<1>3. \A n \in 1 .. Len(ch) : ch[n] \in Clusters
  BY <1>1, ElementOfSeq
<1>4. 1 \in 1 .. Len(ch) /\ Len(ch) \in 1 .. Len(ch)
  BY <1>2
<1>5. QED
  BY <1>1, <1>2, <1>3, <1>4 DEF Members

LEMMA ShortEnough ==
  ASSUME NEW fat, NEW c, NEW ch, Chained(fat, c, ch)
  PROVE  Len(ch) <= MaxC
<1>1. /\ Len(ch) \in Nat \ {0}
      /\ \A n \in 1 .. Len(ch) : ch[n] \in Clusters
      /\ \A i, j \in 1 .. Len(ch) : ch[i] = ch[j] => i = j
  BY ChainedShape DEF Chained
<1>2. MaxC \in Nat /\ Clusters = 2 .. MaxC - 1 /\ MaxC > 2
  BY ClusterNumbers
<1> DEFINE f == [n \in 1 .. Len(ch) |-> ch[n]]
<1>3. f \in Injection(1 .. Len(ch), Clusters)
  BY <1>1 DEF Injection, IsInjective
<1>4. IsFiniteSet(Clusters) /\ Cardinality(Clusters) <= MaxC
  BY <1>2, FS_Interval
<1> HIDE DEF f
<1>5. Cardinality(1 .. Len(ch)) <= Cardinality(Clusters)
  BY <1>3, <1>4, FS_Injection
<1>6. Cardinality(1 .. Len(ch)) = Len(ch)
  BY <1>1, FS_Interval
<1>7. Cardinality(Clusters) \in Nat
  BY <1>4, FS_CardinalityType
<1>8. QED
  BY <1>1, <1>2, <1>4, <1>5, <1>6, <1>7

(* The walk finds that chain, and no other, and comes to its end.          *)
LEMMA ChainIs ==
  ASSUME NEW fat, NEW c, NEW ch, Chained(fat, c, ch)
  PROVE  Chain(fat, c) = ch /\ ChainSound(fat, c)
<1> DEFINE w == Walk(fat, c)
           k == Len(ch)
<1>1. /\ k \in Nat \ {0} /\ DOMAIN ch = 1 .. k
      /\ \A n \in 1 .. k : ch[n] \in Clusters
      /\ ch[1] = c /\ k <= MaxC /\ ch \in Seq(Clusters)
  BY ChainedShape, ShortEnough DEF Chained
<1>2. /\ \A i \in 1 .. k - 1 : fat[ch[i]] = ch[i + 1]
      /\ IsEnd(fat[ch[k]])
  BY DEF Chained
<1>3. /\ w[0] = c
      /\ \A n \in 1 .. MaxC :
           w[n] = IF w[n - 1] \in Clusters THEN fat[w[n - 1]] ELSE w[n - 1]
  BY WalkSteps
<1>4. MaxC \in Nat /\ \A d \in Clusters : ~IsEnd(d)
  BY ClusterNumbers
<1> HIDE DEF w, k
<1>5. \A n \in 0 .. k - 1 : w[n] = ch[n + 1]
  <2> DEFINE P == {n \in 0 .. k - 1 : w[n] = ch[n + 1]}
  <2>1. 0 \in P
    BY <1>1, <1>3
  <2>2. ASSUME NEW n \in 0 .. (k - 1) - 1, n \in P
        PROVE  n + 1 \in P
    <3>1. n + 1 \in 1 .. k - 1 /\ n + 1 \in 1 .. MaxC /\ n + 1 \in 1 .. k
          /\ n + 1 \in 0 .. k - 1
      BY <1>1, <1>4
    <3>2. w[n + 1] = fat[w[n]] /\ w[n] = ch[n + 1]
      BY <1>1, <1>3, <2>2, <3>1
    <3>3. w[n + 1] = ch[n + 1 + 1]
      BY <1>2, <3>1, <3>2
    <3>4. QED
      BY <3>1, <3>3
  <2>3. k - 1 \in Nat
    BY <1>1
  <2>4. \A n \in 0 .. k - 1 : n \in P
    <3> HIDE DEF P
    <3>1. QED
      BY <2>1, <2>2, <2>3, Induction
  <2>5. QED
    BY <2>4
<1> DEFINE e == fat[ch[k]]
<1>6. e \notin Clusters
  BY <1>2, <1>4
<1>7. w[k] = e
  <2>1. k \in 1 .. MaxC /\ k - 1 \in 0 .. k - 1 /\ k - 1 + 1 = k /\ k \in 1 .. k
    BY <1>1, <1>4
  <2>2. w[k - 1] = ch[k] /\ ch[k] \in Clusters
    BY <1>1, <1>5, <2>1
  <2>3. QED
    BY <1>3, <2>1, <2>2
<1>8. \A n \in 0 .. MaxC - k : w[k + n] = e
  <2> HIDE DEF e
  <2> DEFINE P == {n \in 0 .. MaxC - k : w[k + n] = e}
  <2>1. 0 \in P
    BY <1>1, <1>4, <1>7
  <2>2. ASSUME NEW n \in 0 .. (MaxC - k) - 1, n \in P
        PROVE  n + 1 \in P
    <3> DEFINE m == k + n + 1
    <3>1. m \in 1 .. MaxC /\ m - 1 = k + n /\ k + (n + 1) = m
          /\ n + 1 \in 0 .. MaxC - k
      BY <1>1, <1>4
    <3>2. w[k + n] = e /\ w[k + n] \notin Clusters
      BY <1>6, <2>2
    <3> HIDE DEF m
    <3>3. w[m] = w[k + n]
      BY <1>3, <3>1, <3>2
    <3>4. QED
      BY <3>1, <3>2, <3>3
  <2>3. MaxC - k \in Nat
    BY <1>1, <1>4
  <2>4. \A n \in 0 .. MaxC - k : n \in P
    <3> HIDE DEF P
    <3>1. QED
      BY <2>1, <2>2, <2>3, Induction
  <2>5. QED
    BY <2>4
<1>9. ChainLen(fat, c) = k
  <2>1. /\ ChainLen(fat, c) \in 0 .. MaxC + 1
        /\ \A n \in 0 .. MaxC : w[n] \in Clusters <=> n < ChainLen(fat, c)
    BY ChainShape DEF w
  <2>2. k \in 0 .. MaxC /\ k - 1 \in 0 .. MaxC /\ k - 1 \in 0 .. k - 1
        /\ k - 1 + 1 = k /\ k \in 1 .. k
    BY <1>1, <1>4
  <2>3. w[k - 1] \in Clusters
    BY <1>1, <1>5, <2>2
  <2>4. k - 1 < ChainLen(fat, c) /\ ~(k < ChainLen(fat, c))
    BY <1>6, <1>7, <2>1, <2>2, <2>3
  <2>5. QED
    BY <1>1, <1>4, <2>1, <2>4
<1>10. Chain(fat, c) = ch
  <2>1. /\ Chain(fat, c) \in Seq(Clusters) /\ Len(Chain(fat, c)) = k
        /\ \A n \in 1 .. k : Chain(fat, c)[n] = w[n - 1]
    BY <1>9, ChainShape DEF w
  <2>2. \A n \in 1 .. k : Chain(fat, c)[n] = ch[n]
    <3> SUFFICES ASSUME NEW n \in 1 .. k PROVE w[n - 1] = ch[n]
      BY <2>1
    <3>1. n - 1 \in 0 .. k - 1 /\ n - 1 + 1 = n
      BY <1>1
    <3>2. QED
      BY <1>5, <3>1
  <2>3. QED
    BY <1>1, <2>1, <2>2, SeqEqual DEF k
<1>11. w[MaxC] = e
  <2>1. MaxC - k \in 0 .. MaxC - k /\ k + (MaxC - k) = MaxC
    BY <1>1, <1>4
  <2>2. QED
    BY <1>8, <2>1
<1>12. QED
  BY <1>2, <1>10, <1>11 DEF ChainSound, w

(* What the steps of a call do to a chain.  Links of other clusters do not *)
(* matter to it.                                                           *)
LEMMA ChainKept ==
  ASSUME NEW fat, NEW c, NEW ch, Chained(fat, c, ch), NEW fat2,
         \A d \in Members(ch) : fat2[d] = fat[d]
  PROVE  Chained(fat2, c, ch)
<1>1. Len(ch) \in Nat \ {0} /\ Members(ch) = {ch[n] : n \in 1 .. Len(ch)}
  BY ChainedShape
<1>2. \A n \in 1 .. Len(ch) : fat2[ch[n]] = fat[ch[n]]
  BY <1>1
<1>3. \A i \in 1 .. Len(ch) - 1 : fat2[ch[i]] = ch[i + 1]
  BY <1>1, <1>2 DEF Chained
<1>4. IsEnd(fat2[ch[Len(ch)]])
  BY <1>1, <1>2 DEF Chained
<1>5. QED
  BY <1>3, <1>4 DEF Chained

(* A cluster of a chain is not free.                                       *)
LEMMA ChainInUse ==
  ASSUME NEW fat, NEW c, NEW ch, Chained(fat, c, ch), NEW d \in Members(ch)
  PROVE  fat[d] # 0
<1>1. /\ Len(ch) \in Nat \ {0}
      /\ \A n \in 1 .. Len(ch) : ch[n] \in Clusters
      /\ Members(ch) = {ch[n] : n \in 1 .. Len(ch)}
  BY ChainedShape
<1>2. (\A e \in Clusters : e # 0) /\ ~IsEnd(0)
  BY ClusterNumbers
<1>3. PICK n \in 1 .. Len(ch) : d = ch[n]
  BY <1>1
<1>4. CASE n = Len(ch)
  BY <1>2, <1>3, <1>4 DEF Chained
<1>5. CASE n # Len(ch)
  <2>1. n \in 1 .. Len(ch) - 1 /\ n + 1 \in 1 .. Len(ch)
    BY <1>1, <1>5
  <2>2. fat[d] = ch[n + 1]
    BY <1>3, <2>1 DEF Chained
  <2>3. QED
    BY <1>1, <1>2, <2>1, <2>2
<1>6. QED
  BY <1>4, <1>5

LEMMA OneCluster ==
  ASSUME NEW fat, NEW c \in Clusters, IsEnd(fat[c])
  PROVE  Chained(fat, c, <<c>>) /\ Members(<<c>>) = {c}
<1> DEFINE s == <<c>>
<1>1. s \in Seq(Clusters) /\ Len(s) = 1 /\ s[1] = c /\ s # <<>> /\ DOMAIN s = {1}
  OBVIOUS
<1> HIDE DEF s
<1>2. \A i, j \in 1 .. Len(s) : s[i] = s[j] => i = j
  BY <1>1
<1>3. \A i \in 1 .. Len(s) - 1 : fat[s[i]] = s[i + 1]
  BY <1>1
<1>4. Chained(fat, c, s)
  BY <1>1, <1>2, <1>3 DEF Chained
<1>5. Members(s) = {c}
  BY <1>1 DEF Members
<1>6. QED
  BY <1>4, <1>5 DEF s

(* A cluster of its own is linked to the end.                              *)
LEMMA ChainLonger ==
  ASSUME NEW fat, NEW c, NEW ch, Chained(fat, c, ch),
         NEW b \in Clusters, b \notin Members(ch), IsEnd(fat[b]),
         NEW fat2, fat2[ch[Len(ch)]] = b,
         \A d \in Clusters : d # ch[Len(ch)] => fat2[d] = fat[d]
  PROVE  /\ Chained(fat2, c, Append(ch, b))
         /\ Members(Append(ch, b)) = Members(ch) \union {b}
<1> DEFINE k == Len(ch)
           s == Append(ch, b)
<1>1. /\ k \in Nat \ {0} /\ ch \in Seq(Clusters)
      /\ \A n \in 1 .. k : ch[n] \in Clusters
      /\ Members(ch) = {ch[n] : n \in 1 .. k}
      /\ ch[1] = c
  BY ChainedShape DEF Chained
<1>2. \A i, j \in 1 .. k : ch[i] = ch[j] => i = j
  BY DEF Chained
<1>3. \A i \in 1 .. k - 1 : fat[ch[i]] = ch[i + 1]
  BY DEF Chained
<1>4. /\ s \in Seq(Clusters) /\ Len(s) = k + 1 /\ s # <<>> /\ DOMAIN s = 1 .. k + 1
      /\ \A n \in 1 .. k : s[n] = ch[n]
      /\ s[k + 1] = b
  BY <1>1
<1> HIDE DEF s
<1>5. s[1] = c
  BY <1>1, <1>4
<1>6. ASSUME NEW i \in 1 .. k + 1, NEW j \in 1 .. k + 1, s[i] = s[j] PROVE i = j
  <2>1. \A n \in 1 .. k : s[n] # b
    BY <1>1, <1>4
  <2>2. CASE i = k + 1
    BY <1>1, <1>4, <1>6, <2>1, <2>2
  <2>3. CASE j = k + 1
    BY <1>1, <1>4, <1>6, <2>1, <2>3
  <2>4. CASE i \in 1 .. k /\ j \in 1 .. k
    BY <1>2, <1>4, <1>6, <2>4
  <2>5. QED
    BY <1>1, <2>2, <2>3, <2>4
<1>7. ASSUME NEW i \in 1 .. k PROVE fat2[s[i]] = s[i + 1]
  <2>1. CASE i = k
    BY <1>1, <1>4, <2>1
  <2>2. CASE i # k
    <3>1. i \in 1 .. k - 1 /\ i + 1 \in 1 .. k /\ k \in 1 .. k
      BY <1>1, <2>2
    <3>2. ch[i] \in Clusters /\ ch[i] # ch[k]
      BY <1>1, <1>2, <2>2, <3>1
    <3>3. QED
      BY <1>3, <1>4, <3>1, <3>2
  <2>3. QED
    BY <2>1, <2>2
<1>8. IsEnd(fat2[s[k + 1]])
  <2>1. b # ch[k]
    BY <1>1
  <2>2. QED
    BY <1>4, <2>1
<1>9. Chained(fat2, c, s)
  <2>1. \A i \in 1 .. Len(s) - 1 : fat2[s[i]] = s[i + 1]
    BY <1>1, <1>4, <1>7
  <2>2. QED
    BY <1>4, <1>5, <1>6, <1>8, <2>1 DEF Chained
<1>10. Members(s) = Members(ch) \union {b}
  <2>1. \A n \in 1 .. k + 1 : n \in 1 .. k \/ n = k + 1
    BY <1>1
  <2>2. \A n \in 1 .. k : n \in 1 .. k + 1
    BY <1>1
  <2>3. k + 1 \in 1 .. k + 1
    BY <1>1
  <2>4. Members(s) = {s[n] : n \in 1 .. k + 1}
    BY <1>4 DEF Members
  <2>5. QED
    BY <1>1, <1>4, <2>1, <2>2, <2>3, <2>4
<1>11. QED
  BY <1>9, <1>10 DEF s

(* From any of its clusters on, a chain is a chain.                        *)
From(ch, m) == {ch[n] : n \in m .. Len(ch)}

LEMMA ChainFrom ==
  ASSUME NEW fat, NEW c, NEW ch, Chained(fat, c, ch), NEW m \in 1 .. Len(ch)
  PROVE  \E s : /\ Chained(fat, ch[m], s)
                /\ Members(s) = From(ch, m)
<1> DEFINE k == Len(ch) - m + 1
           s == [n \in 1 .. k |-> ch[n + m - 1]]
<1>1. /\ Len(ch) \in Nat \ {0}
      /\ \A n \in 1 .. Len(ch) : ch[n] \in Clusters
  BY ChainedShape
<1>2. /\ \A i, j \in 1 .. Len(ch) : ch[i] = ch[j] => i = j
      /\ \A i \in 1 .. Len(ch) - 1 : fat[ch[i]] = ch[i + 1]
      /\ IsEnd(fat[ch[Len(ch)]])
  BY DEF Chained
<1>3. k \in Nat \ {0} /\ k + m - 1 = Len(ch) /\ m \in Nat \ {0}
  BY <1>1
<1>4. \A n \in 1 .. k : n + m - 1 \in 1 .. Len(ch) /\ n + m - 1 \in m .. Len(ch)
  BY <1>1
<1>5. \A n \in 1 .. k : s[n] = ch[n + m - 1] /\ s[n] \in Clusters
  BY <1>1, <1>4
<1>6. s \in Seq(Clusters) /\ Len(s) = k /\ DOMAIN s = 1 .. k
  <2>1. s \in [1 .. k -> Clusters]
    BY <1>5
  <2> HIDE DEF s, k
  <2>2. QED
    BY <1>3, <2>1
<1> HIDE DEF s, k
<1>7. s # <<>> /\ s[1] = ch[m]
  <2>1. 1 \in 1 .. k /\ 1 + m - 1 = m
    BY <1>3
  <2>2. QED
    BY <1>3, <1>5, <1>6, <2>1
<1>8. \A i, j \in 1 .. k : s[i] = s[j] => i = j
  <2> SUFFICES ASSUME NEW i \in 1 .. k, NEW j \in 1 .. k, s[i] = s[j] PROVE i = j
    OBVIOUS
  <2>1. i + m - 1 = j + m - 1
    BY <1>2, <1>4, <1>5
  <2>2. QED
    BY <1>3, <2>1
<1>9. \A i \in 1 .. k - 1 : fat[s[i]] = s[i + 1]
  <2> SUFFICES ASSUME NEW i \in 1 .. k - 1 PROVE fat[s[i]] = s[i + 1]
    OBVIOUS
  <2>1. /\ i \in 1 .. k /\ i + 1 \in 1 .. k /\ i + m - 1 \in 1 .. Len(ch) - 1
        /\ i + 1 + m - 1 = i + m - 1 + 1
    BY <1>1, <1>3
  <2>2. QED
    BY <1>2, <1>5, <2>1
<1>10. IsEnd(fat[s[k]])
  <2>1. k \in 1 .. k
    BY <1>3
  <2>2. QED
    BY <1>2, <1>3, <1>5, <2>1
<1>11. Chained(fat, ch[m], s)
  BY <1>6, <1>7, <1>8, <1>9, <1>10 DEF Chained
<1>12. Members(s) = {ch[n] : n \in m .. Len(ch)}
  <2>1. \A n \in m .. Len(ch) : n - m + 1 \in 1 .. k /\ n - m + 1 + m - 1 = n
    BY <1>1, <1>3
  <2>2. Members(s) = {s[n] : n \in 1 .. k}
    BY <1>6 DEF Members
  <2>3. Members(s) \subseteq {ch[n] : n \in m .. Len(ch)}
    BY <1>4, <1>5, <2>2
  <2>4. ASSUME NEW n \in m .. Len(ch) PROVE ch[n] \in Members(s)
    <3>1. s[n - m + 1] = ch[n - m + 1 + m - 1]
      BY <1>5, <2>1
    <3>2. QED
      BY <2>1, <2>2, <3>1
  <2>5. QED
    BY <2>3, <2>4
<1>13. QED
  BY <1>11, <1>12 DEF From

(* The first cluster is freed.                                             *)
LEMMA ChainShorter ==
  ASSUME NEW fat, NEW c, NEW ch, Chained(fat, c, ch), ~IsEnd(fat[c])
  PROVE  \E s : /\ Chained(fat, fat[c], s)
                /\ c \notin Members(s) /\ Members(ch) = Members(s) \union {c}
<1>1. /\ Len(ch) \in Nat \ {0} /\ ch[1] = c
      /\ Members(ch) = {ch[n] : n \in 1 .. Len(ch)}
  BY ChainedShape
<1>2. /\ \A i, j \in 1 .. Len(ch) : ch[i] = ch[j] => i = j
      /\ \A i \in 1 .. Len(ch) - 1 : fat[ch[i]] = ch[i + 1]
      /\ IsEnd(fat[ch[Len(ch)]])
  BY DEF Chained
<1>3. Len(ch) # 1
  BY <1>1, <1>2
<1>4. 2 \in 1 .. Len(ch) /\ 1 \in 1 .. Len(ch) - 1
  <2>1. PICK k : k = Len(ch)
    OBVIOUS
  <2>2. k \in Nat /\ 2 <= k
    BY <1>1, <1>3, <2>1
  <2>3. 2 \in 1 .. k /\ 1 \in 1 .. k - 1
    BY <2>2
  <2>4. QED
    BY <2>1, <2>3
<1>5. fat[c] = ch[2]
  <2>1. fat[ch[1]] = ch[1 + 1]
    BY <1>2, <1>4
  <2>2. QED
    BY <1>1, <2>1
<1>6. PICK s : Chained(fat, ch[2], s) /\ Members(s) = {ch[n] : n \in 2 .. Len(ch)}
  <2>1. \E s : Chained(fat, ch[2], s) /\ Members(s) = From(ch, 2)
    BY <1>4, ChainFrom
  <2>2. QED
    BY <2>1 DEF From
<1>7. \A n \in 2 .. Len(ch) : n \in 1 .. Len(ch) /\ 1 \in 1 .. Len(ch) /\ n # 1
  <2>1. PICK k \in Nat \ {0} : k = Len(ch)
    BY <1>1
  <2>2. \A n \in 2 .. k : n \in 1 .. k /\ 1 \in 1 .. k /\ n # 1
    OBVIOUS
  <2>3. QED
    BY <2>1, <2>2
<1>8. \A n \in 2 .. Len(ch) : ch[n] # c
  BY <1>1, <1>2, <1>7
<1>9. \A n \in 1 .. Len(ch) : n = 1 \/ n \in 2 .. Len(ch)
  BY <1>1
<1>10. Members(ch) = Members(s) \union {c}
  BY <1>1, <1>4, <1>6, <1>7, <1>9
<1>11. QED
  BY <1>5, <1>6, <1>8, <1>10

(* The same of the chain that the walk finds.                              *)
Sound(fat, c) == Chained(fat, c, Chain(fat, c))

Mem(fat, c) == Members(Chain(fat, c))

LastOf(fat, c) == Chain(fat, c)[Len(Chain(fat, c))]

LEMMA SoundIs ==
  ASSUME NEW fat, NEW c, NEW ch, Chained(fat, c, ch)
  PROVE  /\ Sound(fat, c) /\ Mem(fat, c) = Members(ch)
         /\ LastOf(fat, c) = ch[Len(ch)] /\ ChainSound(fat, c)
<1>1. Chain(fat, c) = ch /\ ChainSound(fat, c)
  BY ChainIs
<1>2. QED
  BY <1>1 DEF Sound, Mem, LastOf

LEMMA SoundShape ==
  ASSUME NEW fat, NEW c, Sound(fat, c)
  PROVE  /\ c \in Clusters /\ c \in Mem(fat, c) /\ Mem(fat, c) \subseteq Clusters
         /\ LastOf(fat, c) \in Mem(fat, c) /\ IsEnd(fat[LastOf(fat, c)])
         /\ ChainSound(fat, c)
         /\ \A d \in Mem(fat, c) : fat[d] # 0
<1> DEFINE ch == Chain(fat, c)
<1>1. Chained(fat, c, ch)
  BY DEF Sound
<1>2. Mem(fat, c) = Members(ch) /\ LastOf(fat, c) = ch[Len(ch)]
  BY DEF Mem, LastOf
<1> HIDE DEF ch
<1>3. IsEnd(fat[ch[Len(ch)]])
  BY <1>1 DEF Chained
<1>4. ChainSound(fat, c)
  BY <1>1, SoundIs
<1>5. \A d \in Members(ch) : fat[d] # 0
  BY <1>1, ChainInUse
<1>6. QED
  BY <1>1, <1>2, <1>3, <1>4, <1>5, ChainedShape

LEMMA SoundKept ==
  ASSUME NEW fat, NEW c, Sound(fat, c), NEW fat2,
         \A d \in Mem(fat, c) : fat2[d] = fat[d]
  PROVE  /\ Sound(fat2, c) /\ Chain(fat2, c) = Chain(fat, c)
         /\ Mem(fat2, c) = Mem(fat, c) /\ LastOf(fat2, c) = LastOf(fat, c)
<1> DEFINE ch == Chain(fat, c)
<1>1. Chained(fat, c, ch) /\ Mem(fat, c) = Members(ch)
  BY DEF Sound, Mem
<1> HIDE DEF ch
<1>2. Chained(fat2, c, ch)
  BY <1>1, ChainKept
<1>3. Chain(fat2, c) = ch
  BY <1>2, ChainIs
<1>4. QED
  BY <1>2, <1>3 DEF Sound, Mem, LastOf, ch

LEMMA SoundOne ==
  ASSUME NEW fat, NEW c \in Clusters, IsEnd(fat[c])
  PROVE  Sound(fat, c) /\ Mem(fat, c) = {c} /\ LastOf(fat, c) = c
<1>1. Chained(fat, c, <<c>>) /\ Members(<<c>>) = {c}
  BY OneCluster
<1>2. <<c>>[Len(<<c>>)] = c
  OBVIOUS
<1>3. QED
  BY <1>1, <1>2, SoundIs

LEMMA SoundLonger ==
  ASSUME NEW fat, NEW c, Sound(fat, c),
         NEW b \in Clusters, b \notin Mem(fat, c), IsEnd(fat[b]),
         NEW fat2, fat2[LastOf(fat, c)] = b,
         \A d \in Clusters : d # LastOf(fat, c) => fat2[d] = fat[d]
  PROVE  /\ Sound(fat2, c) /\ Mem(fat2, c) = Mem(fat, c) \union {b}
         /\ LastOf(fat2, c) = b /\ Chain(fat2, c) = Append(Chain(fat, c), b)
<1> DEFINE ch == Chain(fat, c)
<1>1. /\ Chained(fat, c, ch) /\ Mem(fat, c) = Members(ch)
      /\ LastOf(fat, c) = ch[Len(ch)]
  BY DEF Sound, Mem, LastOf
<1> HIDE DEF ch
<1>2. /\ Chained(fat2, c, Append(ch, b))
      /\ Members(Append(ch, b)) = Members(ch) \union {b}
  BY <1>1, ChainLonger
<1>3. ch \in Seq(Clusters)
  BY <1>1 DEF Chained
<1>4. Append(ch, b)[Len(Append(ch, b))] = b
  BY <1>3
<1>5. Chain(fat2, c) = Append(ch, b)
  BY <1>2, ChainIs
<1>6. QED
  BY <1>1, <1>2, <1>4, <1>5, SoundIs DEF ch

LEMMA SoundEnd ==
  ASSUME NEW fat, NEW c, Sound(fat, c),
         NEW fat2, IsEnd(fat2[LastOf(fat, c)]),
         \A d \in Clusters : d # LastOf(fat, c) => fat2[d] = fat[d]
  PROVE  /\ Sound(fat2, c) /\ Mem(fat2, c) = Mem(fat, c)
         /\ LastOf(fat2, c) = LastOf(fat, c) /\ Chain(fat2, c) = Chain(fat, c)
<1>1. PICK ch : /\ Chained(fat, c, ch) /\ Mem(fat, c) = Members(ch)
                /\ LastOf(fat, c) = ch[Len(ch)] /\ Chain(fat, c) = ch
  BY DEF Sound, Mem, LastOf
<1>2. Len(ch) \in Nat \ {0} /\ \A n \in 1 .. Len(ch) : ch[n] \in Clusters
  BY <1>1, ChainedShape
<1>3. \A i \in 1 .. Len(ch) - 1 : fat2[ch[i]] = ch[i + 1]
  <2> SUFFICES ASSUME NEW i \in 1 .. Len(ch) - 1 PROVE fat2[ch[i]] = ch[i + 1]
    OBVIOUS
  <2>1. i \in 1 .. Len(ch) /\ Len(ch) \in 1 .. Len(ch) /\ i # Len(ch)
    BY <1>2
  <2>2. ch[i] # ch[Len(ch)] /\ fat[ch[i]] = ch[i + 1]
    BY <1>1, <2>1 DEF Chained
  <2>3. QED
    BY <1>1, <1>2, <2>1, <2>2
<1>4. Chained(fat2, c, ch)
  BY <1>1, <1>3 DEF Chained
<1>5. QED
  BY <1>1, <1>4, SoundIs, ChainIs

LEMMA SoundFrom ==
  ASSUME NEW fat, NEW c, Sound(fat, c), NEW d \in Mem(fat, c)
  PROVE  Sound(fat, d) /\ Mem(fat, d) \subseteq Mem(fat, c)
<1>1. PICK ch : Chained(fat, c, ch) /\ Mem(fat, c) = Members(ch)
  BY DEF Sound, Mem
<1>2. Members(ch) = {ch[n] : n \in 1 .. Len(ch)} /\ Len(ch) \in Nat
  BY <1>1, ChainedShape
<1>3. PICK m \in 1 .. Len(ch) : d = ch[m]
  BY <1>1, <1>2
<1>4. PICK s : Chained(fat, ch[m], s) /\ Members(s) = From(ch, m)
  BY <1>1, ChainFrom
<1>5. Members(s) \subseteq Members(ch)
  BY <1>2, <1>4 DEF From
<1>6. QED
  BY <1>1, <1>3, <1>4, <1>5, SoundIs

LEMMA SoundShorter ==
  ASSUME NEW fat, NEW c, Sound(fat, c), ~IsEnd(fat[c])
  PROVE  /\ Sound(fat, fat[c]) /\ c \notin Mem(fat, fat[c])
         /\ Mem(fat, c) = Mem(fat, fat[c]) \union {c}
<1> DEFINE ch == Chain(fat, c)
<1>1. Chained(fat, c, ch) /\ Mem(fat, c) = Members(ch)
  BY DEF Sound, Mem
<1> HIDE DEF ch
<1>2. PICK s : /\ Chained(fat, fat[c], s)
               /\ c \notin Members(s) /\ Members(ch) = Members(s) \union {c}
  BY <1>1, ChainShorter
<1>3. Sound(fat, fat[c]) /\ Mem(fat, fat[c]) = Members(s)
  BY <1>2, SoundIs
<1>4. QED
  BY <1>1, <1>2, <1>3

-----------------------------------------------------------------------------
(* The volume as the driver holds it: the FAT sectors are tables, and what *)
(* is cached and not dirty is what the sector holds.                       *)
FatLbas == FatStart .. FatStart + FatSize - 1

Tables == [0 .. EPS - 1 -> Nat]

Fields == {"disk", "sec", "buf", "dirty"}

Coherent(s) ==
  /\ s = [i \in Fields |-> s[i]]
  /\ s.disk = [l \in Lbas |-> s.disk[l]]
  /\ \A l \in FatLbas : s.disk[l] \in Tables
  /\ s.dirty \in BOOLEAN
  /\ s.sec \in {NoSec} \union 0 .. FatSize - 1
  /\ s.sec = NoSec => ~s.dirty
  /\ s.sec # NoSec => s.buf \in Tables
  /\ s.sec # NoSec /\ ~s.dirty => s.buf = s.disk[FatStart + s.sec]

(* The FAT sector k as it is with the cache.                               *)
Now(s, k) == IF s.sec = k THEN s.buf ELSE s.disk[FatStart + k]

LEMMA FatPlaces ==
  /\ FatLbas \subseteq Lbas
  /\ \A l \in FatLbas : l < Window /\ l < RootStart /\ l \in Nat
  /\ \A k \in 0 .. FatSize - 1 : FatStart + k \in FatLbas
  /\ NoSec \notin 0 .. FatSize - 1
<1>1. /\ FatStart \in Nat \ {0} /\ FatSize \in Nat \ {0} /\ TotalSecs \in Nat
      /\ RootStart = FatStart + 2 * FatSize /\ RootSectors \in Nat
      /\ Window \in Nat /\ DataStart = RootStart + RootSectors
      /\ DataStart < Window /\ Window <= TotalSecs
  BY Geometry
<1>2. QED
  BY <1>1 DEF FatLbas, Lbas, NoSec

LEMMA TableIs ==
  ASSUME NEW s, Coherent(s)
  PROVE  /\ \A c \in 0 .. MaxC - 1 :
              /\ fat_get(s, c) = Now(s, FatSec(c))[c % EPS]
              /\ DriverFat(s)[c] = fat_get(s, c)
              /\ DriverFat(s)[c] \in Nat
         /\ \A k \in 0 .. FatSize - 1 : Now(s, k) \in Tables
         /\ DriverFat(s) = [c \in 0 .. MaxC - 1 |-> Now(s, FatSec(c))[c % EPS]]
<1>1. \A k \in 0 .. FatSize - 1 : Now(s, k) \in Tables
  BY FatPlaces DEF Coherent, Now
<1>2. ASSUME NEW c \in 0 .. MaxC - 1
      PROVE  fat_get(s, c) = Now(s, FatSec(c))[c % EPS]
  <2>1. FatSec(c) \in 0 .. FatSize - 1 /\ FatStart + FatSec(c) \in FatLbas
    BY FatPlace, FatPlaces
  <2>2. CASE FatSec(c) = s.sec
    BY <2>2 DEF fat_get, Cached, Now
  <2>3. CASE FatSec(c) # s.sec /\ ~s.dirty
    BY <2>3 DEF fat_get, Cached, Now, Coherent
  <2>4. CASE FatSec(c) # s.sec /\ s.dirty
    <3>1. /\ s.sec \in 0 .. FatSize - 1 /\ FatStart + s.sec \in FatLbas
          /\ FatStart + s.sec < Window
      BY <2>4, FatPlaces DEF Coherent
    <3>2. FatStart + s.sec # FatStart + FatSec(c)
      BY <2>1, <2>4, <3>1, Geometry
    <3>3. Wr(s, FatStart + s.sec, s.buf).disk[FatStart + FatSec(c)]
            = s.disk[FatStart + FatSec(c)]
      BY <2>1, <3>1, <3>2, FatPlaces DEF Coherent, Wr
    <3>4. QED
      BY <2>4, <3>1, <3>3 DEF fat_get, Cached, Now, Coherent, Wr
  <2>5. QED
    BY <2>2, <2>3, <2>4 DEF Coherent
<1>3. \A c \in 0 .. MaxC - 1 : DriverFat(s)[c] = fat_get(s, c)
  BY DEF DriverFat
<1>4. \A c \in 0 .. MaxC - 1 : Now(s, FatSec(c))[c % EPS] \in Nat
  BY <1>1, FatPlace DEF Tables
<1>5. DriverFat(s) = [c \in 0 .. MaxC - 1 |-> Now(s, FatSec(c))[c % EPS]]
  BY <1>2 DEF DriverFat
<1>6. QED
  BY <1>1, <1>2, <1>3, <1>4, <1>5

(* r is s but for what the cache holds and for the sectors of the FAT.     *)
OffTheFat(s, r) == \A l \in Lbas : l >= RootStart => r.disk[l] = s.disk[l]

SameTable(s, r) == DriverFat(r) = DriverFat(s)

LEMMA SameSectors ==
  ASSUME NEW s, Coherent(s), NEW r, Coherent(r),
         \A k \in 0 .. FatSize - 1 : Now(r, k) = Now(s, k)
  PROVE  SameTable(s, r)
<1>1. \A c \in 0 .. MaxC - 1 : FatSec(c) \in 0 .. FatSize - 1
  BY FatPlace
<1>2. QED
  BY <1>1, TableIs DEF SameTable

LEMMA CachedIs ==
  ASSUME NEW s, Coherent(s), NEW c \in 0 .. MaxC - 1
  PROVE  /\ Coherent(Cached(s, c)) /\ Cached(s, c).sec = FatSec(c)
         /\ OffTheFat(s, Cached(s, c)) /\ SameTable(s, Cached(s, c))
         /\ Cached(s, c).dirty => s.dirty
<1> DEFINE r == Cached(s, c)
<1>1. FatSec(c) \in 0 .. FatSize - 1 /\ FatStart + FatSec(c) \in FatLbas
      /\ FatSec(c) # NoSec
  BY FatPlace, FatPlaces
<1>2. CASE FatSec(c) = s.sec
  <2>1. r = s
    BY <1>2 DEF Cached
  <2>2. QED
    BY <1>2, <2>1 DEF OffTheFat, SameTable
<1>3. CASE FatSec(c) # s.sec
  <2> DEFINE D == IF s.dirty THEN [s.disk EXCEPT ![FatStart + s.sec] = s.buf]
                  ELSE s.disk
  <2>1. s.dirty => /\ s.sec \in 0 .. FatSize - 1 /\ FatStart + s.sec \in FatLbas
                   /\ s.buf \in Tables /\ FatStart + s.sec < Window
    BY FatPlaces DEF Coherent
  <2>2. /\ r = [i \in Fields |-> r[i]] /\ r.disk = D /\ r.sec = FatSec(c)
        /\ r.buf = D[FatStart + FatSec(c)] /\ r.dirty = FALSE
    <3> DEFINE e == IF s.dirty THEN Wr(s, FatStart + s.sec, s.buf) ELSE s
    <3>1. e = [i \in Fields |-> e[i]] /\ e.disk = D
      <4>1. CASE s.dirty
        <5>1. e = [s EXCEPT !.disk[FatStart + s.sec] = s.buf]
          BY <2>1, <4>1 DEF Wr
        <5>2. D = [s.disk EXCEPT ![FatStart + s.sec] = s.buf]
          BY <4>1
        <5> HIDE DEF e, D
        <5>3. e = [i \in Fields |-> e[i]]
          BY <5>1 DEF Coherent, Fields
        <5>4. e.disk = [s.disk EXCEPT ![FatStart + s.sec] = s.buf]
          BY <5>1 DEF Coherent, Fields
        <5>5. QED
          BY <5>2, <5>3, <5>4
      <4>2. CASE ~s.dirty
        BY <4>2 DEF Coherent
      <4>3. QED
        BY <4>1, <4>2 DEF Coherent
    <3>2. r = [e EXCEPT !.sec = FatSec(c), !.dirty = FALSE,
                        !.buf = e.disk[FatStart + FatSec(c)]]
      BY <1>3 DEF Cached
    <3> HIDE DEF e, r, D
    <3>3. r = [i \in Fields |-> r[i]]
      BY <3>1, <3>2 DEF Fields
    <3>4. r.disk = e.disk /\ r.sec = FatSec(c)
      BY <3>1, <3>2 DEF Fields
    <3>5. r.buf = e.disk[FatStart + FatSec(c)]
      BY <3>1, <3>2 DEF Fields
    <3>6. r.dirty = FALSE
      BY <3>1, <3>2 DEF Fields
    <3>7. QED
      BY <3>1, <3>3, <3>4, <3>5, <3>6
  <2>3. D = [l \in Lbas |-> D[l]]
    BY DEF Coherent
  <2>4. \A l \in FatLbas : D[l] \in Tables
    BY <2>1, FatPlaces DEF Coherent
  <2>5. \A l \in Lbas : l >= RootStart => D[l] = s.disk[l]
    <3>1. s.dirty => FatStart + s.sec < RootStart /\ FatStart + s.sec \in Nat
      BY <2>1, FatPlaces
    <3>2. RootStart \in Nat
      BY Geometry
    <3>3. QED
      BY <3>1, <3>2 DEF Coherent, Lbas
  <2>6. \A k \in 0 .. FatSize - 1 : D[FatStart + k] = Now(s, k)
    <3> SUFFICES ASSUME NEW k \in 0 .. FatSize - 1 PROVE D[FatStart + k] = Now(s, k)
      OBVIOUS
    <3>1. FatStart + k \in FatLbas /\ FatStart + k \in Lbas /\ FatStart \in Nat
      BY FatPlaces, Geometry
    <3>2. CASE s.dirty /\ k = s.sec
      BY <3>1, <3>2 DEF Now, Coherent
    <3>3. CASE s.dirty /\ k # s.sec
      <4>1. FatStart + k # FatStart + s.sec
        BY <2>1, <3>1, <3>3
      <4>2. QED
        BY <3>1, <3>3, <4>1 DEF Now, Coherent
    <3>4. CASE ~s.dirty
      BY <3>1, <3>4, FatPlaces DEF Now, Coherent
    <3>5. QED
      BY <3>2, <3>3, <3>4 DEF Coherent
  <2> HIDE DEF D
  <2>7. Coherent(r)
    <3> HIDE DEF r
    <3>1. QED
      BY <1>1, <2>2, <2>3, <2>4 DEF Coherent
  <2>8. \A k \in 0 .. FatSize - 1 : Now(r, k) = Now(s, k)
    <3> SUFFICES ASSUME NEW k \in 0 .. FatSize - 1 PROVE Now(r, k) = D[FatStart + k]
      BY <2>6
    <3>1. QED
      BY <2>2 DEF Now
  <2>9. SameTable(s, r)
    <3> HIDE DEF r
    <3>1. QED
      BY <2>7, <2>8, SameSectors
  <2>10. QED
    BY <2>2, <2>5, <2>7, <2>9 DEF OffTheFat
<1>4. QED
  BY <1>2, <1>3

LEMMA SetIs ==
  ASSUME NEW s, Coherent(s), NEW c \in 0 .. MaxC - 1, NEW v \in Nat
  PROVE  /\ Coherent(fat_set(s, c, v)) /\ OffTheFat(s, fat_set(s, c, v))
         /\ DriverFat(fat_set(s, c, v)) = [DriverFat(s) EXCEPT ![c] = v]
<1> DEFINE e == Cached(s, c)
           r == fat_set(s, c, v)
           b == [e.buf EXCEPT ![c % EPS] = v]
<1>1. /\ Coherent(e) /\ e.sec = FatSec(c) /\ OffTheFat(s, e)
      /\ DriverFat(e) = DriverFat(s)
  BY CachedIs DEF SameTable
<1>2. /\ FatSec(c) \in 0 .. FatSize - 1 /\ c % EPS \in 0 .. EPS - 1
      /\ FatSec(c) # NoSec
  BY FatPlace, FatPlaces
<1>3. /\ r = [i \in Fields |-> r[i]] /\ r.disk = e.disk /\ r.sec = e.sec
      /\ r.buf = b /\ r.dirty = TRUE
  <2> HIDE DEF e
  <2>1. r = [e EXCEPT !.buf[c % EPS] = v, !.dirty = TRUE]
    BY DEF fat_set, e
  <2> HIDE DEF r
  <2>2. r = [i \in Fields |-> r[i]]
    BY <1>1, <2>1 DEF Coherent, Fields
  <2>3. r.disk = e.disk /\ r.sec = e.sec
    BY <1>1, <2>1 DEF Coherent, Fields
  <2>4. r.buf = b
    BY <1>1, <2>1 DEF Coherent, Fields
  <2>5. r.dirty = TRUE
    BY <1>1, <2>1 DEF Coherent, Fields
  <2>6. QED
    BY <2>2, <2>3, <2>4, <2>5
<1> HIDE DEF e
<1>4. b \in Tables
  BY <1>1, <1>2 DEF Coherent, Tables
<1>5. Coherent(r)
  <2> HIDE DEF r, b
  <2>1. QED
    BY <1>1, <1>2, <1>3, <1>4 DEF Coherent
<1>6. OffTheFat(s, r)
  BY <1>1, <1>3 DEF OffTheFat
<1>7. ASSUME NEW d \in 0 .. MaxC - 1
      PROVE  Now(r, FatSec(d))[d % EPS]
               = IF d = c THEN v ELSE Now(e, FatSec(d))[d % EPS]
  <2>1. CASE FatSec(d) = FatSec(c)
    <3>1. d # c => d % EPS # c % EPS
      BY <2>1, OtherPlace
    <3>2. Now(r, FatSec(d)) = b /\ Now(e, FatSec(d)) = e.buf
      BY <1>1, <1>3, <2>1 DEF Now
    <3>3. d % EPS \in 0 .. EPS - 1 /\ e.buf \in [0 .. EPS - 1 -> Nat]
      BY <1>1, <1>2, FatPlace DEF Coherent, Tables
    <3>4. QED
      BY <3>1, <3>2, <3>3
  <2>2. CASE FatSec(d) # FatSec(c)
    BY <1>1, <1>3, <2>2 DEF Now
  <2>3. QED
    BY <2>1, <2>2
<1>8. DriverFat(r) = [DriverFat(e) EXCEPT ![c] = v]
  <2> HIDE DEF r, b
  <2>1. DriverFat(e) = [d \in 0 .. MaxC - 1 |-> Now(e, FatSec(d))[d % EPS]]
    BY <1>1, TableIs
  <2>2. DriverFat(r) = [d \in 0 .. MaxC - 1 |-> Now(r, FatSec(d))[d % EPS]]
    BY <1>5, TableIs
  <2>3. DriverFat(r) = [d \in 0 .. MaxC - 1 |-> IF d = c THEN v ELSE DriverFat(e)[d]]
    BY <1>7, <2>1, <2>2
  <2>4. DOMAIN DriverFat(e) = 0 .. MaxC - 1
    BY <2>1
  <2> HIDE DEF e
  <2>5. QED
    BY <2>1, <2>3, <2>4
<1>9. QED
  BY <1>1, <1>5, <1>6, <1>8

-----------------------------------------------------------------------------
(* The operations of the driver on the table, and the stores that are not  *)
(* on the first copy of it.                                                *)
LEMMA Elsewhere ==
  ASSUME NEW s, Coherent(s), NEW r, r = [i \in Fields |-> r[i]],
         r.sec = s.sec, r.buf = s.buf, r.dirty \in BOOLEAN,
         \/ r.dirty = s.dirty
         \/ ~r.dirty /\ (s.sec # NoSec => s.buf = s.disk[FatStart + s.sec]),
         r.disk = [l \in Lbas |-> r.disk[l]],
         \A l \in FatLbas : r.disk[l] = s.disk[l]
  PROVE  Coherent(r) /\ SameTable(s, r)
<1>1. s.sec \in {NoSec} \union 0 .. FatSize - 1
  BY DEF Coherent
<1>2. s.sec # NoSec => r.disk[FatStart + s.sec] = s.disk[FatStart + s.sec]
  BY <1>1, FatPlaces
<1>3. r.sec # NoSec /\ ~r.dirty => r.buf = r.disk[FatStart + r.sec]
  BY <1>2 DEF Coherent
<1>4. /\ \A l \in FatLbas : r.disk[l] \in Tables
      /\ r.sec = NoSec => ~r.dirty
      /\ r.sec # NoSec => r.buf \in Tables
  BY DEF Coherent
<1>5. Coherent(r)
  BY <1>1, <1>3, <1>4 DEF Coherent
<1>6. \A k \in 0 .. FatSize - 1 : Now(r, k) = Now(s, k)
  BY FatPlaces DEF Now
<1>7. QED
  BY <1>5, <1>6, SameSectors

LEMMA FreeAre ==
  ASSUME NEW s, Coherent(s)
  PROVE  /\ FirstFree(s) = 0 => \A d \in Clusters : DriverFat(s)[d] # 0
         /\ FirstFree(s) # 0 =>
              /\ FirstFree(s) \in Clusters /\ DriverFat(s)[FirstFree(s)] = 0
              /\ \A d \in Clusters : d < FirstFree(s) => DriverFat(s)[d] # 0
<1> DEFINE F == FreeClusters(s)
           m == CHOOSE c \in F : \A e \in F : c <= e
<1>1. \A c \in Clusters : c \in Nat /\ c # 0 /\ DriverFat(s)[c] = fat_get(s, c)
  BY ClusterNumbers, TableIs
<1>2. F = {c \in Clusters : DriverFat(s)[c] = 0}
  BY <1>1 DEF FreeClusters
<1>3. FirstFree(s) = IF F = {} THEN 0 ELSE m
  BY DEF FirstFree
<1> HIDE DEF F
<1>4. CASE F = {}
  BY <1>2, <1>3, <1>4
<1>5. CASE F # {}
  <2>1. F \in SUBSET Nat
    BY <1>1, <1>2
  <2>2. \E c \in F : \A e \in F : c <= e
    BY <1>5, <2>1, Least
  <2>3. m \in F /\ \A e \in F : m <= e
    BY <2>2
  <2> HIDE DEF m
  <2>4. FirstFree(s) \in Clusters /\ DriverFat(s)[FirstFree(s)] = 0
    BY <1>2, <1>3, <1>5, <2>3
  <2>5. ASSUME NEW d \in Clusters, d < FirstFree(s)
        PROVE  DriverFat(s)[d] # 0
    BY <1>1, <1>2, <1>3, <1>5, <2>3, <2>5
  <2>6. QED
    BY <1>1, <2>4, <2>5
<1>6. QED
  BY <1>4, <1>5

LEMMA AllocIs ==
  ASSUME NEW s, Coherent(s)
  PROVE  /\ Coherent(fat_alloc(s)) /\ OffTheFat(s, fat_alloc(s))
         /\ FirstFree(s) = 0 => /\ SameTable(s, fat_alloc(s))
                                /\ fat_alloc(s).dirty => s.dirty
         /\ FirstFree(s) # 0 =>
              DriverFat(fat_alloc(s)) = [DriverFat(s) EXCEPT ![FirstFree(s)] = EOC]
<1> DEFINE e == Cached(s, 2)
<1>1. 2 \in 0 .. MaxC - 1 /\ MaxC - 1 \in 0 .. MaxC - 1 /\ EOC \in Nat
  BY ClusterNumbers
<1>2. /\ Coherent(e) /\ OffTheFat(s, e) /\ SameTable(s, e)
      /\ e.dirty => s.dirty
  BY <1>1, CachedIs
<1> HIDE DEF e
<1>3. CASE FirstFree(s) = 0
  <2>1. fat_alloc(s) = Cached(e, MaxC - 1)
    BY <1>3 DEF fat_alloc, e
  <2>2. /\ Coherent(Cached(e, MaxC - 1)) /\ OffTheFat(e, Cached(e, MaxC - 1))
        /\ SameTable(e, Cached(e, MaxC - 1))
        /\ Cached(e, MaxC - 1).dirty => e.dirty
    BY <1>1, <1>2, CachedIs
  <2>3. QED
    BY <1>2, <1>3, <2>1, <2>2 DEF OffTheFat, SameTable
<1>4. CASE FirstFree(s) # 0
  <2>1. FirstFree(s) \in 0 .. MaxC - 1
    BY <1>4, FreeAre, ClusterNumbers
  <2>2. fat_alloc(s) = fat_set(e, FirstFree(s), EOC)
    BY <1>4 DEF fat_alloc, e
  <2> DEFINE r == fat_set(e, FirstFree(s), EOC)
  <2>3. /\ Coherent(r) /\ OffTheFat(e, r)
        /\ DriverFat(r) = [DriverFat(e) EXCEPT ![FirstFree(s)] = EOC]
    BY <1>1, <1>2, <2>1, SetIs
  <2> HIDE DEF r
  <2>4. QED
    BY <1>2, <1>4, <2>2, <2>3 DEF OffTheFat, SameTable, r
<1>5. QED
  BY <1>3, <1>4

(* Following links, over a sequence of clusters.                           *)
LEMMA WalkedIs ==
  ASSUME NEW s, Coherent(s), NEW ch \in Seq(Clusters)
  PROVE  /\ Coherent(AfterWalk(s, ch)) /\ OffTheFat(s, AfterWalk(s, ch))
         /\ SameTable(s, AfterWalk(s, ch))
         /\ AfterWalk(s, ch).dirty => s.dirty
<1>1. CASE ch = <<>>
  BY <1>1 DEF AfterWalk, OffTheFat, SameTable
<1>2. CASE ch # <<>>
  <2>1. ch[Len(ch)] \in 0 .. MaxC - 1
    <3>1. ch[Len(ch)] \in Clusters
      BY <1>2
    <3>2. QED
      BY <3>1, ClusterNumbers
  <2>2. AfterWalk(s, ch) = Cached(s, ch[Len(ch)])
    BY <1>2 DEF AfterWalk
  <2>3. QED
    BY <2>1, <2>2, CachedIs
<1>3. QED
  BY <1>1, <1>2

-----------------------------------------------------------------------------
(* A chain that ends has no cluster twice: from the second time on the     *)
(* walk would repeat itself and never end.                                 *)
LEMMA EndsOnce ==
  ASSUME NEW fat, NEW c \in Clusters, ChainSound(fat, c)
  PROVE  Sound(fat, c)
<1> DEFINE w == Walk(fat, c)
           k == ChainLen(fat, c)
           ch == Chain(fat, c)
<1>1. /\ MaxC \in Nat /\ MaxC > 2
      /\ \A d \in Clusters : ~IsEnd(d)
  BY ClusterNumbers
<1>2. /\ w[0] = c
      /\ \A n \in 1 .. MaxC :
           w[n] = IF w[n - 1] \in Clusters THEN fat[w[n - 1]] ELSE w[n - 1]
  BY WalkSteps
<1>3. /\ k \in 0 .. MaxC + 1
      /\ \A n \in 0 .. MaxC : w[n] \in Clusters <=> n < k
      /\ Len(ch) = k /\ ch \in Seq(Clusters)
      /\ \A n \in 1 .. k : ch[n] = w[n - 1]
  BY ChainShape
<1>4. IsEnd(w[MaxC])
  BY DEF ChainSound
<1> HIDE DEF w, k, ch
<1>5. k \in 1 .. MaxC
  <2>1. 0 \in 0 .. MaxC /\ MaxC \in 0 .. MaxC
    BY <1>1
  <2>2. 0 < k /\ ~(MaxC < k)
    BY <1>1, <1>2, <1>3, <1>4, <2>1
  <2>3. QED
    BY <1>1, <1>3, <2>2
<1>6. \A n \in 1 .. k : /\ n \in 1 .. MaxC /\ w[n - 1] \in Clusters
                        /\ w[n] = fat[w[n - 1]]
  <2> SUFFICES ASSUME NEW n \in 1 .. k
               PROVE  /\ n \in 1 .. MaxC /\ w[n - 1] \in Clusters
                      /\ w[n] = fat[w[n - 1]]
    OBVIOUS
  <2>1. n \in 1 .. MaxC /\ n - 1 \in 0 .. MaxC /\ n - 1 < k
    BY <1>1, <1>5
  <2>2. QED
    BY <1>2, <1>3, <2>1
<1>7. \A i \in 1 .. k - 1 : fat[ch[i]] = ch[i + 1]
  <2> SUFFICES ASSUME NEW i \in 1 .. k - 1 PROVE fat[ch[i]] = ch[i + 1]
    OBVIOUS
  <2>1. i \in 1 .. k /\ i + 1 \in 1 .. k /\ i + 1 - 1 = i
    BY <1>5
  <2>2. QED
    BY <1>3, <1>6, <2>1
<1>8. w[k] = w[MaxC]
  <2> DEFINE P == {n \in 0 .. MaxC - k : w[k + n] = w[k]}
  <2>1. 0 \in P
    BY <1>1, <1>5
  <2>2. ASSUME NEW n \in 0 .. (MaxC - k) - 1, n \in P
        PROVE  n + 1 \in P
    <3> DEFINE m == k + n + 1
    <3>1. m \in 1 .. MaxC /\ m - 1 = k + n /\ k + (n + 1) = m
          /\ n + 1 \in 0 .. MaxC - k
      BY <1>1, <1>5
    <3>2. k \in 0 .. MaxC /\ w[k] \notin Clusters
      BY <1>1, <1>3, <1>5
    <3>3. w[k + n] = w[k]
      BY <2>2
    <3> HIDE DEF m
    <3>4. w[m] = w[k + n]
      BY <1>2, <3>1, <3>2, <3>3
    <3>5. QED
      BY <3>1, <3>3, <3>4
  <2>3. MaxC - k \in Nat
    BY <1>1, <1>5
  <2>4. \A n \in 0 .. MaxC - k : n \in P
    <3> HIDE DEF P
    <3>1. QED
      BY <2>1, <2>2, <2>3, Induction
  <2>5. MaxC - k \in 0 .. MaxC - k /\ k + (MaxC - k) = MaxC
    BY <1>1, <1>5
  <2>6. QED
    BY <2>4, <2>5
<1>9. IsEnd(fat[ch[k]])
  <2>1. k \in 1 .. k
    BY <1>5
  <2>2. w[k] = fat[w[k - 1]] /\ ch[k] = w[k - 1]
    BY <1>3, <1>6, <2>1
  <2>3. QED
    BY <1>4, <1>8, <2>2
<1>10. ASSUME NEW i \in 1 .. k, NEW j \in 1 .. k, ch[i] = ch[j], i < j
       PROVE  FALSE
  <2> DEFINE P == {n \in 0 .. k - j : ch[i + n] = ch[j + n]}
  <2>1. 0 \in P
    BY <1>5, <1>10
  <2>2. ASSUME NEW n \in 0 .. (k - j) - 1, n \in P
        PROVE  n + 1 \in P
    <3> DEFINE a == i + n
               b == j + n
    <3>1. /\ a \in 1 .. k - 1 /\ b \in 1 .. k - 1 /\ n + 1 \in 0 .. k - j
          /\ i + (n + 1) = a + 1 /\ j + (n + 1) = b + 1
      BY <1>5, <1>10
    <3>2. ch[a] = ch[b]
      BY <2>2
    <3> HIDE DEF a, b
    <3>3. ch[a + 1] = ch[b + 1]
      BY <1>7, <3>1, <3>2
    <3>4. QED
      BY <3>1, <3>3
  <2>3. k - j \in Nat
    BY <1>5
  <2>4. \A n \in 0 .. k - j : n \in P
    <3> HIDE DEF P
    <3>1. QED
      BY <2>1, <2>2, <2>3, Induction
  <2>5. k - j \in 0 .. k - j /\ j + (k - j) = k
    BY <1>5
  <2> DEFINE a == i + (k - j)
  <2>6. ch[a] = ch[k]
    BY <2>4, <2>5
  <2>7. a \in 1 .. k - 1 /\ a + 1 \in 1 .. k
    BY <1>5, <1>10
  <2> HIDE DEF a
  <2>8. fat[ch[a]] \in Clusters
    <3>1. ch[a + 1] \in Clusters
      BY <1>3, <2>7
    <3>2. QED
      BY <1>7, <2>7, <3>1
  <2>9. QED
    BY <1>1, <1>9, <2>6, <2>8
<1>11. \A i, j \in 1 .. k : ch[i] = ch[j] => i = j
  <2> SUFFICES ASSUME NEW i \in 1 .. k, NEW j \in 1 .. k, ch[i] = ch[j], i # j
               PROVE  FALSE
    OBVIOUS
  <2>1. i < j \/ j < i
    BY <1>5
  <2>2. QED
    BY <1>10, <2>1
<1>12. ch # <<>> /\ ch[1] = c
  <2>1. 1 \in 1 .. k /\ 1 - 1 = 0
    BY <1>5
  <2>2. QED
    BY <1>2, <1>3, <1>5, <2>1
<1>13. Chained(fat, c, ch)
  BY <1>3, <1>7, <1>9, <1>11, <1>12 DEF Chained
<1>14. QED
  BY <1>13 DEF Sound, ch

-----------------------------------------------------------------------------
(* Where the slots of a directory lie.                                     *)
Indices == 0 .. DPS - 1

RootLbas == RootStart .. DataStart - 1

SectorsOf(M) == UNION {ClusterLbas(c) : c \in M}

LEMMA SlotsOfAre ==
  ASSUME NEW S, NEW lbas \in Seq(S)
  PROVE  /\ DOMAIN SlotsOf(lbas) = 1 .. Len(lbas) * DPS
         /\ \A n \in 1 .. Len(lbas) * DPS : SlotsOf(lbas)[n] \in S \X Indices
<1>1. DPS \in Nat \ {0} /\ Len(lbas) \in Nat
  BY Geometry
<1>2. ASSUME NEW n \in 1 .. Len(lbas) * DPS
      PROVE  SlotsOf(lbas)[n] \in S \X Indices
  <2> DEFINE q == (n - 1) \div DPS
             i == (n - 1) % DPS
  <2>1. Len(lbas) * DPS \in Nat /\ n - 1 \in Nat /\ n - 1 < Len(lbas) * DPS
    BY <1>1
  <2>2. q \in Nat /\ i \in 0 .. DPS - 1 /\ n - 1 = DPS * q + i
    BY <1>1, <2>1
  <2>3. SlotsOf(lbas)[n] = <<lbas[q + 1], i>>
    BY DEF SlotsOf
  <2> HIDE DEF q, i
  <2>4. q < Len(lbas)
    <3> SUFFICES ASSUME q >= Len(lbas) PROVE FALSE
      BY <1>1, <2>2
    <3>1. DPS * q >= DPS * Len(lbas)
      BY <1>1, <2>2
    <3>2. DPS * Len(lbas) = Len(lbas) * DPS /\ DPS * q \in Nat
      BY <1>1, <2>2
    <3>3. QED
      BY <1>1, <2>1, <2>2, <3>1, <3>2
  <2>5. q + 1 \in 1 .. Len(lbas)
    BY <1>1, <2>2, <2>4
  <2>6. lbas[q + 1] \in S
    BY <2>5
  <2>7. QED
    BY <2>2, <2>3, <2>6 DEF Indices
<1>3. DOMAIN SlotsOf(lbas) = 1 .. Len(lbas) * DPS
  BY DEF SlotsOf
<1>4. QED
  BY <1>2, <1>3

LEMMA RootSlotsAre ==
  /\ \A n \in DOMAIN RootSlots : RootSlots[n] \in RootLbas \X Indices
  /\ SlotsIn(RootSlots) \subseteq RootLbas \X Indices
  /\ DOMAIN RootSlots \subseteq Nat
  /\ \A l \in RootLbas : /\ l \in Lbas /\ l >= RootStart /\ l < DataStart
                         /\ l < Window /\ l \in Nat /\ l # 0
<1> DEFINE b == [n \in 1 .. RootSectors |-> RootStart + n - 1]
<1>1. /\ RootSectors \in Nat \ {0} /\ RootStart \in Nat /\ DataStart \in Nat
      /\ DataStart = RootStart + RootSectors /\ DataStart < Window
      /\ Window <= TotalSecs /\ TotalSecs \in Nat /\ Window \in Nat
      /\ FatStart \in Nat \ {0} /\ FatSize \in Nat \ {0}
      /\ RootStart = FatStart + 2 * FatSize /\ DPS \in Nat \ {0}
  BY Geometry
<1>2. b \in Seq(RootLbas) /\ Len(b) = RootSectors
  <2>1. \A n \in 1 .. RootSectors : RootStart + n - 1 \in RootLbas
    BY <1>1 DEF RootLbas
  <2>2. b \in [1 .. RootSectors -> RootLbas]
    BY <2>1
  <2> HIDE DEF b
  <2>3. QED
    BY <1>1, <2>2
<1>3. RootSlots = SlotsOf(b)
  BY DEF RootSlots
<1> HIDE DEF b
<1>4. /\ DOMAIN SlotsOf(b) = 1 .. Len(b) * DPS
      /\ \A n \in 1 .. Len(b) * DPS : SlotsOf(b)[n] \in RootLbas \X Indices
  BY <1>2, SlotsOfAre
<1>5. \A n \in DOMAIN RootSlots : RootSlots[n] \in RootLbas \X Indices
  BY <1>3, <1>4
<1>6. SlotsIn(RootSlots) \subseteq RootLbas \X Indices
  BY <1>5 DEF SlotsIn
<1>7. DOMAIN RootSlots \subseteq Nat
  BY <1>1, <1>2, <1>3, <1>4
<1>8. \A l \in RootLbas : /\ l \in Lbas /\ l >= RootStart /\ l < DataStart
                          /\ l < Window /\ l \in Nat /\ l # 0
  BY <1>1 DEF RootLbas, Lbas
<1>9. QED
  BY <1>5, <1>6, <1>7, <1>8

LEMMA SectorsAre ==
  ASSUME NEW c \in Clusters, NEW l \in ClusterLbas(c)
  PROVE  l \in Lbas /\ l >= DataStart /\ l >= RootStart /\ l \notin FatLbas /\ l # 0
<1>1. /\ RootStart \in Nat /\ DataStart \in Nat /\ RootSectors \in Nat \ {0}
      /\ DataStart = RootStart + RootSectors /\ TotalSecs \in Nat
      /\ SPC \in Nat \ {0}
  BY Geometry
<1>2. /\ clus_lba(c) \in Nat /\ DataStart <= clus_lba(c)
      /\ clus_lba(c) + SPC <= TotalSecs
      /\ l \in clus_lba(c) .. clus_lba(c) + SPC - 1
  BY ClusterPlace
<1>3. l \in Lbas /\ l >= DataStart /\ l >= RootStart /\ l # 0 /\ l \in Nat
  BY <1>1, <1>2 DEF Lbas
<1>4. l \notin FatLbas
  BY <1>1, <1>3, FatPlaces
<1>5. QED
  BY <1>3, <1>4

LEMMA SubdirSlotsAre ==
  ASSUME NEW fat, NEW c
  PROVE  /\ DOMAIN SubdirSlots(fat, c) = 1 .. Len(Chain(fat, c)) * SPC * DPS
         /\ \A n \in DOMAIN SubdirSlots(fat, c) :
              SubdirSlots(fat, c)[n] \in SectorsOf(Mem(fat, c)) \X Indices
         /\ SlotsIn(SubdirSlots(fat, c)) \subseteq SectorsOf(Mem(fat, c)) \X Indices
         /\ Len(Chain(fat, c)) \in Nat
<1> DEFINE ch == Chain(fat, c)
           N == Len(ch) * SPC
           b == [n \in 1 .. N |->
                   clus_lba(ch[(n - 1) \div SPC + 1]) + ((n - 1) % SPC)]
           S == SectorsOf(Mem(fat, c))
<1>1. /\ ch \in Seq(Clusters) /\ Len(ch) \in Nat /\ DOMAIN ch = 1 .. Len(ch)
      /\ \A n \in 1 .. Len(ch) : ch[n] \in Clusters
  BY ChainShape
<1>2. SPC \in Nat \ {0}
  BY Geometry
<1>3. Mem(fat, c) = {ch[n] : n \in 1 .. Len(ch)}
  BY <1>1 DEF Mem, Members
<1>4. SubdirSlots(fat, c) = SlotsOf(b)
  BY DEF SubdirSlots
<1> HIDE DEF ch
<1>5. N \in Nat
  BY <1>1, <1>2
<1>6. ASSUME NEW n \in 1 .. N PROVE b[n] \in S
  <2> DEFINE q == (n - 1) \div SPC
             i == (n - 1) % SPC
  <2>1. n - 1 \in Nat /\ n - 1 < Len(ch) * SPC
    BY <1>5
  <2>2. q \in Nat /\ i \in 0 .. SPC - 1 /\ n - 1 = SPC * q + i
    BY <1>2, <2>1
  <2>3. b[n] = clus_lba(ch[q + 1]) + i
    OBVIOUS
  <2> HIDE DEF q, i, b
  <2>4. q < Len(ch)
    <3> SUFFICES ASSUME q >= Len(ch) PROVE FALSE
      BY <1>1, <2>2
    <3>1. SPC * q >= SPC * Len(ch)
      BY <1>1, <1>2, <2>2
    <3>2. SPC * Len(ch) = Len(ch) * SPC /\ SPC * q \in Nat
      BY <1>1, <1>2, <2>2
    <3>3. QED
      BY <1>1, <1>2, <2>1, <2>2, <3>1, <3>2
  <2>5. q + 1 \in 1 .. Len(ch)
    BY <1>1, <2>2, <2>4
  <2> DEFINE d == ch[q + 1]
  <2>6. d \in Clusters /\ d \in Mem(fat, c)
    BY <1>1, <1>3, <2>5
  <2>7. b[n] = clus_lba(d) + i
    BY <2>3
  <2> HIDE DEF d
  <2>8. b[n] \in ClusterLbas(d)
    BY <1>2, <2>2, <2>6, <2>7, ClusterPlace
  <2>9. QED
    BY <2>6, <2>8 DEF SectorsOf
<1>7. b \in Seq(S) /\ Len(b) = N
  <2>1. b \in [1 .. N -> S]
    BY <1>6
  <2> HIDE DEF b, S, N
  <2>2. QED
    BY <1>5, <2>1
<1> HIDE DEF b
<1>8. /\ DOMAIN SlotsOf(b) = 1 .. Len(b) * DPS
      /\ \A n \in 1 .. Len(b) * DPS : SlotsOf(b)[n] \in S \X Indices
  <2> HIDE DEF S, N
  <2>1. QED
    BY <1>7, SlotsOfAre
<1>9. DOMAIN SubdirSlots(fat, c) = 1 .. Len(ch) * SPC * DPS
  BY <1>4, <1>7, <1>8
<1>10. \A n \in DOMAIN SubdirSlots(fat, c) : SubdirSlots(fat, c)[n] \in S \X Indices
  BY <1>4, <1>8
<1>11. SlotsIn(SubdirSlots(fat, c)) \subseteq S \X Indices
  BY <1>10 DEF SlotsIn
<1>12. QED
  BY <1>1, <1>9, <1>10, <1>11 DEF ch

-----------------------------------------------------------------------------
(* The directories of a volume, and what leaves them as they are.          *)
LEMMA ApartIs ==
  ASSUME NEW s, NEW es
  PROVE  ChainsApart(s, es) <=>
           /\ \A a \in es : Sound(DriverFat(s), Entry(s, a).clus)
           /\ \A a, b \in es : a # b =>
                ClustersOf(s, a) \intersect ClustersOf(s, b) = {}
<1>1. ASSUME NEW a \in es, Entry(s, a).clus \in Clusters,
             ChainSound(DriverFat(s), Entry(s, a).clus)
      PROVE  Sound(DriverFat(s), Entry(s, a).clus)
  BY <1>1, EndsOnce
<1>2. ASSUME NEW a \in es, Sound(DriverFat(s), Entry(s, a).clus)
      PROVE  /\ Entry(s, a).clus \in Clusters
             /\ ChainSound(DriverFat(s), Entry(s, a).clus)
  BY <1>2, SoundShape
<1>3. QED
  BY <1>1, <1>2 DEF ChainsApart

LEMMA HeldIs ==
  ASSUME NEW s, NEW a
  PROVE  ClustersOf(s, a) = Mem(DriverFat(s), Entry(s, a).clus)
BY DEF ClustersOf, Mem, Members

LEMMA SlotsAre ==
  ASSUME NEW s
  PROVE  /\ DirEntries(s) \subseteq AllEntries(s)
         /\ SlotsIn(RootSlots) \subseteq AllSlots(s)
         /\ AllEntries(s) \subseteq AllSlots(s)
         /\ \A q \in DirEntries(s) :
              /\ SlotsUnder(s, q) \subseteq AllSlots(s)
              /\ SlotsUnder(s, q) \subseteq SectorsOf(ClustersOf(s, q)) \X Indices
<1>1. /\ DirEntries(s) \subseteq AllEntries(s)
      /\ SlotsIn(RootSlots) \subseteq AllSlots(s)
      /\ AllEntries(s) \subseteq AllSlots(s)
  BY DEF DirEntries, RootEntries, AllEntries, AllSlots
<1>2. \A q \in DirEntries(s) : SlotsUnder(s, q) \subseteq AllSlots(s)
  BY DEF AllSlots
<1>3. ASSUME NEW q \in DirEntries(s)
      PROVE  SlotsUnder(s, q) \subseteq SectorsOf(ClustersOf(s, q)) \X Indices
  <2>1. SlotsIn(SubdirSlots(DriverFat(s), Entry(s, q).clus))
          \subseteq SectorsOf(Mem(DriverFat(s), Entry(s, q).clus)) \X Indices
    BY SubdirSlotsAre
  <2>2. QED
    BY <2>1, HeldIs DEF SlotsUnder
<1>4. QED
  BY <1>1, <1>2, <1>3

(* All slots lie off the FAT.                                              *)
LEMMA SlotPlaces ==
  ASSUME NEW s, \A q \in DirEntries(s) : ClustersOf(s, q) \subseteq Clusters,
         NEW sl \in AllSlots(s)
  PROVE  /\ sl = <<sl[1], sl[2]>> /\ sl[2] \in Indices
         /\ sl[1] \in Lbas /\ sl[1] >= RootStart /\ sl[1] # 0
         /\ sl[1] < Window /\ sl[1] \notin FatLbas
<1>1. CASE sl \in SlotsIn(RootSlots)
  <2>1. sl \in RootLbas \X Indices
    BY <1>1, RootSlotsAre
  <2>2. /\ sl[1] \in Lbas /\ sl[1] >= RootStart /\ sl[1] # 0 /\ sl[1] < Window
        /\ sl[1] \in Nat
    BY <2>1, RootSlotsAre
  <2>3. sl[1] \notin FatLbas
    BY <2>2, FatPlaces, Geometry
  <2>4. QED
    BY <2>1, <2>2, <2>3
<1>2. CASE \E q \in DirEntries(s) : sl \in SlotsUnder(s, q)
  <2>1. PICK q \in DirEntries(s) : sl \in SlotsUnder(s, q)
    BY <1>2
  <2>2. sl \in SectorsOf(ClustersOf(s, q)) \X Indices /\ sl[1] < Window
    BY <2>1, SlotsAre DEF SlotsUnder
  <2>3. PICK c \in Clusters : sl[1] \in ClusterLbas(c)
    BY <2>2 DEF SectorsOf
  <2>4. QED
    BY <2>2, <2>3, SectorsAre
<1>3. QED
  BY <1>1, <1>2 DEF AllSlots

(* r has the directories of s.                                             *)
SameDirs(s, r) ==
  /\ AllSlots(r) = AllSlots(s) /\ AllEntries(r) = AllEntries(s)
  /\ DirEntries(r) = DirEntries(s)
  /\ \A sl \in AllSlots(s) : r.disk[sl[1]] = s.disk[sl[1]]
  /\ \A sl \in AllSlots(s) : Entry(r, sl) = Entry(s, sl)

LEMMA Frame ==
  ASSUME NEW s, NEW r, NEW es, DirEntries(s) \subseteq es, ChainsApart(s, es),
         \A c \in Held(s, es) : DriverFat(r)[c] = DriverFat(s)[c],
         \A l \in RootLbas : r.disk[l] = s.disk[l],
         \A c \in Held(s, es) : \A l \in ClusterLbas(c) : r.disk[l] = s.disk[l],
         es \subseteq AllSlots(s)
  PROVE  /\ SameDirs(s, r)
         /\ \A a \in es : ClustersOf(r, a) = ClustersOf(s, a)
         /\ ChainsApart(r, es) /\ Held(r, es) = Held(s, es)
<1> DEFINE S == DriverFat(s)
           T == DriverFat(r)
<1>1. /\ \A a \in es : Sound(S, Entry(s, a).clus)
      /\ \A a, b \in es : a # b => ClustersOf(s, a) \intersect ClustersOf(s, b) = {}
  BY ApartIs
<1>2. ASSUME NEW a \in es
      PROVE  /\ Sound(T, Entry(s, a).clus)
             /\ Chain(T, Entry(s, a).clus) = Chain(S, Entry(s, a).clus)
             /\ Mem(T, Entry(s, a).clus) = ClustersOf(s, a)
  <2>1. Mem(S, Entry(s, a).clus) = ClustersOf(s, a)
    BY HeldIs
  <2>2. ClustersOf(s, a) \subseteq Held(s, es)
    BY DEF Held
  <2>3. \A d \in Mem(S, Entry(s, a).clus) : T[d] = S[d]
    BY <2>1, <2>2
  <2>4. Sound(S, Entry(s, a).clus)
    BY <1>1
  <2> HIDE DEF S, T
  <2>5. QED
    BY <2>1, <2>3, <2>4, SoundKept
<1>3. \A sl \in SlotsIn(RootSlots) :
        r.disk[sl[1]] = s.disk[sl[1]] /\ Entry(r, sl) = Entry(s, sl)
  <2>1. \A sl \in SlotsIn(RootSlots) : sl[1] \in RootLbas
    BY RootSlotsAre
  <2>2. QED
    BY <2>1 DEF Entry, Entries
<1>4. DirEntries(r) = DirEntries(s)
  BY <1>3 DEF DirEntries, RootEntries
<1>5. \A q \in DirEntries(s) : Entry(r, q) = Entry(s, q) /\ q \in es
  BY <1>3 DEF DirEntries, RootEntries
<1>6. ASSUME NEW q \in DirEntries(s)
      PROVE  SlotsUnder(r, q) = SlotsUnder(s, q)
  <2>1. Chain(T, Entry(s, q).clus) = Chain(S, Entry(s, q).clus)
    BY <1>2, <1>5
  <2>2. SubdirSlots(T, Entry(r, q).clus) = SubdirSlots(S, Entry(s, q).clus)
    BY <1>5, <2>1 DEF SubdirSlots
  <2>3. QED
    BY <2>2 DEF SlotsUnder
<1>7. AllSlots(r) = AllSlots(s)
  BY <1>4, <1>6 DEF AllSlots
<1>8. ASSUME NEW sl \in AllSlots(s)
      PROVE  r.disk[sl[1]] = s.disk[sl[1]] /\ Entry(r, sl) = Entry(s, sl)
  <2>1. CASE sl \in SlotsIn(RootSlots)
    BY <1>3, <2>1
  <2>2. CASE \E q \in DirEntries(s) : sl \in SlotsUnder(s, q)
    <3>1. PICK q \in DirEntries(s) : sl \in SlotsUnder(s, q)
      BY <2>2
    <3>2. sl[1] \in SectorsOf(ClustersOf(s, q))
      BY <3>1, SlotsAre
    <3>3. ClustersOf(s, q) \subseteq Held(s, es)
      BY <1>5 DEF Held
    <3>4. r.disk[sl[1]] = s.disk[sl[1]]
      BY <3>2, <3>3 DEF SectorsOf
    <3>5. QED
      BY <3>4 DEF Entry, Entries
  <2>3. QED
    BY <2>1, <2>2 DEF AllSlots
<1>9. AllEntries(r) = AllEntries(s)
  BY <1>7, <1>8 DEF AllEntries
<1>10. SameDirs(s, r)
  BY <1>4, <1>7, <1>8, <1>9 DEF SameDirs
<1>11. \A a \in es : Entry(r, a) = Entry(s, a)
  BY <1>8
<1>12. \A a \in es : ClustersOf(r, a) = ClustersOf(s, a)
  BY <1>2, <1>11, HeldIs
<1>13. Held(r, es) = Held(s, es)
  BY <1>12 DEF Held
<1>14. ChainsApart(r, es)
  <2>1. \A a \in es : Sound(T, Entry(r, a).clus)
    BY <1>2, <1>11
  <2>2. \A a, b \in es : a # b => ClustersOf(r, a) \intersect ClustersOf(r, b) = {}
    BY <1>1, <1>12
  <2>3. QED
    BY <2>1, <2>2, ApartIs
<1>15. QED
  BY <1>10, <1>12, <1>13, <1>14

LEMMA DirsKept ==
  ASSUME NEW s, NEW r, SameDirs(s, r), DirsWhole(s)
  PROVE  DirsWhole(r)
<1>1. \A sl \in AllSlots(s) : WholeSector(r, sl[1])
  BY DEF SameDirs, DirsWhole, WholeSector
<1>2. \A a \in AllEntries(s) : Entry(r, a) = Entry(s, a)
  BY DEF SameDirs, AllEntries
<1>3. QED
  BY <1>1, <1>2 DEF SameDirs, DirsWhole

-----------------------------------------------------------------------------
(* An entry joins others.                                                  *)
LEMMA Joined ==
  ASSUME NEW s, NEW r, SameTable(s, r), NEW es, NEW x, x \notin es,
         \A a \in es : Entry(r, a) = Entry(s, a), ChainsApart(s, es),
         Sound(DriverFat(s), Entry(r, x).clus),
         \A c \in Mem(DriverFat(s), Entry(r, x).clus) : c \notin Held(s, es),
         NEW all, all = es \union {x}
  PROVE  /\ ChainsApart(r, all)
         /\ Held(r, all) = Held(s, es) \union Mem(DriverFat(s), Entry(r, x).clus)
<1> DEFINE S == DriverFat(s)
           M == Mem(S, Entry(r, x).clus)
<1>1. DriverFat(r) = S
  BY DEF SameTable
<1>2. /\ \A a \in es : Sound(S, Entry(s, a).clus)
      /\ \A a, b \in es : a # b => ClustersOf(s, a) \intersect ClustersOf(s, b) = {}
  BY ApartIs
<1>3. \A a \in es : ClustersOf(r, a) = ClustersOf(s, a)
  BY <1>1, HeldIs
<1>4. ClustersOf(r, x) = M
  BY <1>1, HeldIs
<1>5. \A a \in es : ClustersOf(s, a) \subseteq Held(s, es)
  BY DEF Held
<1>6. \A a \in es \union {x} : Sound(DriverFat(r), Entry(r, a).clus)
  BY <1>1, <1>2
<1>7. \A a, b \in es \union {x} : a # b =>
        ClustersOf(r, a) \intersect ClustersOf(r, b) = {}
  <2> SUFFICES ASSUME NEW a \in es \union {x}, NEW b \in es \union {x}, a # b
               PROVE  ClustersOf(r, a) \intersect ClustersOf(r, b) = {}
    OBVIOUS
  <2>1. M \intersect Held(s, es) = {}
    OBVIOUS
  <2> HIDE DEF M
  <2>2. CASE a \in es /\ b \in es
    BY <1>2, <1>3, <2>2
  <2>3. CASE a = x
    BY <1>3, <1>4, <1>5, <2>1, <2>3
  <2>4. CASE b = x
    BY <1>3, <1>4, <1>5, <2>1, <2>4
  <2>5. QED
    BY <2>2, <2>3, <2>4
<1>8. ChainsApart(r, all)
  BY <1>6, <1>7, ApartIs
<1>9. Held(r, all) = Held(s, es) \union M
  BY <1>3, <1>4 DEF Held
<1>10. QED
  BY <1>8, <1>9

(* An entry is stored.                                                     *)
LEMMA EntryStored ==
  ASSUME NEW s, Coherent(s), NEW slot, NEW e, NEW r, r = WithEntry(s, slot, e),
         slot = <<slot[1], slot[2]>>, slot[2] \in Indices,
         slot[1] \in Lbas, slot[1] \notin FatLbas, WholeSector(s, slot[1])
  PROVE  /\ Coherent(r) /\ SameTable(s, r) /\ r.dirty = s.dirty
         /\ Entry(r, slot) = e
         /\ \A sl : (sl = <<sl[1], sl[2]>> /\ sl[1] \in Lbas /\ sl # slot) =>
                     Entry(r, sl) = Entry(s, sl)
         /\ \A l \in Lbas : l # slot[1] => r.disk[l] = s.disk[l]
         /\ WholeSector(r, slot[1])
<1> DEFINE l1 == slot[1]
           f == [s.disk[l1].entries EXCEPT ![slot[2]] = e]
<1>1. Entries(s, l1) = s.disk[l1].entries
  BY DEF WholeSector, Entries
<1>2. r = [s EXCEPT !.disk[l1] = [entries |-> f]]
  BY <1>1 DEF WithEntry
<1>3. f = [i \in 0 .. DPS - 1 |-> IF i = slot[2] THEN e ELSE s.disk[l1].entries[i]]
  BY DEF WholeSector, Indices
<1> HIDE DEF f
<1>4. r = [i \in Fields |-> r[i]]
  BY <1>2 DEF Coherent, Fields
<1>5. r.sec = s.sec
  BY <1>2 DEF Coherent, Fields
<1>6. r.buf = s.buf
  BY <1>2 DEF Coherent, Fields
<1>7. r.dirty = s.dirty
  BY <1>2 DEF Coherent, Fields
<1>8. r.disk = [s.disk EXCEPT ![l1] = [entries |-> f]]
  BY <1>2 DEF Coherent, Fields
<1>9. r.disk[l1] = [entries |-> f]
  BY <1>8 DEF Coherent
<1>10. \A l \in Lbas : l # l1 => r.disk[l] = s.disk[l]
  BY <1>8 DEF Coherent
<1>11. r.disk = [l \in Lbas |-> r.disk[l]]
  BY <1>8 DEF Coherent
<1>12. Coherent(r) /\ SameTable(s, r)
  <2>1. \A l \in FatLbas : r.disk[l] = s.disk[l]
    BY <1>10, FatPlaces
  <2>2. s.dirty \in BOOLEAN
    BY DEF Coherent
  <2>3. QED
    BY <1>4, <1>5, <1>6, <1>7, <1>11, <2>1, <2>2, Elsewhere
<1>13. "entries" \in DOMAIN r.disk[l1] /\ r.disk[l1].entries = f
  BY <1>9
<1>14. Entries(r, l1) = f
  BY <1>13 DEF Entries
<1>15. Entry(r, slot) = e
  BY <1>3, <1>14 DEF Entry, Indices
<1>16. ASSUME NEW sl, sl = <<sl[1], sl[2]>>, sl[1] \in Lbas, sl # slot
       PROVE  Entry(r, sl) = Entry(s, sl)
  <2>1. CASE sl[1] # l1
    BY <1>10, <1>16, <2>1 DEF Entry, Entries
  <2>2. CASE sl[1] = l1
    <3>1. sl[2] # slot[2]
      BY <1>16, <2>2
    <3>2. f[sl[2]] = s.disk[l1].entries[sl[2]]
      BY <3>1 DEF f, WholeSector
    <3>3. QED
      BY <1>1, <1>14, <2>2, <3>2 DEF Entry
  <2>3. QED
    BY <2>1, <2>2
<1>17. WholeSector(r, l1)
  <2>1. f = [i \in 0 .. DPS - 1 |-> f[i]]
    BY <1>3
  <2>2. QED
    BY <1>13, <2>1 DEF WholeSector
<1>18. QED
  BY <1>7, <1>10, <1>12, <1>15, <1>16, <1>17

LEMMA HeldAre ==
  ASSUME NEW s, NEW es, ChainsApart(s, es)
  PROVE  /\ Held(s, es) \subseteq Clusters
         /\ \A a \in es : ClustersOf(s, a) \subseteq Clusters
         /\ \A c \in Held(s, es) : DriverFat(s)[c] # 0
<1>1. ASSUME NEW a \in es
      PROVE  /\ ClustersOf(s, a) \subseteq Clusters
             /\ \A c \in ClustersOf(s, a) : DriverFat(s)[c] # 0
  <2>1. Sound(DriverFat(s), Entry(s, a).clus)
    BY ApartIs
  <2>2. QED
    BY <2>1, SoundShape, HeldIs
<1>2. QED
  BY <1>1 DEF Held

LEMMA FileStored ==
  ASSUME NEW s, Coherent(s), DirsWhole(s), NEW slot \in AllSlots(s),
         slot \notin DirEntries(s), NEW es, slot \notin es,
         es \subseteq AllEntries(s),
         \A sl \in AllEntries(s) : sl = slot \/ sl \in es,
         ChainsApart(s, es), NEW e, ~e.dir, e \notin Empty, e.size \in Nat,
         Sound(DriverFat(s), e.clus), InWindow(e.clus),
         \A c \in Mem(DriverFat(s), e.clus) : c \notin Held(s, es),
         NEW r, r = WithEntry(s, slot, e)
  PROVE  /\ Coherent(r) /\ SameTable(s, r) /\ r.dirty = s.dirty /\ DirsWhole(r)
         /\ AllEntries(r) = es \union {slot}
         /\ ChainsApart(r, AllEntries(r))
         /\ Held(r, AllEntries(r)) = Held(s, es) \union Mem(DriverFat(s), e.clus)
<1>1. DirEntries(s) \subseteq es
  BY SlotsAre
<1>2. \A q \in DirEntries(s) : ClustersOf(s, q) \subseteq Clusters
  BY <1>1, HeldAre
<1>3. \A sl \in AllSlots(s) :
        /\ sl = <<sl[1], sl[2]>> /\ sl[2] \in Indices
        /\ sl[1] \in Lbas /\ sl[1] \notin FatLbas
  BY <1>2, SlotPlaces
<1>4. WholeSector(s, slot[1])
  BY DEF DirsWhole
<1>5. /\ Coherent(r) /\ SameTable(s, r) /\ r.dirty = s.dirty
      /\ Entry(r, slot) = e
      /\ \A sl : (sl = <<sl[1], sl[2]>> /\ sl[1] \in Lbas /\ sl # slot) =>
                   Entry(r, sl) = Entry(s, sl)
      /\ \A l \in Lbas : l # slot[1] => r.disk[l] = s.disk[l]
      /\ WholeSector(r, slot[1])
  BY <1>3, <1>4, EntryStored
<1>6. \A sl \in AllSlots(s) : sl # slot => Entry(r, sl) = Entry(s, sl)
  BY <1>3, <1>5
<1>7. DirEntries(r) = DirEntries(s)
  <2>1. SlotsIn(RootSlots) \subseteq AllSlots(s)
    BY SlotsAre
  <2>2. ASSUME NEW q \in SlotsIn(RootSlots)
        PROVE  q \in DirEntries(r) <=> q \in DirEntries(s)
    <3>1. CASE q = slot
      BY <1>5, <3>1 DEF DirEntries, RootEntries
    <3>2. CASE q # slot
      BY <1>6, <2>1, <3>2 DEF DirEntries, RootEntries
    <3>3. QED
      BY <3>1, <3>2
  <2>3. DirEntries(r) \subseteq SlotsIn(RootSlots)
        /\ DirEntries(s) \subseteq SlotsIn(RootSlots)
    BY DEF DirEntries, RootEntries
  <2>4. QED
    BY <2>2, <2>3
<1>8. \A q \in DirEntries(s) : Entry(r, q) = Entry(s, q) /\ q \in AllSlots(s)
  BY <1>1, <1>6, SlotsAre
<1>9. \A q \in DirEntries(s) : SlotsUnder(r, q) = SlotsUnder(s, q)
  BY <1>5, <1>8 DEF SlotsUnder, SameTable
<1>10. AllSlots(r) = AllSlots(s)
  BY <1>7, <1>9 DEF AllSlots
<1>11. AllEntries(r) = es \union {slot}
  BY <1>5, <1>6, <1>10 DEF AllEntries
<1>12. \A a \in es : Entry(r, a) = Entry(s, a)
  BY <1>6 DEF AllEntries
<1>13. slot \notin es
  OBVIOUS
<1>14. /\ ChainsApart(r, es \union {slot})
       /\ Held(r, es \union {slot}) = Held(s, es) \union Mem(DriverFat(s), e.clus)
  <2>1. /\ Sound(DriverFat(s), Entry(r, slot).clus)
        /\ \A c \in Mem(DriverFat(s), Entry(r, slot).clus) : c \notin Held(s, es)
    BY <1>5
  <2>2. /\ ChainsApart(r, es \union {slot})
        /\ Held(r, es \union {slot}) =
             Held(s, es) \union Mem(DriverFat(s), Entry(r, slot).clus)
    BY <1>5, <1>12, <1>13, <2>1, Joined
  <2>3. QED
    BY <1>5, <2>2
<1>15. \A sl \in AllSlots(s) : WholeSector(r, sl[1])
  <2> SUFFICES ASSUME NEW sl \in AllSlots(s), sl[1] # slot[1]
               PROVE  WholeSector(r, sl[1])
    BY <1>5
  <2>1. r.disk[sl[1]] = s.disk[sl[1]] /\ WholeSector(s, sl[1])
    BY <1>3, <1>5 DEF DirsWhole
  <2>2. QED
    BY <2>1 DEF WholeSector
<1>16. DirsWhole(r)
  <2>1. \A a \in es : /\ Entry(r, a).size \in Nat
                      /\ IF Entry(r, a).dir THEN Entry(r, a).name \notin FileNames
                         ELSE InWindow(Entry(r, a).clus)
    BY <1>12 DEF DirsWhole
  <2>2. QED
    BY <1>5, <1>10, <1>11, <1>15, <2>1 DEF DirsWhole
<1>17. QED
  BY <1>5, <1>11, <1>14, <1>16

LEMMA DirStored ==
  ASSUME NEW s, Coherent(s), DirsWhole(s), NEW slot \in SlotsIn(RootSlots),
         Entry(s, slot) \in Empty, NEW es, es = AllEntries(s),
         ChainsApart(s, es), NEW e, e.dir, e \notin Empty,
         e.name \notin FileNames, e.size \in Nat,
         e.clus \in Clusters, IsEnd(DriverFat(s)[e.clus]),
         e.clus \notin Held(s, es),
         \A l \in ClusterLbas(e.clus) : l < Window => s.disk[l] = Zeroed,
         NEW r, r = WithEntry(s, slot, e)
  PROVE  /\ Coherent(r) /\ SameTable(s, r) /\ r.dirty = s.dirty /\ DirsWhole(r)
         /\ AllEntries(r) = es \union {slot}
         /\ ChainsApart(r, AllEntries(r))
         /\ Held(r, AllEntries(r)) = Held(s, es) \union {e.clus}
<1>1. DirEntries(s) \subseteq es /\ slot \in AllSlots(s) /\ slot \notin es
  BY SlotsAre DEF AllEntries
<1>2. \A q \in DirEntries(s) : ClustersOf(s, q) \subseteq Clusters
  BY <1>1, HeldAre
<1>3. \A sl \in AllSlots(s) :
        /\ sl = <<sl[1], sl[2]>> /\ sl[2] \in Indices
        /\ sl[1] \in Lbas /\ sl[1] \notin FatLbas
  BY <1>2, SlotPlaces
<1>4. WholeSector(s, slot[1])
  BY <1>1 DEF DirsWhole
<1>5. /\ Coherent(r) /\ SameTable(s, r) /\ r.dirty = s.dirty
      /\ Entry(r, slot) = e
      /\ \A sl : (sl = <<sl[1], sl[2]>> /\ sl[1] \in Lbas /\ sl # slot) =>
                   Entry(r, sl) = Entry(s, sl)
      /\ \A l \in Lbas : l # slot[1] => r.disk[l] = s.disk[l]
      /\ WholeSector(r, slot[1])
  BY <1>1, <1>3, <1>4, EntryStored
<1>6. \A sl \in AllSlots(s) : sl # slot => Entry(r, sl) = Entry(s, sl)
  BY <1>3, <1>5
<1>7. DirEntries(r) = DirEntries(s) \union {slot}
  <2>1. SlotsIn(RootSlots) \subseteq AllSlots(s)
    BY SlotsAre
  <2>2. ASSUME NEW q \in SlotsIn(RootSlots)
        PROVE  q \in DirEntries(r) <=> q \in DirEntries(s) \union {slot}
    <3>1. CASE q = slot
      BY <1>5, <3>1 DEF DirEntries, RootEntries
    <3>2. CASE q # slot
      BY <1>6, <2>1, <3>2 DEF DirEntries, RootEntries
    <3>3. QED
      BY <3>1, <3>2
  <2>3. DirEntries(r) \subseteq SlotsIn(RootSlots)
        /\ DirEntries(s) \subseteq SlotsIn(RootSlots)
    BY DEF DirEntries, RootEntries
  <2>4. QED
    BY <2>2, <2>3
<1>8. \A q \in DirEntries(s) : Entry(r, q) = Entry(s, q) /\ q \in AllSlots(s)
  BY <1>1, <1>6, SlotsAre
<1>9. \A q \in DirEntries(s) : SlotsUnder(r, q) = SlotsUnder(s, q)
  BY <1>5, <1>8 DEF SlotsUnder, SameTable
<1> DEFINE N == SlotsUnder(r, slot)
<1>10. AllSlots(r) = AllSlots(s) \union N
  BY <1>7, <1>9 DEF AllSlots
<1>11. /\ Sound(DriverFat(s), e.clus) /\ Mem(DriverFat(s), e.clus) = {e.clus}
  BY SoundOne
<1>12. ASSUME NEW sl \in N
       PROVE  /\ sl = <<sl[1], sl[2]>> /\ sl[2] \in Indices /\ sl[1] \in Lbas
              /\ sl # slot /\ sl[1] # slot[1]
              /\ r.disk[sl[1]] = Zeroed /\ Entry(r, sl) = FREE
  <2>1. ClustersOf(r, slot) = {e.clus}
    BY <1>5, <1>11, HeldIs DEF SameTable
  <2>2. slot \in DirEntries(r)
    BY <1>7
  <2>3. sl \in SectorsOf({e.clus}) \X Indices /\ sl[1] < Window
    BY <2>1, <2>2, SlotsAre DEF SlotsUnder
  <2>4. sl[1] \in ClusterLbas(e.clus)
    BY <2>3 DEF SectorsOf
  <2>5. sl[1] \in Lbas /\ sl[1] >= DataStart
    BY <2>4, SectorsAre
  <2>6. slot[1] \in RootLbas
    BY RootSlotsAre
  <2>7. sl[1] # slot[1]
    BY <2>5, <2>6, RootSlotsAre, Geometry
  <2>8. r.disk[sl[1]] = Zeroed
    BY <1>5, <2>3, <2>4, <2>5, <2>7
  <2>9. sl[2] \in 0 .. DPS - 1
    BY <2>3 DEF Indices
  <2>10. Entry(r, sl) = FREE
    BY <2>8, <2>9 DEF Entry, Entries, Zeroed
  <2>11. QED
    BY <2>3, <2>5, <2>7, <2>8, <2>10
<1>13. AllEntries(r) = es \union {slot}
  <2>1. \A sl \in N : Entry(r, sl) \in Empty
    BY <1>12 DEF Empty
  <2> HIDE DEF N
  <2>2. slot \in AllEntries(r)
    BY <1>1, <1>5, <1>10 DEF AllEntries
  <2>3. \A a \in es : a \in AllEntries(r)
    BY <1>1, <1>6, <1>10 DEF AllEntries
  <2>4. ASSUME NEW a \in AllEntries(r), a # slot PROVE a \in es
    <3>1. a \in AllSlots(r) /\ Entry(r, a) \notin Empty
      BY DEF AllEntries
    <3>2. a \in AllSlots(s)
      BY <1>10, <2>1, <3>1
    <3>3. QED
      BY <1>6, <2>4, <3>1, <3>2 DEF AllEntries
  <2>5. QED
    BY <2>2, <2>3, <2>4
<1>14. \A a \in es : Entry(r, a) = Entry(s, a)
  BY <1>1, <1>6 DEF AllEntries
<1>15. /\ ChainsApart(r, es \union {slot})
       /\ Held(r, es \union {slot}) = Held(s, es) \union {e.clus}
  <2>1. /\ Sound(DriverFat(s), Entry(r, slot).clus)
        /\ Mem(DriverFat(s), Entry(r, slot).clus) = {e.clus}
    BY <1>5, <1>11
  <2>2. \A c \in Mem(DriverFat(s), Entry(r, slot).clus) : c \notin Held(s, es)
    BY <2>1
  <2>3. /\ ChainsApart(r, es \union {slot})
        /\ Held(r, es \union {slot}) =
             Held(s, es) \union Mem(DriverFat(s), Entry(r, slot).clus)
    BY <1>1, <1>5, <1>14, <2>1, <2>2, Joined
  <2>4. QED
    BY <2>1, <2>3
<1>16. \A sl \in AllSlots(r) : WholeSector(r, sl[1])
  <2>1. ASSUME NEW sl \in AllSlots(s), sl[1] # slot[1]
        PROVE  WholeSector(r, sl[1])
    <3>1. r.disk[sl[1]] = s.disk[sl[1]] /\ WholeSector(s, sl[1])
      BY <1>3, <1>5, <2>1 DEF DirsWhole
    <3>2. QED
      BY <3>1 DEF WholeSector
  <2>2. ASSUME NEW sl \in N PROVE WholeSector(r, sl[1])
    <3>1. r.disk[sl[1]] = Zeroed
      BY <1>12
    <3>2. QED
      BY <3>1 DEF WholeSector, Zeroed
  <2> HIDE DEF N
  <2>3. QED
    BY <1>5, <1>10, <2>1, <2>2
<1>17. DirsWhole(r)
  <2>1. \A a \in es : /\ Entry(r, a).size \in Nat
                      /\ IF Entry(r, a).dir THEN Entry(r, a).name \notin FileNames
                         ELSE InWindow(Entry(r, a).clus)
    BY <1>14 DEF DirsWhole
  <2>2. QED
    BY <1>5, <1>13, <1>16, <2>1 DEF DirsWhole
<1>18. QED
  BY <1>5, <1>13, <1>15, <1>17

-----------------------------------------------------------------------------
(* What the scans of a call find.                                          *)
LEMMA FindDirIs ==
  ASSUME NEW s, NEW d, FindDir(s, d) # FREE
  PROVE  \E q \in DirEntries(s) : Entry(s, q) = FindDir(s, d)
<1> DEFINE Stops(sl) == sl[1] >= Window \/ Entry(s, sl) = FREE
                          \/ (Entry(s, sl).dir /\ Entry(s, sl).name = d)
           H == {n \in DOMAIN RootSlots : Stops(RootSlots[n])}
           m == CHOOSE n \in H : \A k \in H : n <= k
           n0 == IF H = {} THEN 0 ELSE m
<1>1. FindDir(s, d) = IF n0 = 0 THEN FREE
                      ELSE IF RootSlots[n0][1] >= Window THEN FREE
                      ELSE Entry(s, RootSlots[n0])
  BY DEF FindDir, Lookup, First
<1>2. H # {} /\ n0 = m
  BY <1>1
<1>3. H \in SUBSET Nat
  BY RootSlotsAre
<1>4. m \in H
  <2> HIDE DEF H
  <2>1. \E n \in H : \A k \in H : n <= k
    BY <1>2, <1>3, Least
  <2>2. QED
    BY <2>1
<1> HIDE DEF m, H
<1>5. FindDir(s, d) = Entry(s, RootSlots[m]) /\ ~(RootSlots[m][1] >= Window)
  BY <1>1, <1>2
<1>6. m \in DOMAIN RootSlots /\ Stops(RootSlots[m])
  BY <1>4 DEF H
<1> DEFINE q == RootSlots[m]
<1>7. Entry(s, q).dir /\ q \in SlotsIn(RootSlots)
  BY <1>5, <1>6 DEF SlotsIn
<1> HIDE DEF q
<1>8. Entry(s, q) \notin Empty
  BY <1>7 DEF Empty, FREE, DELETED
<1>9. q \in DirEntries(s)
  BY <1>7, <1>8 DEF DirEntries, RootEntries
<1>10. QED
  BY <1>5, <1>9 DEF q

LEMMA WriteStopIs ==
  ASSUME NEW p, DOMAIN SlotsFor(vol, DriverFat(vol), p) \subseteq Nat \ {0}
  PROVE  \/ WriteStop(p) = 0
         \/ LET sl == SlotsFor(vol, DriverFat(vol), p)[WriteStop(p)]
            IN  /\ WriteStop(p) \in DOMAIN SlotsFor(vol, DriverFat(vol), p)
                /\ sl[1] >= Window \/ Suits(p, Entry(vol, sl))
<1> DEFINE slots == SlotsFor(vol, DriverFat(vol), p)
           Ends(sl) == sl[1] >= Window \/ Suits(p, Entry(vol, sl))
           H == {n \in DOMAIN slots : Ends(slots[n])}
           m == CHOOSE n \in H : \A k \in H : n <= k
<1>1. WriteStop(p) = IF H = {} THEN 0 ELSE m
  BY DEF WriteStop, First
<1>2. H \in SUBSET Nat
  OBVIOUS
<1>3. H # {} => m \in H
  <2> HIDE DEF H
  <2>1. H # {} => \E n \in H : \A k \in H : n <= k
    BY <1>2, Least
  <2>2. QED
    BY <2>1
<1> HIDE DEF m
<1>4. QED
  BY <1>1, <1>3

LEMMA FirstLinks ==
  ASSUME NEW ch \in Seq(Clusters), NEW k \in 0 .. Len(ch)
  PROVE  SubSeq(ch, 1, k) \in Seq(Clusters)
<1>1. \A i \in 1 .. k : ch[i] \in Clusters
  OBVIOUS
<1>2. 1 \in Int /\ k \in Int
  OBVIOUS
<1>3. QED
  BY <1>1, <1>2, SubSeqProperties

LEMMA SlotsForAre ==
  ASSUME NEW p
  PROVE  /\ DOMAIN SlotsFor(vol, DriverFat(vol), p) \subseteq Nat \ {0}
         /\ \A n \in DOMAIN SlotsFor(vol, DriverFat(vol), p) :
              LET sl == SlotsFor(vol, DriverFat(vol), p)[n]
              IN  sl[1] \in Nat /\ (sl[1] < Window => sl \in AllSlots(vol))
         /\ DirChain(p) \in Seq(Clusters)
         /\ DirChain(p) # <<>> =>
              DOMAIN SlotsFor(vol, DriverFat(vol), p)
                = 1 .. Len(DirChain(p)) * SPC * DPS
<1> DEFINE T == DriverFat(vol)
           slots == SlotsFor(vol, T, p)
           f == FindDir(vol, p[1])
<1>1. CASE Len(p) = 1
  <2>1. slots = RootSlots /\ DirChain(p) = <<>>
    BY <1>1 DEF SlotsFor, DirChain
  <2>2. DOMAIN RootSlots \subseteq Nat \ {0}
    <3>1. RootSlots = SlotsOf([n \in 1 .. RootSectors |-> RootStart + n - 1])
      BY DEF RootSlots
    <3>2. 0 \notin DOMAIN RootSlots
      BY <3>1 DEF SlotsOf
    <3>3. QED
      BY <3>2, RootSlotsAre
  <2>3. \A n \in DOMAIN RootSlots :
          RootSlots[n] \in AllSlots(vol) /\ RootSlots[n][1] \in Nat
    BY RootSlotsAre DEF AllSlots, SlotsIn
  <2>4. QED
    BY <2>1, <2>2, <2>3
<1>2. CASE Len(p) # 1 /\ f = FREE
  <2>1. slots = <<>> /\ DirChain(p) = <<>>
    BY <1>2 DEF SlotsFor, DirChain
  <2>2. QED
    BY <2>1
<1>3. CASE Len(p) # 1 /\ f # FREE
  <2>1. slots = SubdirSlots(T, f.clus) /\ DirChain(p) = Chain(T, f.clus)
    BY <1>3 DEF SlotsFor, DirChain
  <2>2. PICK q \in DirEntries(vol) : Entry(vol, q) = f
    BY <1>3, FindDirIs
  <2>3. /\ DOMAIN slots = 1 .. Len(Chain(T, f.clus)) * SPC * DPS
        /\ Len(Chain(T, f.clus)) \in Nat
    BY <2>1, SubdirSlotsAre
  <2>4. DOMAIN slots \subseteq Nat \ {0}
    BY <2>3, Geometry
  <2>5. \A n \in DOMAIN slots : slots[n][1] < Window => slots[n] \in AllSlots(vol)
    <3>1. \A n \in DOMAIN slots : slots[n] \in SlotsIn(slots)
      BY DEF SlotsIn
    <3>2. \A sl \in SlotsIn(slots) : sl[1] < Window => sl \in SlotsUnder(vol, q)
      BY <2>1, <2>2 DEF SlotsUnder
    <3>3. SlotsUnder(vol, q) \subseteq AllSlots(vol)
      BY SlotsAre
    <3>4. QED
      BY <3>1, <3>2, <3>3
  <2>6. DirChain(p) \in Seq(Clusters)
    BY <2>1, ChainShape
  <2>7. \A n \in DOMAIN slots : slots[n][1] \in Nat
    <3>1. \A n \in DOMAIN slots : slots[n] \in SectorsOf(Mem(T, f.clus)) \X Indices
      BY <2>1, SubdirSlotsAre
    <3>2. \A c \in Mem(T, f.clus) : c \in Clusters
      BY ChainShape DEF Mem, Members
    <3>3. \A l \in SectorsOf(Mem(T, f.clus)) : l \in Nat
      BY <3>2, SectorsAre DEF SectorsOf, Lbas
    <3>4. QED
      BY <3>1, <3>3
  <2>8. QED
    BY <2>1, <2>3, <2>4, <2>5, <2>6, <2>7
<1>4. QED
  BY <1>1, <1>2, <1>3

LEMMA WriteSlotIs ==
  ASSUME NEW p, WriteSlot(p) # <<>>
  PROVE  WriteSlot(p) \in AllSlots(vol) /\ Suits(p, Entry(vol, WriteSlot(p)))
<1> DEFINE slots == SlotsFor(vol, DriverFat(vol), p)
           n == WriteStop(p)
<1>1. /\ n # 0 /\ WriteSlot(p) = slots[n] /\ ~(slots[n][1] >= Window)
  BY DEF WriteSlot
<1>2. /\ DOMAIN slots \subseteq Nat \ {0}
      /\ \A k \in DOMAIN slots :
           slots[k][1] \in Nat /\ (slots[k][1] < Window => slots[k] \in AllSlots(vol))
  BY SlotsForAre
<1>3. /\ n \in DOMAIN slots
      /\ slots[n][1] >= Window \/ Suits(p, Entry(vol, slots[n]))
  BY <1>1, <1>2, WriteStopIs
<1>4. Suits(p, Entry(vol, slots[n]))
  BY <1>1, <1>3
<1>5. slots[n] \in AllSlots(vol)
  <2>1. slots[n][1] \in Nat
    BY <1>2, <1>3
  <2>2. QED
    BY <1>1, <1>2, <1>3, <2>1, Geometry
<1>6. QED
  BY <1>1, <1>4, <1>5

LEMMA WriteLinksAre ==
  ASSUME NEW p
  PROVE  WriteLinks(p) \in Seq(Clusters)
<1> DEFINE slots == SlotsFor(vol, DriverFat(vol), p)
           n == WriteStop(p)
           ch == DirChain(p)
           at == (n - 1) \div (DPS * SPC)
<1>1. ch \in Seq(Clusters) /\ DOMAIN slots \subseteq Nat \ {0}
  BY SlotsForAre
<1>2. CASE ch = <<>> \/ n = 0
  BY <1>1, <1>2 DEF WriteLinks
<1>3. CASE ch # <<>> /\ n # 0
  <2>1. n \in 1 .. Len(ch) * SPC * DPS
    BY <1>1, <1>3, SlotsForAre, WriteStopIs
  <2>2. SPC \in Nat \ {0} /\ DPS \in Nat \ {0} /\ Len(ch) \in Nat
    BY <1>1, Geometry
  <2>3. WriteLinks(p) = SubSeq(ch, 1, IF WriteSlot(p) = <<>> THEN at ELSE at + 1)
    BY <1>3 DEF WriteLinks
  <2> DEFINE w == DPS * SPC
  <2>4. w \in Nat \ {0} /\ Len(ch) * SPC * DPS = Len(ch) * w
    BY <2>2
  <2> HIDE DEF n, ch
  <2>5. at \in Nat /\ w * at <= n - 1
    <3>1. n - 1 \in Nat
      BY <2>1
    <3> HIDE DEF w
    <3>2. (n - 1) \div w \in Nat /\ w * ((n - 1) \div w) <= n - 1
      BY <2>4, <3>1
    <3>3. QED
      BY <3>2 DEF w
  <2> HIDE DEF at, w
  <2>6. at < Len(ch)
    <3> SUFFICES ASSUME at >= Len(ch) PROVE FALSE
      BY <2>2, <2>5
    <3>1. w * at >= w * Len(ch)
      BY <2>2, <2>4, <2>5
    <3>2. w * Len(ch) = Len(ch) * w /\ w * at \in Nat
      BY <2>2, <2>4, <2>5
    <3>3. QED
      BY <2>1, <2>2, <2>4, <2>5, <3>1, <3>2
  <2>7. at \in 0 .. Len(ch) /\ at + 1 \in 0 .. Len(ch)
    BY <2>2, <2>5, <2>6
  <2>8. QED
    BY <1>1, <2>3, <2>7, FirstLinks
<1>4. QED
  BY <1>2, <1>3

LEMMA Kept ==
  ASSUME NEW s, DirsWhole(s), NEW es, ChainsApart(s, es),
         DirEntries(s) \subseteq es, es \subseteq AllSlots(s),
         NEW X, \A l \in X : l \notin RootLbas,
         \A c \in Held(s, es) : \A l \in ClusterLbas(c) : l \notin X,
         NEW r, \A l \in Lbas : l >= RootStart /\ l \notin X => r.disk[l] = s.disk[l],
         \A c \in Held(s, es) : DriverFat(r)[c] = DriverFat(s)[c]
  PROVE  /\ SameDirs(s, r) /\ DirsWhole(r)
         /\ ChainsApart(r, es) /\ Held(r, es) = Held(s, es)
<1>1. \A l \in RootLbas : r.disk[l] = s.disk[l]
  BY RootSlotsAre
<1>2. \A c \in Held(s, es) : \A l \in ClusterLbas(c) : r.disk[l] = s.disk[l]
  <2> SUFFICES ASSUME NEW c \in Held(s, es), NEW l \in ClusterLbas(c)
               PROVE  r.disk[l] = s.disk[l]
    OBVIOUS
  <2>1. c \in Clusters
    BY HeldAre
  <2>2. QED
    BY <2>1, SectorsAre
<1>3. /\ SameDirs(s, r)
      /\ ChainsApart(r, es) /\ Held(r, es) = Held(s, es)
  BY <1>1, <1>2, Frame
<1>4. QED
  BY <1>3, DirsKept

-----------------------------------------------------------------------------
(***************************************************************************)
(* The invariant.  Others are the entries but the one that a running write *)
(* will replace; Taken are the clusters of their chains and Hand those in  *)
(* the hands of the running call: the rest of the old chain, then the new  *)
(* one as far as it is built.                                              *)
(***************************************************************************)
Table == DriverFat(vol)

Others == AllEntries(vol) \ {op.slot}

Taken == Held(vol, Others)

Built == IF op.first = 0 THEN {} ELSE Mem(Table, op.first)

Hand ==
  IF pc = "idle" THEN {}
  ELSE IF op.mkdir THEN {op.clus}
  ELSE IF pc = "free" THEN Mem(Table, op.clus)
  ELSE IF pc = "link" THEN Built \union {op.clus}
  ELSE Built

Old == Entry(vol, op.slot).clus

OpFields ==
  {"path", "size", "mkdir", "slot", "clus", "first", "prev", "done", "ok"}

Types ==
  /\ TypeOK
  /\ op = [i \in OpFields |-> op[i]] /\ op.mkdir \in BOOLEAN /\ op.ok \in BOOLEAN
  /\ DOMAIN expect = Paths

Cache ==
  /\ Coherent(vol)
  /\ pc \in {"idle", "entry"} => ~vol.dirty
  /\ pc = "flush2" /\ vol.sec # NoSec => vol.buf = vol.disk[FatStart + vol.sec]

Dirs == DirsWhole(vol) /\ ChainsApart(vol, Others)

HandApart == Hand \intersect Taken = {}

Unlost ==
  ~failed /\ op.ok =>
    \A c \in Clusters : Table[c] # 0 => c \in Taken \union Hand

(* A directory is being made, in the cluster op.clus.                      *)
MkdirOK ==
  /\ op.slot = <<0, 0>> /\ op.ok
  /\ \E d \in DirNames : op.path = <<d>>
  /\ op.clus \in Clusters /\ IsEnd(Table[op.clus])
  /\ pc \in {"zero", "flush1", "flush2", "entry"}
  /\ pc # "zero" =>
       \A l \in ClusterLbas(op.clus) : l < Window => vol.disk[l] = Zeroed

(* The entry that is replaced.  When a write fails its cluster, which was  *)
(* free for a while, is one of the new chain: the search takes the lowest  *)
(* free cluster, and the one that cannot be written lies behind.           *)
OldOK ==
  /\ op.slot \in AllSlots(vol) /\ Entry(vol, op.slot).dir = FALSE
  /\ IF Entry(vol, op.slot) \in Empty THEN Old = 0
     ELSE Old \in Clusters /\ InWindow(Old)
  /\ pc \in {"alloc", "link", "data"} => Old = 0 \/ Table[Old] = 0 \/ Old \in Hand
  /\ pc \in {"flush1", "flush2"} /\ ~op.ok => Old = 0 \/ Old \in Built

FreeOK ==
  /\ op.first = 0 /\ op.prev = 0 /\ op.ok
  /\ op.clus \in Clusters /\ Sound(Table, op.clus)
  /\ Old # 0 /\ (Old = op.clus \/ Table[Old] = 0)

(* The chain that is built starts with op.first.                           *)
BuiltOK ==
  /\ op.first # 0 => Sound(Table, op.first)
  /\ op.first # 0 /\ op.prev # 0 /\ op.ok => InWindow(op.first)
  /\ pc \in {"alloc", "link"} =>
       /\ op.ok /\ (op.first = 0 <=> op.prev = 0)
       /\ op.first # 0 => LastOf(Table, op.first) = op.prev
  /\ pc \in {"link", "data"} =>
       /\ op.clus \in Clusters /\ IsEnd(Table[op.clus])
       /\ \A c \in Clusters : c < op.clus => Table[c] # 0
  /\ pc = "link" => op.clus \notin Built
  /\ pc = "data" =>
       /\ op.ok /\ op.first # 0 /\ LastOf(Table, op.first) = op.clus
       /\ op.prev = 0 => op.first = op.clus
  /\ pc \in {"flush1", "flush2", "entry"} /\ op.ok => op.first # 0 /\ op.prev # 0

WriteOK ==
  /\ op.path \in Paths /\ op.size \in Sizes
  /\ pc # "zero" /\ (pc = "entry" => op.ok)
  /\ OldOK /\ BuiltOK /\ (pc = "free" => FreeOK)

CallOK ==
  IF pc = "idle" THEN op = NoOp ELSE IF op.mkdir THEN MkdirOK ELSE WriteOK

IInv ==
  Types /\ Cache /\ Dirs /\ HandApart /\ Unlost /\ CallOK

LEMMA NoOpIs ==
  /\ NoOp = [i \in OpFields |-> NoOp[i]]
  /\ NoOp.path = <<>> /\ NoOp.size = 0 /\ NoOp.mkdir = FALSE
  /\ NoOp.slot = <<0, 0>> /\ NoOp.clus = 0 /\ NoOp.first = 0
  /\ NoOp.prev = 0 /\ NoOp.done = 0 /\ NoOp.ok = TRUE
<1>1. NoOp = [i \in OpFields |-> NoOp[i]]
  BY DEF NoOp, OpFields
<1>2. NoOp.path = <<>> /\ NoOp.size = 0 /\ NoOp.slot = <<0, 0>>
  BY DEF NoOp
<1>3. NoOp.clus = 0 /\ NoOp.first = 0 /\ NoOp.prev = 0 /\ NoOp.done = 0
  BY DEF NoOp
<1>4. NoOp.mkdir = FALSE
  BY DEF NoOp
<1>5. NoOp.ok = TRUE
  BY DEF NoOp
<1>6. QED
  BY <1>1, <1>2, <1>3, <1>4, <1>5

(* The slot of a write is no directory's, and no slot is the NoOp one.     *)
LEMMA OthersAre ==
  ASSUME IInv
  PROVE  /\ DirEntries(vol) \subseteq Others /\ Others \subseteq AllSlots(vol)
         /\ Taken \subseteq Clusters
         /\ \A sl \in AllSlots(vol) :
              /\ sl = <<sl[1], sl[2]>> /\ sl[2] \in Indices /\ sl[1] \in Lbas
              /\ sl[1] \notin FatLbas /\ sl[1] < Window /\ sl # <<0, 0>>
         /\ op.slot = <<0, 0>> => Others = AllEntries(vol)
<1>1. op.slot \notin DirEntries(vol)
  <2>1. CASE op.slot = <<0, 0>>
    <3>1. \A q \in DirEntries(vol) : q[1] # 0
      BY RootSlotsAre DEF DirEntries, RootEntries
    <3>2. QED
      BY <2>1, <3>1
  <2>2. CASE op.slot # <<0, 0>>
    <3>1. Entry(vol, op.slot).dir = FALSE
      BY <2>2, NoOpIs DEF IInv, CallOK, MkdirOK, WriteOK, OldOK
    <3>2. QED
      BY <3>1 DEF DirEntries
  <2>3. QED
    BY <2>1, <2>2
<1>2. DirEntries(vol) \subseteq Others
  BY <1>1, SlotsAre DEF Others
<1>3. Others \subseteq AllSlots(vol)
  BY SlotsAre DEF Others
<1>4. Taken \subseteq Clusters /\ \A q \in Others : ClustersOf(vol, q) \subseteq Clusters
  BY HeldAre DEF IInv, Dirs, Taken
<1>5. \A sl \in AllSlots(vol) :
        /\ sl = <<sl[1], sl[2]>> /\ sl[2] \in Indices /\ sl[1] \in Lbas
        /\ sl[1] \notin FatLbas /\ sl[1] < Window /\ sl[1] # 0
  BY <1>2, <1>4, SlotPlaces
<1>6. \A sl \in AllSlots(vol) : sl # <<0, 0>>
  BY <1>5
<1>7. op.slot = <<0, 0>> => Others = AllEntries(vol)
  BY <1>6, SlotsAre DEF Others
<1>8. QED
  BY <1>2, <1>3, <1>4, <1>5, <1>6, <1>7

(* What a step may not do to the others.                                   *)
Harmless ==
  /\ AllSlots(vol)' = AllSlots(vol)
  /\ \A sl \in AllSlots(vol) : Entry(vol, sl)' = Entry(vol, sl)
  /\ \A c \in Taken : Table'[c] = Table[c]
  /\ \A c \in Taken : \A l \in ClusterLbas(c) : vol'.disk[l] = vol.disk[l]
  /\ ~vol'.dirty \/ Taken' = Taken

(* A step that keeps the slot and touches neither the clusters of others,  *)
(* nor their links, nor the root keeps the directories.                    *)
LEMMA Calm ==
  ASSUME IInv, op'.slot = op.slot,
         NEW X, \A l \in X : l \notin RootLbas,
         \A c \in Taken : \A l \in ClusterLbas(c) : l \notin X,
         \A l \in Lbas : l >= RootStart /\ l \notin X => vol'.disk[l] = vol.disk[l],
         \A c \in Taken : Table'[c] = Table[c]
  PROVE  /\ Dirs' /\ Harmless /\ Taken' = Taken /\ Others' = Others
         /\ AllSlots(vol)' = AllSlots(vol)
         /\ \A sl \in AllSlots(vol) : Entry(vol, sl)' = Entry(vol, sl)
<1>1. /\ DirEntries(vol) \subseteq Others /\ Others \subseteq AllSlots(vol)
      /\ DirsWhole(vol) /\ ChainsApart(vol, Others)
  BY OthersAre DEF IInv, Dirs
<1>2. /\ \A c \in Held(vol, Others) : \A l \in ClusterLbas(c) : l \notin X
      /\ \A c \in Held(vol, Others) : DriverFat(vol')[c] = DriverFat(vol)[c]
  BY DEF Taken, Table
<1>3. /\ SameDirs(vol, vol') /\ DirsWhole(vol') /\ ChainsApart(vol', Others)
      /\ Held(vol', Others) = Held(vol, Others)
  BY <1>1, <1>2, Kept
<1>4. AllSlots(vol') = AllSlots(vol) /\ AllEntries(vol') = AllEntries(vol)
  BY <1>3 DEF SameDirs
<1>5. Others' = Others
  BY <1>4 DEF Others
<1>6. Dirs'
  BY <1>3, <1>5 DEF Dirs
<1>7. Taken' = Taken
  BY <1>3, <1>5 DEF Taken
<1>8. \A c \in Taken : \A l \in ClusterLbas(c) : vol'.disk[l] = vol.disk[l]
  BY OthersAre, SectorsAre
<1>9. Harmless
  BY <1>3, <1>4, <1>7, <1>8 DEF Harmless, SameDirs
<1>10. QED
  BY <1>3, <1>4, <1>5, <1>6, <1>7, <1>9 DEF SameDirs

LEMMA Quiet ==
  ASSUME IInv, op'.slot = op.slot, OffTheFat(vol, vol'),
         \A c \in Taken : Table'[c] = Table[c]
  PROVE  /\ Dirs' /\ Harmless /\ Taken' = Taken /\ Others' = Others
         /\ AllSlots(vol)' = AllSlots(vol)
         /\ \A sl \in AllSlots(vol) : Entry(vol, sl)' = Entry(vol, sl)
<1>1. PICK X : X = {}
  OBVIOUS
<1>2. \A l \in Lbas : l >= RootStart /\ l \notin X => vol'.disk[l] = vol.disk[l]
  BY DEF OffTheFat
<1>3. /\ \A l \in X : l \notin RootLbas
      /\ \A c \in Taken : \A l \in ClusterLbas(c) : l \notin X
  BY <1>1
<1>4. QED
  BY <1>2, <1>3, Calm

-----------------------------------------------------------------------------
(* The steps.                                                              *)
LEMMA FreeOldStep ==
  ASSUME IInv, FreeOld
  PROVE  IInv' /\ Harmless
<1> DEFINE c == op.clus
           next == Table[c]
<1>1. /\ pc = "free" /\ op.mkdir = FALSE /\ WriteOK /\ FreeOK /\ OldOK
  BY DEF FreeOld, IInv, Types, CallOK, MkdirOK, WriteOK
<1>2. c \in Clusters /\ c \in 0 .. MaxC - 1 /\ Sound(Table, c)
  BY <1>1, ClusterNumbers DEF FreeOK
<1>3. Coherent(vol) /\ NextLink(c) = next
  BY <1>2, TableIs DEF IInv, Cache, NextLink, Table
<1>4. /\ vol' = fat_set(vol, c, 0)
      /\ op' = [op EXCEPT !.clus = IF IsEnd(next) THEN 0 ELSE next]
      /\ pc' = IF IsEnd(next) THEN "alloc" ELSE "free"
      /\ UNCHANGED <<ops, result, expect, failed>>
  BY <1>3 DEF FreeOld
<1>5. /\ Coherent(vol') /\ OffTheFat(vol, vol')
      /\ Table' = [Table EXCEPT ![c] = 0]
  BY <1>2, <1>3, <1>4, SetIs DEF Table
<1>6. op' = [i \in OpFields |-> op'[i]]
  BY <1>4 DEF IInv, Types, OpFields
<1>7. /\ op'.path = op.path /\ op'.size = op.size /\ op'.slot = op.slot
      /\ op'.first = op.first /\ op'.prev = op.prev
  BY <1>4 DEF IInv, Types, OpFields
<1>8. op'.clus = IF IsEnd(next) THEN 0 ELSE next
  BY <1>4 DEF IInv, Types, OpFields
<1>9. op'.mkdir = op.mkdir
  BY <1>4 DEF IInv, Types, OpFields
<1>10. op'.ok = op.ok
  BY <1>4 DEF IInv, Types, OpFields
<1>11. \A d \in Clusters : Table'[d] = IF d = c THEN 0 ELSE Table[d]
  <2>1. \A d \in Clusters : d \in DOMAIN Table
    BY ClusterNumbers DEF Table, DriverFat
  <2>2. QED
    BY <1>5, <2>1
<1>12. Hand = Mem(Table, c) /\ Mem(Table, c) \subseteq Clusters /\ c \in Hand
  BY <1>1, <1>2, SoundShape DEF Hand
<1>13. /\ Dirs' /\ Harmless /\ Taken' = Taken /\ AllSlots(vol)' = AllSlots(vol)
       /\ \A sl \in AllSlots(vol) : Entry(vol, sl)' = Entry(vol, sl)
  <2>1. \A d \in Taken : Table'[d] = Table[d]
    BY <1>11, <1>12, OthersAre DEF IInv, HandApart
  <2>2. QED
    BY <1>5, <1>7, <2>1, Quiet
<1>14. Cache'
  BY <1>4, <1>5 DEF Cache
<1>15. op.first = 0 /\ op.prev = 0 /\ op.ok = TRUE /\ Old # 0
  BY <1>1 DEF FreeOK, IInv, Types
<1>16. Built' = {}
  BY <1>7, <1>15 DEF Built
<1>17. /\ op'.slot \in AllSlots(vol)' /\ Entry(vol, op.slot)' = Entry(vol, op.slot)
       /\ Old' = Old /\ Entry(vol, op.slot)'.dir = FALSE
       /\ Old \in Clusters /\ InWindow(Old) /\ Entry(vol, op.slot) \notin Empty
  BY <1>1, <1>7, <1>13, <1>15 DEF OldOK, Old
<1>18. Table'[Old] = 0 \/ Old = c
  BY <1>1, <1>11, <1>17 DEF FreeOK
<1>19. Table'[c] = 0
  BY <1>2, <1>11
<1>20. Table'[Old] = 0
  BY <1>18, <1>19
<1>21. CASE IsEnd(next)
  <2>1. pc' = "alloc" /\ op'.clus = 0
    BY <1>4, <1>8, <1>21
  <2>2. Hand' = {}
    BY <1>1, <1>9, <1>16, <2>1 DEF Hand
  <2>3. Hand = {c}
    BY <1>2, <1>12, <1>21, SoundOne
  <2>4. HandApart'
    BY <2>2 DEF HandApart
  <2>5. Unlost'
    <3> SUFFICES ASSUME ~failed, NEW d \in Clusters, Table'[d] # 0
                 PROVE  d \in Taken' \union Hand'
      BY <1>4 DEF Unlost
    <3>1. d # c /\ Table[d] # 0
      BY <1>11
    <3>2. d \in Taken \union Hand
      BY <1>15, <3>1 DEF IInv, Unlost
    <3>3. QED
      BY <1>13, <2>3, <3>1, <3>2
  <2>6. OldOK'
    BY <1>17, <1>20, <2>1, <1>7 DEF OldOK
  <2>7. BuiltOK'
    BY <1>7, <1>10, <1>15, <2>1 DEF BuiltOK
  <2>8. CallOK'
    BY <1>1, <1>7, <1>9, <2>1, <2>6, <2>7 DEF CallOK, WriteOK
  <2>9. Types'
    BY <1>4, <1>5, <1>6, <1>7, <1>9, <1>10, <2>1
       DEF Types, TypeOK, IInv, Coherent
  <2>10. QED
    BY <1>13, <1>14, <2>4, <2>5, <2>8, <2>9 DEF IInv
<1>22. CASE ~IsEnd(next)
  <2>1. pc' = "free" /\ op'.clus = next
    BY <1>4, <1>8, <1>22
  <2>2. /\ Sound(Table, next) /\ c \notin Mem(Table, next)
        /\ Mem(Table, c) = Mem(Table, next) \union {c}
    BY <1>2, <1>22, SoundShorter
  <2>3. next \in Clusters /\ Mem(Table, next) \subseteq Clusters
    BY <2>2, SoundShape
  <2>4. \A d \in Mem(Table, next) : Table'[d] = Table[d]
    BY <1>11, <2>2, <2>3
  <2>5. Sound(Table', next) /\ Mem(Table', next) = Mem(Table, next)
    BY <2>2, <2>4, SoundKept
  <2>6. Hand' = Mem(Table, next)
    BY <1>1, <1>9, <2>1, <2>5 DEF Hand
  <2>7. HandApart'
    BY <1>12, <1>13, <2>2, <2>6 DEF HandApart, IInv
  <2>8. Unlost'
    <3> SUFFICES ASSUME ~failed, NEW d \in Clusters, Table'[d] # 0
                 PROVE  d \in Taken' \union Hand'
      BY <1>4 DEF Unlost
    <3>1. d # c /\ Table[d] # 0
      BY <1>11
    <3>2. d \in Taken \union Hand
      BY <1>15, <3>1 DEF IInv, Unlost
    <3>3. QED
      BY <1>12, <1>13, <2>2, <2>6, <3>1, <3>2
  <2>9. OldOK'
    BY <1>7, <1>17, <1>20, <2>1 DEF OldOK
  <2>10. BuiltOK'
    BY <1>7, <1>10, <1>15, <2>1 DEF BuiltOK
  <2>11. FreeOK'
    BY <1>7, <1>10, <1>15, <1>17, <1>20, <2>1, <2>3, <2>5 DEF FreeOK
  <2>12. CallOK'
    BY <1>1, <1>7, <1>9, <2>1, <2>9, <2>10, <2>11 DEF CallOK, WriteOK
  <2>13. Types'
    BY <1>4, <1>5, <1>6, <1>7, <1>9, <1>10, <2>1, <2>3
       DEF Types, TypeOK, IInv, Coherent
  <2>14. QED
    BY <1>13, <1>14, <2>7, <2>8, <2>12, <2>13 DEF IInv
<1>23. QED
  BY <1>21, <1>22

LEMMA AllocStep ==
  ASSUME IInv, Alloc
  PROVE  IInv' /\ Harmless
<1> DEFINE c == FirstFree(vol)
<1>1. /\ pc = "alloc" /\ op.mkdir = FALSE /\ WriteOK /\ OldOK /\ BuiltOK
  BY DEF Alloc, IInv, Types, CallOK, MkdirOK, WriteOK
<1>2. Coherent(vol)
  BY DEF IInv, Cache
<1>3. /\ vol' = fat_alloc(vol) /\ op' = [op EXCEPT !.clus = c, !.ok = (c # 0)]
      /\ pc' = IF c # 0 THEN "link" ELSE "flush1"
      /\ UNCHANGED <<ops, result, expect, failed>>
  BY DEF Alloc
<1>4. Coherent(vol') /\ OffTheFat(vol, vol')
  BY <1>2, <1>3, AllocIs
<1>5. op' = [i \in OpFields |-> op'[i]]
  BY <1>3 DEF IInv, Types, OpFields
<1>6. /\ op'.path = op.path /\ op'.size = op.size /\ op'.slot = op.slot
      /\ op'.first = op.first /\ op'.prev = op.prev
  BY <1>3 DEF IInv, Types, OpFields
<1>7. op'.clus = c
  BY <1>3 DEF IInv, Types, OpFields
<1>8. op'.mkdir = op.mkdir
  BY <1>3 DEF IInv, Types, OpFields
<1>9. op'.ok = (c # 0)
  BY <1>3 DEF IInv, Types, OpFields
<1>10. /\ op.ok /\ (op.first = 0 <=> op.prev = 0)
       /\ op.first # 0 => Sound(Table, op.first) /\ LastOf(Table, op.first) = op.prev
       /\ op.first # 0 /\ op.prev # 0 => InWindow(op.first)
  BY <1>1 DEF BuiltOK
<1>11. Hand = Built /\ Built \subseteq Clusters /\ \A d \in Built : Table[d] # 0
  <2>1. Hand = Built
    BY <1>1 DEF Hand
  <2>2. CASE op.first = 0
    BY <2>1, <2>2 DEF Built
  <2>3. CASE op.first # 0
    BY <1>10, <2>1, <2>3, SoundShape DEF Built
  <2>4. QED
    BY <2>2, <2>3
<1>12. \A d \in Taken : d \in Clusters /\ Table[d] # 0
  BY HeldAre DEF IInv, Dirs, Taken, Table
<1>13. Old = 0 \/ Old \in Clusters
  BY <1>1 DEF OldOK
<1>14. CASE c = 0
  <2>1. Table' = Table /\ \A d \in Clusters : Table[d] # 0
    BY <1>2, <1>3, <1>14, AllocIs, FreeAre DEF SameTable, Table
  <2>2. pc' = "flush1" /\ op'.ok = FALSE
    BY <1>3, <1>9, <1>14
  <2>3. /\ Dirs' /\ Harmless /\ Taken' = Taken /\ AllSlots(vol)' = AllSlots(vol)
        /\ \A sl \in AllSlots(vol) : Entry(vol, sl)' = Entry(vol, sl)
    BY <1>4, <1>6, <2>1, Quiet
  <2>4. Built' = Built
    BY <1>6, <2>1 DEF Built
  <2>5. Hand' = Hand
    BY <1>1, <1>8, <1>11, <2>2, <2>4 DEF Hand
  <2>6. HandApart' /\ Unlost' /\ Cache'
    BY <1>4, <2>2, <2>3, <2>5 DEF HandApart, Unlost, Cache, IInv
  <2>7. Old' = Old /\ (Old = 0 \/ Old \in Built)
    BY <1>1, <1>6, <1>11, <1>13, <2>1, <2>3 DEF OldOK, Old
  <2>8. OldOK'
    BY <1>1, <1>6, <2>2, <2>3, <2>4, <2>7 DEF OldOK
  <2>9. BuiltOK'
    BY <1>6, <1>10, <2>1, <2>2 DEF BuiltOK
  <2>10. CallOK'
    BY <1>1, <1>6, <1>8, <2>2, <2>8, <2>9 DEF CallOK, WriteOK
  <2>11. Types'
    BY <1>3, <1>4, <1>5, <1>6, <1>7, <1>8, <1>14, <2>2
       DEF Types, TypeOK, IInv, Coherent
  <2>12. QED
    BY <2>3, <2>6, <2>10, <2>11 DEF IInv
<1>15. CASE c # 0
  <2>1. /\ Table' = [Table EXCEPT ![c] = EOC] /\ c \in Clusters /\ Table[c] = 0
        /\ \A d \in Clusters : d < c => Table[d] # 0
    BY <1>2, <1>3, <1>15, AllocIs, FreeAre DEF Table
  <2>2. \A d \in Clusters : Table'[d] = IF d = c THEN EOC ELSE Table[d]
    <3>1. \A d \in Clusters : d \in DOMAIN Table
      BY ClusterNumbers DEF Table, DriverFat
    <3>2. QED
      BY <2>1, <3>1
  <2>3. pc' = "link" /\ op'.ok = TRUE
    BY <1>3, <1>9, <1>15
  <2>4. c \notin Taken /\ c \notin Built
    BY <1>11, <1>12, <2>1
  <2>5. \A d \in Taken : Table'[d] = Table[d]
    BY <1>12, <2>2, <2>4
  <2>6. /\ Dirs' /\ Harmless /\ Taken' = Taken /\ AllSlots(vol)' = AllSlots(vol)
        /\ \A sl \in AllSlots(vol) : Entry(vol, sl)' = Entry(vol, sl)
    BY <1>4, <1>6, <2>5, Quiet
  <2>7. /\ Built' = Built
        /\ op.first # 0 => /\ Sound(Table', op.first)
                           /\ LastOf(Table', op.first) = LastOf(Table, op.first)
    <3>1. CASE op.first = 0
      BY <1>6, <3>1 DEF Built
    <3>2. CASE op.first # 0
      <4>1. Sound(Table, op.first) /\ Built = Mem(Table, op.first)
        BY <1>10, <3>2 DEF Built
      <4>2. \A d \in Mem(Table, op.first) : Table'[d] = Table[d]
        BY <1>11, <2>2, <2>4, <4>1
      <4>3. /\ Sound(Table', op.first) /\ Mem(Table', op.first) = Mem(Table, op.first)
            /\ LastOf(Table', op.first) = LastOf(Table, op.first)
        BY <4>1, <4>2, SoundKept
      <4>4. QED
        BY <1>6, <3>2, <4>1, <4>3 DEF Built
    <3>3. QED
      BY <3>1, <3>2
  <2>8. Hand' = Hand \union {c}
    BY <1>1, <1>7, <1>8, <1>11, <2>3, <2>7 DEF Hand
  <2>9. HandApart'
    BY <2>4, <2>6, <2>8 DEF HandApart, IInv
  <2>10. Unlost'
    BY <1>3, <1>10, <2>2, <2>6, <2>8 DEF Unlost, IInv
  <2>11. Cache'
    BY <1>4, <2>3 DEF Cache
  <2>12. Old' = Old /\ (Old = 0 \/ Table'[Old] = 0 \/ Old \in Hand')
    BY <1>1, <1>6, <1>13, <2>2, <2>6, <2>8 DEF OldOK, Old
  <2>13. OldOK'
    BY <1>1, <1>6, <2>3, <2>6, <2>12 DEF OldOK
  <2>14. IsEnd(Table'[c]) /\ \A d \in Clusters : d < c => Table'[d] # 0
    BY <2>1, <2>2, ClusterNumbers
  <2>15. BuiltOK'
    BY <1>6, <1>7, <1>10, <2>1, <2>3, <2>4, <2>7, <2>14 DEF BuiltOK
  <2>16. CallOK'
    BY <1>1, <1>6, <1>8, <2>3, <2>13, <2>15 DEF CallOK, WriteOK
  <2>17. Types'
    BY <1>3, <1>4, <1>5, <1>6, <1>7, <1>8, <2>1, <2>3
       DEF Types, TypeOK, IInv, Coherent
  <2>18. QED
    BY <2>6, <2>9, <2>10, <2>11, <2>16, <2>17 DEF IInv
<1>16. QED
  BY <1>14, <1>15

LEMMA LinkStep ==
  ASSUME IInv, Link
  PROVE  IInv' /\ Harmless
<1> DEFINE c == op.clus
           b == op.prev
<1>1. /\ pc = "link" /\ op.mkdir = FALSE /\ WriteOK /\ OldOK /\ BuiltOK
  BY DEF Link, IInv, Types, CallOK, MkdirOK, WriteOK
<1>2. Coherent(vol)
  BY DEF IInv, Cache
<1>3. /\ vol' = IF b # 0 THEN fat_set(vol, b, c) ELSE vol
      /\ op' = [op EXCEPT !.first = IF b # 0 THEN op.first ELSE c]
      /\ pc' = "data"
      /\ UNCHANGED <<ops, result, expect, failed>>
  <2>1. op' = [op EXCEPT !.first = IF op.prev # 0 THEN @ ELSE op.clus]
    BY DEF Link
  <2>2. op' = [op EXCEPT !.first = IF op.prev # 0 THEN op.first ELSE op.clus]
    BY <2>1
  <2>3. QED
    BY <2>2 DEF Link
<1>4. op' = [i \in OpFields |-> op'[i]]
  BY <1>3 DEF IInv, Types, OpFields
<1>5. /\ op'.path = op.path /\ op'.size = op.size /\ op'.slot = op.slot
      /\ op'.clus = c /\ op'.prev = b
  BY <1>3 DEF IInv, Types, OpFields
<1>6. op'.first = IF b # 0 THEN op.first ELSE c
  BY <1>3 DEF IInv, Types, OpFields
<1>7. op'.mkdir = op.mkdir
  BY <1>3 DEF IInv, Types, OpFields
<1>8. op'.ok = op.ok
  BY <1>3 DEF IInv, Types, OpFields
<1>9. /\ op.ok /\ (op.first = 0 <=> b = 0)
      /\ op.first # 0 => Sound(Table, op.first) /\ LastOf(Table, op.first) = b
      /\ op.first # 0 /\ b # 0 => InWindow(op.first)
      /\ c \in Clusters /\ IsEnd(Table[c]) /\ c \notin Built
      /\ \A d \in Clusters : d < c => Table[d] # 0
  BY <1>1 DEF BuiltOK
<1>10. Hand = Built \union {c} /\ c # 0 /\ c \in 0 .. MaxC - 1 /\ c \in Nat
  BY <1>1, <1>9, ClusterNumbers DEF Hand
<1>11. Old = 0 \/ Old \in Clusters
  BY <1>1 DEF OldOK
<1>12. /\ Coherent(vol') /\ OffTheFat(vol, vol')
       /\ \A d \in Clusters : Table'[d] = IF b # 0 /\ d = b THEN c ELSE Table[d]
       /\ op'.first # 0 /\ Sound(Table', op'.first) /\ LastOf(Table', op'.first) = c
       /\ Mem(Table', op'.first) = Hand /\ (b # 0 => b \in Built /\ b # c)
  <2>1. CASE b = 0
    <3>1. Table' = Table /\ vol' = vol /\ op'.first = c
      BY <1>3, <1>6, <2>1 DEF Table
    <3>2. Built = {}
      BY <1>9, <2>1 DEF Built
    <3>3. Sound(Table, c) /\ Mem(Table, c) = {c} /\ LastOf(Table, c) = c
      BY <1>9, SoundOne
    <3>4. QED
      BY <1>2, <1>10, <2>1, <3>1, <3>2, <3>3 DEF OffTheFat
  <2>2. CASE b # 0
    <3>1. /\ op'.first = op.first /\ op.first # 0 /\ Sound(Table, op.first)
          /\ LastOf(Table, op.first) = b /\ Built = Mem(Table, op.first)
      BY <1>6, <1>9, <2>2 DEF Built
    <3>2. b \in Built /\ b \in Clusters /\ b \in 0 .. MaxC - 1 /\ b # c
      BY <1>9, <3>1, SoundShape, ClusterNumbers
    <3>3. /\ Coherent(vol') /\ OffTheFat(vol, vol')
          /\ Table' = [Table EXCEPT ![b] = c]
      BY <1>2, <1>3, <1>10, <2>2, <3>2, SetIs DEF Table
    <3>4. \A d \in Clusters : Table'[d] = IF d = b THEN c ELSE Table[d]
      <4>1. \A d \in Clusters : d \in DOMAIN Table
        BY ClusterNumbers DEF Table, DriverFat
      <4>2. QED
        BY <3>3, <4>1
    <3>5. /\ Sound(Table', op.first) /\ LastOf(Table', op.first) = c
          /\ Mem(Table', op.first) = Mem(Table, op.first) \union {c}
      <4>1. /\ Table'[LastOf(Table, op.first)] = c /\ c \notin Mem(Table, op.first)
            /\ \A d \in Clusters : d # LastOf(Table, op.first) => Table'[d] = Table[d]
        BY <1>9, <3>1, <3>2, <3>4
      <4>2. QED
        BY <1>9, <3>1, <4>1, SoundLonger
    <3>6. QED
      BY <1>10, <2>2, <3>1, <3>2, <3>3, <3>4, <3>5
  <2>3. QED
    BY <2>1, <2>2
<1>13. \A d \in Taken : d \in Clusters /\ d \notin Hand
  BY OthersAre DEF IInv, HandApart
<1>14. \A d \in Taken : Table'[d] = Table[d]
  BY <1>10, <1>12, <1>13
<1>15. /\ Dirs' /\ Harmless /\ Taken' = Taken /\ AllSlots(vol)' = AllSlots(vol)
       /\ \A sl \in AllSlots(vol) : Entry(vol, sl)' = Entry(vol, sl)
  BY <1>5, <1>12, <1>14, Quiet
<1>16. Built' = Hand /\ Hand' = Hand
  BY <1>1, <1>3, <1>7, <1>12 DEF Built, Hand
<1>17. HandApart' /\ Cache'
  BY <1>3, <1>12, <1>15, <1>16 DEF HandApart, Cache, IInv
<1>18. Unlost'
  BY <1>3, <1>9, <1>10, <1>12, <1>15, <1>16 DEF Unlost, IInv
<1>19. Old' = Old /\ (Old = 0 \/ Table'[Old] = 0 \/ Old \in Hand')
  <2>1. Old' = Old /\ (Old = 0 \/ Table[Old] = 0 \/ Old \in Hand)
    BY <1>1, <1>5, <1>15 DEF OldOK, Old
  <2>2. b # 0 => b \in Hand
    BY <1>10, <1>12
  <2>3. QED
    BY <1>11, <1>12, <1>16, <2>1, <2>2
<1>20. OldOK'
  BY <1>1, <1>3, <1>5, <1>15, <1>19 DEF OldOK
<1>21. IsEnd(Table'[c]) /\ \A d \in Clusters : d < c => Table'[d] # 0
  BY <1>9, <1>10, <1>12
<1>22. BuiltOK'
  <2>1. op'.first # 0 /\ op'.prev # 0 => InWindow(op'.first)
    BY <1>5, <1>6, <1>9
  <2>2. op'.prev = 0 => op'.first = op'.clus
    BY <1>5, <1>6
  <2>3. QED
    BY <1>3, <1>5, <1>8, <1>9, <1>12, <1>21, <2>1, <2>2 DEF BuiltOK
<1>23. CallOK'
  BY <1>1, <1>3, <1>5, <1>7, <1>20, <1>22 DEF CallOK, WriteOK
<1>24. Types'
  <2>1. op'.first \in {0} \union Clusters
    BY <1>6, <1>9 DEF Types, TypeOK, IInv
  <2>2. QED
    BY <1>3, <1>4, <1>5, <1>7, <1>8, <1>12, <2>1
       DEF Types, TypeOK, IInv, Coherent
<1>25. QED
  BY <1>15, <1>17, <1>18, <1>23, <1>24 DEF IInv

WithDisk(s, D) == [s EXCEPT !.disk = D]

LEMMA ClusterStored ==
  ASSUME NEW s, Coherent(s), NEW c \in Clusters,
         NEW D, D = [l \in Lbas |-> D[l]],
         \A l \in Lbas : l \notin ClusterLbas(c) => D[l] = s.disk[l],
         NEW r, r = WithDisk(s, D)
  PROVE  Coherent(r) /\ SameTable(s, r) /\ r.disk = D
<1>1. r = [i \in Fields |-> r[i]]
  BY DEF Coherent, Fields, WithDisk
<1>2. r.sec = s.sec /\ r.buf = s.buf
  BY DEF Coherent, Fields, WithDisk
<1>3. r.dirty = s.dirty
  BY DEF Coherent, Fields, WithDisk
<1>4. r.disk = D
  BY DEF Coherent, Fields, WithDisk
<1>5. r.disk = [l \in Lbas |-> r.disk[l]]
  BY <1>4
<1>6. \A l \in FatLbas : r.disk[l] = s.disk[l]
  BY <1>4, SectorsAre, FatPlaces
<1>7. /\ r.dirty \in BOOLEAN
      /\ \/ r.dirty = s.dirty
         \/ ~r.dirty /\ (s.sec # NoSec => s.buf = s.disk[FatStart + s.sec])
  BY <1>3 DEF Coherent
<1>8. Coherent(r) /\ SameTable(s, r)
  BY <1>1, <1>2, <1>5, <1>6, <1>7, Elsewhere
<1>9. QED
  BY <1>4, <1>8

(* A cluster in hand lies apart from all directories.                      *)
LEMMA HandPlace ==
  ASSUME IInv, NEW c \in Clusters, c \in Hand
  PROVE  /\ \A l \in ClusterLbas(c) : l \notin RootLbas
         /\ \A d \in Taken : \A l \in ClusterLbas(d) : l \notin ClusterLbas(c)
<1>1. \A l \in ClusterLbas(c) : l \notin RootLbas
  <2> SUFFICES ASSUME NEW l \in ClusterLbas(c), l \in RootLbas PROVE FALSE
    OBVIOUS
  <2>1. l >= DataStart /\ l < DataStart /\ l \in Nat /\ DataStart \in Nat
    BY SectorsAre, RootSlotsAre, Geometry
  <2>2. QED
    BY <2>1
<1>2. \A d \in Taken : d \in Clusters /\ d # c
  BY OthersAre DEF IInv, HandApart
<1>3. \A d \in Taken : ClusterLbas(d) \intersect ClusterLbas(c) = {}
  BY <1>2, ClustersApart
<1>4. QED
  BY <1>1, <1>3

(* What a turn of the write stores: the sectors of its cluster, from where *)
(* the turn before stopped.                                                *)
LEMMA DataStored ==
  ASSUME IInv, WriteData
  PROVE  \E D :
           /\ vol' = WithDisk(fat_set(vol, op.clus, EOC), D)
           /\ D = [l \in Lbas |-> D[l]]
           /\ \A l \in Lbas : l \notin ClusterLbas(op.clus) =>
                D[l] = fat_set(vol, op.clus, EOC).disk[l]
           /\ \A l \in Lbas :
                LET i == op.done * SPC + (l - clus_lba(op.clus))
                IN  l \in ClusterLbas(op.clus) /\ l < Window /\ i < op.size =>
                      D[l] = Data(op.path, ops, i)
<1> DEFINE c == op.clus
           s == fat_set(vol, c, EOC)
           D == [l \in Lbas |->
                   IF l \in ClusterLbas(c) /\ l < Window
                   THEN IF op.done * SPC + (l - clus_lba(c)) < op.size
                        THEN Data(op.path, ops, op.done * SPC + (l - clus_lba(c)))
                        ELSE Zeroed
                   ELSE s.disk[l]]
<1>1. vol' = WithDisk(s, D)
  BY DEF WriteData, ClusterWritten, WithDisk
<1>2. \A l \in Lbas : l \notin ClusterLbas(c) => D[l] = s.disk[l]
  OBVIOUS
<1>3. D = [l \in Lbas |-> D[l]]
  OBVIOUS
<1>4. \A l \in Lbas :
        l \in ClusterLbas(c) /\ l < Window
          /\ op.done * SPC + (l - clus_lba(c)) < op.size =>
          D[l] = Data(op.path, ops, op.done * SPC + (l - clus_lba(c)))
  OBVIOUS
<1> HIDE DEF D, s
<1>5. QED
  BY <1>1, <1>2, <1>3, <1>4 DEF s

LEMMA WriteDataStep ==
  ASSUME IInv, WriteData
  PROVE  IInv' /\ Harmless
<1> DEFINE c == op.clus
           s == fat_set(vol, c, EOC)
           ok == \A l \in ClusterLbas(c) : l < Window
<1>1. /\ pc = "data" /\ op.mkdir = FALSE /\ WriteOK /\ OldOK /\ BuiltOK
  BY DEF WriteData, IInv, Types, CallOK, MkdirOK, WriteOK
<1>2. Coherent(vol)
  BY DEF IInv, Cache
<1>3. /\ op' = [op EXCEPT !.prev = c, !.done = op.done + 1, !.ok = ok]
      /\ pc' = "alloc" \/ pc' = "flush1"
      /\ pc' = "alloc" => ok
      /\ UNCHANGED <<ops, result, expect, failed>>
  BY DEF WriteData
<1>4. PICK D : /\ vol' = WithDisk(s, D) /\ D = [l \in Lbas |-> D[l]]
               /\ \A l \in Lbas : l \notin ClusterLbas(c) => D[l] = s.disk[l]
  BY DataStored
<1>5. op' = [i \in OpFields |-> op'[i]]
  BY <1>3 DEF IInv, Types, OpFields
<1>6. /\ op'.path = op.path /\ op'.size = op.size /\ op'.slot = op.slot
      /\ op'.clus = c /\ op'.prev = c /\ op'.first = op.first
  BY <1>3 DEF IInv, Types, OpFields
<1>7. op'.mkdir = op.mkdir
  BY <1>3 DEF IInv, Types, OpFields
<1>8. op'.ok = ok
  BY <1>3 DEF IInv, Types, OpFields
<1>9. /\ op.ok /\ op.first # 0 /\ Sound(Table, op.first)
      /\ LastOf(Table, op.first) = c
      /\ op.prev = 0 => op.first = c
      /\ op.prev # 0 => InWindow(op.first)
      /\ c \in Clusters /\ IsEnd(Table[c])
      /\ \A d \in Clusters : d < c => Table[d] # 0
  BY <1>1 DEF BuiltOK
<1> HIDE DEF ok, s
<1>10. /\ Built = Mem(Table, op.first) /\ Hand = Built /\ c \in Hand
       /\ c \in 0 .. MaxC - 1 /\ c # 0 /\ c \in Nat /\ EOC \in Nat
  BY <1>1, <1>9, SoundShape, ClusterNumbers DEF Built, Hand
<1>11. /\ Coherent(s) /\ OffTheFat(vol, s)
       /\ DriverFat(s) = [Table EXCEPT ![c] = EOC]
  BY <1>2, <1>10, SetIs DEF Table, s
<1>12. /\ Coherent(vol') /\ SameTable(s, vol') /\ vol'.disk = D
  BY <1>4, <1>9, <1>11, ClusterStored
<1>13. \A d \in Clusters : Table'[d] = IF d = c THEN EOC ELSE Table[d]
  <2>1. \A d \in Clusters : d \in DOMAIN Table
    BY ClusterNumbers DEF Table, DriverFat
  <2>2. Table' = [Table EXCEPT ![c] = EOC]
    BY <1>11, <1>12 DEF SameTable, Table
  <2>3. QED
    BY <2>1, <2>2
<1>14. /\ Sound(Table', op.first) /\ Mem(Table', op.first) = Built
       /\ LastOf(Table', op.first) = c
  <2>1. /\ IsEnd(Table'[LastOf(Table, op.first)])
        /\ \A d \in Clusters : d # LastOf(Table, op.first) => Table'[d] = Table[d]
    BY <1>9, <1>13, ClusterNumbers
  <2>2. QED
    BY <1>9, <1>10, <2>1, SoundEnd
<1>15. \A d \in Taken : Table'[d] = Table[d]
  BY <1>10, <1>13, OthersAre DEF IInv, HandApart
<1>16. /\ Dirs' /\ Harmless /\ Taken' = Taken /\ AllSlots(vol)' = AllSlots(vol)
       /\ \A sl \in AllSlots(vol) : Entry(vol, sl)' = Entry(vol, sl)
  <2> DEFINE X == ClusterLbas(c)
  <2>1. /\ \A l \in X : l \notin RootLbas
        /\ \A d \in Taken : \A l \in ClusterLbas(d) : l \notin X
    BY <1>9, <1>10, HandPlace
  <2>2. \A l \in Lbas : l >= RootStart /\ l \notin X => vol'.disk[l] = vol.disk[l]
    BY <1>4, <1>11, <1>12 DEF OffTheFat
  <2> HIDE DEF X
  <2>3. QED
    BY <1>6, <1>15, <2>1, <2>2, Calm
<1>17. Built' = Built /\ Hand' = Hand
  BY <1>1, <1>3, <1>6, <1>7, <1>9, <1>10, <1>14 DEF Built, Hand
<1>18. HandApart' /\ Cache'
  BY <1>3, <1>12, <1>16, <1>17 DEF HandApart, Cache, IInv
<1>19. Unlost'
  BY <1>3, <1>9, <1>10, <1>13, <1>16, <1>17 DEF Unlost, IInv
<1>20. ok => InWindow(c)
  <2>1. /\ ClusterLbas(c) = clus_lba(c) .. clus_lba(c) + SPC - 1
        /\ clus_lba(c) \in Nat /\ SPC \in Nat \ {0} /\ Window \in Nat
    BY <1>9, ClusterPlace, Geometry
  <2>2. clus_lba(c) + SPC - 1 \in ClusterLbas(c)
    BY <2>1
  <2>3. QED
    BY <2>1, <2>2 DEF ok, InWindow
<1>21. ASSUME ~ok, NEW d \in Clusters, InWindow(d)
       PROVE  Table[d] # 0
  <2>1. PICK l \in ClusterLbas(c) : ~(l < Window)
    BY <1>21 DEF ok
  <2>2. /\ ClusterLbas(c) = clus_lba(c) .. clus_lba(c) + SPC - 1
        /\ clus_lba(c) \in Nat /\ SPC \in Nat \ {0} /\ Window \in Nat
        /\ clus_lba(d) \in Nat
    BY <1>9, ClusterPlace, Geometry
  <2>3. clus_lba(c) + SPC > Window /\ clus_lba(d) + SPC <= Window
    BY <1>21, <2>1, <2>2 DEF InWindow
  <2>4. ~(c < d)
    BY <1>9, <2>2, <2>3, ClusterOrder
  <2>5. d # c
    BY <2>2, <2>3
  <2>6. d \in Nat
    BY ClusterNumbers
  <2>7. d < c
    BY <1>10, <2>4, <2>5, <2>6
  <2>8. QED
    BY <1>9, <2>7
<1>22. Old' = Old
  BY <1>1, <1>6, <1>16 DEF OldOK, Old
<1>23. OldOK'
  <2>1. /\ op'.slot \in AllSlots(vol)' /\ Entry(vol, op.slot)'.dir = FALSE
        /\ IF Entry(vol, op.slot)' \in Empty THEN Old' = 0
           ELSE Old' \in Clusters /\ InWindow(Old')
    BY <1>1, <1>6, <1>16, <1>22 DEF OldOK
  <2>2. Old = 0 \/ Table[Old] = 0 \/ Old \in Hand
    BY <1>1 DEF OldOK
  <2>3. Old = 0 \/ (Old \in Clusters /\ InWindow(Old))
    BY <1>1 DEF OldOK
  <2>4. Table[c] # 0
    BY <1>9, ClusterNumbers
  <2>5. Old' = 0 \/ Table'[Old'] = 0 \/ Old' \in Hand'
    BY <1>13, <1>17, <1>22, <2>2, <2>3, <2>4
  <2>6. ~ok => Old' = 0 \/ Old' \in Built'
    BY <1>10, <1>17, <1>21, <1>22, <2>2, <2>3
  <2>7. QED
    BY <1>3, <1>8, <2>1, <2>5, <2>6 DEF OldOK
<1>24. BuiltOK'
  <2>1. ok => InWindow(op.first)
    BY <1>9, <1>20
  <2>2. QED
    BY <1>3, <1>6, <1>8, <1>9, <1>10, <1>14, <2>1 DEF BuiltOK
<1>25. CallOK'
  BY <1>1, <1>3, <1>6, <1>7, <1>23, <1>24 DEF CallOK, WriteOK
<1>26. Types'
  <2>1. op'.ok \in BOOLEAN
    BY <1>8 DEF ok
  <2>2. QED
    BY <1>3, <1>5, <1>6, <1>7, <1>9, <1>12, <2>1
       DEF Types, TypeOK, IInv, Coherent
<1>27. QED
  BY <1>16, <1>18, <1>19, <1>25, <1>26 DEF IInv

(* fat_flush: the cached sector goes to the first copy, then to the second. *)
LEMMA FirstCopy ==
  ASSUME NEW s, Coherent(s), s.dirty,
         NEW r, r = Wr(s, FatStart + s.sec, s.buf)
  PROVE  /\ Coherent(r) /\ OffTheFat(s, r) /\ SameTable(s, r)
         /\ r.buf = r.disk[FatStart + r.sec]
<1> DEFINE a == FatStart + s.sec
<1>1. s.sec \in 0 .. FatSize - 1 /\ s.dirty = TRUE /\ s.buf \in Tables
  BY DEF Coherent
<1>2. a \in FatLbas /\ a \in Lbas /\ a < Window /\ a < RootStart /\ a \in Nat
  BY <1>1, FatPlaces
<1>3. \A k \in 0 .. FatSize - 1 : k # s.sec => FatStart + k # a
  BY <1>1, Geometry
<1>4. a = FatStart + s.sec
  OBVIOUS
<1> HIDE DEF a
<1>5. r = [s EXCEPT !.disk[a] = s.buf]
  BY <1>2, <1>4 DEF Wr
<1>6. r = [i \in Fields |-> r[i]]
  BY <1>5 DEF Coherent, Fields
<1>7. r.sec = s.sec /\ r.buf = s.buf
  BY <1>5 DEF Coherent, Fields
<1>8. r.dirty = s.dirty
  BY <1>5 DEF Coherent, Fields
<1>9. /\ r.disk = [l \in Lbas |-> r.disk[l]]
      /\ \A l \in Lbas : r.disk[l] = IF l = a THEN s.buf ELSE s.disk[l]
  <2>1. r.disk = [s.disk EXCEPT ![a] = s.buf]
    BY <1>5 DEF Coherent, Fields
  <2>2. DOMAIN s.disk = Lbas
    BY DEF Coherent
  <2>3. QED
    BY <2>1, <2>2
<1>10. \A l \in FatLbas : r.disk[l] \in Tables
  BY <1>1, <1>9, FatPlaces DEF Coherent
<1>11. r.buf = r.disk[FatStart + r.sec]
  BY <1>2, <1>4, <1>7, <1>9
<1>12. Coherent(r)
  <2>1. /\ r.sec \in 0 .. FatSize - 1 /\ r.sec # NoSec /\ r.buf \in Tables
        /\ r.dirty \in BOOLEAN
    BY <1>1, <1>7, <1>8, FatPlaces
  <2>2. r.disk = [l \in Lbas |-> r.disk[l]]
    BY <1>9
  <2>3. QED
    BY <1>6, <1>10, <1>11, <2>1, <2>2 DEF Coherent
<1>13. OffTheFat(s, r)
  BY <1>2, <1>9, Geometry DEF OffTheFat, Lbas
<1>14. \A k \in 0 .. FatSize - 1 : Now(r, k) = Now(s, k)
  BY <1>3, <1>7, <1>9, FatPlaces DEF Now
<1>15. SameTable(s, r)
  BY <1>12, <1>14, SameSectors
<1>16. QED
  BY <1>11, <1>12, <1>13, <1>15

Cleaned(s) == [Wr(s, FatStart + FatSize + s.sec, s.buf) EXCEPT !.dirty = FALSE]

LEMMA SecondCopy ==
  ASSUME NEW s, Coherent(s), s.dirty, s.buf = s.disk[FatStart + s.sec],
         NEW r, r = Cleaned(s)
  PROVE  Coherent(r) /\ OffTheFat(s, r) /\ SameTable(s, r) /\ ~r.dirty
<1> DEFINE a == FatStart + FatSize + s.sec
<1>1. s.sec \in 0 .. FatSize - 1
  BY DEF Coherent
<1>2. a \in Lbas /\ a \notin FatLbas /\ a < Window /\ a < RootStart /\ a \in Nat
  <2>1. /\ FatStart \in Nat \ {0} /\ FatSize \in Nat \ {0} /\ TotalSecs \in Nat
        /\ RootStart = FatStart + 2 * FatSize /\ RootSectors \in Nat
        /\ Window \in Nat /\ DataStart = RootStart + RootSectors
        /\ DataStart < Window /\ Window <= TotalSecs
    BY Geometry
  <2>2. QED
    BY <1>1, <2>1 DEF FatLbas, Lbas
<1> HIDE DEF a
<1>3. r = [[s EXCEPT !.disk[a] = s.buf] EXCEPT !.dirty = FALSE]
  BY <1>2 DEF Wr, Cleaned, a
<1>4. PICK t : t = [s EXCEPT !.disk[a] = s.buf]
  OBVIOUS
<1>5. r = [t EXCEPT !.dirty = FALSE]
  BY <1>3, <1>4
<1>6. t = [i \in Fields |-> t[i]]
  BY <1>4 DEF Coherent, Fields
<1>7. t.sec = s.sec /\ t.buf = s.buf
  BY <1>4 DEF Coherent, Fields
<1>8. t.disk = [s.disk EXCEPT ![a] = s.buf]
  BY <1>4 DEF Coherent, Fields
<1>9. r = [i \in Fields |-> r[i]]
  BY <1>5, <1>6 DEF Fields
<1>10. r.sec = s.sec /\ r.buf = s.buf /\ r.disk = t.disk
  BY <1>5, <1>6, <1>7 DEF Fields
<1>11. r.dirty = FALSE
  BY <1>5, <1>6 DEF Fields
<1>12. /\ r.disk = [l \in Lbas |-> r.disk[l]]
       /\ \A l \in Lbas : r.disk[l] = IF l = a THEN s.buf ELSE s.disk[l]
  <2>1. DOMAIN s.disk = Lbas
    BY DEF Coherent
  <2>2. QED
    BY <1>8, <1>10, <2>1
<1>13. \A l \in FatLbas : r.disk[l] = s.disk[l]
  BY <1>2, <1>12, FatPlaces
<1>14. Coherent(r) /\ SameTable(s, r)
  <2>1. /\ r.dirty \in BOOLEAN
        /\ \/ r.dirty = s.dirty
           \/ ~r.dirty /\ (s.sec # NoSec => s.buf = s.disk[FatStart + s.sec])
    BY <1>11
  <2>2. r.sec = s.sec /\ r.buf = s.buf
    BY <1>10
  <2>3. r.disk = [l \in Lbas |-> r.disk[l]]
    BY <1>12
  <2>4. QED
    BY <1>9, <1>13, <2>1, <2>2, <2>3, Elsewhere, ZenonT(40)
<1>15. OffTheFat(s, r)
  BY <1>2, <1>12, Geometry DEF OffTheFat, Lbas
<1>16. QED
  BY <1>11, <1>14, <1>15

(* What the flush keeps.                                                   *)
LEMMA Flushed ==
  ASSUME IInv, pc \in {"flush1", "flush2"}, pc' \in {"flush2", "entry"},
         op' = op, UNCHANGED <<ops, result, expect, failed>>,
         Coherent(vol'), OffTheFat(vol, vol'), SameTable(vol, vol'),
         pc' = "entry" => op.ok /\ ~vol'.dirty,
         pc' = "flush2" /\ vol'.sec # NoSec =>
           vol'.buf = vol'.disk[FatStart + vol'.sec]
  PROVE  IInv' /\ Harmless
<1>1. Table' = Table /\ op'.slot = op.slot
  BY DEF Table, SameTable
<1>2. /\ Dirs' /\ Harmless /\ Taken' = Taken /\ AllSlots(vol)' = AllSlots(vol)
      /\ \A sl \in AllSlots(vol) : Entry(vol, sl)' = Entry(vol, sl)
  BY <1>1, Quiet
<1>3. Built' = Built /\ Hand' = Hand
  BY <1>1 DEF Built, Hand
<1>4. HandApart' /\ Unlost' /\ Cache'
  BY <1>1, <1>2, <1>3 DEF HandApart, Unlost, Cache, IInv
<1>5. CASE op.mkdir
  <2>1. MkdirOK
    BY <1>5 DEF IInv, CallOK
  <2>2. \A l \in ClusterLbas(op.clus) : vol'.disk[l] = vol.disk[l]
    BY <2>1, SectorsAre DEF MkdirOK, OffTheFat
  <2>3. MkdirOK'
    BY <1>1, <2>1, <2>2 DEF MkdirOK
  <2>4. CallOK'
    BY <1>5, <2>3 DEF CallOK
  <2>5. Types'
    BY DEF Types, TypeOK, IInv, Coherent
  <2>6. QED
    BY <1>2, <1>4, <2>4, <2>5 DEF IInv
<1>6. CASE ~op.mkdir
  <2>1. WriteOK /\ OldOK /\ BuiltOK
    BY <1>6 DEF IInv, CallOK, WriteOK
  <2>2. Old' = Old /\ Entry(vol, op.slot)' = Entry(vol, op.slot)
    BY <1>2, <2>1 DEF OldOK, Old
  <2>3. OldOK'
    BY <1>2, <1>3, <2>1, <2>2 DEF OldOK
  <2>4. BuiltOK'
    BY <1>1, <1>3, <2>1 DEF BuiltOK
  <2>5. CallOK'
    BY <1>6, <2>1, <2>3, <2>4 DEF CallOK, WriteOK
  <2>6. Types'
    BY DEF Types, TypeOK, IInv, Coherent
  <2>7. QED
    BY <1>2, <1>4, <2>5, <2>6 DEF IInv
<1>7. QED
  BY <1>5, <1>6

LEMMA FlushFirstStep ==
  ASSUME IInv, FlushFirst
  PROVE  IInv' /\ Harmless
<1>1. /\ pc = "flush1" /\ pc' = "flush2" /\ op' = op
      /\ UNCHANGED <<ops, result, expect, failed>> /\ Coherent(vol)
      /\ vol' = IF vol.dirty THEN Wr(vol, FatStart + vol.sec, vol.buf) ELSE vol
  BY DEF FlushFirst, IInv, Cache
<1>2. /\ Coherent(vol') /\ OffTheFat(vol, vol') /\ SameTable(vol, vol')
      /\ vol'.sec # NoSec => vol'.buf = vol'.disk[FatStart + vol'.sec]
  <2>1. CASE vol.dirty
    BY <1>1, <2>1, FirstCopy
  <2>2. CASE ~vol.dirty
    BY <1>1, <2>2 DEF OffTheFat, SameTable, Coherent
  <2>3. QED
    BY <2>1, <2>2
<1>3. QED
  BY <1>1, <1>2, Flushed

(* The end of a call.                                                      *)
LEMMA Returned ==
  ASSUME pc' = "idle", op' = NoOp, ops' \in 0 .. MaxOps,
         result' \in {-1, 0} \union Sizes,
         DOMAIN expect' = Paths,
         \A p \in Paths :
           expect'[p] \in {Absent, Unknown} \union (0 .. MaxOps) \X Sizes,
         Coherent(vol'), ~vol'.dirty, DirsWhole(vol'),
         NEW es, es = AllEntries(vol'), ChainsApart(vol', es),
         ~failed' => \A c \in Clusters : Table'[c] # 0 => c \in Held(vol', es)
  PROVE  IInv'
<1>1. Others' = es
  <2>1. \A q \in DirEntries(vol') : ClustersOf(vol', q) \subseteq Clusters
    BY HeldAre, SlotsAre
  <2>2. \A sl \in AllEntries(vol') : sl[1] # 0
    BY <2>1, SlotPlaces, SlotsAre
  <2>3. op'.slot = <<0, 0>>
    BY NoOpIs
  <2>4. \A sl \in AllEntries(vol') : sl # <<0, 0>>
    BY <2>2
  <2>5. QED
    BY <2>3, <2>4 DEF Others
<1>2. Dirs' /\ Taken' = Held(vol', es)
  BY <1>1 DEF Dirs, Taken
<1>3. Hand' = {}
  BY DEF Hand
<1>4. HandApart' /\ Unlost'
  BY <1>2, <1>3 DEF HandApart, Unlost
<1>5. Cache' /\ CallOK'
  BY DEF Cache, CallOK
<1>6. Types'
  <2>1. op'.mkdir \in BOOLEAN
    BY NoOpIs
  <2>2. op'.ok \in BOOLEAN
    BY NoOpIs
  <2>3. op'.clus = 0 /\ op'.first = 0 /\ op'.prev = 0
    BY NoOpIs
  <2>4. op' = [i \in OpFields |-> op'[i]]
    BY NoOpIs
  <2>5. TypeOK'
    BY <2>3 DEF TypeOK, Coherent
  <2>6. QED
    BY <2>1, <2>2, <2>4, <2>5 DEF Types
<1>7. QED
  BY <1>2, <1>4, <1>5, <1>6 DEF IInv

LEMMA FlushSecondStep ==
  ASSUME IInv, FlushSecond
  PROVE  IInv' /\ Harmless
<1>1. /\ pc = "flush2" /\ UNCHANGED <<ops, expect>> /\ Coherent(vol)
      /\ vol' = IF vol.dirty THEN Cleaned(vol) ELSE vol
      /\ vol.sec # NoSec => vol.buf = vol.disk[FatStart + vol.sec]
  BY DEF FlushSecond, Cleaned, IInv, Cache
<1>2. Coherent(vol') /\ OffTheFat(vol, vol') /\ SameTable(vol, vol') /\ ~vol'.dirty
  <2>1. CASE vol.dirty
    <3>1. vol.sec # NoSec
      BY <1>1, <2>1 DEF Coherent
    <3>2. vol.buf = vol.disk[FatStart + vol.sec] /\ vol' = Cleaned(vol)
      BY <1>1, <2>1, <3>1
    <3>3. QED
      BY <1>1, <2>1, <3>2, SecondCopy
  <2>2. CASE ~vol.dirty
    BY <1>1, <2>2 DEF OffTheFat, SameTable
  <2>3. QED
    BY <2>1, <2>2
<1>3. CASE op.ok
  <2>1. pc' = "entry" /\ op' = op /\ UNCHANGED <<result, failed>>
    BY <1>3 DEF FlushSecond
  <2>2. QED
    BY <1>1, <1>2, <1>3, <2>1, Flushed
<1>4. CASE ~op.ok
  <2>1. pc' = "idle" /\ op' = NoOp /\ result' = -1 /\ failed'
    <3>1. Return(-1)
      BY <1>4 DEF FlushSecond
    <3>2. -1 < 0
      OBVIOUS
    <3>3. QED
      BY <3>1, <3>2 DEF Return
  <2>2. ~op.mkdir /\ OldOK /\ BuiltOK
    BY <1>1, <1>4 DEF IInv, CallOK, MkdirOK, WriteOK
  <2>3. /\ SameDirs(vol, vol') /\ DirsWhole(vol') /\ ChainsApart(vol', Others)
        /\ Held(vol', Others) = Taken
    <3>1. PICK X : X = {}
      OBVIOUS
    <3>2. /\ \A l \in X : l \notin RootLbas
          /\ \A c \in Held(vol, Others) : \A l \in ClusterLbas(c) : l \notin X
          /\ \A l \in Lbas : l >= RootStart /\ l \notin X => vol'.disk[l] = vol.disk[l]
          /\ \A c \in Held(vol, Others) : DriverFat(vol')[c] = DriverFat(vol)[c]
      BY <1>2, <3>1 DEF OffTheFat, SameTable
    <3>3. /\ DirsWhole(vol) /\ ChainsApart(vol, Others)
          /\ DirEntries(vol) \subseteq Others /\ Others \subseteq AllSlots(vol)
      BY OthersAre DEF IInv, Dirs
    <3>4. QED
      BY <3>2, <3>3, Kept DEF Taken
  <2>4. AllEntries(vol') = AllEntries(vol)
    BY <2>3 DEF SameDirs
  <2>5. ChainsApart(vol', AllEntries(vol'))
    <3>1. CASE op.slot \notin AllEntries(vol)
      <4>1. AllEntries(vol) = Others
        BY <3>1 DEF Others
      <4>2. QED
        BY <2>3, <2>4, <4>1
    <3>2. CASE op.slot \in AllEntries(vol)
      <4>1. Entry(vol, op.slot) \notin Empty /\ op.slot \in AllSlots(vol)
        BY <3>2 DEF AllEntries
      <4>2. Old \in Clusters /\ Old \in Built
        <5>1. Old \in Clusters /\ Old # 0
          BY <2>2, <4>1, ClusterNumbers DEF OldOK
        <5>2. Old = 0 \/ Old \in Built
          BY <1>1, <1>4, <2>2 DEF OldOK
        <5>3. QED
          BY <5>1, <5>2
      <4>3. op.first # 0 /\ Built = Mem(Table, op.first) /\ Sound(Table, op.first)
        BY <2>2, <4>2 DEF Built, BuiltOK
      <4>4. Sound(Table, Old) /\ Mem(Table, Old) \subseteq Built
        BY <4>2, <4>3, SoundFrom
      <4>5. Hand = Built
        BY <1>1, <2>2 DEF Hand
      <4>6. \A c \in Mem(Table, Old) : c \notin Taken
        BY <4>4, <4>5 DEF IInv, HandApart
      <4>7. Entry(vol', op.slot) = Entry(vol, op.slot)
        BY <2>3, <4>1 DEF SameDirs
      <4>8. DriverFat(vol') = Table /\ Entry(vol', op.slot).clus = Old
        BY <1>2, <4>7 DEF SameTable, Table, Old
      <4>9. /\ Sound(DriverFat(vol'), Entry(vol', op.slot).clus)
            /\ \A c \in Mem(DriverFat(vol'), Entry(vol', op.slot).clus) :
                 c \notin Held(vol', Others)
        BY <2>3, <4>4, <4>6, <4>8
      <4>10. /\ op.slot \notin Others /\ SameTable(vol', vol')
             /\ \A a \in Others : Entry(vol', a) = Entry(vol', a)
             /\ AllEntries(vol') = Others \union {op.slot}
        BY <2>4, <3>2 DEF Others, SameTable
      <4>11. QED
        BY <2>3, <4>9, <4>10, Joined
    <3>3. QED
      BY <3>1, <3>2
  <2>6. /\ ops' \in 0 .. MaxOps /\ DOMAIN expect' = Paths
        /\ \A p \in Paths :
             expect'[p] \in {Absent, Unknown} \union (0 .. MaxOps) \X Sizes
    BY <1>1 DEF IInv, Types, TypeOK
  <2>7. IInv'
    BY <1>2, <2>1, <2>3, <2>5, <2>6, Returned
  <2>8. Harmless
    <3>1. \A c \in Taken : \A l \in ClusterLbas(c) : vol'.disk[l] = vol.disk[l]
      BY <1>2, OthersAre, SectorsAre DEF OffTheFat
    <3>2. Table' = Table
      BY <1>2 DEF Table, SameTable
    <3>3. QED
      BY <1>2, <2>3, <3>1, <3>2 DEF Harmless, SameDirs
  <2>9. QED
    BY <2>7, <2>8
<1>5. QED
  BY <1>3, <1>4

LEMMA WriteEntryStep ==
  ASSUME IInv, WriteEntry
  PROVE  IInv'
<1> DEFINE e == File(NameOf(op.path), op.first, op.size)
           es == AllEntries(vol')
<1>1. /\ pc = "entry" /\ ~op.mkdir /\ WriteOK /\ OldOK /\ BuiltOK /\ op.ok
  BY DEF WriteEntry, IInv, CallOK, WriteOK
<1>2. /\ vol' = WithEntry(vol, op.slot, e)
      /\ expect' = [expect EXCEPT ![op.path] = <<ops, op.size>>]
      /\ pc' = "idle" /\ op' = NoOp /\ result' = op.size
      /\ failed' = (failed \/ op.size < 0) /\ ops' = ops
  BY DEF WriteEntry, Return
<1>3. e.clus = op.first /\ e.size \in Nat
  <2>1. op.size \in Nat
    BY <1>1, BoundsAssumption DEF WriteOK
  <2>2. QED
    BY <2>1 DEF File
<1>4. ~e.dir
  BY DEF File
<1>5. op.first # 0 /\ Sound(Table, op.first) /\ InWindow(op.first)
  BY <1>1 DEF BuiltOK
<1>6. e \notin Empty
  <2>1. FREE.clus = 0 /\ DELETED.clus = 0
    BY DEF FREE, DELETED
  <2>2. e # FREE /\ e # DELETED
    BY <1>3, <1>5, <2>1
  <2>3. QED
    BY <2>2 DEF Empty
<1> HIDE DEF e
<1>7. Hand = Mem(Table, op.first)
  BY <1>1, <1>5 DEF Hand, Built
<1>8. /\ Coherent(vol) /\ ~vol.dirty /\ DirsWhole(vol) /\ ChainsApart(vol, Others)
      /\ Hand \intersect Held(vol, Others) = {}
  BY <1>1 DEF IInv, Cache, Dirs, HandApart, Taken
<1>9. op.slot \in AllSlots(vol) /\ op.slot \notin DirEntries(vol)
  BY <1>1 DEF OldOK, DirEntries
<1>10. /\ op.slot \notin Others /\ Others \subseteq AllEntries(vol)
       /\ \A sl \in AllEntries(vol) : sl = op.slot \/ sl \in Others
  BY DEF Others
<1>11. /\ Sound(DriverFat(vol), e.clus) /\ InWindow(e.clus)
       /\ \A c \in Mem(DriverFat(vol), e.clus) : c \notin Held(vol, Others)
  BY <1>3, <1>5, <1>7, <1>8 DEF Table
<1>12. /\ Coherent(vol') /\ SameTable(vol, vol') /\ vol'.dirty = vol.dirty
       /\ DirsWhole(vol') /\ ChainsApart(vol', AllEntries(vol'))
       /\ Held(vol', AllEntries(vol')) = Held(vol, Others) \union Mem(DriverFat(vol), e.clus)
  BY <1>2, <1>3, <1>4, <1>6, <1>8, <1>9, <1>10, <1>11, FileStored
<1>13. /\ Coherent(vol') /\ ~vol'.dirty /\ DirsWhole(vol') /\ ChainsApart(vol', es)
  BY <1>8, <1>12
<1>14. Held(vol', es) = Taken \union Hand /\ Table' = Table
  BY <1>3, <1>7, <1>12 DEF Taken, Table, SameTable
<1> HIDE DEF es
<1>15. ~failed' => \A c \in Clusters : Table'[c] # 0 => c \in Held(vol', es)
  BY <1>1, <1>2, <1>14 DEF IInv, Unlost
<1>16. op.path \in Paths /\ op.size \in Sizes /\ ops \in 0 .. MaxOps
  BY <1>1 DEF WriteOK, IInv, Types, TypeOK
<1>17. /\ DOMAIN expect' = Paths
       /\ \A p \in Paths :
            expect'[p] \in {Absent, Unknown} \union (0 .. MaxOps) \X Sizes
  BY <1>2, <1>16 DEF IInv, Types, TypeOK
<1>18. ops' \in 0 .. MaxOps /\ result' \in {-1, 0} \union Sizes
  BY <1>2, <1>16
<1>19. QED
  BY <1>2, <1>13, <1>15, <1>17, <1>18, Returned DEF es

LEMMA MkdirZeroStep ==
  ASSUME IInv, MkdirZero
  PROVE  IInv' /\ Harmless
<1> DEFINE c == op.clus
<1>1. pc = "zero" /\ pc' = "flush1" /\ UNCHANGED <<op, ops, result, expect, failed>>
  BY DEF MkdirZero
<1>2. op.mkdir /\ MkdirOK
  BY <1>1 DEF IInv, CallOK, WriteOK
<1>3. c \in Clusters /\ IsEnd(Table[c]) /\ Hand = {c} /\ Coherent(vol)
  BY <1>1, <1>2 DEF MkdirOK, Hand, IInv, Cache
<1>4. \E D : /\ vol' = WithDisk(vol, D) /\ D = [l \in Lbas |-> D[l]]
             /\ \A l \in Lbas : l \notin ClusterLbas(c) => D[l] = vol.disk[l]
             /\ \A l \in ClusterLbas(c) : l < Window => D[l] = Zeroed
  <2> DEFINE D == [l \in Lbas |-> IF l \in ClusterLbas(c) /\ l < Window
                                  THEN Zeroed ELSE vol.disk[l]]
  <2>1. vol' = WithDisk(vol, D)
    BY DEF MkdirZero, ClusterWritten, WithDisk
  <2>2. D = [l \in Lbas |-> D[l]]
    OBVIOUS
  <2>3. \A l \in Lbas : l \notin ClusterLbas(c) => D[l] = vol.disk[l]
    OBVIOUS
  <2>4. \A l \in ClusterLbas(c) : l < Window => D[l] = Zeroed
    BY <1>3, SectorsAre
  <2> HIDE DEF D
  <2>5. QED
    BY <2>1, <2>2, <2>3, <2>4
<1>5. PICK D : /\ vol' = WithDisk(vol, D) /\ D = [l \in Lbas |-> D[l]]
               /\ \A l \in Lbas : l \notin ClusterLbas(c) => D[l] = vol.disk[l]
               /\ \A l \in ClusterLbas(c) : l < Window => D[l] = Zeroed
  BY <1>4
<1>6. Coherent(vol') /\ SameTable(vol, vol') /\ vol'.disk = D
  BY <1>3, <1>5, ClusterStored
<1>7. Table' = Table
  BY <1>6 DEF SameTable, Table
<1>8. Dirs' /\ Harmless /\ Taken' = Taken
  <2> DEFINE X == ClusterLbas(c)
  <2>1. /\ \A l \in X : l \notin RootLbas
        /\ \A d \in Taken : \A l \in ClusterLbas(d) : l \notin X
    BY <1>3, HandPlace
  <2>2. \A l \in Lbas : l >= RootStart /\ l \notin X => vol'.disk[l] = vol.disk[l]
    BY <1>5, <1>6
  <2>3. op'.slot = op.slot
    BY <1>1
  <2> HIDE DEF X
  <2>4. QED
    BY <1>7, <2>1, <2>2, <2>3, Calm
<1>9. Hand' = Hand
  BY <1>1, <1>2 DEF Hand
<1>10. HandApart' /\ Unlost' /\ Cache'
  BY <1>1, <1>6, <1>7, <1>8, <1>9 DEF HandApart, Unlost, Cache, IInv
<1>11. MkdirOK'
  BY <1>1, <1>2, <1>5, <1>6, <1>7 DEF MkdirOK
<1>12. CallOK'
  BY <1>1, <1>2, <1>11 DEF CallOK
<1>13. Types'
  BY <1>1, <1>6 DEF Types, TypeOK, IInv, Coherent
<1>14. QED
  BY <1>8, <1>10, <1>12, <1>13 DEF IInv

LEMMA MkdirSlot ==
  ASSUME MkdirEntry
  PROVE  /\ pc = "entry" /\ op.mkdir /\ pc' = "idle" /\ op' = NoOp
         /\ UNCHANGED <<ops, expect>> /\ result' \in {-1, 0}
         /\ \/ vol' = vol /\ failed'
            \/ \E slot \in SlotsIn(RootSlots) :
                 /\ Entry(vol, slot) \in Empty /\ (~failed' => ~failed)
                 /\ vol' = WithEntry(vol, slot, Dir(op.path[1], op.clus))
<1> DEFINE Unused(sl) == Entry(vol, sl) \in Empty
           H == {n \in DOMAIN RootSlots : Unused(RootSlots[n])}
           m == CHOOSE n \in H : \A k \in H : n <= k
           n0 == IF H = {} THEN 0 ELSE m
<1>1. /\ pc = "entry" /\ op.mkdir /\ UNCHANGED <<ops, expect>>
      /\ IF n0 = 0 THEN Return(-1) /\ UNCHANGED vol
         ELSE /\ vol' = WithEntry(vol, RootSlots[n0], Dir(op.path[1], op.clus))
              /\ Return(0)
  BY DEF MkdirEntry, First
<1>2. H \in SUBSET Nat
  BY RootSlotsAre
<1>3. n0 # 0 => n0 \in H
  <2> HIDE DEF H
  <2>1. H # {} => \E n \in H : \A k \in H : n <= k
    BY <1>2, Least
  <2>2. QED
    BY <2>1
<1>4. n0 # 0 => RootSlots[n0] \in SlotsIn(RootSlots) /\ Entry(vol, RootSlots[n0]) \in Empty
  BY <1>3 DEF SlotsIn
<1> HIDE DEF n0
<1>5. -1 < 0 /\ ~(0 < 0)
  OBVIOUS
<1>6. CASE n0 = 0
  BY <1>1, <1>5, <1>6 DEF Return
<1>7. CASE n0 # 0
  BY <1>1, <1>4, <1>5, <1>7 DEF Return
<1>8. QED
  BY <1>6, <1>7

LEMMA MkdirEntryStep ==
  ASSUME IInv, MkdirEntry
  PROVE  IInv'
<1> DEFINE e == Dir(op.path[1], op.clus)
           es == AllEntries(vol')
<1>1. /\ pc = "entry" /\ op.mkdir /\ pc' = "idle" /\ op' = NoOp
      /\ ops' = ops /\ expect' = expect /\ result' \in {-1, 0}
  BY MkdirSlot
<1>2. MkdirOK
  BY <1>1 DEF IInv, CallOK
<1>3. /\ Others = AllEntries(vol) /\ Hand = {op.clus} /\ Coherent(vol) /\ ~vol.dirty
      /\ DirsWhole(vol) /\ ChainsApart(vol, Others)
  BY <1>1, <1>2, OthersAre DEF MkdirOK, IInv, Dirs, Cache, Hand
<1>4. op.clus \in Clusters /\ IsEnd(Table[op.clus]) /\ op.clus \notin Taken /\ op.ok
  BY <1>2, <1>3 DEF MkdirOK, IInv, HandApart
<1>5. /\ Coherent(vol') /\ ~vol'.dirty /\ DirsWhole(vol') /\ ChainsApart(vol', es)
      /\ ~failed' => \A c \in Clusters : Table'[c] # 0 => c \in Held(vol', es)
  <2>1. CASE vol' = vol /\ failed'
    BY <1>3, <2>1
  <2>2. ASSUME NEW slot \in SlotsIn(RootSlots), Entry(vol, slot) \in Empty,
               vol' = WithEntry(vol, slot, e), ~failed' => ~failed
        PROVE  /\ Coherent(vol') /\ ~vol'.dirty /\ DirsWhole(vol')
               /\ ChainsApart(vol', es)
               /\ ~failed' => \A c \in Clusters : Table'[c] # 0 => c \in Held(vol', es)
    <3>1. e.clus = op.clus /\ e.size \in Nat
      BY DEF Dir
    <3>2. e.dir
      BY DEF Dir
    <3>3. e.name \notin FileNames
      BY <1>2, NamesAssumption DEF Dir, MkdirOK
    <3>4. e \notin Empty
      <4>1. FREE.clus = 0 /\ DELETED.clus = 0 /\ op.clus # 0
        BY <1>4, ClusterNumbers DEF FREE, DELETED
      <4>2. e # FREE /\ e # DELETED
        BY <3>1, <4>1
      <4>3. QED
        BY <4>2 DEF Empty
    <3> HIDE DEF e
    <3>5. \A l \in ClusterLbas(e.clus) : l < Window => vol.disk[l] = Zeroed
      BY <1>1, <1>2, <3>1 DEF MkdirOK
    <3>6. e.clus \in Clusters /\ IsEnd(DriverFat(vol)[e.clus]) /\ e.clus \notin Held(vol, Others)
      BY <1>4, <3>1 DEF Table, Taken
    <3>7. /\ Coherent(vol') /\ SameTable(vol, vol') /\ vol'.dirty = vol.dirty
          /\ DirsWhole(vol') /\ ChainsApart(vol', AllEntries(vol'))
          /\ Held(vol', AllEntries(vol')) = Held(vol, Others) \union {e.clus}
      BY <1>3, <2>2, <3>1, <3>2, <3>3, <3>4, <3>5, <3>6, DirStored
    <3>8. Held(vol', es) = Taken \union Hand /\ Table' = Table
      BY <1>3, <3>1, <3>7 DEF Taken, Table, SameTable
    <3>9. ~failed' => \A c \in Clusters : Table'[c] # 0 => c \in Held(vol', es)
      BY <1>4, <2>2, <3>8 DEF IInv, Unlost
    <3>10. QED
      BY <1>3, <3>7, <3>9
  <2>3. QED
    BY <2>1, <2>2, MkdirSlot
<1> HIDE DEF es
<1>6. /\ ops' \in 0 .. MaxOps /\ DOMAIN expect' = Paths
      /\ \A p \in Paths :
           expect'[p] \in {Absent, Unknown} \union (0 .. MaxOps) \X Sizes
      /\ result' \in {-1, 0} \union Sizes
  BY <1>1 DEF IInv, Types, TypeOK
<1>7. QED
  BY <1>1, <1>5, <1>6, Returned DEF es

(* A step between calls that leaves at most another FAT sector cached.     *)
LEMMA Idled ==
  ASSUME IInv, pc = "idle", pc' = "idle", op' = NoOp, ops' \in 0 .. MaxOps,
         result' \in {-1, 0} \union Sizes, expect' = expect,
         ~failed' => ~failed,
         Coherent(vol'), OffTheFat(vol, vol'), SameTable(vol, vol'),
         vol'.dirty => vol.dirty
  PROVE  IInv' /\ Harmless
<1>1. op = NoOp /\ op.ok /\ ~vol.dirty
  BY NoOpIs DEF IInv, CallOK, Cache
<1>2. Table' = Table /\ op'.slot = op.slot
  BY <1>1 DEF Table, SameTable
<1>3. Dirs' /\ Harmless /\ Taken' = Taken
  BY <1>2, Quiet
<1>4. Hand' = {} /\ Hand = {}
  BY DEF Hand
<1>5. HandApart' /\ Unlost' /\ Cache' /\ CallOK'
  BY <1>1, <1>2, <1>3, <1>4 DEF HandApart, Unlost, Cache, CallOK, IInv
<1>6. Types'
  BY <1>1 DEF Types, TypeOK, IInv, Coherent
<1>7. QED
  BY <1>3, <1>5, <1>6 DEF IInv

LEMMA MkdirBeginStep ==
  ASSUME IInv, NEW d \in DirNames, MkdirBegin(d)
  PROVE  IInv' /\ Harmless
<1> DEFINE c == FirstFree(vol)
<1>1. /\ pc = "idle" /\ op = NoOp /\ op.ok /\ Coherent(vol) /\ ~vol.dirty
      /\ ops' \in 0 .. MaxOps /\ expect' = expect
  <2>1. ops < MaxOps /\ ops' = ops + 1 /\ ops \in 0 .. MaxOps /\ MaxOps \in Nat
    BY BoundsAssumption DEF MkdirBegin, IInv, Types, TypeOK
  <2>2. ops' \in 0 .. MaxOps
    BY <2>1
  <2>3. QED
    BY <2>2, NoOpIs DEF MkdirBegin, IInv, Cache, CallOK
<1>2. CASE FindDir(vol, d) # FREE
  <2>1. vol' = vol /\ Return(0)
    BY <1>2 DEF MkdirBegin
  <2>2. pc' = "idle" /\ op' = NoOp /\ result' = 0 /\ (~failed' => ~failed)
    BY <2>1 DEF Return
  <2>3. Coherent(vol') /\ OffTheFat(vol, vol') /\ SameTable(vol, vol')
    BY <1>1, <2>1 DEF OffTheFat, SameTable
  <2>4. QED
    BY <1>1, <2>1, <2>2, <2>3, Idled
<1>3. CASE FindDir(vol, d) = FREE /\ c = 0
  <2>1. vol' = fat_alloc(vol) /\ Return(-1)
    BY <1>3 DEF MkdirBegin
  <2>2. pc' = "idle" /\ op' = NoOp /\ result' = -1 /\ (~failed' => ~failed)
    BY <2>1 DEF Return
  <2>3. /\ Coherent(vol') /\ OffTheFat(vol, vol') /\ SameTable(vol, vol')
        /\ vol'.dirty => vol.dirty
    BY <1>1, <1>3, <2>1, AllocIs
  <2>4. QED
    BY <1>1, <2>2, <2>3, Idled
<1>4. CASE FindDir(vol, d) = FREE /\ c # 0
  <2>1. /\ vol' = fat_alloc(vol) /\ pc' = "zero" /\ UNCHANGED <<result, failed>>
        /\ op' = [NoOp EXCEPT !.path = <<d>>, !.mkdir = TRUE, !.clus = c]
    BY <1>4 DEF MkdirBegin
  <2>2. op' = [i \in OpFields |-> op'[i]]
    BY <2>1, NoOpIs DEF OpFields
  <2>3. /\ op'.path = <<d>> /\ op'.slot = <<0, 0>> /\ op'.clus = c
        /\ op'.first = 0 /\ op'.prev = 0
    BY <2>1 DEF NoOp
  <2>4. op'.mkdir = TRUE
    BY <2>1 DEF NoOp
  <2>5. op'.ok = TRUE
    BY <2>1 DEF NoOp
  <2>6. /\ Coherent(vol') /\ OffTheFat(vol, vol')
        /\ Table' = [Table EXCEPT ![c] = EOC] /\ c \in Clusters /\ Table[c] = 0
    BY <1>1, <1>4, <2>1, AllocIs, FreeAre DEF Table
  <2>7. \A b \in Clusters : Table'[b] = IF b = c THEN EOC ELSE Table[b]
    <3>1. \A b \in Clusters : b \in DOMAIN Table
      BY ClusterNumbers DEF Table, DriverFat
    <3>2. QED
      BY <2>6, <3>1
  <2>8. \A b \in Taken : b \in Clusters /\ Table[b] # 0
    BY HeldAre DEF IInv, Dirs, Taken, Table
  <2>9. c \notin Taken /\ \A b \in Taken : Table'[b] = Table[b]
    BY <2>6, <2>7, <2>8
  <2>10. op'.slot = op.slot
    BY <1>1, <2>3, NoOpIs
  <2>11. Dirs' /\ Harmless /\ Taken' = Taken
    BY <2>6, <2>9, <2>10, Quiet
  <2>12. Hand = {} /\ Hand' = {c}
    BY <1>1, <2>1, <2>3, <2>4 DEF Hand
  <2>13. HandApart' /\ Cache'
    BY <2>1, <2>6, <2>9, <2>11, <2>12 DEF HandApart, Cache
  <2>14. Unlost'
    BY <1>1, <2>1, <2>7, <2>11, <2>12 DEF Unlost, IInv
  <2>15. IsEnd(Table'[c])
    BY <2>6, <2>7, ClusterNumbers
  <2>16. MkdirOK'
    BY <2>1, <2>3, <2>5, <2>6, <2>15 DEF MkdirOK
  <2>17. CallOK'
    BY <2>1, <2>4, <2>16 DEF CallOK
  <2>18. Types'
    BY <1>1, <2>1, <2>2, <2>3, <2>4, <2>5, <2>6
       DEF Types, TypeOK, IInv, Coherent
  <2>19. QED
    BY <2>11, <2>13, <2>14, <2>17, <2>18 DEF IInv
<1>5. QED
  BY <1>2, <1>3, <1>4

LEMMA ReadFileStep ==
  ASSUME IInv, NEW p \in Paths, ReadFile(p)
  PROVE  IInv' /\ Harmless
<1> DEFINE ch == Chain(DriverFat(vol), fat16_find_file(vol, DriverFat(vol), p).clus)
<1>1. /\ pc = "idle" /\ Coherent(vol) /\ op = NoOp
      /\ UNCHANGED <<pc, op, ops, result, expect, failed>>
      /\ \E n \in 0 .. Len(ch) :
           vol' = AfterWalk(AfterWalk(vol, DirChain(p)), SubSeq(ch, 1, n))
  BY DEF ReadFile, IInv, Cache, CallOK
<1>2. ch \in Seq(Clusters)
  BY ChainShape
<1> HIDE DEF ch
<1>3. PICK n \in 0 .. Len(ch) :
        vol' = AfterWalk(AfterWalk(vol, DirChain(p)), SubSeq(ch, 1, n))
  BY <1>1
<1>4. PICK s : s = AfterWalk(vol, DirChain(p))
  OBVIOUS
<1>5. DirChain(p) \in Seq(Clusters) /\ SubSeq(ch, 1, n) \in Seq(Clusters)
  BY <1>2, SlotsForAre, FirstLinks
<1>6. /\ Coherent(s) /\ OffTheFat(vol, s) /\ SameTable(vol, s)
      /\ s.dirty => vol.dirty
  BY <1>1, <1>4, <1>5, WalkedIs
<1>7. /\ Coherent(vol') /\ OffTheFat(s, vol') /\ SameTable(s, vol')
      /\ vol'.dirty => s.dirty
  BY <1>3, <1>4, <1>5, <1>6, WalkedIs
<1>8. /\ OffTheFat(vol, vol') /\ SameTable(vol, vol')
      /\ vol'.dirty => vol.dirty
  BY <1>6, <1>7 DEF OffTheFat, SameTable
<1>9. ops \in 0 .. MaxOps /\ result \in {-1, 0} \union Sizes
  BY DEF IInv, Types, TypeOK
<1>10. QED
  BY <1>1, <1>7, <1>8, <1>9, Idled

(* The entries but one.                                                    *)
LEMMA Parted ==
  ASSUME NEW s, NEW all, ChainsApart(s, all), NEW x, NEW es,
         \A a : a \in es <=> a \in all /\ a # x
  PROVE  /\ ChainsApart(s, es)
         /\ x \in all => \A c \in ClustersOf(s, x) : c \notin Held(s, es)
         /\ \A c \in Held(s, all) :
              c \in Held(s, es) \/ (x \in all /\ c \in ClustersOf(s, x))
<1>1. /\ \A a \in all : Sound(DriverFat(s), Entry(s, a).clus)
      /\ \A a, b \in all : a # b => ClustersOf(s, a) \intersect ClustersOf(s, b) = {}
  BY ApartIs
<1>2. /\ \A a \in es : Sound(DriverFat(s), Entry(s, a).clus)
      /\ \A a, b \in es : a # b => ClustersOf(s, a) \intersect ClustersOf(s, b) = {}
  BY <1>1
<1>3. ChainsApart(s, es)
  BY <1>2, ApartIs
<1>4. x \in all => \A c \in ClustersOf(s, x) : c \notin Held(s, es)
  BY <1>1 DEF Held
<1>5. \A c \in Held(s, all) :
        c \in Held(s, es) \/ (x \in all /\ c \in ClustersOf(s, x))
  BY DEF Held
<1>6. QED
  BY <1>3, <1>4, <1>5

LEMMA NamesAre ==
  ASSUME NEW p \in Paths
  PROVE  NameOf(p) \in FileNames
<1>1. CASE p \in {<<f>> : f \in FileNames}
  BY <1>1 DEF NameOf
<1>2. CASE p \in DirNames \X FileNames
  BY <1>2 DEF NameOf
<1>3. QED
  BY <1>1, <1>2 DEF Paths

(* What the entry in the slot of a write is.                               *)
LEMMA Replaced ==
  ASSUME NEW s, DirsWhole(s), ChainsApart(s, AllEntries(s)), NEW p \in Paths,
         NEW slot \in AllSlots(s), Suits(p, Entry(s, slot)),
         NEW old, old = Entry(s, slot).clus
  PROVE  /\ Entry(s, slot).dir = FALSE
         /\ slot \notin AllEntries(s) => Entry(s, slot) \in Empty /\ old = 0
         /\ slot \in AllEntries(s) =>
              /\ Entry(s, slot) \notin Empty /\ old \in Clusters /\ old # 0
              /\ Sound(DriverFat(s), old) /\ InWindow(old)
              /\ ClustersOf(s, slot) = Mem(DriverFat(s), old)
<1>1. CASE slot \notin AllEntries(s)
  <2>1. Entry(s, slot) = FREE \/ Entry(s, slot) = DELETED
    BY <1>1 DEF AllEntries, Empty
  <2>2. FREE.clus = 0 /\ DELETED.clus = 0
    BY DEF FREE, DELETED
  <2>3. FREE.dir = FALSE /\ DELETED.dir = FALSE
    BY DEF FREE, DELETED
  <2>4. QED
    BY <1>1, <2>1, <2>2, <2>3 DEF Empty
<1>2. CASE slot \in AllEntries(s)
  <2>1. Entry(s, slot) \notin Empty
    BY <1>2 DEF AllEntries
  <2>2. Entry(s, slot).name \in FileNames
    BY <2>1, NamesAre DEF Suits
  <2>3. /\ Sound(DriverFat(s), old) /\ old \in Clusters /\ old # 0
        /\ ClustersOf(s, slot) = Mem(DriverFat(s), old)
    BY <1>2, ApartIs, HeldIs, SoundShape, ClusterNumbers
  <2>4. ~Entry(s, slot).dir /\ InWindow(old)
    BY <1>2, <2>2 DEF DirsWhole
  <2>5. QED
    BY <1>2, <2>1, <2>3, <2>4
<1>3. QED
  BY <1>1, <1>2

LEMMA WriteBeginStep ==
  ASSUME IInv, NEW p \in Paths, NEW n \in Sizes, WriteBegin(p, n)
  PROVE  IInv' /\ Harmless
<1> DEFINE slot == WriteSlot(p)
           old == Entry(vol, slot).clus
           all == AllEntries(vol)
           es == {a \in all : a # slot}
<1>1. /\ pc = "idle" /\ op = NoOp /\ op.ok /\ Coherent(vol) /\ ~vol.dirty
      /\ DirsWhole(vol) /\ ChainsApart(vol, all) /\ Others = all
      /\ ops' \in 0 .. MaxOps
  <2>1. ops < MaxOps /\ ops' = ops + 1 /\ ops \in 0 .. MaxOps /\ MaxOps \in Nat
    BY BoundsAssumption DEF WriteBegin, IInv, Types, TypeOK
  <2>2. ops' \in 0 .. MaxOps
    BY <2>1
  <2>3. /\ pc = "idle" /\ op = NoOp /\ op.ok /\ Coherent(vol) /\ ~vol.dirty
        /\ op.slot = <<0, 0>>
    BY NoOpIs DEF WriteBegin, IInv, Cache, CallOK
  <2>4. Others = all
    BY <2>3, OthersAre
  <2>5. QED
    BY <2>2, <2>3, <2>4 DEF IInv, Dirs
<1>2. /\ Coherent(vol') /\ OffTheFat(vol, vol') /\ SameTable(vol, vol')
      /\ vol'.dirty => vol.dirty
  <2>1. vol' = AfterWalk(vol, WriteLinks(p)) /\ WriteLinks(p) \in Seq(Clusters)
    BY WriteLinksAre DEF WriteBegin
  <2>2. QED
    BY <1>1, <2>1, WalkedIs
<1>3. CASE slot = <<>>
  <2>1. Return(-1) /\ expect' = expect
    BY <1>3 DEF WriteBegin
  <2>2. pc' = "idle" /\ op' = NoOp /\ result' = -1 /\ (~failed' => ~failed)
    BY <2>1 DEF Return
  <2>3. QED
    BY <1>1, <1>2, <2>1, <2>2, Idled
<1>4. CASE slot # <<>>
  <2>1. /\ op' = [NoOp EXCEPT !.path = p, !.size = n, !.slot = slot, !.clus = old]
        /\ pc' = IF old = 0 THEN "alloc" ELSE "free"
        /\ expect' = [expect EXCEPT ![p] = Unknown]
        /\ UNCHANGED <<result, failed>>
    BY <1>4 DEF WriteBegin, OldChain
  <2>2. slot \in AllSlots(vol) /\ Suits(p, Entry(vol, slot))
    BY <1>4, WriteSlotIs
  <2>3. /\ Entry(vol, slot).dir = FALSE
        /\ slot \notin all => Entry(vol, slot) \in Empty /\ old = 0
        /\ slot \in all =>
             /\ Entry(vol, slot) \notin Empty /\ old \in Clusters /\ old # 0
             /\ Sound(Table, old) /\ InWindow(old)
             /\ ClustersOf(vol, slot) = Mem(Table, old)
    BY <1>1, <2>2, Replaced DEF Table
  <2> HIDE DEF slot, old
  <2>4. op' = [i \in OpFields |-> op'[i]]
    BY <2>1, NoOpIs DEF OpFields
  <2>5. /\ op'.path = p /\ op'.size = n /\ op'.slot = slot /\ op'.clus = old
        /\ op'.first = 0 /\ op'.prev = 0
    BY <2>1 DEF NoOp
  <2>6. op'.mkdir = FALSE
    BY <2>1 DEF NoOp
  <2>7. op'.ok = TRUE
    BY <2>1 DEF NoOp
  <2>8. /\ SameDirs(vol, vol') /\ DirsWhole(vol') /\ ChainsApart(vol', all)
        /\ Held(vol', all) = Held(vol, all)
    <3>1. PICK X : X = {}
      OBVIOUS
    <3>2. /\ \A l \in X : l \notin RootLbas
          /\ \A c \in Held(vol, all) : \A l \in ClusterLbas(c) : l \notin X
          /\ \A l \in Lbas : l >= RootStart /\ l \notin X => vol'.disk[l] = vol.disk[l]
          /\ \A c \in Held(vol, all) : DriverFat(vol')[c] = DriverFat(vol)[c]
      BY <1>2, <3>1 DEF OffTheFat, SameTable
    <3>3. DirEntries(vol) \subseteq all /\ all \subseteq AllSlots(vol)
      BY SlotsAre
    <3> HIDE DEF all
    <3>4. QED
      BY <1>1, <3>2, <3>3, Kept
  <2>9. AllEntries(vol') = all /\ Others' = es
    BY <2>5, <2>8 DEF SameDirs, Others
  <2>10. /\ Table' = Table /\ Entry(vol', slot) = Entry(vol, slot)
         /\ slot \in AllSlots(vol')
    BY <1>2, <2>2, <2>8 DEF SameTable, SameDirs, Table
  <2>11. /\ ChainsApart(vol', es)
         /\ slot \in all => \A c \in ClustersOf(vol', slot) : c \notin Held(vol', es)
         /\ \A c \in Held(vol', all) :
              c \in Held(vol', es) \/ (slot \in all /\ c \in ClustersOf(vol', slot))
    <3>1. \A a : a \in es <=> a \in all /\ a # slot
      OBVIOUS
    <3> HIDE DEF all, es
    <3>2. QED
      BY <2>8, <3>1, Parted
  <2>12. slot \in all => ClustersOf(vol', slot) = Mem(Table, old)
    BY <1>2, <2>3, <2>10 DEF ClustersOf, SameTable
  <2>13. Hand = {} /\ Taken = Held(vol, all) /\ Taken' = Held(vol', es)
    BY <1>1, <2>9 DEF Hand, Taken
  <2>14. Built' = {}
    BY <2>5 DEF Built
  <2>15. /\ slot \in all => pc' = "free" /\ Hand' = Mem(Table, old)
         /\ slot \notin all => pc' = "alloc" /\ Hand' = {}
    <3>1. CASE slot \in all
      <4>1. pc' = "free" /\ op'.clus = old /\ ~op'.mkdir
        BY <2>1, <2>3, <2>5, <2>6, <3>1
      <4>2. Hand' = Mem(Table, old)
        BY <2>10, <4>1 DEF Hand
      <4>3. QED
        BY <3>1, <4>1, <4>2
    <3>2. CASE slot \notin all
      <4>1. pc' = "alloc" /\ ~op'.mkdir
        BY <2>1, <2>3, <2>6, <3>2
      <4>2. QED
        BY <2>14, <3>2, <4>1 DEF Hand
    <3>3. QED
      BY <3>1, <3>2
  <2> HIDE DEF all, es
  <2>16. HandApart'
    BY <2>11, <2>12, <2>13, <2>15 DEF HandApart
  <2>17. Unlost'
    <3> SUFFICES ASSUME ~failed', NEW c \in Clusters, Table'[c] # 0
                 PROVE  c \in Taken' \union Hand'
      BY DEF Unlost
    <3>1. c \in Held(vol, all)
      BY <1>1, <2>1, <2>10, <2>13 DEF IInv, Unlost
    <3>2. QED
      BY <2>8, <2>11, <2>12, <2>13, <2>15, <3>1
  <2>18. Dirs' /\ Cache'
    BY <1>1, <1>2, <2>8, <2>9, <2>11, <2>15 DEF Dirs, Cache
  <2>19. Old' = old /\ Entry(vol, op.slot)' = Entry(vol, slot)
    BY <2>5, <2>10 DEF Old, old
  <2>20. OldOK'
    BY <2>3, <2>5, <2>10, <2>15, <2>19 DEF OldOK
  <2>21. BuiltOK'
    BY <2>5, <2>7, <2>15 DEF BuiltOK
  <2>22. pc' = "free" => FreeOK'
    BY <2>3, <2>5, <2>7, <2>10, <2>15, <2>19 DEF FreeOK
  <2>23. CallOK'
    BY <2>5, <2>6, <2>15, <2>20, <2>21, <2>22 DEF CallOK, WriteOK
  <2>24. Types'
    <3>1. /\ DOMAIN expect' = Paths
          /\ \A q \in Paths :
               expect'[q] \in {Absent, Unknown} \union (0 .. MaxOps) \X Sizes
      BY <2>1 DEF IInv, Types, TypeOK
    <3>2. op'.clus \in {0} \union Clusters
      BY <2>3, <2>5
    <3>3. result' \in {-1, 0} \union Sizes
      BY <2>1 DEF IInv, Types, TypeOK
    <3>4. pc' \in {"alloc", "free"}
      BY <2>15
    <3>5. TypeOK'
      BY <1>1, <1>2, <2>5, <3>1, <3>2, <3>3, <3>4 DEF TypeOK, Coherent
    <3>6. op'.mkdir \in BOOLEAN
      BY <2>6
    <3>7. op'.ok \in BOOLEAN
      BY <2>7
    <3>8. QED
      BY <2>4, <3>1, <3>5, <3>6, <3>7 DEF Types
  <2>25. Harmless
    <3>1. \A c \in Taken : \A l \in ClusterLbas(c) : vol'.disk[l] = vol.disk[l]
      BY <1>2, OthersAre, SectorsAre DEF OffTheFat
    <3>2. QED
      BY <1>1, <1>2, <2>8, <2>10, <3>1 DEF Harmless, SameDirs
  <2>26. QED
    BY <2>16, <2>17, <2>18, <2>23, <2>24, <2>25 DEF IInv
<1>5. QED
  BY <1>3, <1>4

LEMMA InitIs ==
  ASSUME Init
  PROVE  IInv
<1>1. PICK i \in Images : vol = Mounted(i) /\ expect = i.expect
  BY DEF Init
<1>2. /\ pc = "idle" /\ op = NoOp /\ ops = 0 /\ result = 0 /\ failed = FALSE
  BY DEF Init
<1>3. /\ expect \in [Paths -> {Absent, Unknown} \union (0 .. MaxOps) \X Sizes]
      /\ i.disk = [l \in Lbas |-> i.disk[l]]
      /\ \A l \in FatLbas : i.disk[l] \in Tables
      /\ DirsWhole(vol) /\ ChainsApart(vol, AllEntries(vol)) /\ NothingLost(vol)
  BY <1>1, ImagesAssumption DEF SoundImage, FatLbas, Tables
<1>4. vol = [k \in Fields |-> vol[k]]
  BY <1>1 DEF Mounted, Fields
<1>5. vol.disk = i.disk /\ vol.sec = NoSec /\ vol.dirty = FALSE
  BY <1>1 DEF Mounted
<1>6. Coherent(vol)
  BY <1>3, <1>4, <1>5 DEF Coherent
<1>7. Others = AllEntries(vol)
  <2>1. \A q \in DirEntries(vol) : ClustersOf(vol, q) \subseteq Clusters
    BY <1>3, HeldAre, SlotsAre
  <2>2. \A sl \in AllEntries(vol) : sl[1] # 0
    BY <2>1, SlotPlaces, SlotsAre
  <2>3. op.slot = <<0, 0>>
    BY <1>2, NoOpIs
  <2>4. \A sl \in AllEntries(vol) : sl # <<0, 0>>
    BY <2>2
  <2>5. QED
    BY <2>3, <2>4 DEF Others
<1>8. Dirs /\ Taken = Held(vol, AllEntries(vol)) /\ Hand = {}
  BY <1>2, <1>3, <1>7 DEF Dirs, Taken, Hand
<1>9. HandApart /\ Unlost
  BY <1>3, <1>8 DEF HandApart, Unlost, NothingLost, Table
<1>10. Cache /\ CallOK
  BY <1>2, <1>5, <1>6 DEF Cache, CallOK
<1>11. Types
  <2>1. op.mkdir \in BOOLEAN
    BY <1>2, NoOpIs
  <2>2. op.ok \in BOOLEAN
    BY <1>2, NoOpIs
  <2>3. op.clus = 0 /\ op.first = 0 /\ op.prev = 0
    BY <1>2, NoOpIs
  <2>4. op = [k \in OpFields |-> op[k]]
    BY <1>2, NoOpIs
  <2>5. ops \in 0 .. MaxOps
    BY <1>2, BoundsAssumption
  <2>6. TypeOK
    BY <1>2, <1>3, <1>6, <2>3, <2>5 DEF TypeOK, Coherent
  <2>7. QED
    BY <1>3, <2>1, <2>2, <2>4, <2>6 DEF Types
<1>12. QED
  BY <1>8, <1>9, <1>10, <1>11 DEF IInv

LEMMA NothingHappens ==
  ASSUME IInv, UNCHANGED vars
  PROVE  IInv'
BY DEF vars, IInv, Types, TypeOK, Cache, Dirs, HandApart, Unlost, CallOK, MkdirOK,
       WriteOK, OldOK, FreeOK, BuiltOK, Table, Others, Taken, Built, Hand, Old

(* The invariant holds in every state: the cached FAT sector and the       *)
(* sectors agree, the chains of all entries and those of the running call  *)
(* are sound and apart, and nothing else is marked used.                   *)
THEOREM Fat16Invariant == Spec => []IInv
<1>1. Init => IInv
  BY InitIs
<1>2. IInv /\ [Next]_vars => IInv'
  <2> SUFFICES ASSUME IInv, [Next]_vars PROVE IInv'
    OBVIOUS
  <2>1. ASSUME NEW p \in Paths, NEW n \in Sizes, WriteBegin(p, n) PROVE IInv'
    BY <2>1, WriteBeginStep
  <2>2. ASSUME NEW d \in DirNames, MkdirBegin(d) PROVE IInv'
    BY <2>2, MkdirBeginStep
  <2>3. ASSUME NEW p \in Paths, ReadFile(p) PROVE IInv'
    BY <2>3, ReadFileStep
  <2>4. CASE FreeOld
    BY <2>4, FreeOldStep
  <2>5. CASE Alloc
    BY <2>5, AllocStep
  <2>6. CASE Link
    BY <2>6, LinkStep
  <2>7. CASE WriteData
    BY <2>7, WriteDataStep
  <2>8. CASE FlushFirst
    BY <2>8, FlushFirstStep
  <2>9. CASE FlushSecond
    BY <2>9, FlushSecondStep
  <2>10. CASE WriteEntry
    BY <2>10, WriteEntryStep
  <2>11. CASE MkdirZero
    BY <2>11, MkdirZeroStep
  <2>12. CASE MkdirEntry
    BY <2>12, MkdirEntryStep
  <2>13. CASE UNCHANGED vars
    BY <2>13, NothingHappens
  <2>14. QED
    BY <2>1, <2>2, <2>3, <2>4, <2>5, <2>6, <2>7, <2>8, <2>9, <2>10, <2>11,
       <2>12, <2>13 DEF Next, Step
<1>3. QED
  BY <1>1, <1>2, PTL DEF Spec

(* Between calls the cache holds nothing the disk layer does not have, and *)
(* whenever it is not dirty it is what the sector on the disk is: the late *)
(* write-back of fat_load_sector and fat_flush loses no update.            *)
THEOREM CacheAgrees == Spec => []CacheCoherent
<1>1. IInv => CacheCoherent
  BY DEF IInv, Cache, Coherent, CacheCoherent
<1>2. QED
  BY <1>1, Fat16Invariant, PTL

(* Between calls, also after calls that failed half way, every entry on    *)
(* the volume starts a chain of data clusters that ends, and no two share  *)
(* a cluster: fat16_write_file never frees or takes a cluster of another.  *)
THEOREM ChainsStaySound == Spec => []ChainsSound
<1>1. IInv => ChainsSound
  <2> SUFFICES ASSUME IInv PROVE ChainsSound
    OBVIOUS
  <2>1. pc = "idle" => Others = AllEntries(vol)
    BY OthersAre, NoOpIs DEF IInv, CallOK
  <2>2. QED
    BY <2>1 DEF IInv, Types, Dirs, ChainsSound
<1>2. QED
  BY <1>1, Fat16Invariant, PTL

(* Until a call fails, the clusters marked used are those of the entries'  *)
(* chains, no more and no fewer: fat16_write_file, which frees the chain   *)
(* it replaces, and fat16_mkdir leak nothing.                              *)
THEOREM NothingLeaks == Spec => []NoLeak
<1>1. IInv => NoLeak
  <2> SUFFICES ASSUME IInv, pc = "idle", ~failed PROVE NothingLost(vol)
    BY DEF NoLeak
  <2>1. op.ok /\ Others = AllEntries(vol) /\ Hand = {}
    BY OthersAre, NoOpIs DEF IInv, CallOK, Hand
  <2>2. /\ Held(vol, AllEntries(vol)) \subseteq Clusters
        /\ \A c \in Held(vol, AllEntries(vol)) : DriverFat(vol)[c] # 0
    BY <2>1, HeldAre DEF IInv, Dirs
  <2>3. \A c \in Clusters : DriverFat(vol)[c] # 0 => c \in Held(vol, AllEntries(vol))
    BY <2>1 DEF IInv, Unlost, Table, Taken
  <2>4. QED
    BY <2>2, <2>3 DEF NothingLost
<1>2. QED
  BY <1>1, Fat16Invariant, PTL
=============================================================================
