--------------------------- MODULE SurvivalProofs ----------------------------
(***************************************************************************)
(* What was saved is what is read back: whenever the power goes, in any    *)
(* phase of any call, every file but the one being written reads as it was *)
(* last written.  A file is found by a search along the slots of its       *)
(* directory, which ends at the first FREE one; so a step must leave alone *)
(* every slot before the file's, the links and the sectors of the file and *)
(* of its directory, and the copy of these links on the disk.  The second  *)
(* half follows the sectors to the medium, for which a flush may have got  *)
(* anywhere.                                                               *)
(***************************************************************************)
EXTENDS Fat16Proofs, Storage

-----------------------------------------------------------------------------
(* A search along slots, for the indices in N.                             *)
Stops(s, slots, N) ==
  {n \in DOMAIN slots :
     slots[n][1] >= Window \/ Entry(s, slots[n]) = FREE \/ n \in N}

Found(s, slots, n) ==
  IF slots[n][1] >= Window THEN FREE ELSE Entry(s, slots[n])

Look(s, slots, N) ==
  IF Stops(s, slots, N) = {} THEN FREE
  ELSE Found(s, slots, CHOOSE n \in Stops(s, slots, N) :
                         \A m \in Stops(s, slots, N) : n <= m)

DirHits(s, d) ==
  {n \in DOMAIN RootSlots :
     Entry(s, RootSlots[n]).dir /\ Entry(s, RootSlots[n]).name = d}

FileHits(s, slots, f) ==
  {n \in DOMAIN slots :
     Entry(s, slots[n]) \notin Empty /\ Entry(s, slots[n]).name = f}

(* A scan order: slots of sectors of the partition.                        *)
Scan(slots) ==
  /\ DOMAIN slots \subseteq Nat \ {0}
  /\ \A n \in DOMAIN slots :
       slots[n] = <<slots[n][1], slots[n][2]>> /\ slots[n][1] \in Lbas

(* The searches of the module are searches in this sense.                  *)
LEMMA RootScan ==
  /\ Scan(RootSlots)
  /\ \A n \in DOMAIN RootSlots : RootSlots[n][1] < Window
<1>1. \A n \in DOMAIN RootSlots : RootSlots[n] \in RootLbas \X Indices
  BY RootSlotsAre
<1>2. ASSUME NEW n \in DOMAIN RootSlots
      PROVE  /\ RootSlots[n] = <<RootSlots[n][1], RootSlots[n][2]>>
             /\ RootSlots[n][1] \in RootLbas
  BY <1>1
<1>3. DOMAIN RootSlots \subseteq Nat \ {0}
  <2>1. [n \in 1 .. RootSectors |-> RootStart + n - 1] \in Seq(Nat)
    <3>1. \A n \in 1 .. RootSectors : RootStart + n - 1 \in Nat
      BY Geometry
    <3>2. QED
      BY <3>1, Geometry
  <2>2. Len([n \in 1 .. RootSectors |-> RootStart + n - 1]) = RootSectors
    BY Geometry
  <2>3. DOMAIN RootSlots = 1 .. RootSectors * DPS
    BY <2>1, <2>2, SlotsOfAre DEF RootSlots
  <2>4. QED
    BY <2>3
<1>4. QED
  BY <1>2, <1>3, RootSlotsAre DEF Scan

LEMMA FindDirLooks ==
  ASSUME NEW s, NEW d
  PROVE  FindDir(s, d) = Look(s, RootSlots, DirHits(s, d))
<1> DEFINE st == Stops(s, RootSlots, DirHits(s, d))
           hits == {n \in DOMAIN RootSlots :
                      \/ RootSlots[n][1] >= Window
                      \/ Entry(s, RootSlots[n]) = FREE
                      \/ Entry(s, RootSlots[n]).dir /\ Entry(s, RootSlots[n]).name = d}
           n == IF hits = {} THEN 0
                ELSE CHOOSE i \in hits : \A j \in hits : i <= j
<1>1. hits = st
  BY DEF Stops, DirHits
<1>2. FindDir(s, d) = IF n = 0 THEN FREE
                      ELSE IF RootSlots[n][1] >= Window THEN FREE
                      ELSE Entry(s, RootSlots[n])
  BY DEF FindDir, Lookup, First
<1>3. st # {} => (CHOOSE i \in st : \A j \in st : i <= j) # 0
  <2>1. st \subseteq Nat \ {0}
    BY RootScan DEF Stops, Scan
  <2> HIDE DEF st
  <2>2. st # {} => \E i \in st : \A j \in st : i <= j
    BY <2>1, Least
  <2>3. QED
    BY <2>1, <2>2
<1> HIDE DEF hits
<1>4. QED
  BY <1>1, <1>2, <1>3 DEF Look, Found

LEMMA FindFileLooks ==
  ASSUME NEW s, NEW fat, NEW p, NEW slots, slots = SlotsFor(s, fat, p), Scan(slots)
  PROVE  fat16_find_file(s, fat, p) = Look(s, slots, FileHits(s, slots, NameOf(p)))
<1> DEFINE st == Stops(s, slots, FileHits(s, slots, NameOf(p)))
           hits == {n \in DOMAIN slots :
                      \/ slots[n][1] >= Window
                      \/ Entry(s, slots[n]) = FREE
                      \/ Entry(s, slots[n]) \notin Empty
                           /\ Entry(s, slots[n]).name = NameOf(p)}
           n == IF hits = {} THEN 0
                ELSE CHOOSE i \in hits : \A j \in hits : i <= j
<1>1. hits = st
  BY DEF Stops, FileHits
<1>2. fat16_find_file(s, fat, p)
        = IF n = 0 THEN FREE
          ELSE IF slots[n][1] >= Window THEN FREE ELSE Entry(s, slots[n])
  BY DEF fat16_find_file, Lookup, First
<1>3. st # {} => (CHOOSE i \in st : \A j \in st : i <= j) # 0
  <2>1. st \subseteq Nat \ {0}
    BY DEF Stops, Scan
  <2> HIDE DEF st
  <2>2. st # {} => \E i \in st : \A j \in st : i <= j
    BY <2>1, Least
  <2>3. QED
    BY <2>1, <2>2
<1> HIDE DEF hits
<1>4. QED
  BY <1>1, <1>2, <1>3 DEF Look, Found

(* The search ends at the first index that stops it.                       *)
LEMMA LookFirst ==
  ASSUME NEW s, NEW slots, Scan(slots), NEW N,
         NEW n \in Stops(s, slots, N), \A m \in Stops(s, slots, N) : n <= m
  PROVE  Look(s, slots, N) = Found(s, slots, n)
<1> DEFINE st == Stops(s, slots, N)
           i == CHOOSE k \in st : \A m \in st : k <= m
<1>1. st \subseteq Nat
  BY DEF Stops, Scan
<1>2. Look(s, slots, N) = Found(s, slots, i)
  BY DEF Look
<1> HIDE DEF st
<1>3. n \in st /\ \A m \in st : n <= m
  BY DEF st
<1>4. i \in st /\ \A m \in st : i <= m
  BY <1>3
<1>5. i = n
  <2> HIDE DEF i
  <2>1. i <= n /\ n <= i /\ i \in Nat /\ n \in Nat
    BY <1>1, <1>3, <1>4
  <2>2. QED
    BY <2>1
<1>6. QED
  BY <1>2, <1>5

LEMMA LookCases ==
  ASSUME NEW s, NEW slots, Scan(slots), NEW N
  PROVE  \/ Stops(s, slots, N) = {} /\ Look(s, slots, N) = FREE
         \/ \E n \in Stops(s, slots, N) :
              /\ \A m \in Stops(s, slots, N) : n <= m
              /\ Look(s, slots, N) = Found(s, slots, n)
<1>1. CASE Stops(s, slots, N) = {}
  BY <1>1 DEF Look
<1>2. CASE Stops(s, slots, N) # {}
  <2>1. Stops(s, slots, N) \subseteq Nat
    BY DEF Stops, Scan
  <2>2. \E n \in Stops(s, slots, N) : \A m \in Stops(s, slots, N) : n <= m
    BY <1>2, <2>1, Least
  <2>3. QED
    BY <2>2, LookFirst
<1>3. QED
  BY <1>1, <1>2

(* Where all slots hold what they held, a search finds what it found.      *)
LEMMA LookSame ==
  ASSUME NEW s, NEW r, NEW slots, Scan(slots), NEW N, NEW M,
         \A n \in DOMAIN slots : slots[n][1] < Window =>
           Entry(r, slots[n]) = Entry(s, slots[n]) /\ (n \in M <=> n \in N)
  PROVE  Look(r, slots, M) = Look(s, slots, N)
<1>1. \A n \in DOMAIN slots : slots[n][1] < Window \/ slots[n][1] >= Window
  BY Geometry DEF Scan, Lbas
<1>2. Stops(r, slots, M) = Stops(s, slots, N)
  BY <1>1 DEF Stops
<1>3. \A n \in DOMAIN slots : Found(r, slots, n) = Found(s, slots, n)
  BY <1>1 DEF Found
<1>4. CASE Stops(s, slots, N) = {}
  BY <1>2, <1>4 DEF Look
<1>5. ASSUME NEW n \in Stops(s, slots, N), \A m \in Stops(s, slots, N) : n <= m
      PROVE  Look(r, slots, M) = Look(s, slots, N)
  <2>1. n \in DOMAIN slots
    BY DEF Stops
  <2>2. QED
    BY <1>2, <1>3, <1>5, <2>1, LookFirst
<1>6. QED
  BY <1>4, <1>5, LookCases

(* Filling a slot hides nothing behind it and reveals nothing: a search    *)
(* that ended there finds the next slot FREE, or none.                     *)
LEMMA LookPast ==
  ASSUME NEW s, NEW r, NEW slots, Scan(slots), Ended(s, slots), NEW N, NEW M,
         NEW slot, Entry(r, slot) # FREE,
         \A n \in DOMAIN slots : slots[n][1] < Window /\ slots[n] # slot =>
           Entry(r, slots[n]) = Entry(s, slots[n]) /\ (n \in M <=> n \in N),
         \A n \in DOMAIN slots : slots[n] = slot =>
           slot[1] < Window /\ n \notin N /\ n \notin M
  PROVE  Look(r, slots, M) = Look(s, slots, N)
<1>1. \A n \in DOMAIN slots :
        /\ slots[n][1] < Window <=> ~(slots[n][1] >= Window)
        /\ n \in Nat
  BY Geometry DEF Scan, Lbas
<1>2. \A n \in DOMAIN slots : slots[n] # slot =>
        /\ n \in Stops(r, slots, M) <=> n \in Stops(s, slots, N)
        /\ Found(r, slots, n) = Found(s, slots, n)
  BY <1>1 DEF Stops, Found
<1>3. \A n \in DOMAIN slots : slots[n] = slot =>
        /\ n \notin Stops(r, slots, M)
        /\ n \in Stops(s, slots, N) => Entry(s, slots[n]) = FREE /\ slots[n][1] < Window
  BY <1>1 DEF Stops
<1>4. /\ Stops(s, slots, N) \subseteq DOMAIN slots
      /\ Stops(r, slots, M) \subseteq DOMAIN slots
      /\ Stops(r, slots, M) \subseteq Stops(s, slots, N)
  BY <1>2, <1>3 DEF Stops
<1>5. CASE Stops(s, slots, N) = {}
  BY <1>4, <1>5 DEF Look
<1>6. ASSUME NEW n \in Stops(s, slots, N), \A m \in Stops(s, slots, N) : n <= m
      PROVE  Look(r, slots, M) = Look(s, slots, N)
  <2>1. Look(s, slots, N) = Found(s, slots, n) /\ n \in DOMAIN slots
    BY <1>4, <1>6, LookFirst
  <2>2. CASE slots[n] # slot
    <3>1. n \in Stops(r, slots, M) /\ \A m \in Stops(r, slots, M) : n <= m
      BY <1>2, <1>4, <1>6, <2>1, <2>2
    <3>2. QED
      BY <1>2, <2>1, <2>2, <3>1, LookFirst
  <2>3. CASE slots[n] = slot
    <3>1. Entry(s, slots[n]) = FREE /\ slots[n][1] < Window
      BY <1>3, <2>1, <2>3
    <3>2. Look(s, slots, N) = FREE
      BY <2>1, <3>1 DEF Found
    <3>3. ASSUME NEW m \in Stops(r, slots, M)
          PROVE  Found(r, slots, m) = FREE
      <4>1. m \in DOMAIN slots /\ n <= m /\ slots[m] # slot
        BY <1>3, <1>4, <1>6
      <4>2. n < m
        BY <1>1, <2>1, <2>3, <4>1
      <4>3. slots[m][1] < Window => Entry(s, slots[m]) = FREE
        BY <2>1, <3>1, <4>1, <4>2 DEF Ended
      <4>4. Found(s, slots, m) = FREE
        BY <1>1, <4>1, <4>3 DEF Found
      <4>5. QED
        BY <1>2, <4>1, <4>4
    <3>4. QED
      BY <3>2, <3>3, LookCases
  <2>4. QED
    BY <2>2, <2>3
<1>7. QED
  BY <1>5, <1>6, LookCases

-----------------------------------------------------------------------------
(* The slots of a directory: each is met once.                             *)
LEMMA Quotient ==
  ASSUME NEW k \in Nat \ {0}, NEW i \in Nat
  PROVE  /\ i \div k \in Nat /\ i % k \in 0 .. k - 1
         /\ i = k * (i \div k) + (i % k)
         /\ \A n \in Nat : i < n * k <=> i \div k < n
<1>1. i \div k \in Nat /\ i % k \in 0 .. k - 1 /\ i = k * (i \div k) + (i % k)
  OBVIOUS
<1> DEFINE q == i \div k
           m == i % k
<1> HIDE DEF q, m
<1>2. q \in Nat /\ m \in 0 .. k - 1 /\ i = k * q + m
  BY <1>1 DEF q, m
<1>3. ASSUME NEW n \in Nat, q < n PROVE i < n * k
  <2>1. k * (q + 1) <= k * n
    BY <1>2, <1>3
  <2>2. k * (q + 1) = k * q + k /\ k * n = n * k /\ k * q \in Nat /\ n * k \in Nat
    BY <1>2
  <2>3. QED
    BY <1>2, <2>1, <2>2
<1>4. ASSUME NEW n \in Nat, ~(q < n) PROVE ~(i < n * k)
  <2>1. k * n <= k * q
    BY <1>2, <1>4
  <2>2. k * n = n * k /\ k * q \in Nat /\ n * k \in Nat
    BY <1>2
  <2>3. QED
    BY <1>2, <2>1, <2>2
<1>5. QED
  BY <1>1, <1>3, <1>4 DEF q

LEMMA QuotientOnce ==
  ASSUME NEW k \in Nat \ {0}, NEW i \in Nat, NEW j \in Nat,
         i \div k = j \div k, i % k = j % k
  PROVE  i = j
BY Quotient

Once(slots) ==
  \A n, m \in DOMAIN slots : slots[n] = slots[m] => n = m

LEMMA SlotsOfOnce ==
  ASSUME NEW S, NEW lbas \in Seq(S), Once(lbas)
  PROVE  Once(SlotsOf(lbas))
<1> DEFINE N == Len(lbas) * DPS
           slots == SlotsOf(lbas)
<1>1. DPS \in Nat \ {0} /\ Len(lbas) \in Nat
  BY Geometry
<1>2. SUFFICES ASSUME NEW n \in 1 .. N, NEW m \in 1 .. N,
                      SlotsOf(lbas)[n] = SlotsOf(lbas)[m]
               PROVE  n = m
  <2>1. DOMAIN slots = 1 .. N
    BY SlotsOfAre
  <2> HIDE DEF slots, N
  <2>2. QED
    BY <2>1 DEF Once, slots
<1> DEFINE i == n - 1
           j == m - 1
<1>3. N \in Nat
  BY <1>1
<1>4. i \in Nat /\ j \in Nat /\ i < N /\ j < N
  BY <1>3
<1>5. /\ SlotsOf(lbas)[n] = <<lbas[i \div DPS + 1], i % DPS>>
      /\ SlotsOf(lbas)[m] = <<lbas[j \div DPS + 1], j % DPS>>
  BY DEF SlotsOf
<1>6. n = i + 1 /\ m = j + 1
  BY <1>3
<1> HIDE DEF i, j
<1>7. lbas[i \div DPS + 1] = lbas[j \div DPS + 1] /\ i % DPS = j % DPS
  <2> DEFINE x == lbas[i \div DPS + 1]
             y == lbas[j \div DPS + 1]
             u == i % DPS
             v == j % DPS
  <2>1. <<x, u>> = <<y, v>>
    BY <1>2, <1>5
  <2> HIDE DEF x, y, u, v
  <2>2. x = y /\ u = v
    BY <2>1
  <2>3. QED
    BY <2>2 DEF x, y, u, v
<1>8. /\ i \div DPS \in Nat /\ j \div DPS \in Nat
      /\ i \div DPS < Len(lbas) /\ j \div DPS < Len(lbas)
  BY <1>1, <1>4, Quotient
<1>9. i \div DPS + 1 = j \div DPS + 1
  <2>1. i \div DPS + 1 \in DOMAIN lbas /\ j \div DPS + 1 \in DOMAIN lbas
    BY <1>1, <1>8
  <2>2. QED
    BY <1>7, <2>1 DEF Once
<1>10. i = j
  <2>1. i \div DPS = j \div DPS
    BY <1>8, <1>9
  <2>2. QED
    BY <1>1, <1>4, <1>7, <2>1, QuotientOnce
<1>11. QED
  BY <1>6, <1>10

LEMMA RootOnce == Once(RootSlots)
<1> DEFINE b == [n \in 1 .. RootSectors |-> RootStart + n - 1]
<1>1. b \in Seq(Nat)
  <2>1. \A n \in 1 .. RootSectors : RootStart + n - 1 \in Nat
    BY Geometry
  <2>2. QED
    BY <2>1, Geometry
<1>2. Once(b)
  BY Geometry DEF Once
<1> HIDE DEF b
<1>3. QED
  BY <1>1, <1>2, SlotsOfOnce DEF RootSlots, b

LEMMA SubdirOnce ==
  ASSUME NEW fat, NEW c, Sound(fat, c)
  PROVE  Once(SubdirSlots(fat, c))
<1> DEFINE ch == Chain(fat, c)
           N == Len(ch) * SPC
           b == [n \in 1 .. N |->
                   clus_lba(ch[(n - 1) \div SPC + 1]) + ((n - 1) % SPC)]
<1>1. /\ Len(ch) \in Nat /\ \A n \in 1 .. Len(ch) : ch[n] \in Clusters
  BY ChainShape
<1>2. \A i, j \in 1 .. Len(ch) : ch[i] = ch[j] => i = j
  BY DEF Sound, Chained
<1>3. SubdirSlots(fat, c) = SlotsOf(b)
  BY DEF SubdirSlots
<1> HIDE DEF ch
<1>4. SPC \in Nat \ {0} /\ N \in Nat
  BY <1>1, Geometry
<1>5. ASSUME NEW n \in 1 .. N
      PROVE  /\ n - 1 \in Nat /\ n - 1 < N
             /\ (n - 1) \div SPC + 1 \in 1 .. Len(ch)
             /\ (n - 1) % SPC \in 0 .. SPC - 1
             /\ b[n] \in Nat
             /\ b[n] \in ClusterLbas(ch[(n - 1) \div SPC + 1])
             /\ b[n] = clus_lba(ch[(n - 1) \div SPC + 1]) + ((n - 1) % SPC)
             /\ clus_lba(ch[(n - 1) \div SPC + 1]) \in Nat
  <2> DEFINE i == n - 1
             q == i \div SPC
             r == i % SPC
             d == ch[q + 1]
  <2>1. i \in Nat /\ i < N
    BY <1>4
  <2>2. b[n] = clus_lba(d) + r
    OBVIOUS
  <2> HIDE DEF i, b
  <2>3. q \in Nat /\ q < Len(ch) /\ r \in 0 .. SPC - 1
    BY <1>1, <1>4, <2>1, Quotient
  <2> HIDE DEF q, r
  <2>4. q + 1 \in 1 .. Len(ch)
    BY <1>1, <2>3
  <2>5. d \in Clusters
    BY <1>1, <2>4
  <2> HIDE DEF d
  <2>6. clus_lba(d) \in Nat /\ ClusterLbas(d) = clus_lba(d) .. clus_lba(d) + SPC - 1
    BY <2>5, ClusterPlace
  <2>7. b[n] \in Nat /\ b[n] \in ClusterLbas(d)
    BY <1>4, <2>2, <2>3, <2>6
  <2>8. QED
    BY <2>1, <2>2, <2>3, <2>4, <2>6, <2>7 DEF i, q, r, d
<1>6. DOMAIN b = 1 .. N
  OBVIOUS
<1>7. b \in Seq(Nat)
  <2>1. b \in [1 .. N -> Nat]
    BY <1>5
  <2> HIDE DEF b, N
  <2>2. QED
    BY <1>4, <2>1
<1> HIDE DEF b, N
<1>8. ASSUME NEW n \in 1 .. N, NEW m \in 1 .. N, b[n] = b[m]
      PROVE  n = m
  <2> DEFINE i == n - 1
             j == m - 1
             x == ch[i \div SPC + 1]
             y == ch[j \div SPC + 1]
  <2>1. /\ x \in Clusters /\ y \in Clusters
        /\ b[n] \in ClusterLbas(x) /\ b[m] \in ClusterLbas(y)
    BY <1>1, <1>5
  <2>2. x = y
    BY <1>8, <2>1, ClustersApart
  <2>3. i \div SPC + 1 = j \div SPC + 1
    BY <1>2, <1>5, <2>2
  <2>4. i \div SPC \in Nat /\ j \div SPC \in Nat /\ i \in Nat /\ j \in Nat
    BY <1>4, <1>5, Quotient
  <2>5. i \div SPC = j \div SPC
    BY <2>3, <2>4
  <2>6. i % SPC = j % SPC
    <3> DEFINE u == i % SPC
               v == j % SPC
               w == clus_lba(x)
    <3>1. b[n] = w + u /\ b[m] = w + v /\ w \in Nat /\ u \in 0 .. SPC - 1 /\ v \in 0 .. SPC - 1
      BY <1>5, <2>2
    <3> HIDE DEF u, v, w
    <3>2. u \in Int /\ v \in Int /\ w \in Int
      <4>1. SPC \in Int
        BY <1>4
      <4>2. QED
        BY <3>1, <4>1
    <3>3. w + u = w + v
      BY <1>8, <3>1
    <3>4. u = v
      BY <3>2, <3>3
    <3>5. QED
      BY <3>4 DEF u, v
  <2>7. i = j
    BY <1>4, <2>4, <2>5, <2>6, QuotientOnce
  <2>8. QED
    BY <1>4, <2>7
<1>9. Once(b)
  BY <1>6, <1>8 DEF Once
<1>10. QED
  BY <1>3, <1>7, <1>9, SlotsOfOnce

LEMMA SubdirScan ==
  ASSUME NEW fat, NEW c
  PROVE  Scan(SubdirSlots(fat, c))
<1> DEFINE slots == SubdirSlots(fat, c)
<1>1. /\ DOMAIN slots = 1 .. Len(Chain(fat, c)) * SPC * DPS
      /\ Len(Chain(fat, c)) \in Nat
      /\ \A n \in DOMAIN slots : slots[n] \in SectorsOf(Mem(fat, c)) \X Indices
  BY SubdirSlotsAre
<1> HIDE DEF slots
<1>2. DOMAIN slots \subseteq Nat \ {0}
  BY <1>1, Geometry
<1>3. \A d \in Mem(fat, c) : d \in Clusters
  BY ChainShape DEF Mem, Members
<1>4. \A l \in SectorsOf(Mem(fat, c)) : l \in Lbas
  BY <1>3, SectorsAre DEF SectorsOf
<1>5. ASSUME NEW n \in DOMAIN slots
      PROVE  slots[n] = <<slots[n][1], slots[n][2]>> /\ slots[n][1] \in Lbas
  BY <1>1, <1>4
<1>6. QED
  BY <1>2, <1>5 DEF Scan, slots

LEMMA SlotsForScan ==
  ASSUME NEW s, NEW fat, NEW p
  PROVE  Scan(SlotsFor(s, fat, p))
<1>1. Scan(<<>>)
  BY DEF Scan
<1>2. QED
  BY <1>1, RootScan, SubdirScan DEF SlotsFor

(* Filling the first empty slot keeps the rest of the directory behind it. *)
LEMMA EndedStill ==
  ASSUME NEW s, NEW r, NEW slots, Scan(slots), Ended(s, slots),
         NEW slot, Entry(r, slot) # FREE,
         \A n \in DOMAIN slots : slots[n][1] < Window /\ slots[n] # slot =>
           Entry(r, slots[n]) = Entry(s, slots[n]),
         \A n, m \in DOMAIN slots :
           slots[n] = slot /\ m < n /\ slots[m][1] < Window =>
             Entry(s, slots[m]) # FREE
  PROVE  Ended(r, slots)
<1>1. SUFFICES ASSUME NEW n \in DOMAIN slots, NEW m \in DOMAIN slots, n < m,
                      slots[n][1] < Window, slots[m][1] < Window,
                      Entry(r, slots[n]) = FREE
               PROVE  Entry(r, slots[m]) = FREE
  BY DEF Ended
<1>2. slots[n] # slot /\ Entry(s, slots[n]) = FREE
  BY <1>1
<1>3. Entry(s, slots[m]) = FREE
  BY <1>1, <1>2 DEF Ended
<1>4. slots[m] # slot
  BY <1>1, <1>2
<1>5. QED
  BY <1>1, <1>3, <1>4

-----------------------------------------------------------------------------
(* What a search finds.                                                    *)
LEMMA DirFound ==
  ASSUME NEW s, NEW d, FindDir(s, d) # FREE
  PROVE  \E q \in DirEntries(s) :
           Entry(s, q) = FindDir(s, d) /\ Entry(s, q).name = d
<1> DEFINE N == DirHits(s, d)
<1>1. FindDir(s, d) = Look(s, RootSlots, N)
  BY FindDirLooks
<1>2. PICK n \in Stops(s, RootSlots, N) : FindDir(s, d) = Found(s, RootSlots, n)
  BY <1>1, RootScan, LookCases
<1>3. /\ n \in DOMAIN RootSlots /\ ~(RootSlots[n][1] >= Window)
      /\ Entry(s, RootSlots[n]) = FindDir(s, d)
  BY <1>2 DEF Found, Stops
<1> DEFINE q == RootSlots[n]
<1>4. Entry(s, q).dir /\ Entry(s, q).name = d /\ q \in SlotsIn(RootSlots)
  BY <1>2, <1>3 DEF Stops, DirHits, SlotsIn
<1> HIDE DEF q
<1>5. Entry(s, q) \notin Empty
  BY <1>4 DEF Empty, FREE, DELETED
<1>6. q \in DirEntries(s)
  BY <1>4, <1>5 DEF DirEntries, RootEntries
<1>7. QED
  BY <1>3, <1>4, <1>6 DEF q

LEMMA FileFound ==
  ASSUME NEW s, NEW fat, NEW p, NEW slots, slots = SlotsFor(s, fat, p),
         fat16_find_file(s, fat, p) # FREE
  PROVE  \E n \in DOMAIN slots :
           /\ slots[n][1] < Window /\ Entry(s, slots[n]) = fat16_find_file(s, fat, p)
           /\ Entry(s, slots[n]) \notin Empty
           /\ Entry(s, slots[n]).name = NameOf(p)
<1> DEFINE N == FileHits(s, slots, NameOf(p))
<1>1. Scan(slots)
  BY SlotsForScan
<1>2. fat16_find_file(s, fat, p) = Look(s, slots, N)
  BY <1>1, FindFileLooks
<1>3. PICK n \in Stops(s, slots, N) : fat16_find_file(s, fat, p) = Found(s, slots, n)
  BY <1>1, <1>2, LookCases
<1>4. /\ n \in DOMAIN slots /\ ~(slots[n][1] >= Window)
      /\ Entry(s, slots[n]) = fat16_find_file(s, fat, p)
  BY <1>3 DEF Found, Stops
<1>5. n \in N /\ slots[n][1] < Window
  BY <1>1, <1>3, <1>4, Geometry DEF Stops, Scan, Lbas
<1>6. QED
  BY <1>4, <1>5 DEF FileHits

-----------------------------------------------------------------------------
(* What a read depends on.                                                 *)
At(ch, i) == clus_lba(ch[i \div SPC + 1]) + (i % SPC)

Count(ch, n) == IF n < Len(ch) * SPC THEN n ELSE Len(ch) * SPC

SectorsRead(s, ch, n) ==
  IF \E k \in 1 .. n : At(ch, k - 1) >= Window THEN Missing
  ELSE [k \in 1 .. n |-> s.disk[At(ch, k - 1)]]

ReadBy(s, fat, e) ==
  IF e = FREE THEN Missing
  ELSE SectorsRead(s, Chain(fat, e.clus), Count(Chain(fat, e.clus), e.size))

LEMMA ReadIs ==
  ASSUME NEW s, NEW fat, NEW p
  PROVE  fat16_read_file(s, fat, p) = ReadBy(s, fat, fat16_find_file(s, fat, p))
BY DEF fat16_read_file, Count, At, SectorsRead, ReadBy

LEMMA SectorAt ==
  ASSUME NEW fat, NEW c, Sound(fat, c), NEW i \in Nat,
         i < Len(Chain(fat, c)) * SPC
  PROVE  /\ i \div SPC + 1 \in 1 .. Len(Chain(fat, c)) /\ i % SPC \in 0 .. SPC - 1
         /\ Chain(fat, c)[i \div SPC + 1] \in Mem(fat, c)
         /\ At(Chain(fat, c), i) \in ClusterLbas(Chain(fat, c)[i \div SPC + 1])
<1> DEFINE ch == Chain(fat, c)
           q == i \div SPC
           r == i % SPC
           d == ch[q + 1]
<1>1. /\ Len(ch) \in Nat /\ DOMAIN ch = 1 .. Len(ch)
      /\ \A n \in 1 .. Len(ch) : ch[n] \in Clusters
  BY ChainShape
<1>2. SPC \in Nat \ {0}
  BY Geometry
<1>3. q \in Nat /\ q < Len(ch) /\ r \in 0 .. SPC - 1
  BY <1>1, <1>2, Quotient
<1>4. Mem(fat, c) = {ch[n] : n \in DOMAIN ch} /\ At(ch, i) = clus_lba(d) + r
  BY DEF Mem, Members, At
<1> HIDE DEF ch, q, r
<1>5. q + 1 \in 1 .. Len(ch)
  BY <1>1, <1>3
<1>6. d \in Clusters /\ d \in Mem(fat, c)
  BY <1>1, <1>4, <1>5
<1> HIDE DEF d
<1>7. At(ch, i) \in ClusterLbas(d)
  BY <1>2, <1>3, <1>4, <1>6, ClusterPlace
<1>8. QED
  BY <1>3, <1>5, <1>6, <1>7 DEF ch, q, r, d

LEMMA ReadSame ==
  ASSUME NEW s, NEW fat, NEW r, NEW fat2, NEW p,
         NEW e, e = fat16_find_file(s, fat, p), e = fat16_find_file(r, fat2, p),
         e # FREE =>
           /\ Sound(fat, e.clus) /\ e.size \in Nat
           /\ \A c \in Mem(fat, e.clus) : fat2[c] = fat[c]
           /\ \A c \in Mem(fat, e.clus) : \A l \in ClusterLbas(c) :
                r.disk[l] = s.disk[l]
  PROVE  fat16_read_file(r, fat2, p) = fat16_read_file(s, fat, p)
<1>1. fat16_read_file(s, fat, p) = ReadBy(s, fat, e)
  BY ReadIs
<1>2. fat16_read_file(r, fat2, p) = ReadBy(r, fat2, e)
  BY ReadIs
<1>3. CASE e = FREE
  BY <1>1, <1>2, <1>3 DEF ReadBy
<1>4. CASE e # FREE
  <2> DEFINE ch == Chain(fat, e.clus)
             n == Count(ch, e.size)
  <2>1. Chain(fat2, e.clus) = ch
    BY <1>4, SoundKept
  <2>2. ReadBy(s, fat, e) = SectorsRead(s, ch, n)
    BY <1>4 DEF ReadBy
  <2>3. ReadBy(r, fat2, e) = SectorsRead(r, ch, n)
    BY <1>4, <2>1 DEF ReadBy
  <2>4. Len(ch) \in Nat
    BY ChainShape
  <2>5. n \in Nat /\ n <= Len(ch) * SPC
    BY <1>4, <2>4, Geometry DEF Count
  <2> HIDE DEF n
  <2>6. ASSUME NEW k \in 1 .. n
        PROVE  r.disk[At(ch, k - 1)] = s.disk[At(ch, k - 1)]
    <3>1. k - 1 \in Nat /\ k - 1 < Len(ch) * SPC
      BY <2>4, <2>5, Geometry
    <3>2. ch[(k - 1) \div SPC + 1] \in Mem(fat, e.clus)
      BY <1>4, <3>1, SectorAt
    <3>3. At(ch, k - 1) \in ClusterLbas(ch[(k - 1) \div SPC + 1])
      BY <1>4, <3>1, SectorAt
    <3>4. QED
      BY <1>4, <3>2, <3>3
  <2> HIDE DEF ch
  <2>7. SectorsRead(r, ch, n) = SectorsRead(s, ch, n)
    BY <2>6 DEF SectorsRead
  <2>8. QED
    BY <1>1, <1>2, <2>2, <2>3, <2>7
<1>5. QED
  BY <1>3, <1>4

-----------------------------------------------------------------------------
(* What follows from the invariant of the chains, of directories first.    *)
LEMMA OtherDirs ==
  ASSUME IInv
  PROVE  /\ \A q \in DirEntries(vol) :
              /\ q \in Others /\ Sound(Table, Entry(vol, q).clus)
              /\ ClustersOf(vol, q) = Mem(Table, Entry(vol, q).clus)
         /\ \A a \in Others :
              /\ a \in AllEntries(vol) /\ Sound(Table, Entry(vol, a).clus)
              /\ ClustersOf(vol, a) = Mem(Table, Entry(vol, a).clus)
              /\ \A c \in ClustersOf(vol, a) : c \in Taken /\ c \in Clusters
              /\ \A b \in Others : a # b =>
                   ClustersOf(vol, a) \intersect ClustersOf(vol, b) = {}
<1>1. DirEntries(vol) \subseteq Others /\ ChainsApart(vol, Others)
  BY OthersAre DEF IInv, Dirs
<1>2. /\ \A a \in Others : Sound(Table, Entry(vol, a).clus)
      /\ \A a, b \in Others : a # b =>
           ClustersOf(vol, a) \intersect ClustersOf(vol, b) = {}
  BY <1>1, ApartIs DEF Table
<1>3. \A a : ClustersOf(vol, a) = Mem(Table, Entry(vol, a).clus)
  BY HeldIs DEF Table
<1>4. \A a \in Others : \A c \in ClustersOf(vol, a) : c \in Taken
  BY DEF Taken, Held
<1>5. Taken \subseteq Clusters /\ \A a \in Others : a \in AllEntries(vol)
  BY OthersAre DEF Others
<1>6. QED
  BY <1>1, <1>2, <1>3, <1>4, <1>5

LEMMA SectorOwner ==
  ASSUME IInv, NEW a \in Others, NEW b \in Others, NEW l,
         l \in SectorsOf(ClustersOf(vol, a)), l \in SectorsOf(ClustersOf(vol, b))
  PROVE  a = b
<1>1. PICK c \in ClustersOf(vol, a) : l \in ClusterLbas(c)
  BY DEF SectorsOf
<1>2. PICK d \in ClustersOf(vol, b) : l \in ClusterLbas(d)
  BY DEF SectorsOf
<1>3. c \in Clusters /\ d \in Clusters
  BY OtherDirs
<1>4. c = d
  BY <1>1, <1>2, <1>3, ClustersApart
<1>5. QED
  BY <1>4, OtherDirs

LEMMA PathForms ==
  ASSUME NEW p \in Paths
  PROVE  \/ Len(p) = 1 /\ p = <<NameOf(p)>>
         \/ Len(p) = 2 /\ p = <<p[1], NameOf(p)>> /\ p[1] \in DirNames
BY DEF Paths, NameOf

(* Where the slots lie in which a path is looked for.                      *)
LEMMA SlotHome ==
  ASSUME IInv, NEW p \in Paths, NEW slots, slots = SlotsFor(vol, Table, p),
         NEW n \in DOMAIN slots
  PROVE  /\ Len(p) = 1 => slots[n][1] < DataStart /\ slots = RootSlots
         /\ Len(p) # 1 =>
              \E q \in DirEntries(vol) :
                /\ Entry(vol, q).name = p[1]
                /\ slots = SubdirSlots(Table, Entry(vol, q).clus)
                /\ slots[n][1] \in SectorsOf(ClustersOf(vol, q))
                /\ slots[n][1] >= DataStart
         /\ slots[n][1] < Window => slots[n] \in AllSlots(vol)
<1>1. slots[n][1] < Window => slots[n] \in AllSlots(vol)
  BY SlotsForAre DEF Table
<1>2. CASE Len(p) = 1
  <2>1. slots = RootSlots
    BY <1>2 DEF SlotsFor
  <2>2. slots[n] \in RootLbas \X Indices
    BY <2>1, RootSlotsAre
  <2>3. slots[n][1] < DataStart
    BY <2>2, RootSlotsAre
  <2>4. QED
    BY <1>1, <1>2, <2>1, <2>3
<1>3. CASE Len(p) # 1
  <2>1. /\ FindDir(vol, p[1]) # FREE
        /\ slots = SubdirSlots(Table, FindDir(vol, p[1]).clus)
    BY <1>3 DEF SlotsFor
  <2>2. PICK q \in DirEntries(vol) :
          Entry(vol, q) = FindDir(vol, p[1]) /\ Entry(vol, q).name = p[1]
    BY <2>1, DirFound
  <2>3. slots = SubdirSlots(Table, Entry(vol, q).clus)
    BY <2>1, <2>2
  <2>4. slots[n] \in SectorsOf(Mem(Table, Entry(vol, q).clus)) \X Indices
    BY <2>3, SubdirSlotsAre
  <2>5. slots[n][1] \in SectorsOf(ClustersOf(vol, q))
    BY <2>4, OtherDirs
  <2>6. PICK c \in ClustersOf(vol, q) : slots[n][1] \in ClusterLbas(c)
    BY <2>5 DEF SectorsOf
  <2>7. slots[n][1] >= DataStart
    BY <2>6, OtherDirs, SectorsAre
  <2>8. QED
    BY <1>1, <1>3, <2>2, <2>3, <2>5, <2>7
<1>4. QED
  BY <1>2, <1>3

(* No two paths of one name are looked for in the same slot.               *)
LEMMA SlotOwner ==
  ASSUME IInv, NEW p \in Paths, NEW w \in Paths, NameOf(p) = NameOf(w),
         NEW n \in DOMAIN SlotsFor(vol, Table, p),
         NEW m \in DOMAIN SlotsFor(vol, Table, w),
         SlotsFor(vol, Table, p)[n] = SlotsFor(vol, Table, w)[m]
  PROVE  p = w
<1> DEFINE l == SlotsFor(vol, Table, p)[n][1]
<1>1. l \in Lbas /\ DataStart \in Nat /\ Lbas \subseteq Nat
  <2>1. Scan(SlotsFor(vol, Table, p))
    BY SlotsForScan
  <2>2. QED
    BY <2>1, Geometry DEF Scan, Lbas
<1>2. l = SlotsFor(vol, Table, w)[m][1]
  OBVIOUS
<1> HIDE DEF l
<1>3. Len(p) = 1 <=> Len(w) = 1
  <2>1. (Len(p) = 1 => l < DataStart) /\ (Len(p) # 1 => l >= DataStart)
    BY SlotHome DEF l
  <2>2. (Len(w) = 1 => l < DataStart) /\ (Len(w) # 1 => l >= DataStart)
    BY <1>2, SlotHome
  <2>3. QED
    BY <1>1, <2>1, <2>2
<1>4. CASE Len(p) = 1
  BY <1>3, <1>4, PathForms
<1>5. CASE Len(p) # 1
  <2>1. PICK q \in DirEntries(vol) :
          Entry(vol, q).name = p[1] /\ l \in SectorsOf(ClustersOf(vol, q))
    BY <1>5, SlotHome DEF l
  <2>2. PICK u \in DirEntries(vol) :
          Entry(vol, u).name = w[1] /\ l \in SectorsOf(ClustersOf(vol, u))
    BY <1>2, <1>3, <1>5, SlotHome
  <2>3. q = u
    BY <2>1, <2>2, OtherDirs, SectorOwner
  <2>4. p[1] = w[1]
    BY <2>1, <2>2, <2>3
  <2>5. QED
    BY <1>3, <1>5, <2>4, PathForms
<1>6. QED
  BY <1>4, <1>5

-----------------------------------------------------------------------------
(***************************************************************************)
(* The invariant of survival.  The first copy of the FAT holds the links   *)
(* of the others as the driver sees them; through the driver every path    *)
(* reads as expected, but the one that is being written; the slot of a     *)
(* write is the first that the directory has for it, and the clusters      *)
(* filled so far hold what is written.                                     *)
(***************************************************************************)
OnDisk == \A c \in Taken : DiskFat(vol)[c] = Table[c]

Reads ==
  \A p \in Paths : expect[p] # Unknown =>
    fat16_read_file(vol, Table, p) = Contents(p, expect[p])

Writing == pc # "idle" /\ ~op.mkdir

FirstSuitable(p, slot) ==
  LET slots == SlotsFor(vol, Table, p)
  IN  \E n \in DOMAIN slots :
        /\ slots[n] = slot /\ Suits(p, Entry(vol, slot))
        /\ \A m \in DOMAIN slots : m < n =>
             slots[m][1] < Window /\ ~Suits(p, Entry(vol, slots[m]))

Placed == Writing => expect[op.path] = Unknown /\ FirstSuitable(op.path, op.slot)

NoDirYet == pc # "idle" /\ op.mkdir => FindDir(vol, op.path[1]) = FREE

(* The first n clusters of the new chain hold what is written.             *)
Stored(n) ==
  \A i \in 0 .. op.size - 1 : i < n * SPC =>
    LET l == At(Chain(Table, op.first), i)
    IN  l < Window /\ vol.disk[l] = Data(op.path, ops, i)

Content ==
  Writing /\ op.ok =>
    /\ op.done \in Nat
    /\ op.first = 0 => op.done = 0
    /\ op.first # 0 =>
         /\ Len(Chain(Table, op.first)) = IF pc = "data" THEN op.done + 1 ELSE op.done
         /\ Stored(op.done)
    /\ pc \in {"flush1", "flush2", "entry"} => op.size <= op.done * SPC

FInv ==
  OnDisk /\ Reads /\ Placed /\ NoDirYet /\ Content /\ DirsEnded(vol)

(* A volume and a table in which the others are as they are now.           *)
Alike(r, fat) ==
  /\ \A sl \in AllSlots(vol) : Entry(r, sl) = Entry(vol, sl)
  /\ \A c \in Taken : fat[c] = Table[c]
  /\ \A c \in Taken : \A l \in ClusterLbas(c) : r.disk[l] = vol.disk[l]

(* Where the links of the others and the directories found are the same,   *)
(* so are the slots of every path.                                         *)
LEMMA SlotsSame ==
  ASSUME IInv, NEW r, NEW fat, NEW p,
         FindDir(r, p[1]) = FindDir(vol, p[1]),
         \A c \in Taken : fat[c] = Table[c]
  PROVE  SlotsFor(r, fat, p) = SlotsFor(vol, Table, p)
<1> DEFINE f == FindDir(vol, p[1])
<1>1. CASE Len(p) = 1 \/ f = FREE
  BY <1>1 DEF SlotsFor
<1>2. CASE Len(p) # 1 /\ f # FREE
  <2>1. PICK q \in DirEntries(vol) : Entry(vol, q) = f
    BY <1>2, DirFound
  <2>2. Sound(Table, f.clus) /\ \A c \in Mem(Table, f.clus) : c \in Taken
    BY <2>1, OtherDirs
  <2>3. Chain(fat, f.clus) = Chain(Table, f.clus)
    BY <2>2, SoundKept
  <2>4. SubdirSlots(fat, f.clus) = SubdirSlots(Table, f.clus)
    BY <2>3 DEF SubdirSlots
  <2>5. QED
    BY <1>2, <2>4 DEF SlotsFor
<1>3. QED
  BY <1>1, <1>2

LEMMA AlikeFinds ==
  ASSUME IInv, NEW r, NEW fat, Alike(r, fat)
  PROVE  /\ \A d : FindDir(r, d) = FindDir(vol, d)
         /\ \A p : SlotsFor(r, fat, p) = SlotsFor(vol, Table, p)
         /\ \A p : fat16_find_file(r, fat, p) = fat16_find_file(vol, Table, p)
<1>1. ASSUME NEW d PROVE FindDir(r, d) = FindDir(vol, d)
  <2>1. \A n \in DOMAIN RootSlots : RootSlots[n] \in AllSlots(vol)
    BY DEF AllSlots, SlotsIn
  <2>2. \A n \in DOMAIN RootSlots : Entry(r, RootSlots[n]) = Entry(vol, RootSlots[n])
    BY <2>1 DEF Alike
  <2>3. \A n \in DOMAIN RootSlots : n \in DirHits(r, d) <=> n \in DirHits(vol, d)
    BY <2>2 DEF DirHits
  <2>4. Look(r, RootSlots, DirHits(r, d)) = Look(vol, RootSlots, DirHits(vol, d))
    BY <2>2, <2>3, RootScan, LookSame
  <2>5. QED
    BY <2>4, FindDirLooks
<1>2. ASSUME NEW p PROVE SlotsFor(r, fat, p) = SlotsFor(vol, Table, p)
  BY <1>1, SlotsSame DEF Alike
<1>3. ASSUME NEW p
      PROVE  fat16_find_file(r, fat, p) = fat16_find_file(vol, Table, p)
  <2> DEFINE slots == SlotsFor(vol, Table, p)
  <2>1. Scan(slots) /\ slots = SlotsFor(r, fat, p)
    BY <1>2, SlotsForScan
  <2>2. \A n \in DOMAIN slots : slots[n][1] < Window => slots[n] \in AllSlots(vol)
    BY SlotsForAre DEF Table
  <2> HIDE DEF slots
  <2>3. \A n \in DOMAIN slots : slots[n][1] < Window =>
          Entry(r, slots[n]) = Entry(vol, slots[n])
    BY <2>2 DEF Alike
  <2>4. \A n \in DOMAIN slots : slots[n][1] < Window =>
          (n \in FileHits(r, slots, NameOf(p)) <=> n \in FileHits(vol, slots, NameOf(p)))
    BY <2>3 DEF FileHits
  <2>5. Look(r, slots, FileHits(r, slots, NameOf(p)))
          = Look(vol, slots, FileHits(vol, slots, NameOf(p)))
    BY <2>1, <2>3, <2>4, LookSame
  <2>6. fat16_find_file(r, fat, p) = Look(r, slots, FileHits(r, slots, NameOf(p)))
    BY <2>1, FindFileLooks
  <2>7. fat16_find_file(vol, Table, p)
          = Look(vol, slots, FileHits(vol, slots, NameOf(p)))
    BY <2>1, FindFileLooks DEF slots
  <2>8. QED
    BY <2>5, <2>6, <2>7
<1>4. QED
  BY <1>1, <1>2, <1>3

(* The file of a path that is not being written is one of the others.      *)
LEMMA FileIsOther ==
  ASSUME IInv, Placed, NEW p \in Paths, Writing => p # op.path,
         NEW e, e = fat16_find_file(vol, Table, p), e # FREE
  PROVE  \E a \in Others :
           Entry(vol, a) = e /\ e.size \in Nat /\ a \notin DirEntries(vol)
<1> DEFINE slots == SlotsFor(vol, Table, p)
<1>1. PICK n \in DOMAIN slots :
        /\ slots[n][1] < Window /\ Entry(vol, slots[n]) = e
        /\ e \notin Empty /\ e.name = NameOf(p)
  BY FileFound
<1> DEFINE a == slots[n]
<1>2. a \in AllSlots(vol)
  BY <1>1, SlotHome
<1>3. a \in AllEntries(vol)
  BY <1>1, <1>2 DEF AllEntries
<1>4. a # op.slot
  <2>1. CASE ~Writing
    <3>1. op.slot = <<0, 0>>
      BY <2>1, NoOpIs DEF Writing, IInv, CallOK, MkdirOK
    <3>2. QED
      BY <1>2, <3>1, OthersAre
  <2>2. CASE Writing
    <3> DEFINE there == SlotsFor(vol, Table, op.path)
    <3>1. PICK m \in DOMAIN there :
            there[m] = op.slot /\ Suits(op.path, Entry(vol, op.slot))
      BY <2>2 DEF Placed, FirstSuitable
    <3>2. op.path \in Paths
      BY <2>2 DEF Writing, IInv, CallOK, WriteOK
    <3>3. SUFFICES ASSUME a = op.slot PROVE FALSE
      OBVIOUS
    <3>4. NameOf(op.path) = NameOf(p)
      BY <1>1, <3>1, <3>3 DEF Suits
    <3>5. p = op.path
      BY <3>1, <3>2, <3>3, <3>4, SlotOwner
    <3>6. QED
      BY <2>2, <3>5
  <2>3. QED
    BY <2>1, <2>2
<1>5. e.size \in Nat /\ (e.dir => e.name \notin FileNames)
  BY <1>1, <1>3 DEF IInv, Dirs, DirsWhole
<1>6. a \notin DirEntries(vol)
  BY <1>1, <1>5, NamesAre DEF DirEntries
<1>7. QED
  BY <1>1, <1>3, <1>4, <1>5, <1>6 DEF Others

(* Such a path reads the same where the others are as they are.            *)
LEMMA ReadKept ==
  ASSUME IInv, Placed, NEW p \in Paths, Writing => p # op.path,
         NEW r, NEW fat, Alike(r, fat)
  PROVE  fat16_read_file(r, fat, p) = fat16_read_file(vol, Table, p)
<1> DEFINE e == fat16_find_file(vol, Table, p)
<1>1. e = fat16_find_file(r, fat, p)
  BY AlikeFinds
<1>2. ASSUME e # FREE
      PROVE  /\ Sound(Table, e.clus) /\ e.size \in Nat
             /\ \A c \in Mem(Table, e.clus) : c \in Taken
  <2>1. PICK a \in Others : Entry(vol, a) = e /\ e.size \in Nat
    BY <1>2, FileIsOther
  <2> HIDE DEF e
  <2>2. QED
    BY <2>1, OtherDirs
<1> HIDE DEF e
<1>3. e # FREE =>
        /\ Sound(Table, e.clus) /\ e.size \in Nat
        /\ \A c \in Mem(Table, e.clus) : fat[c] = Table[c]
        /\ \A c \in Mem(Table, e.clus) : \A l \in ClusterLbas(c) :
             r.disk[l] = vol.disk[l]
  BY <1>2 DEF Alike
<1>4. QED
  BY <1>1, <1>3, ReadSame DEF e

(* What the invariant promises when the power goes.                        *)
LEMMA Survives ==
  ASSUME IInv, FInv
  PROVE  OthersSurvive
<1>1. Alike(vol, DiskFat(vol))
  BY DEF Alike, FInv, OnDisk
<1>2. ASSUME NEW p \in Paths, expect[p] # Unknown
      PROVE  fat16_read_file(vol, DiskFat(vol), p) = Contents(p, expect[p])
  <2>1. Writing => p # op.path
    BY <1>2 DEF FInv, Placed
  <2>2. fat16_read_file(vol, DiskFat(vol), p) = fat16_read_file(vol, Table, p)
    BY <1>1, <2>1, ReadKept DEF FInv
  <2>3. QED
    BY <1>2, <2>2 DEF FInv, Reads
<1>3. QED
  BY <1>2 DEF OthersSurvive, ReadsAs

-----------------------------------------------------------------------------
(***************************************************************************)
(* The first copy of the FAT.  A step stores in it, if anything, what the  *)
(* driver holds already: an entry of it stays or becomes what it was for   *)
(* the driver before the step.                                             *)
(***************************************************************************)
Settled(s) == \A c \in 0 .. MaxC - 1 : DiskFat(s)[c] = DriverFat(s)[c]

Settles(s, r) ==
  \A c \in 0 .. MaxC - 1 :
    DiskFat(r)[c] = DiskFat(s)[c] \/ DiskFat(r)[c] = DriverFat(s)[c]

LEMMA FlushedIsSettled ==
  ASSUME NEW s, Coherent(s), s.sec # NoSec => s.buf = s.disk[FatStart + s.sec]
  PROVE  Settled(s)
<1>1. ASSUME NEW c \in 0 .. MaxC - 1
      PROVE  DiskFat(s)[c] = DriverFat(s)[c]
  <2>1. FatSec(c) \in 0 .. FatSize - 1 /\ FatSec(c) # NoSec
    BY FatPlace, FatPlaces
  <2>2. DiskFat(s)[c] = s.disk[FatStart + FatSec(c)][c % EPS]
    BY DEF DiskFat
  <2>3. Now(s, FatSec(c)) = s.disk[FatStart + FatSec(c)]
    BY <2>1 DEF Now
  <2>4. DriverFat(s)[c] = Now(s, FatSec(c))[c % EPS]
    BY TableIs
  <2>5. QED
    BY <2>2, <2>3, <2>4
<1>2. QED
  BY <1>1 DEF Settled

LEMMA CleanIsSettled ==
  ASSUME NEW s, Coherent(s), ~s.dirty
  PROVE  Settled(s)
BY FlushedIsSettled DEF Coherent

LEMMA SameFirstCopy ==
  ASSUME NEW s, NEW r, \A l \in FatLbas : r.disk[l] = s.disk[l]
  PROVE  DiskFat(r) = DiskFat(s)
<1>1. \A c \in 0 .. MaxC - 1 : FatStart + FatSec(c) \in FatLbas
  BY FatPlace, FatPlaces
<1>2. QED
  BY <1>1 DEF DiskFat

LEMMA NothingStored ==
  ASSUME NEW s, NEW r, DiskFat(r) = DiskFat(s)
  PROVE  Settles(s, r)
BY DEF Settles

LEMMA SettledAfter ==
  ASSUME NEW s, NEW r, SameTable(s, r), Settled(r)
  PROVE  Settles(s, r)
BY DEF Settles, Settled, SameTable

LEMMA SettlesThen ==
  ASSUME NEW s, NEW r, NEW t, Settles(s, r), SameTable(s, r), Settles(r, t)
  PROVE  Settles(s, t)
BY DEF Settles, SameTable

LEMMA CachedSettles ==
  ASSUME NEW s, Coherent(s), NEW c \in 0 .. MaxC - 1
  PROVE  Settles(s, Cached(s, c))
<1> DEFINE r == Cached(s, c)
<1>1. Coherent(r) /\ SameTable(s, r)
  BY CachedIs
<1>2. CASE FatSec(c) = s.sec
  BY <1>2, NothingStored DEF Cached
<1>3. CASE FatSec(c) # s.sec
  <2> DEFINE e == IF s.dirty THEN Wr(s, FatStart + s.sec, s.buf) ELSE s
  <2>1. r = [e EXCEPT !.sec = FatSec(c), !.dirty = FALSE,
                      !.buf = e.disk[FatStart + FatSec(c)]]
    BY <1>3 DEF Cached
  <2>2. "dirty" \in DOMAIN e
    BY DEF Coherent, Fields, Wr
  <2> HIDE DEF e, r
  <2>3. r.dirty = FALSE
    BY <2>1, <2>2
  <2>4. Settled(r)
    BY <1>1, <2>3, CleanIsSettled
  <2>5. QED
    BY <1>1, <2>4, SettledAfter DEF r
<1>4. QED
  BY <1>2, <1>3

LEMMA SetSettles ==
  ASSUME NEW s, Coherent(s), NEW c \in 0 .. MaxC - 1, NEW v
  PROVE  Settles(s, fat_set(s, c, v))
<1> DEFINE e == Cached(s, c)
           r == fat_set(s, c, v)
<1>1. Coherent(e) /\ Settles(s, e) /\ SameTable(s, e)
  BY CachedIs, CachedSettles
<1>2. r = [e EXCEPT !.buf[c % EPS] = v, !.dirty = TRUE]
  BY DEF fat_set
<1> HIDE DEF e, r
<1>3. r.disk = e.disk
  BY <1>1, <1>2 DEF Coherent, Fields
<1>4. Settles(e, r)
  BY <1>3, SameFirstCopy, NothingStored
<1>5. QED
  BY <1>1, <1>4, SettlesThen DEF r

LEMMA AllocSettles ==
  ASSUME NEW s, Coherent(s)
  PROVE  Settles(s, fat_alloc(s))
<1> DEFINE e == Cached(s, 2)
<1>1. 2 \in 0 .. MaxC - 1 /\ MaxC - 1 \in 0 .. MaxC - 1
  BY ClusterNumbers
<1>2. Coherent(e) /\ Settles(s, e) /\ SameTable(s, e)
  BY <1>1, CachedIs, CachedSettles
<1> HIDE DEF e
<1>3. CASE FirstFree(s) = 0
  <2>1. fat_alloc(s) = Cached(e, MaxC - 1)
    BY <1>3 DEF fat_alloc, e
  <2>2. QED
    BY <1>1, <1>2, <2>1, CachedSettles, SettlesThen
<1>4. CASE FirstFree(s) # 0
  <2>1. FirstFree(s) \in 0 .. MaxC - 1
    BY <1>4, FreeAre, ClusterNumbers
  <2>2. fat_alloc(s) = fat_set(e, FirstFree(s), EOC)
    BY <1>4 DEF fat_alloc, e
  <2>3. QED
    BY <1>2, <2>1, <2>2, SetSettles, SettlesThen
<1>5. QED
  BY <1>3, <1>4

LEMMA WalkSettles ==
  ASSUME NEW s, Coherent(s), NEW ch \in Seq(Clusters)
  PROVE  Settles(s, AfterWalk(s, ch))
<1>1. CASE ch = <<>>
  BY <1>1, NothingStored DEF AfterWalk
<1>2. CASE ch # <<>>
  <2>1. ch[Len(ch)] \in 0 .. MaxC - 1
    <3>1. ch[Len(ch)] \in Clusters
      BY <1>2
    <3>2. QED
      BY <3>1, ClusterNumbers
  <2>2. AfterWalk(s, ch) = Cached(s, ch[Len(ch)])
    BY <1>2 DEF AfterWalk
  <2>3. QED
    BY <2>1, <2>2, CachedSettles
<1>3. QED
  BY <1>1, <1>2

(* The first copy keeps up with the links of the others.                   *)
LEMMA SettledThere ==
  ASSUME IInv, Settled(vol)
  PROVE  OnDisk
<1>1. \A c \in Taken : c \in 0 .. MaxC - 1
  BY OthersAre, ClusterNumbers
<1>2. QED
  BY <1>1 DEF OnDisk, Settled, Table

LEMMA OnDiskKept ==
  ASSUME IInv, IInv', OnDisk, Harmless, Settles(vol, vol')
  PROVE  OnDisk'
<1>1. CASE ~vol'.dirty
  <2>1. Settled(vol')
    BY <1>1, CleanIsSettled DEF IInv, Cache
  <2>2. Taken' \subseteq 0 .. MaxC - 1
    <3>1. Taken' \subseteq Clusters
      BY HeldAre DEF IInv, Dirs, Taken
    <3>2. QED
      BY <3>1, ClusterNumbers
  <2>3. QED
    BY <2>1, <2>2 DEF OnDisk, Settled, Table
<1>2. CASE Taken' = Taken
  <2>1. \A c \in Taken : c \in 0 .. MaxC - 1
    BY OthersAre, ClusterNumbers
  <2>2. QED
    BY <1>2, <2>1 DEF OnDisk, Settles, Harmless, Table
<1>3. QED
  BY <1>1, <1>2 DEF Harmless

-----------------------------------------------------------------------------
(* What every step keeps that harms none of the others.                    *)
LEMMA EndedSame ==
  ASSUME NEW s, NEW r, NEW slots, Ended(s, slots),
         \A n \in DOMAIN slots : slots[n][1] < Window =>
           Entry(r, slots[n]) = Entry(s, slots[n])
  PROVE  Ended(r, slots)
BY DEF Ended

LEMMA HarmlessIsAlike ==
  ASSUME Harmless
  PROVE  Alike(vol', Table')
BY DEF Harmless, Alike

LEMMA OthersKept ==
  ASSUME IInv, IInv', FInv, Harmless, Settles(vol, vol'),
         \A p \in Paths : expect'[p] # Unknown => expect'[p] = expect[p]
  PROVE  OnDisk' /\ Reads' /\ DirsEnded(vol')
<1>1. Alike(vol', Table')
  BY HarmlessIsAlike
<1>2. OnDisk'
  BY OnDiskKept DEF FInv
<1>3. ASSUME NEW p \in Paths, expect'[p] # Unknown
      PROVE  fat16_read_file(vol', Table', p) = Contents(p, expect'[p])
  <2>1. expect'[p] = expect[p] /\ expect[p] # Unknown
    BY <1>3
  <2>2. Writing => p # op.path
    BY <2>1 DEF FInv, Placed
  <2>3. fat16_read_file(vol', Table', p) = fat16_read_file(vol, Table, p)
    BY <1>1, <2>2, ReadKept DEF FInv
  <2>4. QED
    BY <2>1, <2>3 DEF FInv, Reads
<1>4. Reads'
  BY <1>3 DEF Reads
<1>5. DirsEnded(vol')
  <2>1. \A n \in DOMAIN RootSlots :
          /\ RootSlots[n] \in AllSlots(vol)
          /\ Entry(vol', RootSlots[n]) = Entry(vol, RootSlots[n])
    BY <1>1 DEF AllSlots, SlotsIn, Alike
  <2>2. Ended(vol', RootSlots)
    BY <2>1, EndedSame DEF FInv, DirsEnded
  <2>3. ASSUME NEW q \in DirEntries(vol')
        PROVE  Ended(vol', SubdirSlots(DriverFat(vol'), Entry(vol', q).clus))
    <3>1. q \in DirEntries(vol) /\ Entry(vol', q) = Entry(vol, q)
      <4>1. q \in SlotsIn(RootSlots) /\ Entry(vol', q) = Entry(vol, q)
        BY <2>1 DEF DirEntries, RootEntries, SlotsIn
      <4>2. QED
        BY <4>1 DEF DirEntries, RootEntries
    <3> DEFINE c == Entry(vol, q).clus
               slots == SubdirSlots(Table, c)
    <3>2. Sound(Table, c) /\ \A d \in Mem(Table, c) : d \in Taken
      BY <3>1, OtherDirs
    <3>3. Chain(Table', c) = Chain(Table, c)
      BY <1>1, <3>2, SoundKept DEF Alike
    <3>4. SubdirSlots(DriverFat(vol'), c) = slots
      BY <3>3 DEF SubdirSlots, Table
    <3>5. Ended(vol, slots)
      BY <3>1 DEF FInv, DirsEnded, Table
    <3>6. \A n \in DOMAIN slots : slots[n][1] < Window => slots[n] \in AllSlots(vol)
      <4>1. \A n \in DOMAIN slots : slots[n][1] < Window => slots[n] \in SlotsUnder(vol, q)
        BY DEF SlotsUnder, SlotsIn, Table
      <4>2. QED
        BY <3>1, <4>1, SlotsAre
    <3> HIDE DEF slots
    <3>7. \A n \in DOMAIN slots : slots[n][1] < Window =>
            Entry(vol', slots[n]) = Entry(vol, slots[n])
      BY <1>1, <3>6 DEF Alike
    <3>8. Ended(vol', slots)
      BY <3>5, <3>7, EndedSame
    <3>9. QED
      BY <3>1, <3>4, <3>8
  <2>4. QED
    BY <2>2, <2>3 DEF DirsEnded
<1>6. QED
  BY <1>2, <1>4, <1>5

(* A call that goes on keeps its slot, or its directory stays missing.     *)
LEMMA PlaceKept ==
  ASSUME IInv, FInv, Harmless, expect' = expect,
         \/ pc' = "idle"
         \/ /\ pc # "idle" /\ op'.path = op.path /\ op'.slot = op.slot
            /\ op'.mkdir = op.mkdir
  PROVE  Placed' /\ NoDirYet'
<1>1. CASE pc' = "idle"
  BY <1>1 DEF Placed, Writing, NoDirYet
<1>2. CASE /\ pc # "idle" /\ op'.path = op.path /\ op'.slot = op.slot
           /\ op'.mkdir = op.mkdir
  <2>1. /\ \A d : FindDir(vol', d) = FindDir(vol, d)
        /\ \A p : SlotsFor(vol', Table', p) = SlotsFor(vol, Table, p)
    BY HarmlessIsAlike, AlikeFinds
  <2>2. NoDirYet'
    BY <1>2, <2>1 DEF FInv, NoDirYet
  <2>3. ASSUME Writing PROVE FirstSuitable(op.path, op.slot)'
    <3> DEFINE slots == SlotsFor(vol, Table, op.path)
    <3>1. PICK n \in DOMAIN slots :
            /\ slots[n] = op.slot /\ Suits(op.path, Entry(vol, op.slot))
            /\ \A m \in DOMAIN slots : m < n =>
                 slots[m][1] < Window /\ ~Suits(op.path, Entry(vol, slots[m]))
      BY <2>3 DEF FInv, Placed, FirstSuitable
    <3>2. op.path \in Paths /\ op.slot \in AllSlots(vol)
      BY <2>3 DEF Writing, IInv, CallOK, WriteOK, OldOK
    <3>3. \A m \in DOMAIN slots : slots[m][1] < Window => slots[m] \in AllSlots(vol)
      BY <3>2, SlotHome
    <3>4. slots = SlotsFor(vol', Table', op'.path)
      BY <1>2, <2>1
    <3> HIDE DEF slots
    <3>5. Suits(op.path, Entry(vol', op.slot))
      BY <3>1, <3>2 DEF Harmless
    <3>6. \A m \in DOMAIN slots : m < n =>
            slots[m][1] < Window /\ ~Suits(op.path, Entry(vol', slots[m]))
      BY <3>1, <3>3 DEF Harmless
    <3>7. QED
      BY <1>2, <3>1, <3>4, <3>5, <3>6 DEF FirstSuitable
  <2>4. Placed'
    BY <1>2, <2>3 DEF Placed, Writing, FInv
  <2>5. QED
    BY <2>2, <2>4
<1>3. QED
  BY <1>1, <1>2

(* What is stored of the new file stays stored.                            *)
LEMMA StoredKept ==
  ASSUME NEW n \in Nat, Stored(n), Sound(Table, op.first),
         n <= Len(Chain(Table, op.first)),
         \A k \in 1 .. n :
           Chain(Table', op'.first)[k] = Chain(Table, op.first)[k],
         \A i \in Nat : i < n * SPC =>
           vol'.disk[At(Chain(Table, op.first), i)]
             = vol.disk[At(Chain(Table, op.first), i)],
         op'.size = op.size, op'.path = op.path, ops' = ops, op.size \in Nat
  PROVE  Stored(n)'
<1> DEFINE ch == Chain(Table, op.first)
           dh == Chain(Table', op'.first)
<1>1. ASSUME NEW i \in 0 .. op.size - 1, i < n * SPC
      PROVE  /\ At(dh, i) < Window
             /\ vol'.disk[At(dh, i)] = Data(op.path, ops, i)
  <2>1. i \in Nat /\ SPC \in Nat \ {0}
    BY Geometry
  <2>2. i \div SPC \in Nat /\ i \div SPC < n
    BY <1>1, <2>1, Quotient
  <2>3. i \div SPC + 1 \in 1 .. n
    BY <2>2
  <2>4. At(dh, i) = At(ch, i)
    BY <2>3 DEF At
  <2>5. At(ch, i) < Window /\ vol.disk[At(ch, i)] = Data(op.path, ops, i)
    BY <1>1 DEF Stored
  <2>6. vol'.disk[At(ch, i)] = vol.disk[At(ch, i)]
    BY <1>1, <2>1
  <2> HIDE DEF ch, dh
  <2>7. QED
    BY <2>4, <2>5, <2>6
<1>2. QED
  BY <1>1 DEF Stored

LEMMA StoredSectors ==
  ASSUME Sound(Table, op.first), NEW n \in Nat, n <= Len(Chain(Table, op.first)),
         NEW i \in Nat, i < n * SPC
  PROVE  /\ i \div SPC + 1 \in 1 .. n
         /\ Chain(Table, op.first)[i \div SPC + 1] \in Mem(Table, op.first)
         /\ At(Chain(Table, op.first), i)
              \in ClusterLbas(Chain(Table, op.first)[i \div SPC + 1])
         /\ At(Chain(Table, op.first), i) \in Lbas
         /\ At(Chain(Table, op.first), i) >= RootStart
<1> DEFINE ch == Chain(Table, op.first)
           N == Len(ch)
<1>1. N \in Nat /\ SPC \in Nat \ {0}
  BY ChainShape, Geometry
<1>2. i < N * SPC
  <2> HIDE DEF N
  <2>1. n * SPC <= N * SPC /\ n * SPC \in Nat /\ N * SPC \in Nat
    BY <1>1 DEF N
  <2>2. QED
    BY <2>1
<1>3. i \div SPC \in Nat /\ i \div SPC < n
  BY <1>1, Quotient
<1>4. i \div SPC + 1 \in 1 .. n
  BY <1>3
<1>5. ch[i \div SPC + 1] \in Mem(Table, op.first)
  BY <1>2, SectorAt
<1>6. At(ch, i) \in ClusterLbas(ch[i \div SPC + 1])
  BY <1>2, SectorAt
<1>7. ch[i \div SPC + 1] \in Clusters
  BY <1>5, SoundShape
<1> HIDE DEF ch
<1>8. At(ch, i) \in Lbas /\ At(ch, i) >= RootStart
  BY <1>6, <1>7, SectorsAre
<1>9. QED
  BY <1>4, <1>5, <1>6, <1>8 DEF ch

LEMMA StoredOffTheFat ==
  ASSUME NEW n \in Nat, Stored(n), Sound(Table, op.first),
         n <= Len(Chain(Table, op.first)),
         \A k \in 1 .. n :
           Chain(Table', op'.first)[k] = Chain(Table, op.first)[k],
         OffTheFat(vol, vol'),
         op'.size = op.size, op'.path = op.path, ops' = ops, op.size \in Nat
  PROVE  Stored(n)'
<1>1. ASSUME NEW i \in Nat, i < n * SPC
      PROVE  vol'.disk[At(Chain(Table, op.first), i)]
               = vol.disk[At(Chain(Table, op.first), i)]
  <2>1. /\ At(Chain(Table, op.first), i) \in Lbas
        /\ At(Chain(Table, op.first), i) >= RootStart
    BY <1>1, StoredSectors
  <2>2. QED
    BY <2>1 DEF OffTheFat
<1>2. QED
  BY <1>1, StoredKept

-----------------------------------------------------------------------------
(* The steps of a call.                                                    *)
LEMMA Unharmed ==
  ASSUME IInv, IInv', FInv, Harmless, Settles(vol, vol'), expect' = expect,
         \/ pc' = "idle"
         \/ /\ pc # "idle" /\ op'.path = op.path /\ op'.slot = op.slot
            /\ op'.mkdir = op.mkdir,
         Content'
  PROVE  FInv'
<1>1. OnDisk' /\ Reads' /\ DirsEnded(vol')
  BY OthersKept
<1>2. Placed' /\ NoDirYet'
  BY PlaceKept
<1>3. QED
  BY <1>1, <1>2 DEF FInv

LEMMA FreeOldSurvives ==
  ASSUME IInv, FInv, FreeOld
  PROVE  FInv'
<1>1. IInv' /\ Harmless
  BY FreeOldStep
<1>2. pc = "free" /\ ~op.mkdir /\ WriteOK /\ FreeOK
  BY DEF FreeOld, IInv, CallOK, MkdirOK, WriteOK
<1> DEFINE next == NextLink(op.clus)
<1>3. /\ vol' = fat_set(vol, op.clus, 0)
      /\ op' = [op EXCEPT !.clus = IF IsEnd(next) THEN 0 ELSE next]
      /\ pc' \in {"alloc", "free"} /\ UNCHANGED <<ops, result, expect, failed>>
  BY DEF FreeOld
<1> HIDE DEF next
<1>4. op'.path = op.path /\ op'.slot = op.slot /\ op'.first = op.first
  BY <1>3 DEF IInv, Types, OpFields
<1>5. op'.mkdir = op.mkdir
  BY <1>3 DEF IInv, Types, OpFields
<1>6. op'.done = op.done
  BY <1>3 DEF IInv, Types, OpFields
<1>7. Settles(vol, vol')
  <2>1. op.clus \in 0 .. MaxC - 1
    BY <1>2, ClusterNumbers DEF FreeOK
  <2>2. QED
    BY <1>3, <2>1, SetSettles DEF IInv, Cache
<1>8. op.first = 0 /\ op.done = 0
  BY <1>2 DEF FreeOK, FInv, Content, Writing
<1>9. Content'
  BY <1>3, <1>4, <1>6, <1>8 DEF Content
<1>10. QED
  BY <1>1, <1>2, <1>3, <1>4, <1>5, <1>7, <1>9, Unharmed

LEMMA AllocSurvives ==
  ASSUME IInv, FInv, Alloc
  PROVE  FInv'
<1> DEFINE c == FirstFree(vol)
<1>1. IInv' /\ Harmless
  BY AllocStep
<1>2. pc = "alloc" /\ ~op.mkdir /\ WriteOK /\ BuiltOK /\ Coherent(vol)
  BY DEF Alloc, IInv, CallOK, MkdirOK, WriteOK, Cache
<1>3. /\ vol' = fat_alloc(vol) /\ op' = [op EXCEPT !.clus = c, !.ok = (c # 0)]
      /\ pc' = IF c # 0 THEN "link" ELSE "flush1"
      /\ UNCHANGED <<ops, result, expect, failed>>
  BY DEF Alloc
<1>4. /\ op'.path = op.path /\ op'.slot = op.slot /\ op'.first = op.first
      /\ op'.size = op.size
  BY <1>3 DEF IInv, Types, OpFields
<1>5. op'.mkdir = op.mkdir
  BY <1>3 DEF IInv, Types, OpFields
<1>6. op'.done = op.done
  BY <1>3 DEF IInv, Types, OpFields
<1>7. op'.ok = (c # 0)
  BY <1>3 DEF IInv, Types, OpFields
<1>8. Settles(vol, vol')
  BY <1>2, <1>3, AllocSettles
<1>9. /\ op.ok /\ op.size \in Nat /\ (op.first # 0 => Sound(Table, op.first))
      /\ op.done \in Nat /\ (op.first = 0 => op.done = 0)
      /\ op.first # 0 => Len(Chain(Table, op.first)) = op.done /\ Stored(op.done)
  <2>1. op.ok /\ (op.first # 0 => Sound(Table, op.first))
    BY <1>2 DEF BuiltOK
  <2>2. op.size \in Nat
    BY <1>2, BoundsAssumption DEF WriteOK
  <2>3. QED
    BY <1>2, <2>1, <2>2 DEF FInv, Content, Writing
<1>10. Content'
  <2>1. CASE c = 0
    BY <1>7, <2>1 DEF Content
  <2>2. CASE c # 0 /\ op.first = 0
    BY <1>3, <1>4, <1>6, <1>9, <2>2 DEF Content
  <2>3. CASE c # 0 /\ op.first # 0
    <3>1. /\ OffTheFat(vol, vol') /\ Table' = [Table EXCEPT ![c] = EOC]
          /\ c \in Clusters /\ Table[c] = 0
      BY <1>2, <1>3, <2>3, AllocIs, FreeAre DEF Table
    <3>2. \A d \in Mem(Table, op.first) : Table'[d] = Table[d]
      <4>1. \A d \in Mem(Table, op.first) : Table[d] # 0 /\ d \in Clusters
        BY <1>9, <2>3, SoundShape
      <4>2. \A d \in Clusters : d \in DOMAIN Table
        BY ClusterNumbers DEF Table, DriverFat
      <4> HIDE DEF c
      <4>3. QED
        BY <3>1, <4>1, <4>2
    <3>3. Chain(Table', op'.first) = Chain(Table, op.first)
      BY <1>4, <1>9, <2>3, <3>2, SoundKept
    <3>4. Stored(op.done)'
      <4>1. PICK n \in Nat : n = op.done
        BY <1>9
      <4>2. /\ Stored(n) /\ n <= Len(Chain(Table, op.first))
            /\ Sound(Table, op.first) /\ ops' = ops /\ op.size \in Nat
        BY <1>3, <1>9, <2>3, <4>1
      <4>3. \A k \in 1 .. n :
              Chain(Table', op'.first)[k] = Chain(Table, op.first)[k]
        BY <3>3
      <4>4. Stored(n)'
        BY <1>4, <3>1, <4>2, <4>3, StoredOffTheFat
      <4>5. QED
        BY <1>6, <4>1, <4>4 DEF Stored
    <3>5. QED
      BY <1>3, <1>4, <1>6, <1>9, <2>3, <3>3, <3>4 DEF Content
  <2>4. QED
    BY <2>1, <2>2, <2>3
<1>11. QED
  BY <1>1, <1>2, <1>3, <1>4, <1>5, <1>8, <1>10, Unharmed

LEMMA LinkSurvives ==
  ASSUME IInv, FInv, Link
  PROVE  FInv'
<1> DEFINE c == op.clus
           b == op.prev
<1>1. IInv' /\ Harmless
  BY LinkStep
<1>2. /\ pc = "link" /\ ~op.mkdir /\ WriteOK /\ BuiltOK /\ Coherent(vol)
      /\ op.ok /\ op.done \in Nat
  BY DEF Link, IInv, CallOK, MkdirOK, WriteOK, BuiltOK, Cache, FInv, Content, Writing
<1>3. /\ vol' = IF b # 0 THEN fat_set(vol, b, c) ELSE vol
      /\ op' = [op EXCEPT !.first = IF b # 0 THEN op.first ELSE c]
      /\ pc' = "data"
      /\ UNCHANGED <<ops, result, expect, failed>>
  <2>1. op' = [op EXCEPT !.first = IF op.prev # 0 THEN @ ELSE op.clus]
    BY DEF Link
  <2>2. op' = [op EXCEPT !.first = IF op.prev # 0 THEN op.first ELSE op.clus]
    BY <2>1
  <2>3. QED
    BY <2>2 DEF Link
<1>4. op'.path = op.path /\ op'.slot = op.slot /\ op'.size = op.size
  BY <1>3 DEF IInv, Types, OpFields
<1>5. op'.first = IF b # 0 THEN op.first ELSE c
  BY <1>3 DEF IInv, Types, OpFields
<1>6. op'.mkdir = op.mkdir
  BY <1>3 DEF IInv, Types, OpFields
<1>7. op'.done = op.done
  BY <1>3 DEF IInv, Types, OpFields
<1>8. /\ op.size \in Nat /\ c \in Clusters /\ IsEnd(Table[c]) /\ c \notin Built
      /\ (op.first = 0 <=> b = 0)
      /\ op.first # 0 => /\ Sound(Table, op.first) /\ LastOf(Table, op.first) = b
                         /\ Len(Chain(Table, op.first)) = op.done /\ Stored(op.done)
      /\ op.first = 0 => op.done = 0
  <2>1. op.size \in Nat
    BY <1>2, BoundsAssumption DEF WriteOK
  <2>2. QED
    BY <1>2, <2>1 DEF BuiltOK, FInv, Content, Writing
<1>9. CASE b = 0
  <2>1. vol' = vol /\ op'.first = c /\ Table' = Table /\ op'.done = 0 /\ c # 0
    BY <1>3, <1>5, <1>7, <1>8, <1>9, ClusterNumbers DEF Table
  <2>2. Chain(Table, c) = <<c>>
    BY <1>8, OneCluster, ChainIs
  <2>3. Len(Chain(Table', op'.first)) = op'.done + 1
    BY <2>1, <2>2
  <2>4. Stored(op.done)'
    <3>1. \A i \in Nat : ~(i < 0 * SPC)
      BY Geometry
    <3>2. op'.size \in Nat
      BY <1>4, <1>8
    <3>3. \A i \in 0 .. op'.size - 1 : ~(i < op'.done * SPC)
      BY <2>1, <3>1, <3>2
    <3>4. QED
      BY <3>3 DEF Stored
  <2>5. Content'
    BY <1>3, <2>1, <2>3, <2>4 DEF Content
  <2>6. Settles(vol, vol')
    BY <2>1, NothingStored
  <2>7. QED
    BY <1>1, <1>2, <1>3, <1>4, <1>6, <2>5, <2>6, Unharmed
<1>10. CASE b # 0
  <2>1. op'.first = op.first /\ op.first # 0 /\ Sound(Table, op.first)
    BY <1>5, <1>8, <1>10
  <2>2. b \in Clusters /\ b \in 0 .. MaxC - 1 /\ c \notin Mem(Table, op.first) /\ b # c
    BY <1>8, <2>1, SoundShape, ClusterNumbers DEF Built
  <2>3. c \in Nat
    BY <1>8, ClusterNumbers
  <2>4. vol' = fat_set(vol, b, c)
    BY <1>3, <1>10
  <2>5. OffTheFat(vol, vol') /\ Table' = [Table EXCEPT ![b] = c]
    BY <1>2, <2>2, <2>3, <2>4, SetIs DEF Table
  <2>6. Settles(vol, vol')
    BY <1>2, <2>2, <2>4, SetSettles
  <2>7. \A d \in Clusters : Table'[d] = IF d = b THEN c ELSE Table[d]
    <3>1. \A d \in Clusters : d \in DOMAIN Table
      BY ClusterNumbers DEF Table, DriverFat
    <3>2. QED
      BY <2>5, <3>1
  <2> DEFINE ch == Chain(Table, op.first)
  <2>8. Chain(Table', op.first) = Append(ch, c)
    <3>1. /\ Table'[LastOf(Table, op.first)] = c
          /\ \A d \in Clusters : d # LastOf(Table, op.first) => Table'[d] = Table[d]
      BY <1>8, <2>1, <2>2, <2>7
    <3>2. QED
      BY <1>8, <2>1, <2>2, <3>1, SoundLonger
  <2>9. PICK n \in Nat : n = op.done
    BY <1>2
  <2>10. ch \in Seq(Clusters) /\ Len(ch) = n
    BY <1>8, <2>1, <2>9, ChainShape
  <2> HIDE DEF ch
  <2>11. /\ Len(Append(ch, c)) = n + 1
         /\ \A k \in 1 .. n : Append(ch, c)[k] = ch[k]
    BY <1>8, <2>10
  <2>12. Stored(n)'
    <3>1. Stored(n) /\ n <= Len(ch) /\ ops' = ops
      BY <1>3, <1>8, <2>1, <2>9, <2>10
    <3>2. \A k \in 1 .. n : Chain(Table', op'.first)[k] = ch[k]
      BY <2>1, <2>8, <2>11
    <3>3. QED
      BY <1>4, <1>8, <2>1, <2>5, <3>1, <3>2, StoredOffTheFat DEF ch
  <2>13. Stored(op.done)'
    BY <1>7, <2>9, <2>12 DEF Stored
  <2>14. Content'
    BY <1>3, <1>7, <2>1, <2>8, <2>9, <2>11, <2>13 DEF Content
  <2>15. QED
    BY <1>1, <1>2, <1>3, <1>4, <1>6, <2>6, <2>14, Unharmed
<1>11. QED
  BY <1>9, <1>10

LEMMA Flushing ==
  ASSUME IInv, FInv, IInv', Harmless, Settles(vol, vol'),
         OffTheFat(vol, vol'), SameTable(vol, vol'),
         pc \in {"flush1", "flush2"}, pc' \in {"flush2", "entry"},
         op' = op, UNCHANGED <<ops, expect>>
  PROVE  FInv'
<1>1. ASSUME Writing, op.ok
      PROVE  Content'
  <2>1. /\ op.first # 0 /\ Sound(Table, op.first) /\ op.size \in Nat
        /\ op.done \in Nat /\ Len(Chain(Table, op.first)) = op.done
        /\ Stored(op.done) /\ op.size <= op.done * SPC
    BY <1>1, BoundsAssumption
       DEF Writing, IInv, CallOK, WriteOK, BuiltOK, FInv, Content
  <2>2. Table' = Table
    BY DEF SameTable, Table
  <2>3. PICK n \in Nat : n = op.done
    BY <2>1
  <2>4. /\ Stored(n) /\ n <= Len(Chain(Table, op.first))
        /\ \A k \in 1 .. n : Chain(Table', op'.first)[k] = Chain(Table, op.first)[k]
    BY <2>1, <2>2, <2>3
  <2>5. Stored(n)'
    BY <2>1, <2>4, StoredOffTheFat
  <2>6. Stored(op.done)'
    BY <2>3, <2>5 DEF Stored
  <2>7. QED
    BY <2>1, <2>2, <2>6 DEF Content
<1>2. Content'
  <2>1. CASE Writing /\ op.ok
    BY <1>1, <2>1
  <2>2. CASE ~(Writing /\ op.ok)
    BY <2>2 DEF Content, Writing
  <2>3. QED
    BY <2>1, <2>2
<1>3. QED
  BY <1>2, Unharmed

LEMMA FlushFirstSurvives ==
  ASSUME IInv, FInv, FlushFirst
  PROVE  FInv'
<1>1. IInv' /\ Harmless
  BY FlushFirstStep
<1>2. /\ pc = "flush1" /\ pc' = "flush2" /\ op' = op /\ UNCHANGED <<ops, expect>>
      /\ Coherent(vol)
      /\ vol' = IF vol.dirty THEN Wr(vol, FatStart + vol.sec, vol.buf) ELSE vol
  BY DEF FlushFirst, IInv, Cache
<1>3. OffTheFat(vol, vol') /\ SameTable(vol, vol') /\ Settles(vol, vol')
  <2>1. CASE vol.dirty
    <3>1. /\ Coherent(vol') /\ OffTheFat(vol, vol') /\ SameTable(vol, vol')
          /\ vol'.buf = vol'.disk[FatStart + vol'.sec]
      BY <1>2, <2>1, FirstCopy
    <3>2. Settled(vol')
      BY <3>1, FlushedIsSettled
    <3>3. QED
      BY <3>1, <3>2, SettledAfter
  <2>2. CASE ~vol.dirty
    BY <1>2, <2>2, NothingStored DEF OffTheFat, SameTable
  <2>3. QED
    BY <2>1, <2>2
<1>4. QED
  BY <1>1, <1>2, <1>3, Flushing

LEMMA FlushSecondSurvives ==
  ASSUME IInv, FInv, FlushSecond
  PROVE  FInv'
<1>1. IInv' /\ Harmless
  BY FlushSecondStep
<1>2. /\ pc = "flush2" /\ UNCHANGED <<ops, expect>> /\ Coherent(vol)
      /\ vol' = IF vol.dirty THEN Cleaned(vol) ELSE vol
      /\ vol.sec # NoSec => vol.buf = vol.disk[FatStart + vol.sec]
  BY DEF FlushSecond, Cleaned, IInv, Cache
<1>3. OffTheFat(vol, vol') /\ SameTable(vol, vol') /\ Settles(vol, vol')
  <2>1. CASE vol.dirty
    <3>1. vol.sec # NoSec
      BY <1>2, <2>1 DEF Coherent
    <3>2. vol.buf = vol.disk[FatStart + vol.sec] /\ vol' = Cleaned(vol)
      BY <1>2, <2>1, <3>1
    <3>3. Coherent(vol') /\ OffTheFat(vol, vol') /\ SameTable(vol, vol') /\ ~vol'.dirty
      BY <1>2, <2>1, <3>2, SecondCopy
    <3>4. Settled(vol')
      BY <3>3, CleanIsSettled
    <3>5. QED
      BY <3>3, <3>4, SettledAfter
  <2>2. CASE ~vol.dirty
    BY <1>2, <2>2, NothingStored DEF OffTheFat, SameTable
  <2>3. QED
    BY <2>1, <2>2
<1>4. CASE op.ok
  <2>1. pc' = "entry" /\ op' = op
    BY <1>4 DEF FlushSecond
  <2>2. QED
    BY <1>1, <1>2, <1>3, <2>1, Flushing
<1>5. CASE ~op.ok
  <2>1. pc' = "idle"
    BY <1>5 DEF FlushSecond, Return
  <2>2. Content'
    BY <2>1 DEF Content, Writing
  <2>3. QED
    BY <1>1, <1>2, <1>3, <2>1, <2>2, Unharmed
<1>6. QED
  BY <1>4, <1>5

(* The new cluster is the last of the chain: where the sectors lie that a  *)
(* turn of the write fills.                                                *)
LEMMA LastSectors ==
  ASSUME Sound(Table, op.first), NEW n \in Nat, Len(Chain(Table, op.first)) = n + 1,
         NEW c, c = LastOf(Table, op.first),
         NEW i \in Nat, i < (n + 1) * SPC, NEW l, l = At(Chain(Table, op.first), i)
  PROVE  /\ l \in Lbas /\ l >= RootStart
         /\ i < n * SPC => l \notin ClusterLbas(c)
         /\ ~(i < n * SPC) =>
              l \in ClusterLbas(c) /\ n * SPC + (l - clus_lba(c)) = i
<1> DEFINE ch == Chain(Table, op.first)
           q == i \div SPC
           m == i % SPC
           d == ch[q + 1]
<1>1. SPC \in Nat \ {0}
  BY Geometry
<1>2. /\ q + 1 \in 1 .. n + 1 /\ d \in Mem(Table, op.first)
      /\ l \in ClusterLbas(d) /\ l \in Lbas /\ l >= RootStart
  BY StoredSectors
<1>3. c = ch[n + 1] /\ \A j, k \in 1 .. n + 1 : ch[j] = ch[k] => j = k
  BY DEF LastOf, Sound, Chained
<1>4. c \in Clusters /\ d \in Clusters
  BY <1>2, SoundShape
<1>5. l = clus_lba(d) + m
  BY DEF At
<1> HIDE DEF ch
<1>6. q \in Nat /\ m \in 0 .. SPC - 1 /\ i = SPC * q + m /\ (i < n * SPC <=> q < n)
  BY <1>1, Quotient
<1>7. q <= n
  BY <1>2, <1>6
<1>8. ASSUME i < n * SPC PROVE l \notin ClusterLbas(c)
  <2>1. q + 1 # n + 1 /\ n + 1 \in 1 .. n + 1
    BY <1>6, <1>8
  <2>2. d # c
    BY <1>2, <1>3, <2>1
  <2>3. QED
    BY <1>2, <1>4, <2>2, ClustersApart
<1>9. ASSUME ~(i < n * SPC)
      PROVE  l \in ClusterLbas(c) /\ n * SPC + (l - clus_lba(c)) = i
  <2>1. q = n
    BY <1>6, <1>7, <1>9
  <2>2. d = c
    BY <1>3, <2>1
  <2>3. l = clus_lba(c) + m /\ clus_lba(c) \in Nat /\ m \in Nat
    BY <1>1, <1>4, <1>5, <1>6, <2>2, ClusterPlace
  <2> HIDE DEF q, m, d
  <2>4. l - clus_lba(c) = m
    BY <2>3
  <2>5. n * SPC = SPC * q
    BY <1>1, <2>1
  <2>6. QED
    BY <1>2, <1>6, <2>2, <2>4, <2>5
<1>10. QED
  BY <1>2, <1>8, <1>9

LEMMA WriteDataSurvives ==
  ASSUME IInv, FInv, WriteData
  PROVE  FInv'
<1> DEFINE c == op.clus
           s == fat_set(vol, c, EOC)
           ok == \A l \in ClusterLbas(c) : l < Window
           ch == Chain(Table, op.first)
<1>1. IInv' /\ Harmless
  BY WriteDataStep
<1>2. /\ pc = "data" /\ ~op.mkdir /\ WriteOK /\ BuiltOK /\ Coherent(vol)
  BY DEF WriteData, IInv, Types, CallOK, MkdirOK, WriteOK, Cache
<1>3. /\ op.ok /\ op.first # 0 /\ Sound(Table, op.first)
      /\ LastOf(Table, op.first) = c /\ c \in Clusters /\ IsEnd(Table[c])
  BY <1>2 DEF BuiltOK
<1>4. op.done \in Nat /\ Len(ch) = op.done + 1 /\ Stored(op.done)
  BY <1>2, <1>3 DEF FInv, Content, Writing
<1>5. op.size \in Nat
  BY <1>2, BoundsAssumption DEF WriteOK
<1>6. /\ op' = [op EXCEPT !.prev = c, !.done = op.done + 1, !.ok = ok]
      /\ pc' = IF ok /\ op.done + 1 < ClustersNeeded(op.size) THEN "alloc" ELSE "flush1"
      /\ UNCHANGED <<ops, result, expect, failed>>
  BY DEF WriteData
<1>7. /\ op'.path = op.path /\ op'.size = op.size /\ op'.slot = op.slot
      /\ op'.first = op.first
  BY <1>6 DEF IInv, Types, OpFields
<1>8. op'.mkdir = op.mkdir
  BY <1>6 DEF IInv, Types, OpFields
<1>9. op'.ok = ok
  BY <1>6 DEF IInv, Types, OpFields
<1>10. op'.done = op.done + 1
  BY <1>6 DEF IInv, Types, OpFields
<1>11. PICK D : /\ vol' = WithDisk(s, D) /\ D = [l \in Lbas |-> D[l]]
                /\ \A l \in Lbas : l \notin ClusterLbas(c) => D[l] = s.disk[l]
                /\ \A l \in Lbas :
                     LET i == op.done * SPC + (l - clus_lba(c))
                     IN  l \in ClusterLbas(c) /\ l < Window /\ i < op.size =>
                           D[l] = Data(op.path, ops, i)
  BY DataStored
<1>12. c \in 0 .. MaxC - 1 /\ EOC \in Nat /\ IsEnd(EOC)
  BY <1>3, ClusterNumbers
<1>13. /\ Coherent(s) /\ OffTheFat(vol, s) /\ Settles(vol, s)
       /\ DriverFat(s) = [Table EXCEPT ![c] = EOC]
  BY <1>2, <1>12, SetIs, SetSettles DEF Table
<1> HIDE DEF s, ok
<1>14. Coherent(vol') /\ SameTable(s, vol') /\ vol'.disk = D
  BY <1>3, <1>11, <1>13, ClusterStored
<1>15. Settles(vol, vol')
  <2>1. \A l \in FatLbas : vol'.disk[l] = s.disk[l]
    BY <1>3, <1>11, <1>14, SectorsAre, FatPlaces
  <2>2. DiskFat(vol') = DiskFat(s)
    BY <2>1, SameFirstCopy
  <2>3. QED
    BY <1>13, <2>2 DEF Settles
<1>16. Chain(Table', op.first) = ch
  <2>1. \A d \in Clusters : d \in DOMAIN Table
    BY ClusterNumbers DEF Table, DriverFat
  <2>2. Table' = [Table EXCEPT ![c] = EOC]
    BY <1>13, <1>14 DEF SameTable, Table
  <2>3. \A d \in Clusters : Table'[d] = IF d = c THEN EOC ELSE Table[d]
    BY <2>1, <2>2
  <2>4. /\ IsEnd(Table'[LastOf(Table, op.first)])
        /\ \A d \in Clusters : d # LastOf(Table, op.first) => Table'[d] = Table[d]
    BY <1>3, <1>12, <2>3
  <2>5. QED
    BY <1>3, <2>4, SoundEnd
<1>17. PICK n \in Nat : n = op.done
  BY <1>4
<1>18. ASSUME ok PROVE Stored(n + 1)'
  <2>1. ASSUME NEW i \in 0 .. op.size - 1, i < (n + 1) * SPC,
               NEW l, l = At(ch, i)
        PROVE  l < Window /\ D[l] = Data(op.path, ops, i)
    <3>1. i \in Nat /\ i < op.size
      BY <1>5
    <3>2. /\ l \in Lbas /\ l >= RootStart
          /\ i < n * SPC => l \notin ClusterLbas(c)
          /\ ~(i < n * SPC) =>
               l \in ClusterLbas(c) /\ n * SPC + (l - clus_lba(c)) = i
      BY <1>3, <1>4, <1>17, <2>1, <3>1, LastSectors
    <3>3. CASE i < n * SPC
      <4>1. l < Window /\ vol.disk[l] = Data(op.path, ops, i)
        BY <1>4, <1>17, <2>1, <3>3 DEF Stored
      <4>2. D[l] = vol.disk[l]
        BY <1>11, <1>13, <3>2, <3>3 DEF OffTheFat
      <4>3. QED
        BY <4>1, <4>2
    <3>4. CASE ~(i < n * SPC)
      <4>1. l \in ClusterLbas(c) /\ n * SPC + (l - clus_lba(c)) = i /\ l < Window
        BY <1>18, <3>2, <3>4 DEF ok
      <4>2. D[l] = Data(op.path, ops, n * SPC + (l - clus_lba(c)))
        BY <1>11, <1>17, <3>1, <3>2, <4>1
      <4>3. QED
        BY <4>1, <4>2
    <3>5. QED
      BY <3>3, <3>4
  <2> HIDE DEF ch
  <2>2. QED
    BY <1>6, <1>7, <1>14, <1>16, <2>1 DEF Stored
<1>19. ok => Stored(op.done)'
  <2>1. op'.done = n + 1
    BY <1>10, <1>17
  <2>2. QED
    BY <1>18, <2>1 DEF Stored
<1>20. ASSUME ok, pc' # "alloc" PROVE op.size <= (n + 1) * SPC
  <2>1. SPC \in Nat \ {0} /\ ~(n + 1 < ClustersNeeded(op.size))
    BY <1>6, <1>17, <1>20, Geometry
  <2>2. CASE op.size = 0
    BY <2>1, <2>2
  <2>3. CASE op.size # 0
    <3>1. ~(n + 1 < (op.size + SPC - 1) \div SPC)
      BY <2>1, <2>3 DEF ClustersNeeded
    <3>2. PICK i \in Nat : i = op.size + SPC - 1
      BY <1>5, <2>1
    <3>3. i \div SPC \in Nat
      BY <2>1, <3>2, Quotient
    <3>4. i < (n + 2) * SPC
      <4> DEFINE q == i \div SPC
      <4>1. ~(n + 1 < q)
        BY <3>1, <3>2
      <4>2. q \in Nat
        BY <3>3
      <4> HIDE DEF q
      <4>3. q < n + 2 /\ n + 2 \in Nat
        BY <4>1, <4>2
      <4>4. QED
        BY <2>1, <3>2, <4>3, Quotient DEF q
    <3>5. (n + 2) * SPC = (n + 1) * SPC + SPC /\ (n + 1) * SPC \in Nat
      BY <2>1
    <3>6. QED
      BY <1>5, <2>1, <3>2, <3>4, <3>5
  <2>4. QED
    BY <2>2, <2>3
<1>21. Content'
  <2>1. CASE ok
    <3>1. op'.done \in Nat /\ op'.first # 0 /\ op'.done = n + 1
      BY <1>3, <1>7, <1>10, <1>17
    <3>2. Len(Chain(Table', op'.first)) = op'.done /\ pc' # "data"
      BY <1>4, <1>6, <1>7, <1>10, <1>16
    <3>3. pc' # "alloc" => op'.size <= op'.done * SPC
      BY <1>7, <1>20, <2>1, <3>1
    <3>4. QED
      BY <1>19, <2>1, <3>1, <3>2, <3>3 DEF Content
  <2>2. CASE ~ok
    BY <1>9, <2>2 DEF Content
  <2>3. QED
    BY <2>1, <2>2
<1>22. QED
  BY <1>1, <1>2, <1>6, <1>7, <1>8, <1>15, <1>21, Unharmed

LEMMA MkdirZeroSurvives ==
  ASSUME IInv, FInv, MkdirZero
  PROVE  FInv'
<1> DEFINE c == op.clus
<1>1. IInv' /\ Harmless
  BY MkdirZeroStep
<1>2. /\ pc = "zero" /\ UNCHANGED <<op, ops, result, expect, failed>>
  BY DEF MkdirZero
<1>3. op.mkdir /\ c \in Clusters
  BY <1>2 DEF IInv, CallOK, WriteOK, MkdirOK
<1>4. \A l \in FatLbas : vol'.disk[l] = vol.disk[l]
  <2> DEFINE D == [l \in Lbas |-> IF l \in ClusterLbas(c) /\ l < Window
                                  THEN Zeroed ELSE vol.disk[l]]
  <2>1. vol' = WithDisk(vol, D)
    BY DEF MkdirZero, ClusterWritten, WithDisk
  <2>2. D = [l \in Lbas |-> D[l]]
    OBVIOUS
  <2>3. \A l \in Lbas : l \notin ClusterLbas(c) => D[l] = vol.disk[l]
    OBVIOUS
  <2> HIDE DEF D
  <2>4. vol'.disk = D
    BY <1>3, <2>1, <2>2, <2>3, ClusterStored DEF IInv, Cache
  <2>5. QED
    BY <1>3, <2>3, <2>4, SectorsAre, FatPlaces
<1>5. Settles(vol, vol')
  BY <1>4, SameFirstCopy, NothingStored
<1>6. Content'
  BY <1>2, <1>3 DEF Content, Writing
<1>7. QED
  BY <1>1, <1>2, <1>5, <1>6, Unharmed

LEMMA ReadFileSurvives ==
  ASSUME IInv, FInv, NEW p \in Paths, ReadFile(p)
  PROVE  FInv'
<1> DEFINE ch == Chain(DriverFat(vol), fat16_find_file(vol, DriverFat(vol), p).clus)
<1>1. IInv' /\ Harmless
  BY ReadFileStep
<1>2. /\ pc' = "idle" /\ Coherent(vol) /\ expect' = expect
      /\ \E n \in 0 .. Len(ch) :
           vol' = AfterWalk(AfterWalk(vol, DirChain(p)), SubSeq(ch, 1, n))
  BY DEF ReadFile, IInv, Cache
<1>3. ch \in Seq(Clusters)
  BY ChainShape
<1> HIDE DEF ch
<1>4. PICK n \in 0 .. Len(ch) :
        vol' = AfterWalk(AfterWalk(vol, DirChain(p)), SubSeq(ch, 1, n))
  BY <1>2
<1>5. PICK s : s = AfterWalk(vol, DirChain(p))
  OBVIOUS
<1>6. DirChain(p) \in Seq(Clusters) /\ SubSeq(ch, 1, n) \in Seq(Clusters)
  BY <1>3, SlotsForAre, FirstLinks
<1>7. Coherent(s) /\ SameTable(vol, s) /\ Settles(vol, s)
  BY <1>2, <1>5, <1>6, WalkedIs, WalkSettles
<1>8. Settles(s, vol')
  BY <1>4, <1>5, <1>6, <1>7, WalkSettles
<1>9. Settles(vol, vol')
  BY <1>7, <1>8, SettlesThen
<1>10. Content'
  BY <1>2 DEF Content, Writing
<1>11. QED
  BY <1>1, <1>2, <1>9, <1>10, Unharmed

LEMMA MkdirBeginSurvives ==
  ASSUME IInv, FInv, NEW d \in DirNames, MkdirBegin(d)
  PROVE  FInv'
<1> DEFINE c == FirstFree(vol)
<1>1. IInv' /\ Harmless
  BY MkdirBeginStep
<1>2. pc = "idle" /\ Coherent(vol) /\ expect' = expect
  BY DEF MkdirBegin, IInv, Cache
<1>3. CASE FindDir(vol, d) # FREE
  <2>1. vol' = vol /\ pc' = "idle"
    BY <1>3 DEF MkdirBegin, Return
  <2>2. Settles(vol, vol')
    BY <2>1, NothingStored
  <2>3. Content'
    BY <2>1 DEF Content, Writing
  <2>4. QED
    BY <1>1, <1>2, <2>1, <2>2, <2>3, Unharmed
<1>4. CASE FindDir(vol, d) = FREE
  <2>1. vol' = fat_alloc(vol)
    BY <1>4 DEF MkdirBegin
  <2>2. Settles(vol, vol')
    BY <1>2, <2>1, AllocSettles
  <2>3. CASE c = 0
    <3>1. pc' = "idle"
      BY <1>4, <2>3 DEF MkdirBegin, Return
    <3>2. Content'
      BY <3>1 DEF Content, Writing
    <3>3. QED
      BY <1>1, <1>2, <2>2, <3>1, <3>2, Unharmed
  <2>4. CASE c # 0
    <3>1. op' = [NoOp EXCEPT !.path = <<d>>, !.mkdir = TRUE, !.clus = c]
      BY <1>4, <2>4 DEF MkdirBegin
    <3>2. op'.path = <<d>>
      BY <3>1 DEF NoOp
    <3>3. op'.mkdir = TRUE
      BY <3>1 DEF NoOp
    <3>4. OnDisk' /\ Reads' /\ DirsEnded(vol')
      BY <1>1, <1>2, <2>2, OthersKept
    <3>5. FindDir(vol', d) = FindDir(vol, d)
      BY <1>1, HarmlessIsAlike, AlikeFinds
    <3>6. NoDirYet'
      BY <1>4, <3>2, <3>5 DEF NoDirYet
    <3>7. Placed' /\ Content'
      BY <3>3 DEF Placed, Content, Writing
    <3>8. QED
      BY <3>4, <3>6, <3>7 DEF FInv
  <2>5. QED
    BY <2>3, <2>4
<1>5. QED
  BY <1>3, <1>4

(* The slot that a write is given is the first that suits it.              *)
LEMMA WriteSlotFirst ==
  ASSUME NEW p, WriteSlot(p) # <<>>
  PROVE  FirstSuitable(p, WriteSlot(p))
<1> DEFINE slots == SlotsFor(vol, Table, p)
           Ends(sl) == sl[1] >= Window \/ Suits(p, Entry(vol, sl))
           H == {n \in DOMAIN slots : Ends(slots[n])}
           m == CHOOSE n \in H : \A k \in H : n <= k
           n0 == IF H = {} THEN 0 ELSE m
<1>1. WriteStop(p) = n0
  BY DEF WriteStop, First, Table
<1>2. /\ n0 # 0 /\ WriteSlot(p) = slots[n0] /\ ~(slots[n0][1] >= Window)
  BY <1>1 DEF WriteSlot, Table
<1>3. Scan(slots)
  BY SlotsForScan
<1>4. DOMAIN slots \subseteq Nat /\ H # {} /\ n0 = m
  BY <1>2, <1>3 DEF Scan
<1>5. m \in H /\ \A k \in H : m <= k
  <2>1. H \in SUBSET Nat
    BY <1>4
  <2> HIDE DEF H
  <2>2. \E n \in H : \A k \in H : n <= k
    BY <1>4, <2>1, Least
  <2>3. QED
    BY <2>2
<1> HIDE DEF m, n0
<1>6. m \in DOMAIN slots /\ Ends(slots[m])
  BY <1>5
<1>7. slots[m] = WriteSlot(p) /\ Suits(p, Entry(vol, WriteSlot(p)))
  BY <1>2, <1>4, <1>6
<1>8. ASSUME NEW k \in DOMAIN slots, k < m
      PROVE  slots[k][1] < Window /\ ~Suits(p, Entry(vol, slots[k]))
  <2>1. ~(m <= k)
    BY <1>4, <1>6, <1>8
  <2>2. ~Ends(slots[k])
    BY <1>5, <2>1
  <2>3. slots[k][1] \in Nat
    BY <1>3, Geometry DEF Scan, Lbas
  <2>4. QED
    BY <2>2, <2>3, Geometry
<1> HIDE DEF H, Ends
<1>9. QED
  BY <1>6, <1>7, <1>8 DEF FirstSuitable

LEMMA WriteBeginSurvives ==
  ASSUME IInv, FInv, NEW p \in Paths, NEW n \in Sizes, WriteBegin(p, n)
  PROVE  FInv'
<1> DEFINE slot == WriteSlot(p)
           old == Entry(vol, slot).clus
<1>1. IInv' /\ Harmless
  BY WriteBeginStep
<1>2. /\ pc = "idle" /\ Coherent(vol)
      /\ vol' = AfterWalk(vol, WriteLinks(p)) /\ WriteLinks(p) \in Seq(Clusters)
  BY WriteLinksAre DEF WriteBegin, IInv, Cache
<1>3. Settles(vol, vol')
  BY <1>2, WalkSettles
<1>4. CASE slot = <<>>
  <2>1. pc' = "idle" /\ expect' = expect
    BY <1>4 DEF WriteBegin, Return
  <2>2. Content'
    BY <2>1 DEF Content, Writing
  <2>3. QED
    BY <1>1, <1>3, <2>1, <2>2, Unharmed
<1>5. CASE slot # <<>>
  <2>1. /\ op' = [NoOp EXCEPT !.path = p, !.size = n, !.slot = slot, !.clus = old]
        /\ pc' = IF old = 0 THEN "alloc" ELSE "free"
        /\ expect' = [expect EXCEPT ![p] = Unknown]
    BY <1>5 DEF WriteBegin, OldChain
  <2>2. FirstSuitable(p, slot)
    BY <1>5, WriteSlotFirst
  <2>3. slot \in AllSlots(vol)
    BY <1>5, WriteSlotIs
  <2> HIDE DEF slot, old
  <2>4. op'.path = p /\ op'.slot = slot /\ op'.first = 0
    BY <2>1 DEF NoOp
  <2>5. op'.done = 0
    BY <2>1 DEF NoOp
  <2>6. op'.mkdir = FALSE
    BY <2>1 DEF NoOp
  <2>7. /\ expect'[p] = Unknown
        /\ \A q \in Paths : expect'[q] # Unknown => expect'[q] = expect[q]
    BY <2>1 DEF IInv, Types
  <2>8. OnDisk' /\ Reads' /\ DirsEnded(vol')
    BY <1>1, <1>3, <2>7, OthersKept
  <2>9. FirstSuitable(op.path, op.slot)'
    <3> DEFINE slots == SlotsFor(vol, Table, p)
    <3>1. PICK k \in DOMAIN slots :
            /\ slots[k] = slot /\ Suits(p, Entry(vol, slot))
            /\ \A m \in DOMAIN slots : m < k =>
                 slots[m][1] < Window /\ ~Suits(p, Entry(vol, slots[m]))
      BY <2>2 DEF FirstSuitable
    <3>2. \A m \in DOMAIN slots : slots[m][1] < Window => slots[m] \in AllSlots(vol)
      BY SlotHome
    <3>3. slots = SlotsFor(vol', Table', p)
      BY <1>1, HarmlessIsAlike, AlikeFinds
    <3> HIDE DEF slots
    <3>4. Suits(p, Entry(vol', slot))
      BY <1>1, <2>3, <3>1 DEF Harmless
    <3>5. \A m \in DOMAIN slots : m < k =>
            slots[m][1] < Window /\ ~Suits(p, Entry(vol', slots[m]))
      BY <1>1, <3>1, <3>2 DEF Harmless
    <3>6. QED
      BY <2>4, <3>1, <3>3, <3>4, <3>5 DEF FirstSuitable
  <2>10. Placed'
    BY <2>4, <2>7, <2>9 DEF Placed
  <2>11. NoDirYet' /\ Content'
    BY <2>1, <2>4, <2>5, <2>6 DEF NoDirYet, Content
  <2>12. QED
    BY <2>8, <2>10, <2>11 DEF FInv
<1>6. QED
  BY <1>4, <1>5

-----------------------------------------------------------------------------
(* The steps that store an entry: r is the volume with e in the slot.      *)
LEMMA CleanOnDisk ==
  ASSUME IInv', ~vol'.dirty
  PROVE  OnDisk'
<1>1. Settled(vol')
  BY CleanIsSettled DEF IInv, Cache
<1>2. Taken' \subseteq 0 .. MaxC - 1
  <2>1. Taken' \subseteq Clusters
    BY HeldAre DEF IInv, Dirs, Taken
  <2>2. QED
    BY <2>1, ClusterNumbers
<1>3. QED
  BY <1>1, <1>2 DEF OnDisk, Settled, Table

LEMMA SlotStored ==
  ASSUME IInv, NEW slot \in AllSlots(vol), NEW e, NEW r, r = WithEntry(vol, slot, e)
  PROVE  /\ Coherent(r) /\ DriverFat(r) = Table /\ r.dirty = vol.dirty
         /\ Entry(r, slot) = e
         /\ \A sl : (sl = <<sl[1], sl[2]>> /\ sl[1] \in Lbas /\ sl # slot) =>
                     Entry(r, sl) = Entry(vol, sl)
         /\ \A l \in Lbas : l # slot[1] => r.disk[l] = vol.disk[l]
<1>1. /\ slot = <<slot[1], slot[2]>> /\ slot[2] \in Indices
      /\ slot[1] \in Lbas /\ slot[1] \notin FatLbas
  BY OthersAre
<1>2. Coherent(vol) /\ WholeSector(vol, slot[1])
  BY DEF IInv, Cache, Dirs, DirsWhole
<1>3. QED
  BY <1>1, <1>2, EntryStored DEF SameTable, Table

(* The directories as their slots are scanned.                             *)
Directory(slots) ==
  \/ slots = RootSlots
  \/ \E q \in DirEntries(vol) : slots = SubdirSlots(Table, Entry(vol, q).clus)

LEMMA DirectoryIs ==
  ASSUME IInv, FInv, NEW slots, Directory(slots)
  PROVE  /\ Scan(slots) /\ Ended(vol, slots) /\ Once(slots)
         /\ \A n \in DOMAIN slots : slots[n][1] < Window => slots[n] \in AllSlots(vol)
<1>1. CASE slots = RootSlots
  <2>1. \A n \in DOMAIN slots : slots[n] \in AllSlots(vol)
    BY <1>1 DEF AllSlots, SlotsIn
  <2>2. QED
    BY <1>1, <2>1, RootScan, RootOnce DEF FInv, DirsEnded
<1>2. ASSUME NEW q \in DirEntries(vol), slots = SubdirSlots(Table, Entry(vol, q).clus)
      PROVE  /\ Scan(slots) /\ Ended(vol, slots) /\ Once(slots)
             /\ \A n \in DOMAIN slots : slots[n][1] < Window => slots[n] \in AllSlots(vol)
  <2>1. Ended(vol, slots)
    BY <1>2 DEF FInv, DirsEnded, Table
  <2>2. Scan(slots) /\ Once(slots)
    BY <1>2, SubdirScan, SubdirOnce, OtherDirs
  <2>3. \A n \in DOMAIN slots : slots[n][1] < Window => slots[n] \in SlotsUnder(vol, q)
    BY <1>2 DEF SlotsUnder, SlotsIn, Table
  <2>4. QED
    BY <2>1, <2>2, <2>3, SlotsAre
<1>3. QED
  BY <1>1, <1>2 DEF Directory

LEMMA PathDirectory ==
  ASSUME IInv, NEW p \in Paths
  PROVE  SlotsFor(vol, Table, p) = <<>> \/ Directory(SlotsFor(vol, Table, p))
<1>1. CASE Len(p) = 1
  BY <1>1 DEF SlotsFor, Directory
<1>2. CASE Len(p) # 1 /\ FindDir(vol, p[1]) = FREE
  BY <1>2 DEF SlotsFor
<1>3. CASE Len(p) # 1 /\ FindDir(vol, p[1]) # FREE
  <2>1. PICK q \in DirEntries(vol) : Entry(vol, q) = FindDir(vol, p[1])
    BY <1>3, DirFound
  <2>2. SlotsFor(vol, Table, p) = SubdirSlots(Table, Entry(vol, q).clus)
    BY <1>3, <2>1 DEF SlotsFor
  <2>3. QED
    BY <2>2 DEF Directory
<1>4. QED
  BY <1>1, <1>2, <1>3

(* A slot belongs to one directory.                                        *)
LEMMA OneDirectory ==
  ASSUME IInv, NEW slots, Directory(slots), NEW there, Directory(there),
         NEW n \in DOMAIN slots, NEW m \in DOMAIN there, slots[n] = there[m]
  PROVE  slots = there
<1> DEFINE l == slots[n][1]
<1>1. ASSUME NEW s, Directory(s), NEW k \in DOMAIN s
      PROVE  \/ s = RootSlots /\ s[k][1] < DataStart
             \/ \E q \in DirEntries(vol) :
                  /\ s = SubdirSlots(Table, Entry(vol, q).clus)
                  /\ s[k][1] \in SectorsOf(ClustersOf(vol, q))
                  /\ ~(s[k][1] < DataStart)
  <2>1. CASE s = RootSlots
    <3>1. s[k] \in RootLbas \X Indices
      BY <2>1, RootSlotsAre
    <3>2. QED
      BY <2>1, <3>1, RootSlotsAre
  <2>2. ASSUME NEW q \in DirEntries(vol), s = SubdirSlots(Table, Entry(vol, q).clus)
        PROVE  s[k][1] \in SectorsOf(ClustersOf(vol, q)) /\ ~(s[k][1] < DataStart)
    <3>1. s[k] \in SectorsOf(Mem(Table, Entry(vol, q).clus)) \X Indices
      BY <2>2, SubdirSlotsAre
    <3>2. s[k][1] \in SectorsOf(ClustersOf(vol, q))
      BY <3>1, OtherDirs
    <3>3. PICK c \in ClustersOf(vol, q) : s[k][1] \in ClusterLbas(c)
      BY <3>2 DEF SectorsOf
    <3>4. s[k][1] >= DataStart /\ s[k][1] \in Lbas
      BY <3>3, OtherDirs, SectorsAre
    <3>5. QED
      BY <3>2, <3>4, Geometry DEF Lbas
  <2>3. QED
    BY <1>1, <2>1, <2>2 DEF Directory
<1>2. l = there[m][1]
  OBVIOUS
<1>3. CASE l < DataStart
  <2>1. slots = RootSlots
    BY <1>1, <1>3
  <2>2. there = RootSlots
    BY <1>1, <1>2, <1>3
  <2>3. QED
    BY <2>1, <2>2
<1>4. CASE ~(l < DataStart)
  <2>1. PICK q \in DirEntries(vol) :
          /\ slots = SubdirSlots(Table, Entry(vol, q).clus)
          /\ l \in SectorsOf(ClustersOf(vol, q))
    BY <1>1, <1>4
  <2>2. PICK u \in DirEntries(vol) :
          /\ there = SubdirSlots(Table, Entry(vol, u).clus)
          /\ l \in SectorsOf(ClustersOf(vol, u))
    BY <1>1, <1>2, <1>4
  <2>3. q = u
    BY <2>1, <2>2, OtherDirs, SectorOwner
  <2>4. QED
    BY <2>1, <2>2, <2>3
<1>5. QED
  BY <1>3, <1>4

(* The clusters in the hands of the call are clusters of the volume.       *)
LEMMA HandAre ==
  ASSUME IInv
  PROVE  Hand \subseteq Clusters
<1>1. CASE pc = "idle"
  BY <1>1 DEF Hand
<1>2. CASE pc # "idle" /\ op.mkdir
  BY <1>2 DEF Hand, IInv, CallOK, MkdirOK
<1>3. CASE pc # "idle" /\ ~op.mkdir
  <2>1. WriteOK
    BY <1>3 DEF IInv, CallOK
  <2>2. Built \subseteq Clusters
    BY <2>1, SoundShape DEF WriteOK, BuiltOK, Built
  <2>3. pc = "free" => Mem(Table, op.clus) \subseteq Clusters
    BY <2>1, SoundShape DEF WriteOK, FreeOK
  <2>4. pc = "link" => op.clus \in Clusters
    BY <2>1 DEF WriteOK, BuiltOK
  <2>5. QED
    BY <1>3, <2>2, <2>3, <2>4 DEF Hand
<1>4. QED
  BY <1>1, <1>2, <1>3

(* No slot lies in the sectors of a file, nor in those in hand.            *)
LEMMA SlotOffFiles ==
  ASSUME IInv, NEW slot \in AllSlots(vol), NEW l, l = slot[1]
  PROVE  /\ \A a \in Others \ DirEntries(vol) : l \notin SectorsOf(ClustersOf(vol, a))
         /\ l \notin SectorsOf(Hand)
<1>1. CASE slot \in SlotsIn(RootSlots)
  <2>1. slot \in RootLbas \X Indices
    BY <1>1, RootSlotsAre
  <2>2. l < DataStart /\ l \in Nat /\ l \in RootLbas
    BY <2>1, RootSlotsAre
  <2>3. \A c \in Clusters : l \notin ClusterLbas(c)
    BY <2>2, SectorsAre, Geometry
  <2>4. \A a \in Others : l \notin SectorsOf(ClustersOf(vol, a))
    BY <2>3, OtherDirs DEF SectorsOf
  <2>5. Hand \subseteq Clusters
    BY HandAre
  <2>6. QED
    BY <2>3, <2>4, <2>5 DEF SectorsOf
<1>2. ASSUME NEW q \in DirEntries(vol), slot \in SlotsUnder(vol, q)
      PROVE  /\ \A a \in Others \ DirEntries(vol) : l \notin SectorsOf(ClustersOf(vol, a))
             /\ l \notin SectorsOf(Hand)
  <2>1. slot \in SectorsOf(ClustersOf(vol, q)) \X Indices
    BY <1>2, SlotsAre
  <2>2. l \in SectorsOf(ClustersOf(vol, q)) /\ q \in Others
    BY <2>1, OtherDirs
  <2>3. \A a \in Others \ DirEntries(vol) : l \notin SectorsOf(ClustersOf(vol, a))
    BY <2>2, SectorOwner
  <2>4. PICK c \in ClustersOf(vol, q) : l \in ClusterLbas(c)
    BY <2>2 DEF SectorsOf
  <2>5. c \in Clusters /\ c \in Taken /\ c \notin Hand
    BY <2>2, OtherDirs DEF IInv, HandApart
  <2>6. \A d \in Hand : d \in Clusters /\ d # c
    BY <2>5, HandAre
  <2>7. \A d \in Hand : l \notin ClusterLbas(d)
    BY <2>4, <2>5, <2>6, ClustersApart
  <2>8. QED
    BY <2>3, <2>7 DEF SectorsOf
<1>3. QED
  BY <1>1, <1>2 DEF AllSlots

(* A file whose directory has the slot, but not for it, reads the same.    *)
LEMMA OtherReads ==
  ASSUME IInv, FInv, NEW slot \in AllSlots(vol), NEW e, e # FREE,
         NEW r, r = WithEntry(vol, slot, e),
         NEW p \in Paths, Writing => p # op.path,
         NEW slots, slots = SlotsFor(vol, Table, p), slots = SlotsFor(r, Table, p),
         \A n \in DOMAIN slots : slots[n] = slot =>
           /\ n \notin FileHits(vol, slots, NameOf(p))
           /\ n \notin FileHits(r, slots, NameOf(p))
  PROVE  fat16_read_file(r, Table, p) = fat16_read_file(vol, Table, p)
<1> DEFINE f == fat16_find_file(vol, Table, p)
           N == FileHits(vol, slots, NameOf(p))
           M == FileHits(r, slots, NameOf(p))
<1>1. /\ Entry(r, slot) = e /\ slot[1] < Window
      /\ \A sl : (sl = <<sl[1], sl[2]>> /\ sl[1] \in Lbas /\ sl # slot) =>
                   Entry(r, sl) = Entry(vol, sl)
      /\ \A l \in Lbas : l # slot[1] => r.disk[l] = vol.disk[l]
  BY SlotStored, OthersAre
<1>2. Scan(slots)
  BY SlotsForScan
<1>3. Ended(vol, slots)
  <2>1. CASE slots = <<>>
    BY <2>1 DEF Ended
  <2>2. CASE Directory(slots)
    BY <2>2, DirectoryIs
  <2>3. QED
    BY <2>1, <2>2, PathDirectory
<1>4. \A n \in DOMAIN slots : slots[n][1] < Window /\ slots[n] # slot =>
        Entry(r, slots[n]) = Entry(vol, slots[n]) /\ (n \in M <=> n \in N)
  <2>1. \A n \in DOMAIN slots : slots[n] # slot =>
          Entry(r, slots[n]) = Entry(vol, slots[n])
    BY <1>1, <1>2 DEF Scan
  <2>2. QED
    BY <2>1 DEF FileHits
<1>5. fat16_find_file(vol, Table, p) = Look(vol, slots, N)
  BY <1>2, FindFileLooks
<1>6. fat16_find_file(r, Table, p) = Look(r, slots, M)
  BY <1>2, FindFileLooks
<1>7. \A n \in DOMAIN slots : slots[n] = slot =>
        slot[1] < Window /\ n \notin N /\ n \notin M
  BY <1>1
<1>8. f = fat16_find_file(r, Table, p)
  <2> HIDE DEF N, M
  <2>1. Look(r, slots, M) = Look(vol, slots, N)
    BY <1>1, <1>2, <1>3, <1>4, <1>7, LookPast
  <2>2. QED
    BY <1>5, <1>6, <2>1
<1>9. ASSUME f # FREE
      PROVE  /\ Sound(Table, f.clus) /\ f.size \in Nat
             /\ \A c \in Mem(Table, f.clus) : \A l \in ClusterLbas(c) :
                  r.disk[l] = vol.disk[l]
  <2>1. PICK a \in Others :
          Entry(vol, a) = f /\ f.size \in Nat /\ a \notin DirEntries(vol)
    BY <1>9, FileIsOther DEF FInv
  <2> HIDE DEF f
  <2>2. /\ Sound(Table, f.clus) /\ ClustersOf(vol, a) = Mem(Table, f.clus)
        /\ \A c \in ClustersOf(vol, a) : c \in Clusters
    BY <2>1, OtherDirs
  <2>3. slot[1] \notin SectorsOf(ClustersOf(vol, a))
    BY <2>1, SlotOffFiles
  <2>4. ASSUME NEW c \in ClustersOf(vol, a), NEW l \in ClusterLbas(c)
        PROVE  r.disk[l] = vol.disk[l]
    <3>1. l # slot[1] /\ l \in Lbas
      BY <2>2, <2>3, SectorsAre DEF SectorsOf
    <3>2. QED
      BY <1>1, <3>1
  <2>5. QED
    BY <2>1, <2>2, <2>4
<1> HIDE DEF f
<1>10. QED
  BY <1>8, <1>9, ReadSame DEF f

(* What WriteEntry stores.                                                 *)
LEMMA NewEntry ==
  ASSUME IInv, FInv, WriteEntry
  PROVE  \E e :
           /\ vol' = WithEntry(vol, op.slot, e)
           /\ e \notin Empty /\ e # FREE /\ ~e.dir /\ e.name = NameOf(op.path)
           /\ e.clus = op.first /\ e.size = op.size
           /\ e.clus # 0 /\ Sound(Table, op.first) /\ Hand = Mem(Table, op.first)
           /\ op.slot \in AllSlots(vol) /\ ~Entry(vol, op.slot).dir
           /\ op.size \in Nat /\ op.path \in Paths
           /\ FirstSuitable(op.path, op.slot)
           /\ Len(Chain(Table, op.first)) = op.done /\ op.done \in Nat
           /\ Stored(op.done) /\ op.size <= op.done * SPC
<1> DEFINE e == File(NameOf(op.path), op.first, op.size)
<1>1. /\ pc = "entry" /\ ~op.mkdir /\ WriteOK /\ OldOK /\ BuiltOK /\ op.ok
  BY DEF WriteEntry, IInv, CallOK, WriteOK
<1>2. vol' = WithEntry(vol, op.slot, e)
  BY DEF WriteEntry
<1>3. op.first # 0 /\ Sound(Table, op.first)
  BY <1>1 DEF BuiltOK
<1>4. Hand = Mem(Table, op.first)
  BY <1>1, <1>3 DEF Hand, Built
<1>5. op.slot \in AllSlots(vol) /\ ~Entry(vol, op.slot).dir
  BY <1>1 DEF OldOK
<1>6. op.size \in Nat /\ op.path \in Paths
  BY <1>1, BoundsAssumption DEF WriteOK
<1>7. FirstSuitable(op.path, op.slot)
  BY <1>1 DEF FInv, Placed, Writing
<1>8. /\ Len(Chain(Table, op.first)) = op.done /\ op.done \in Nat
      /\ Stored(op.done) /\ op.size <= op.done * SPC
  BY <1>1, <1>3 DEF FInv, Content, Writing
<1>9. e.name = NameOf(op.path) /\ e.clus = op.first /\ e.size = op.size
  BY DEF File
<1>10. ~e.dir
  BY DEF File
<1>11. e \notin Empty /\ e # FREE
  <2>1. FREE.clus = 0 /\ DELETED.clus = 0
    BY DEF FREE, DELETED
  <2>2. e # FREE /\ e # DELETED
    BY <1>3, <1>9, <2>1
  <2>3. QED
    BY <2>2 DEF Empty
<1> HIDE DEF e
<1>12. QED
  BY <1>2, <1>3, <1>4, <1>5, <1>6, <1>7, <1>8, <1>9, <1>10, <1>11

(* The slot of a write comes first in its directory.                       *)
LEMMA FirstInDirectory ==
  ASSUME IInv, FInv, op.path \in Paths, FirstSuitable(op.path, op.slot),
         NEW slots, Directory(slots), NEW n \in DOMAIN slots, slots[n] = op.slot
  PROVE  /\ slots = SlotsFor(vol, Table, op.path)
         /\ \A m \in DOMAIN slots : m < n =>
              slots[m][1] < Window /\ ~Suits(op.path, Entry(vol, slots[m]))
<1> DEFINE there == SlotsFor(vol, Table, op.path)
<1>1. PICK k \in DOMAIN there :
        /\ there[k] = op.slot
        /\ \A m \in DOMAIN there : m < k =>
             there[m][1] < Window /\ ~Suits(op.path, Entry(vol, there[m]))
  BY DEF FirstSuitable
<1>2. Directory(there)
  <2>1. there # <<>>
    BY <1>1
  <2>2. QED
    BY <2>1, PathDirectory
<1> HIDE DEF there
<1>3. slots = there
  BY <1>1, <1>2, OneDirectory
<1>4. n = k
  <2>1. Once(slots)
    BY DirectoryIs
  <2>2. QED
    BY <1>1, <1>3, <2>1 DEF Once
<1>5. QED
  BY <1>1, <1>3, <1>4 DEF there

(* The new entry is no directory's: the slots of every path stay.          *)
LEMMA WriteEntryFinds ==
  ASSUME IInv, FInv, NEW e, e # FREE, ~e.dir, op.slot \in AllSlots(vol),
         ~Entry(vol, op.slot).dir, NEW r, r = WithEntry(vol, op.slot, e)
  PROVE  /\ \A p : SlotsFor(r, Table, p) = SlotsFor(vol, Table, p)
         /\ DirEntries(r) = DirEntries(vol)
         /\ \A q \in DirEntries(vol) : Entry(r, q) = Entry(vol, q)
<1> DEFINE slot == op.slot
<1>1. /\ Entry(r, slot) = e /\ slot[1] < Window
      /\ \A sl : (sl = <<sl[1], sl[2]>> /\ sl[1] \in Lbas /\ sl # slot) =>
                   Entry(r, sl) = Entry(vol, sl)
  BY SlotStored, OthersAre
<1>2. \A n \in DOMAIN RootSlots : RootSlots[n] # slot =>
        Entry(r, RootSlots[n]) = Entry(vol, RootSlots[n])
  BY <1>1, RootScan DEF Scan
<1>3. ASSUME NEW d PROVE FindDir(r, d) = FindDir(vol, d)
  <2> DEFINE N == DirHits(vol, d)
             M == DirHits(r, d)
  <2>1. \A n \in DOMAIN RootSlots : RootSlots[n][1] < Window /\ RootSlots[n] # slot =>
          Entry(r, RootSlots[n]) = Entry(vol, RootSlots[n]) /\ (n \in M <=> n \in N)
    BY <1>2 DEF DirHits
  <2>2. \A n \in DOMAIN RootSlots : RootSlots[n] = slot =>
          slot[1] < Window /\ n \notin N /\ n \notin M
    BY <1>1 DEF DirHits
  <2>3. FindDir(r, d) = Look(r, RootSlots, M) /\ FindDir(vol, d) = Look(vol, RootSlots, N)
    BY FindDirLooks
  <2> HIDE DEF N, M
  <2>4. Look(r, RootSlots, M) = Look(vol, RootSlots, N)
    BY <1>1, <2>1, <2>2, RootScan, LookPast DEF FInv, DirsEnded
  <2>5. QED
    BY <2>3, <2>4
<1>4. ASSUME NEW p PROVE SlotsFor(r, Table, p) = SlotsFor(vol, Table, p)
  BY <1>3, SlotsSame
<1>5. ASSUME NEW q \in SlotsIn(RootSlots)
      PROVE  /\ q \in DirEntries(r) <=> q \in DirEntries(vol)
             /\ q \in DirEntries(vol) => Entry(r, q) = Entry(vol, q)
  <2>1. CASE q = slot
    BY <1>1, <2>1 DEF DirEntries, RootEntries
  <2>2. CASE q # slot
    <3>1. Entry(r, q) = Entry(vol, q)
      BY <1>2, <2>2 DEF SlotsIn
    <3>2. QED
      BY <3>1 DEF DirEntries, RootEntries
  <2>3. QED
    BY <2>1, <2>2
<1>6. DirEntries(r) \subseteq SlotsIn(RootSlots) /\ DirEntries(vol) \subseteq SlotsIn(RootSlots)
  BY DEF DirEntries, RootEntries
<1>7. QED
  BY <1>4, <1>5, <1>6

(* Through the new entry the path reads as it was just written.            *)
LEMMA NewFileReads ==
  ASSUME IInv, FInv, WriteEntry
  PROVE  fat16_read_file(vol', Table, op.path) = Contents(op.path, <<ops, op.size>>)
<1>1. PICK e :
        /\ vol' = WithEntry(vol, op.slot, e)
        /\ e \notin Empty /\ e # FREE /\ ~e.dir /\ e.name = NameOf(op.path)
        /\ e.clus = op.first /\ e.size = op.size
        /\ e.clus # 0 /\ Sound(Table, op.first) /\ Hand = Mem(Table, op.first)
        /\ op.slot \in AllSlots(vol) /\ ~Entry(vol, op.slot).dir
        /\ op.size \in Nat /\ op.path \in Paths
        /\ FirstSuitable(op.path, op.slot)
        /\ Len(Chain(Table, op.first)) = op.done /\ op.done \in Nat
        /\ Stored(op.done) /\ op.size <= op.done * SPC
  BY NewEntry
<1> DEFINE p == op.path
           slot == op.slot
           slots == SlotsFor(vol, Table, p)
           M == FileHits(vol', slots, NameOf(p))
           ch == Chain(Table, op.first)
<1>2. /\ Entry(vol', slot) = e /\ slot[1] < Window
      /\ \A sl : (sl = <<sl[1], sl[2]>> /\ sl[1] \in Lbas /\ sl # slot) =>
                   Entry(vol', sl) = Entry(vol, sl)
      /\ \A l \in Lbas : l # slot[1] => vol'.disk[l] = vol.disk[l]
  BY <1>1, SlotStored, OthersAre
<1>3. Scan(slots) /\ slots = SlotsFor(vol', Table, p)
  BY <1>1, SlotsForScan, WriteEntryFinds
<1>4. PICK n \in DOMAIN slots :
        /\ slots[n] = slot /\ Suits(p, Entry(vol, slot))
        /\ \A m \in DOMAIN slots : m < n =>
             slots[m][1] < Window /\ ~Suits(p, Entry(vol, slots[m]))
  BY <1>1 DEF FirstSuitable
<1>5. fat16_find_file(vol', Table, p) = Look(vol', slots, M)
  BY <1>3, FindFileLooks
<1> HIDE DEF slots
<1>6. n \in Stops(vol', slots, M)
  BY <1>1, <1>2, <1>4 DEF Stops, FileHits
<1>7. ASSUME NEW m \in Stops(vol', slots, M) PROVE n <= m
  <2>1. m \in DOMAIN slots /\ m \in Nat /\ n \in Nat
    BY <1>3 DEF Stops, Scan
  <2>2. SUFFICES ASSUME m < n PROVE FALSE
    BY <2>1
  <2>3. slots[m][1] < Window /\ ~Suits(p, Entry(vol, slots[m]))
    BY <1>4, <2>1, <2>2
  <2>4. slots[m] # slot
    BY <1>4, <2>3
  <2>5. Entry(vol', slots[m]) = Entry(vol, slots[m])
    BY <1>2, <1>3, <2>1, <2>4 DEF Scan
  <2>6. slots[m][1] \in Nat
    BY <1>3, <2>1, Geometry DEF Scan, Lbas
  <2>7. ~(slots[m][1] >= Window) /\ Entry(vol', slots[m]) # FREE /\ m \notin M
    BY <2>3, <2>5, <2>6, Geometry DEF Suits, Empty, FileHits
  <2>8. QED
    BY <2>7 DEF Stops
<1>8. Found(vol', slots, n) = e
  <2>1. slot[1] \in Nat
    BY <1>1, Geometry, OthersAre DEF Lbas
  <2>2. ~(slot[1] >= Window)
    BY <1>2, <2>1, Geometry
  <2>3. QED
    BY <1>2, <1>4, <2>2 DEF Found
<1> HIDE DEF M
<1>9. fat16_find_file(vol', Table, p) = e
  BY <1>3, <1>5, <1>6, <1>7, <1>8, LookFirst
<1>10. Count(ch, op.size) = op.size
  <2>1. op.done * SPC \in Nat
    BY <1>1, Geometry
  <2>2. QED
    BY <1>1, <2>1 DEF Count
<1>11. fat16_read_file(vol', Table, p) = SectorsRead(vol', ch, op.size)
  <2>1. e.clus = op.first /\ e.size = op.size /\ e # FREE
    BY <1>1
  <2>2. QED
    BY <1>9, <1>10, <2>1, ReadIs DEF ReadBy
<1>12. PICK k \in Nat : k = op.done
  BY <1>1
<1>13. ASSUME NEW j \in 1 .. op.size, NEW l, l = At(ch, j - 1)
       PROVE  l < Window /\ l \in Nat /\ vol'.disk[l] = Data(p, ops, j - 1)
  <2>1. j - 1 \in 0 .. op.size - 1 /\ j - 1 \in Nat /\ j - 1 < op.size
    BY <1>1
  <2>2. j - 1 < k * SPC
    <3>1. k * SPC \in Nat /\ op.size <= k * SPC
      BY <1>1, <1>12, Geometry
    <3>2. QED
      BY <1>1, <2>1, <3>1
  <2>3. l < Window /\ vol.disk[l] = Data(p, ops, j - 1)
    BY <1>1, <1>12, <1>13, <2>1, <2>2 DEF Stored
  <2>4. /\ ch[(j - 1) \div SPC + 1] \in Mem(Table, op.first)
        /\ l \in ClusterLbas(ch[(j - 1) \div SPC + 1]) /\ l \in Lbas
    BY <1>1, <1>12, <1>13, <2>1, <2>2, StoredSectors
  <2>5. l \in SectorsOf(Hand)
    BY <1>1, <2>4 DEF SectorsOf
  <2>6. l # slot[1]
    BY <1>1, <2>5, SlotOffFiles
  <2>7. vol'.disk[l] = vol.disk[l] /\ l \in Nat
    BY <1>2, <2>4, <2>6, Geometry DEF Lbas
  <2>8. QED
    BY <2>3, <2>7
<1> HIDE DEF ch
<1>14. ~(\E j \in 1 .. op.size : At(ch, j - 1) >= Window)
  BY <1>13, Geometry
<1>15. SectorsRead(vol', ch, op.size) = [j \in 1 .. op.size |-> Data(p, ops, j - 1)]
  BY <1>13, <1>14 DEF SectorsRead
<1>16. Contents(p, <<ops, op.size>>) = [j \in 1 .. op.size |-> Data(p, ops, j - 1)]
  <2>1. op.size # -1
    BY <1>1
  <2>2. <<ops, op.size>> # Absent
    BY <2>1 DEF Absent
  <2>3. QED
    BY <2>2 DEF Contents
<1>17. QED
  BY <1>11, <1>15, <1>16

(* Other paths do not find their file in the slot, before or after.        *)
LEMMA SlotIsNotAnothers ==
  ASSUME IInv, FInv, op.path \in Paths, FirstSuitable(op.path, op.slot),
         NEW r, Entry(r, op.slot).name = NameOf(op.path),
         NEW p \in Paths, p # op.path, NEW slots, slots = SlotsFor(vol, Table, p),
         NEW n \in DOMAIN slots, slots[n] = op.slot
  PROVE  /\ n \notin FileHits(vol, slots, NameOf(p))
         /\ n \notin FileHits(r, slots, NameOf(p))
<1>1. PICK k \in DOMAIN SlotsFor(vol, Table, op.path) :
        /\ SlotsFor(vol, Table, op.path)[k] = op.slot
        /\ Suits(op.path, Entry(vol, op.slot))
  BY DEF FirstSuitable
<1>2. NameOf(p) # NameOf(op.path)
  BY <1>1, SlotOwner
<1>3. n \notin FileHits(vol, slots, NameOf(p))
  BY <1>1, <1>2 DEF FileHits, Suits
<1>4. n \notin FileHits(r, slots, NameOf(p))
  BY <1>2 DEF FileHits
<1>5. QED
  BY <1>3, <1>4

LEMMA WriteEntrySurvives ==
  ASSUME IInv, FInv, WriteEntry
  PROVE  FInv'
<1>1. PICK e :
        /\ vol' = WithEntry(vol, op.slot, e)
        /\ e # FREE /\ ~e.dir /\ e.name = NameOf(op.path)
        /\ op.slot \in AllSlots(vol) /\ ~Entry(vol, op.slot).dir
        /\ op.path \in Paths /\ FirstSuitable(op.path, op.slot)
  BY NewEntry
<1>2. /\ pc = "entry" /\ pc' = "idle"
      /\ expect' = [expect EXCEPT ![op.path] = <<ops, op.size>>]
  BY DEF WriteEntry, Return
<1>3. IInv'
  BY WriteEntryStep
<1>4. /\ DriverFat(vol') = Table /\ vol'.dirty = vol.dirty /\ Entry(vol', op.slot) = e
      /\ \A sl : (sl = <<sl[1], sl[2]>> /\ sl[1] \in Lbas /\ sl # op.slot) =>
                   Entry(vol', sl) = Entry(vol, sl)
  BY <1>1, SlotStored
<1>5. Table' = Table
  BY <1>4 DEF Table
<1>6. ~vol'.dirty
  BY <1>2, <1>4 DEF IInv, Cache
<1>7. OnDisk'
  BY <1>3, <1>6, CleanOnDisk
<1>8. /\ \A p : SlotsFor(vol', Table, p) = SlotsFor(vol, Table, p)
      /\ DirEntries(vol') = DirEntries(vol)
      /\ \A q \in DirEntries(vol) : Entry(vol', q) = Entry(vol, q)
  BY <1>1, WriteEntryFinds
<1>9. ASSUME NEW p \in Paths, expect'[p] # Unknown
      PROVE  fat16_read_file(vol', Table', p) = Contents(p, expect'[p])
  <2>1. CASE p = op.path
    <3>1. expect'[p] = <<ops, op.size>>
      BY <1>1, <1>2, <2>1 DEF IInv, Types
    <3>2. QED
      BY <1>5, <2>1, <3>1, NewFileReads
  <2>2. CASE p # op.path
    <3>1. expect'[p] = expect[p]
      BY <1>2, <2>2 DEF IInv, Types
    <3>2. PICK slots : slots = SlotsFor(vol, Table, p)
      OBVIOUS
    <3>3. \A n \in DOMAIN slots : slots[n] = op.slot =>
            /\ n \notin FileHits(vol, slots, NameOf(p))
            /\ n \notin FileHits(vol', slots, NameOf(p))
      BY <1>1, <1>4, <2>2, <3>2, SlotIsNotAnothers
    <3>4. slots = SlotsFor(vol', Table, p)
      BY <1>8, <3>2
    <3>5. fat16_read_file(vol', Table, p) = fat16_read_file(vol, Table, p)
      BY <1>1, <2>2, <3>2, <3>3, <3>4, OtherReads
    <3>6. fat16_read_file(vol, Table, p) = Contents(p, expect[p])
      BY <1>9, <3>1 DEF FInv, Reads
    <3>7. QED
      BY <1>5, <3>1, <3>5, <3>6
  <2>3. QED
    BY <2>1, <2>2
<1>10. Reads'
  BY <1>9 DEF Reads
<1>11. ASSUME NEW slots, Directory(slots)
       PROVE  Ended(vol', slots)
  <2>1. Scan(slots) /\ Ended(vol, slots)
    BY <1>11, DirectoryIs
  <2>2. \A n \in DOMAIN slots : slots[n][1] < Window /\ slots[n] # op.slot =>
          Entry(vol', slots[n]) = Entry(vol, slots[n])
    BY <1>4, <2>1 DEF Scan
  <2>3. ASSUME NEW n \in DOMAIN slots, NEW m \in DOMAIN slots,
               slots[n] = op.slot, m < n, slots[m][1] < Window
        PROVE  Entry(vol, slots[m]) # FREE
    <3>1. ~Suits(op.path, Entry(vol, slots[m]))
      BY <1>1, <1>11, <2>3, FirstInDirectory
    <3>2. QED
      BY <3>1 DEF Suits, Empty
  <2>4. Entry(vol', op.slot) # FREE
    BY <1>1, <1>4
  <2>5. QED
    BY <2>1, <2>2, <2>3, <2>4, EndedStill
<1>12. DirsEnded(vol')
  <2>1. Ended(vol', RootSlots)
    BY <1>11 DEF Directory
  <2>2. \A q \in DirEntries(vol) : Ended(vol', SubdirSlots(Table, Entry(vol, q).clus))
    BY <1>11 DEF Directory
  <2>3. QED
    BY <1>4, <1>8, <2>1, <2>2 DEF DirsEnded
<1>13. Placed' /\ NoDirYet' /\ Content'
  BY <1>2 DEF Placed, NoDirYet, Content, Writing
<1>14. QED
  BY <1>7, <1>10, <1>12, <1>13 DEF FInv

-----------------------------------------------------------------------------
(* A search that finds no directory means that there is none.              *)
LEMMA NoSuchDir ==
  ASSUME NEW s, NEW d, FindDir(s, d) = FREE, Ended(s, RootSlots),
         NEW q \in DirEntries(s)
  PROVE  Entry(s, q).name # d
<1> DEFINE N == DirHits(s, d)
<1>1. PICK k \in DOMAIN RootSlots : RootSlots[k] = q
  BY DEF DirEntries, RootEntries, SlotsIn
<1>2. Entry(s, q).dir /\ Entry(s, q) # FREE
  BY DEF DirEntries, RootEntries, Empty
<1>3. SUFFICES ASSUME Entry(s, q).name = d PROVE FALSE
  OBVIOUS
<1>4. k \in Stops(s, RootSlots, N)
  BY <1>1, <1>2, <1>3 DEF Stops, DirHits
<1>5. Look(s, RootSlots, N) = FREE
  BY FindDirLooks
<1> HIDE DEF N
<1>6. PICK n \in Stops(s, RootSlots, N) :
        /\ \A m \in Stops(s, RootSlots, N) : n <= m
        /\ Found(s, RootSlots, n) = FREE
  BY <1>4, <1>5, RootScan, LookCases
<1>7. n \in DOMAIN RootSlots /\ n \in Nat /\ k \in Nat /\ RootSlots[n][1] < Window
      /\ RootSlots[k][1] < Window /\ n <= k
  BY <1>1, <1>4, <1>6, RootScan DEF Stops, Scan
<1>8. ~(RootSlots[n][1] >= Window)
  <2>1. RootSlots[n][1] \in Nat /\ Window \in Nat
    BY <1>7, RootScan, Geometry DEF Scan, Lbas
  <2>2. QED
    BY <1>7, <2>1
<1>9. Entry(s, RootSlots[n]) = FREE
  BY <1>6, <1>8 DEF Found
<1>10. n # k
  BY <1>1, <1>2, <1>9
<1>11. Entry(s, RootSlots[k]) = FREE
  BY <1>1, <1>7, <1>9, <1>10 DEF Ended
<1>12. QED
  BY <1>1, <1>2, <1>11

(* Where every slot is FREE no file is found.                              *)
LEMMA NothingThere ==
  ASSUME NEW s, NEW fat, NEW p, NEW slots, slots = SlotsFor(s, fat, p),
         \A n \in DOMAIN slots : slots[n][1] < Window => Entry(s, slots[n]) = FREE
  PROVE  fat16_read_file(s, fat, p) = Missing
<1> DEFINE N == FileHits(s, slots, NameOf(p))
<1>1. Scan(slots)
  BY SlotsForScan
<1>2. fat16_find_file(s, fat, p) = Look(s, slots, N)
  BY <1>1, FindFileLooks
<1> HIDE DEF N
<1>3. \A n \in DOMAIN slots : Found(s, slots, n) = FREE
  BY <1>1, Geometry DEF Found, Scan, Lbas
<1>4. Stops(s, slots, N) \subseteq DOMAIN slots
  BY DEF Stops
<1>5. Look(s, slots, N) = FREE
  BY <1>1, <1>3, <1>4, LookCases
<1>6. QED
  BY <1>2, <1>5 DEF fat16_read_file

(* What MkdirEntry stores, in the first slot that it may.                  *)
LEMMA FirstUnused ==
  ASSUME MkdirEntry
  PROVE  \/ vol' = vol
         \/ \E n \in DOMAIN RootSlots :
              /\ Entry(vol, RootSlots[n]) \in Empty
              /\ \A m \in DOMAIN RootSlots : m < n => Entry(vol, RootSlots[m]) \notin Empty
              /\ vol' = WithEntry(vol, RootSlots[n], Dir(op.path[1], op.clus))
<1> DEFINE Unused(sl) == Entry(vol, sl) \in Empty
           H == {n \in DOMAIN RootSlots : Unused(RootSlots[n])}
           m == CHOOSE n \in H : \A k \in H : n <= k
           n0 == IF H = {} THEN 0 ELSE m
<1>1. IF n0 = 0 THEN vol' = vol
      ELSE vol' = WithEntry(vol, RootSlots[n0], Dir(op.path[1], op.clus))
  BY DEF MkdirEntry, First
<1>2. H \in SUBSET Nat
  BY RootSlotsAre
<1>3. n0 # 0 => n0 \in H /\ \A k \in H : n0 <= k
  <2> HIDE DEF H
  <2>1. H # {} => \E n \in H : \A k \in H : n <= k
    BY <1>2, Least
  <2>2. QED
    BY <2>1
<1> HIDE DEF n0
<1>4. ASSUME n0 # 0, NEW k \in DOMAIN RootSlots, k < n0
      PROVE  Entry(vol, RootSlots[k]) \notin Empty
  <2>1. ~(n0 <= k)
    <3>1. n0 \in Nat /\ k \in Nat
      BY <1>2, <1>3, <1>4, RootSlotsAre
    <3>2. QED
      BY <1>4, <3>1
  <2>2. k \notin H
    BY <1>3, <1>4, <2>1
  <2>3. QED
    BY <2>2
<1>5. CASE n0 = 0
  BY <1>1, <1>5
<1>6. CASE n0 # 0
  BY <1>1, <1>3, <1>4, <1>6
<1>7. QED
  BY <1>5, <1>6

LEMMA NewDirectory ==
  ASSUME IInv, FInv, MkdirEntry, vol' # vol
  PROVE  \E e, n :
           /\ n \in DOMAIN RootSlots /\ Entry(vol, RootSlots[n]) \in Empty
           /\ \A m \in DOMAIN RootSlots : m < n => Entry(vol, RootSlots[m]) # FREE
           /\ vol' = WithEntry(vol, RootSlots[n], e)
           /\ e # FREE /\ e \notin Empty /\ e.dir /\ e.name = op.path[1]
           /\ e.name \notin FileNames /\ e.clus = op.clus
           /\ RootSlots[n] \in AllSlots(vol)
           /\ op.clus \in Clusters /\ IsEnd(Table[op.clus])
           /\ \A l \in ClusterLbas(op.clus) : l < Window => vol.disk[l] = Zeroed
           /\ FindDir(vol, op.path[1]) = FREE /\ ~Writing
<1> DEFINE e == Dir(op.path[1], op.clus)
<1>1. PICK n \in DOMAIN RootSlots :
        /\ Entry(vol, RootSlots[n]) \in Empty
        /\ \A m \in DOMAIN RootSlots : m < n => Entry(vol, RootSlots[m]) \notin Empty
        /\ vol' = WithEntry(vol, RootSlots[n], e)
  BY FirstUnused
<1>2. /\ pc = "entry" /\ op.mkdir
  BY DEF MkdirEntry
<1>3. MkdirOK
  BY <1>2 DEF IInv, CallOK
<1>4. e.clus = op.clus /\ e.name = op.path[1]
  BY DEF Dir
<1>5. e.dir
  BY DEF Dir
<1>6. op.path[1] \notin FileNames
  BY <1>3, NamesAssumption DEF MkdirOK
<1>7. e \notin Empty /\ e # FREE
  BY <1>5 DEF Empty, FREE, DELETED
<1> HIDE DEF e
<1>8. RootSlots[n] \in AllSlots(vol)
  BY DEF AllSlots, SlotsIn
<1>9. FindDir(vol, op.path[1]) = FREE /\ ~Writing
  BY <1>2 DEF FInv, NoDirYet, Writing
<1>10. /\ op.clus \in Clusters /\ IsEnd(Table[op.clus])
       /\ \A l \in ClusterLbas(op.clus) : l < Window => vol.disk[l] = Zeroed
  BY <1>2, <1>3 DEF MkdirOK
<1>11. \A m \in DOMAIN RootSlots : m < n => Entry(vol, RootSlots[m]) # FREE
  BY <1>1 DEF Empty
<1>12. QED
  BY <1>1, <1>4, <1>5, <1>6, <1>7, <1>8, <1>9, <1>10, <1>11

LEMMA MkdirEntrySurvives ==
  ASSUME IInv, FInv, MkdirEntry
  PROVE  FInv'
<1>1. /\ pc = "entry" /\ pc' = "idle" /\ expect' = expect
  BY MkdirSlot
<1>2. IInv'
  BY MkdirEntryStep
<1>3. Placed' /\ NoDirYet' /\ Content'
  BY <1>1 DEF Placed, NoDirYet, Content, Writing
<1>4. CASE vol' = vol
  <2>1. ~vol'.dirty
    BY <1>1, <1>4 DEF IInv, Cache
  <2>2. OnDisk'
    BY <1>2, <2>1, CleanOnDisk
  <2>3. Reads' /\ DirsEnded(vol')
    BY <1>1, <1>4 DEF FInv, Reads, Table
  <2>4. QED
    BY <1>3, <2>2, <2>3 DEF FInv
<1>5. CASE vol' # vol
  <2>1. PICK e, k :
           /\ k \in DOMAIN RootSlots /\ Entry(vol, RootSlots[k]) \in Empty
           /\ \A m \in DOMAIN RootSlots : m < k => Entry(vol, RootSlots[m]) # FREE
           /\ vol' = WithEntry(vol, RootSlots[k], e)
           /\ e # FREE /\ e \notin Empty /\ e.dir /\ e.name = op.path[1]
           /\ e.name \notin FileNames /\ e.clus = op.clus
           /\ RootSlots[k] \in AllSlots(vol)
           /\ op.clus \in Clusters /\ IsEnd(Table[op.clus])
           /\ \A l \in ClusterLbas(op.clus) : l < Window => vol.disk[l] = Zeroed
           /\ FindDir(vol, op.path[1]) = FREE /\ ~Writing
    BY <1>5, NewDirectory
  <2>2. PICK slot : slot = RootSlots[k]
    OBVIOUS
  <2>3. PICK d : d = op.path[1]
    OBVIOUS
  <2>4. /\ DriverFat(vol') = Table /\ vol'.dirty = vol.dirty /\ Entry(vol', slot) = e
        /\ \A sl : (sl = <<sl[1], sl[2]>> /\ sl[1] \in Lbas /\ sl # slot) =>
                     Entry(vol', sl) = Entry(vol, sl)
        /\ \A l \in Lbas : l # slot[1] => vol'.disk[l] = vol.disk[l]
    BY <2>1, <2>2, SlotStored
  <2>5. Table' = Table
    BY <2>4 DEF Table
  <2>6. ~vol'.dirty
    BY <1>1, <2>4 DEF IInv, Cache
  <2>7. OnDisk'
    BY <1>2, <2>6, CleanOnDisk
  <2>8. /\ slot[1] < Window /\ slot[1] < DataStart
        /\ Entry(vol, slot) \in Empty /\ ~Entry(vol, slot).dir
    <3>1. slot \in RootLbas \X Indices
      BY <2>1, <2>2, RootSlotsAre
    <3>2. slot[1] < Window /\ slot[1] < DataStart
      BY <3>1, RootSlotsAre
    <3>3. QED
      BY <2>1, <2>2, <3>2 DEF Empty, FREE, DELETED
  (* The directories that were there are found as before. *)
  <2>9. \A n \in DOMAIN RootSlots : RootSlots[n] # slot =>
          Entry(vol', RootSlots[n]) = Entry(vol, RootSlots[n])
    BY <2>4, RootScan DEF Scan
  <2>10. ASSUME NEW b, b # d PROVE FindDir(vol', b) = FindDir(vol, b)
    <3> DEFINE N == DirHits(vol, b)
               M == DirHits(vol', b)
    <3>1. \A n \in DOMAIN RootSlots : RootSlots[n][1] < Window /\ RootSlots[n] # slot =>
            Entry(vol', RootSlots[n]) = Entry(vol, RootSlots[n]) /\ (n \in M <=> n \in N)
      BY <2>9 DEF DirHits
    <3>2. \A n \in DOMAIN RootSlots : RootSlots[n] = slot =>
            slot[1] < Window /\ n \notin N /\ n \notin M
      BY <2>1, <2>3, <2>4, <2>8, <2>10 DEF DirHits
    <3>3. FindDir(vol', b) = Look(vol', RootSlots, M) /\ FindDir(vol, b) = Look(vol, RootSlots, N)
      BY FindDirLooks
    <3> HIDE DEF N, M
    <3>4. Look(vol', RootSlots, M) = Look(vol, RootSlots, N)
      BY <2>1, <2>4, <3>1, <3>2, RootScan, LookPast DEF FInv, DirsEnded
    <3>5. QED
      BY <3>3, <3>4
  <2>11. ASSUME NEW q \in DirEntries(vol'), q # slot
         PROVE  q \in DirEntries(vol) /\ Entry(vol', q) = Entry(vol, q)
    <3>1. q \in SlotsIn(RootSlots)
      BY DEF DirEntries, RootEntries
    <3>2. Entry(vol', q) = Entry(vol, q)
      BY <2>9, <2>11, <3>1 DEF SlotsIn
    <3>3. QED
      BY <3>1, <3>2 DEF DirEntries, RootEntries
  (* In the new one there is nothing. *)
  <2>12. \A n \in DOMAIN SubdirSlots(Table, op.clus) :
           LET sl == SubdirSlots(Table, op.clus)[n]
           IN  sl[1] < Window => Entry(vol', sl) = FREE
    <3>1. Mem(Table, op.clus) = {op.clus}
      BY <2>1, SoundOne
    <3>2. ASSUME NEW n \in DOMAIN SubdirSlots(Table, op.clus), NEW sl,
                 sl = SubdirSlots(Table, op.clus)[n], sl[1] < Window
          PROVE  Entry(vol', sl) = FREE
      <4>1. sl \in SectorsOf({op.clus}) \X Indices
        BY <3>1, <3>2, SubdirSlotsAre
      <4>2. sl[1] \in ClusterLbas(op.clus) /\ sl[2] \in 0 .. DPS - 1
        BY <4>1 DEF SectorsOf, Indices
      <4>3. sl[1] \in Lbas /\ sl[1] >= DataStart
        BY <2>1, <4>2, SectorsAre
      <4>4. sl[1] # slot[1]
        BY <2>8, <4>3, Geometry DEF Lbas
      <4>5. vol'.disk[sl[1]] = Zeroed
        BY <2>1, <2>4, <3>2, <4>2, <4>3, <4>4
      <4>6. QED
        BY <4>2, <4>5 DEF Entry, Entries, Zeroed
    <3>3. QED
      BY <3>2
  <2>13. ASSUME NEW p \in Paths, Len(p) # 1, p[1] = d
         PROVE  /\ fat16_read_file(vol, Table, p) = Missing
                /\ fat16_read_file(vol', Table, p) = Missing
    <3>1. SlotsFor(vol, Table, p) = <<>>
      BY <2>1, <2>3, <2>13 DEF SlotsFor
    <3>2. fat16_read_file(vol, Table, p) = Missing
      BY <3>1, NothingThere
    <3>3. CASE FindDir(vol', d) = FREE
      <4>1. SlotsFor(vol', Table, p) = <<>>
        BY <2>13, <3>3 DEF SlotsFor
      <4>2. QED
        BY <3>2, <4>1, NothingThere
    <3>4. CASE FindDir(vol', d) # FREE
      <4>1. PICK q \in DirEntries(vol') :
              Entry(vol', q) = FindDir(vol', d) /\ Entry(vol', q).name = d
        BY <3>4, DirFound
      <4>2. q = slot
        <5>1. SUFFICES ASSUME q # slot PROVE FALSE
          OBVIOUS
        <5>2. q \in DirEntries(vol) /\ Entry(vol, q).name = d
          BY <2>11, <4>1, <5>1
        <5>3. QED
          BY <2>1, <2>3, <5>2, NoSuchDir DEF FInv, DirsEnded
      <4>3. FindDir(vol', d).clus = op.clus
        BY <2>1, <2>4, <4>1, <4>2
      <4>4. SlotsFor(vol', Table, p) = SubdirSlots(Table, op.clus)
        BY <2>13, <3>4, <4>3 DEF SlotsFor
      <4>5. QED
        BY <2>12, <3>2, <4>4, NothingThere
    <3>5. QED
      BY <3>3, <3>4
  <2>14. ASSUME NEW p \in Paths, Len(p) = 1 \/ p[1] # d
         PROVE  fat16_read_file(vol', Table, p) = fat16_read_file(vol, Table, p)
    <3>1. PICK slots : slots = SlotsFor(vol, Table, p)
      OBVIOUS
    <3>2. slots = SlotsFor(vol', Table, p)
      <4>1. CASE Len(p) = 1
        BY <3>1, <4>1 DEF SlotsFor
      <4>2. CASE p[1] # d
        BY <2>10, <3>1, <4>2, SlotsSame
      <4>3. QED
        BY <2>14, <4>1, <4>2
    <3>3. NameOf(p) # e.name
      BY <2>1, NamesAre
    <3>4. \A n \in DOMAIN slots : slots[n] = slot =>
            /\ n \notin FileHits(vol, slots, NameOf(p))
            /\ n \notin FileHits(vol', slots, NameOf(p))
      BY <2>4, <2>8, <3>3 DEF FileHits
    <3>5. slot \in AllSlots(vol) /\ vol' = WithEntry(vol, slot, e) /\ e # FREE
      BY <2>1, <2>2
    <3>6. Writing => p # op.path
      BY <2>1
    <3>7. QED
      BY <3>1, <3>2, <3>4, <3>5, <3>6, OtherReads
  <2>15. Reads'
    <3>1. ASSUME NEW p \in Paths, expect[p] # Unknown
          PROVE  fat16_read_file(vol', Table, p) = Contents(p, expect[p])
      <4>1. fat16_read_file(vol, Table, p) = Contents(p, expect[p])
        BY <3>1 DEF FInv, Reads
      <4>2. QED
        BY <2>13, <2>14, <4>1
    <3>2. QED
      BY <1>1, <2>5, <3>1 DEF Reads
  (* No entry follows a FREE one. *)
  <2>16. Ended(vol', RootSlots)
    <3>1. Scan(RootSlots) /\ Once(RootSlots) /\ Ended(vol, RootSlots)
      BY RootScan, RootOnce DEF FInv, DirsEnded
    <3>2. ASSUME NEW n \in DOMAIN RootSlots, NEW m \in DOMAIN RootSlots,
                 RootSlots[n] = slot, m < n
          PROVE  Entry(vol, RootSlots[m]) # FREE
      <4>1. n = k
        BY <2>1, <2>2, <3>1, <3>2 DEF Once
      <4>2. QED
        BY <2>1, <3>2, <4>1
    <3>3. Entry(vol', slot) # FREE
      BY <2>1, <2>4
    <3>4. QED
      BY <2>9, <3>1, <3>2, <3>3, EndedStill
  <2>17. ASSUME NEW q \in DirEntries(vol'), NEW slots,
                slots = SubdirSlots(Table, Entry(vol', q).clus)
         PROVE  Ended(vol', slots)
    <3>1. CASE q = slot
      <4>1. slots = SubdirSlots(Table, op.clus)
        BY <2>1, <2>4, <2>17, <3>1
      <4>2. \A n \in DOMAIN slots : slots[n][1] < Window => Entry(vol', slots[n]) = FREE
        BY <2>12, <4>1
      <4>3. QED
        BY <4>2 DEF Ended
    <3>2. CASE q # slot
      <4>1. q \in DirEntries(vol) /\ slots = SubdirSlots(Table, Entry(vol, q).clus)
        BY <2>11, <2>17, <3>2
      <4>2. Directory(slots)
        BY <4>1 DEF Directory
      <4>3. Scan(slots) /\ Ended(vol, slots)
        BY <4>2, DirectoryIs
      <4>4. ASSUME NEW n \in DOMAIN slots, slots # RootSlots
            PROVE  slots[n] # slot
        <5>1. Directory(RootSlots)
          BY DEF Directory
        <5>2. QED
          BY <2>1, <2>2, <4>2, <4>4, <5>1, OneDirectory
      <4>5. CASE slots # RootSlots
        <5>1. \A n \in DOMAIN slots : Entry(vol', slots[n]) = Entry(vol, slots[n])
          BY <2>4, <4>3, <4>4, <4>5 DEF Scan
        <5>2. QED
          BY <4>3, <5>1, EndedSame
      <4>6. QED
        BY <2>16, <4>5
    <3>3. QED
      BY <3>1, <3>2
  <2>18. DirsEnded(vol')
    BY <2>4, <2>16, <2>17 DEF DirsEnded
  <2>19. QED
    BY <1>3, <2>7, <2>15, <2>18 DEF FInv
<1>6. QED
  BY <1>4, <1>5

-----------------------------------------------------------------------------
LEMMA InitSurvives ==
  ASSUME Init
  PROVE  FInv
<1>1. IInv
  BY InitIs
<1>2. PICK i \in Images : vol = Mounted(i) /\ expect = i.expect
  BY DEF Init
<1>3. pc = "idle" /\ ~vol.dirty
  BY <1>2 DEF Init, Mounted
<1>4. DirsEnded(vol) /\ ReadsAs(vol, expect)
  BY <1>2, ImagesAssumption DEF SoundImage
<1>5. OnDisk
  <2>1. Settled(vol)
    BY <1>1, <1>3, CleanIsSettled DEF IInv, Cache
  <2>2. QED
    BY <1>1, <2>1, SettledThere
<1>6. ~Writing /\ Placed /\ NoDirYet /\ Content
  BY <1>3 DEF Writing, Placed, NoDirYet, Content
<1>7. Reads
  <2>1. Alike(vol, DiskFat(vol))
    BY <1>5 DEF Alike, OnDisk
  <2>2. \A p \in Paths :
          fat16_read_file(vol, DiskFat(vol), p) = fat16_read_file(vol, Table, p)
    BY <1>1, <1>6, <2>1, ReadKept
  <2>3. QED
    BY <1>4, <2>2 DEF Reads, ReadsAs
<1>8. QED
  BY <1>4, <1>5, <1>6, <1>7 DEF FInv

LEMMA StillSurvives ==
  ASSUME FInv, UNCHANGED vars
  PROVE  FInv'
BY DEF vars, FInv, OnDisk, Reads, Placed, Writing, FirstSuitable, NoDirYet, Content,
       Stored, Taken, Others, Table

(* Whenever the power goes, in any phase of fat16_write_file, fat16_mkdir  *)
(* or a read, every file but the one being written, and but those a failed *)
(* write has left undefined, reads from the sectors as they are, without   *)
(* the cached FAT sector, as it was last written; and a path that was      *)
(* never written reads as missing.                                         *)
THEOREM SavedFilesAreRead == Spec => []OthersSurvive
<1>1. Init => FInv
  BY InitSurvives
<1>2. IInv /\ FInv /\ [Next]_vars => FInv'
  <2> SUFFICES ASSUME IInv, FInv, [Next]_vars PROVE FInv'
    OBVIOUS
  <2>1. ASSUME NEW p \in Paths, NEW n \in Sizes, WriteBegin(p, n) PROVE FInv'
    BY <2>1, WriteBeginSurvives
  <2>2. ASSUME NEW d \in DirNames, MkdirBegin(d) PROVE FInv'
    BY <2>2, MkdirBeginSurvives
  <2>3. ASSUME NEW p \in Paths, ReadFile(p) PROVE FInv'
    BY <2>3, ReadFileSurvives
  <2>4. CASE FreeOld
    BY <2>4, FreeOldSurvives
  <2>5. CASE Alloc
    BY <2>5, AllocSurvives
  <2>6. CASE Link
    BY <2>6, LinkSurvives
  <2>7. CASE WriteData
    BY <2>7, WriteDataSurvives
  <2>8. CASE FlushFirst
    BY <2>8, FlushFirstSurvives
  <2>9. CASE FlushSecond
    BY <2>9, FlushSecondSurvives
  <2>10. CASE WriteEntry
    BY <2>10, WriteEntrySurvives
  <2>11. CASE MkdirZero
    BY <2>11, MkdirZeroSurvives
  <2>12. CASE MkdirEntry
    BY <2>12, MkdirEntrySurvives
  <2>13. CASE UNCHANGED vars
    BY <2>13, StillSurvives
  <2>14. QED
    BY <2>1, <2>2, <2>3, <2>4, <2>5, <2>6, <2>7, <2>8, <2>9, <2>10, <2>11,
       <2>12, <2>13 DEF Next, Step
<1>3. IInv /\ FInv => OthersSurvive
  BY Survives
<1>4. QED
  BY <1>1, <1>2, <1>3, Fat16Invariant, PTL DEF Spec

-----------------------------------------------------------------------------
(***************************************************************************)
(* What a complete flush has saved stays on the medium while other files   *)
(* are written, half-way through flushes and after losses of power between *)
(* flushes.  The medium is a mixture of sectors of different age.  For a   *)
(* path that nobody has written since, each of them agrees with the sector *)
(* of the RAM disk on all that the search for the path and the read meet.  *)
(***************************************************************************)

(* What an older volume m, with the hits N of a search, and a newer one r, *)
(* with the hits M, have in common: no slot becomes FREE again, and the    *)
(* hits are the same.                                                      *)
Older(m, r, slots, N, M) ==
  \A n \in DOMAIN slots : slots[n][1] < Window =>
    /\ Entry(r, slots[n]) = FREE => Entry(m, slots[n]) = FREE
    /\ n \in N <=> n \in M
    /\ n \in M => Entry(m, slots[n]) = Entry(r, slots[n])

(* A search of m gets as far as the hits M.                                *)
Reached(m, slots, M) ==
  \A n \in M : \A k \in DOMAIN slots :
    /\ n \in DOMAIN slots /\ k < n
    /\ slots[n][1] < Window /\ slots[k][1] < Window
    => Entry(m, slots[k]) # FREE

(* The chain that starts with c has the same links in both tables.         *)
Linked(old, new, c) == \A b \in Mem(new, c) : old[b] = new[b]

SameData(m, r, fat, c) ==
  \A b \in Mem(fat, c) : \A l \in ClusterLbas(b) : m.disk[l] = r.disk[l]

(* The volume m, with the links old, agrees with r on the path p.          *)
Agrees(m, old, r, new, p) ==
  LET d     == FindDir(r, p[1])
      slots == SlotsFor(r, new, p)
      e     == fat16_find_file(r, new, p)
      f     == NameOf(p)
  IN  /\ Len(p) # 1 =>
           /\ Older(m, r, RootSlots, DirHits(m, p[1]), DirHits(r, p[1]))
           /\ Reached(m, RootSlots, DirHits(r, p[1]))
           /\ d # FREE => Linked(old, new, d.clus)
      /\ Older(m, r, slots, FileHits(m, slots, f), FileHits(r, slots, f))
      /\ Reached(m, slots, FileHits(r, slots, f))
      /\ e # FREE => Linked(old, new, e.clus) /\ SameData(m, r, new, e.clus)

Medium == Mounted([disk |-> media])

OnMedium ==
  \A p \in Paths : safe[p] # Unknown =>
    /\ safe[p] = expect[p]
    /\ Agrees(Medium, DiskFat(Medium), vol, Table, p)

(* A path that is being written is not safe, nor is one in a directory     *)
(* that is being made.                                                     *)
AtStake ==
  /\ Writing => safe[op.path] = Unknown
  /\ pc # "idle" /\ op.mkdir =>
       \A p \in Paths : Len(p) # 1 /\ p[1] = op.path[1] => safe[p] = Unknown

(* The medium as a complete flush left it.                                 *)
Whole ==
  whole =>
    /\ Coherent(Medium) /\ DirsWhole(Medium) /\ DirsEnded(Medium)
    /\ ChainsApart(Medium, AllEntries(Medium))
    /\ ~failed => \A c \in Clusters :
         DriverFat(Medium)[c] # 0 => c \in Held(Medium, AllEntries(Medium))
    /\ \A p \in Paths : safe[p] # Unknown =>
         fat16_read_file(Medium, DriverFat(Medium), p) = Contents(p, safe[p])

(* The flush has met no error before fpos.                                 *)
Passed ==
  who \in {"flush", "halt"} /\ ~ferr =>
    \A i \in Lbas : i < fpos => vol.disk[i] = media[i]

STypes ==
  /\ media = [l \in Lbas |-> media[l]] /\ fpos \in Nat
  /\ DOMAIN safe = Paths
  /\ \A p \in Paths : safe[p] \in {Absent, Unknown} \union (0 .. MaxOps) \X Sizes
  /\ who \notin {"fwrite", "mkdir"} => pc = "idle"

Intact ==
  STypes /\ IInv /\ FInv /\ OnMedium /\ AtStake /\ Whole /\ Passed

SInv == ~torn => Intact

(* The write of wrote: what it has got to when no sector was refused.      *)
Written ==
  /\ DOMAIN expect = Paths /\ DOMAIN safe = Paths
  /\ op = [i \in OpFields |-> op[i]]
  /\ wrote \in Paths \union {<<>>}
  /\ fails \in Nat /\ losses \in Nat /\ (fails = 0 => ~ferr)
  /\ who \notin {"fwrite", "mkdir"} => pc = "idle"
  /\ pc # "idle" /\ who = "fwrite" => op.path = wrote /\ ~op.mkdir /\ op.size \in Nat
  /\ pc # "idle" /\ who = "mkdir" => wrote = <<>>
  /\ pc = "idle" /\ wrote # <<>> /\ result > 0 => expect[wrote] # Unknown

-----------------------------------------------------------------------------
(* Searches and reads of volumes that agree.                               *)
LEMMA LookOlder ==
  ASSUME NEW m, NEW r, NEW slots, Scan(slots), NEW N, NEW M,
         Older(m, r, slots, N, M), Reached(m, slots, M)
  PROVE  Look(m, slots, N) = Look(r, slots, M)
<1>1. \A n \in DOMAIN slots :
        /\ slots[n][1] < Window <=> ~(slots[n][1] >= Window)
        /\ n \in Nat
  BY Geometry DEF Scan, Lbas
<1>2. /\ Stops(r, slots, M) \subseteq Stops(m, slots, N)
      /\ Stops(m, slots, N) \subseteq DOMAIN slots
  BY <1>1 DEF Stops, Older
<1>3. CASE Stops(m, slots, N) = {}
  BY <1>2, <1>3 DEF Look
<1>4. ASSUME NEW n \in Stops(m, slots, N), \A k \in Stops(m, slots, N) : n <= k
      PROVE  Look(m, slots, N) = Look(r, slots, M)
  <2>1. n \in DOMAIN slots /\ Look(m, slots, N) = Found(m, slots, n)
    BY <1>2, <1>4, LookFirst
  <2>2. CASE n \in Stops(r, slots, M)
    <3>1. Look(r, slots, M) = Found(r, slots, n)
      BY <1>2, <1>4, <2>2, LookFirst
    <3>2. Found(m, slots, n) = Found(r, slots, n)
      <4>1. CASE ~(slots[n][1] < Window)
        BY <1>1, <2>1, <4>1 DEF Found
      <4>2. CASE slots[n][1] < Window
        <5>1. Entry(r, slots[n]) = FREE \/ n \in M
          BY <1>1, <2>1, <2>2, <4>2 DEF Stops
        <5>2. Entry(m, slots[n]) = Entry(r, slots[n])
          BY <2>1, <4>2, <5>1 DEF Older
        <5>3. QED
          BY <5>2 DEF Found
      <4>3. QED
        BY <4>1, <4>2
    <3>3. QED
      BY <2>1, <3>1, <3>2
  <2>3. CASE n \notin Stops(r, slots, M)
    <3>1. slots[n][1] < Window /\ n \notin M /\ Entry(m, slots[n]) = FREE
      BY <1>1, <2>1, <2>3 DEF Stops, Older
    <3>2. Look(m, slots, N) = FREE
      BY <1>1, <2>1, <3>1 DEF Found
    <3>3. ASSUME NEW k \in Stops(r, slots, M)
          PROVE  Found(r, slots, k) = FREE
      <4>1. k \in DOMAIN slots /\ n < k
        <5>1. k \in DOMAIN slots /\ n <= k /\ n # k
          BY <1>2, <1>4, <2>3, <3>3
        <5>2. QED
          BY <1>1, <2>1, <5>1
      <4>2. CASE ~(slots[k][1] < Window)
        BY <1>1, <4>1, <4>2 DEF Found
      <4>3. CASE slots[k][1] < Window
        <5>1. k \notin M
          BY <2>1, <3>1, <4>1, <4>3 DEF Reached
        <5>2. Entry(r, slots[k]) = FREE
          BY <1>1, <3>3, <4>1, <4>3, <5>1 DEF Stops
        <5>3. QED
          BY <5>2 DEF Found
      <4>4. QED
        BY <4>2, <4>3
    <3>4. QED
      BY <3>2, <3>3, LookCases
  <2>4. QED
    BY <2>2, <2>3
<1>5. QED
  BY <1>3, <1>4, LookCases

(* Where the entries are the same, or change without being asked for.      *)
LEMMA DirsOlder ==
  ASSUME NEW m, NEW r, NEW d,
         \A n \in DOMAIN RootSlots :
           \/ Entry(m, RootSlots[n]) = Entry(r, RootSlots[n])
           \/ /\ Entry(r, RootSlots[n]) # FREE
              /\ n \notin DirHits(m, d) /\ n \notin DirHits(r, d)
  PROVE  Older(m, r, RootSlots, DirHits(m, d), DirHits(r, d))
BY DEF Older, DirHits

LEMMA FilesOlder ==
  ASSUME NEW m, NEW r, NEW slots, NEW f,
         \A n \in DOMAIN slots : slots[n][1] < Window =>
           \/ Entry(m, slots[n]) = Entry(r, slots[n])
           \/ /\ Entry(r, slots[n]) # FREE
              /\ n \notin FileHits(m, slots, f) /\ n \notin FileHits(r, slots, f)
  PROVE  Older(m, r, slots, FileHits(m, slots, f), FileHits(r, slots, f))
BY DEF Older, FileHits

LEMMA OlderThen ==
  ASSUME NEW m, NEW s, NEW r, NEW slots, NEW N, NEW M, NEW P,
         Older(m, s, slots, N, M), Older(s, r, slots, M, P), Reached(m, slots, M)
  PROVE  Older(m, r, slots, N, P) /\ Reached(m, slots, P)
BY DEF Older, Reached

LEMMA EndedReached ==
  ASSUME NEW m, NEW slots, Scan(slots), Ended(m, slots), NEW M,
         \A n \in M : n \in DOMAIN slots /\ slots[n][1] < Window => Entry(m, slots[n]) # FREE
  PROVE  Reached(m, slots, M)
BY DEF Ended, Reached

LEMMA HitsAreEntries ==
  /\ \A s, d : \A n \in DirHits(s, d) : Entry(s, RootSlots[n]) # FREE
  /\ \A s, slots, f : \A n \in FileHits(s, slots, f) : Entry(s, slots[n]) # FREE
<1>1. \A s, d : \A n \in DirHits(s, d) : Entry(s, RootSlots[n]) # FREE
  BY DEF DirHits, FREE
<1>2. \A s, slots, f : \A n \in FileHits(s, slots, f) : Entry(s, slots[n]) # FREE
  BY DEF FileHits, Empty
<1>3. QED
  BY <1>1, <1>2

(* What is asked of a path so that its read can be followed.               *)
SoundPath(r, new, p) ==
  LET d == FindDir(r, p[1])
      e == fat16_find_file(r, new, p)
  IN  /\ Len(p) # 1 /\ d # FREE => Sound(new, d.clus)
      /\ e # FREE => Sound(new, e.clus) /\ e.size \in Nat

LEMMA AgreesFinds ==
  ASSUME NEW m, NEW old, NEW r, NEW new, NEW p,
         Agrees(m, old, r, new, p), SoundPath(r, new, p)
  PROVE  /\ Len(p) # 1 => FindDir(m, p[1]) = FindDir(r, p[1])
         /\ SlotsFor(m, old, p) = SlotsFor(r, new, p)
         /\ fat16_find_file(m, old, p) = fat16_find_file(r, new, p)
<1> DEFINE d == FindDir(r, p[1])
           slots == SlotsFor(r, new, p)
           f == NameOf(p)
<1>1. ASSUME Len(p) # 1 PROVE FindDir(m, p[1]) = d
  <2>1. Look(m, RootSlots, DirHits(m, p[1])) = Look(r, RootSlots, DirHits(r, p[1]))
    BY <1>1, RootScan, LookOlder DEF Agrees
  <2>2. QED
    BY <2>1, FindDirLooks
<1>2. SlotsFor(m, old, p) = slots
  <2>1. CASE Len(p) = 1
    BY <2>1 DEF SlotsFor
  <2>2. CASE Len(p) # 1 /\ d = FREE
    BY <1>1, <2>2 DEF SlotsFor
  <2>3. CASE Len(p) # 1 /\ d # FREE
    <3>1. Sound(new, d.clus) /\ \A b \in Mem(new, d.clus) : old[b] = new[b]
      BY <2>3 DEF SoundPath, Agrees, Linked
    <3>2. Chain(old, d.clus) = Chain(new, d.clus)
      BY <3>1, SoundKept
    <3>3. SubdirSlots(old, d.clus) = SubdirSlots(new, d.clus)
      BY <3>2 DEF SubdirSlots
    <3>4. QED
      BY <1>1, <2>3, <3>3 DEF SlotsFor
  <2>4. QED
    BY <2>1, <2>2, <2>3
<1>3. Scan(slots)
  BY SlotsForScan
<1>4. Look(m, slots, FileHits(m, slots, f)) = Look(r, slots, FileHits(r, slots, f))
  BY <1>3, LookOlder DEF Agrees
<1>5. fat16_find_file(r, new, p) = Look(r, slots, FileHits(r, slots, f))
  BY <1>3, FindFileLooks
<1>6. fat16_find_file(m, old, p) = Look(m, slots, FileHits(m, slots, f))
  BY <1>2, <1>3, FindFileLooks
<1>7. QED
  BY <1>1, <1>2, <1>4, <1>5, <1>6

LEMMA AgreesReads ==
  ASSUME NEW m, NEW old, NEW r, NEW new, NEW p,
         Agrees(m, old, r, new, p), SoundPath(r, new, p)
  PROVE  fat16_read_file(m, old, p) = fat16_read_file(r, new, p)
<1> DEFINE e == fat16_find_file(r, new, p)
<1>1. e = fat16_find_file(m, old, p)
  BY AgreesFinds
<1>2. e # FREE =>
        /\ Sound(new, e.clus) /\ e.size \in Nat
        /\ \A c \in Mem(new, e.clus) : old[c] = new[c]
        /\ \A c \in Mem(new, e.clus) : \A l \in ClusterLbas(c) : m.disk[l] = r.disk[l]
  BY DEF SoundPath, Agrees, Linked, SameData
<1> HIDE DEF e
<1>3. QED
  BY <1>1, <1>2, ReadSame DEF e

-----------------------------------------------------------------------------
(* A step of the driver, from s to r, that stays away from the path p.     *)
Stays(s, old, r, new, p) ==
  LET d     == FindDir(s, p[1])
      slots == SlotsFor(s, old, p)
      e     == fat16_find_file(s, old, p)
      f     == NameOf(p)
  IN  /\ Len(p) # 1 =>
           /\ FindDir(r, p[1]) = d
           /\ Older(s, r, RootSlots, DirHits(s, p[1]), DirHits(r, p[1]))
           /\ d # FREE => \A b \in Mem(old, d.clus) : new[b] = old[b]
      /\ SlotsFor(r, new, p) = slots
      /\ Older(s, r, slots, FileHits(s, slots, f), FileHits(r, slots, f))
      /\ fat16_find_file(r, new, p) = e
      /\ e # FREE => /\ \A b \in Mem(old, e.clus) : new[b] = old[b]
                     /\ SameData(s, r, old, e.clus)

LEMMA StillAgrees ==
  ASSUME NEW m, NEW mid, NEW s, NEW old, NEW r, NEW new, NEW p,
         Agrees(m, mid, s, old, p), SoundPath(s, old, p), Stays(s, old, r, new, p)
  PROVE  Agrees(m, mid, r, new, p)
<1> DEFINE d == FindDir(s, p[1])
           slots == SlotsFor(s, old, p)
           e == fat16_find_file(s, old, p)
           f == NameOf(p)
<1>1. ASSUME Len(p) # 1
      PROVE  /\ Older(m, r, RootSlots, DirHits(m, p[1]), DirHits(r, p[1]))
             /\ Reached(m, RootSlots, DirHits(r, p[1]))
             /\ d # FREE => Linked(mid, new, d.clus)
             /\ FindDir(r, p[1]) = d
  <2>1. /\ Older(m, s, RootSlots, DirHits(m, p[1]), DirHits(s, p[1]))
        /\ Older(s, r, RootSlots, DirHits(s, p[1]), DirHits(r, p[1]))
        /\ Reached(m, RootSlots, DirHits(s, p[1]))
    BY <1>1 DEF Agrees, Stays
  <2>2. /\ Older(m, r, RootSlots, DirHits(m, p[1]), DirHits(r, p[1]))
        /\ Reached(m, RootSlots, DirHits(r, p[1]))
    BY <2>1, OlderThen
  <2>3. ASSUME d # FREE PROVE Linked(mid, new, d.clus)
    <3>1. /\ Sound(old, d.clus) /\ Linked(mid, old, d.clus)
          /\ \A b \in Mem(old, d.clus) : new[b] = old[b]
      BY <1>1, <2>3 DEF SoundPath, Agrees, Stays
    <3>2. Mem(new, d.clus) = Mem(old, d.clus)
      BY <3>1, SoundKept
    <3>3. QED
      BY <3>1, <3>2 DEF Linked
  <2>4. QED
    BY <1>1, <2>2, <2>3 DEF Stays
<1>2. /\ Older(m, r, slots, FileHits(m, slots, f), FileHits(r, slots, f))
      /\ Reached(m, slots, FileHits(r, slots, f))
  <2>1. /\ Older(m, s, slots, FileHits(m, slots, f), FileHits(s, slots, f))
        /\ Older(s, r, slots, FileHits(s, slots, f), FileHits(r, slots, f))
        /\ Reached(m, slots, FileHits(s, slots, f))
    BY DEF Agrees, Stays
  <2>2. QED
    BY <2>1, OlderThen
<1>3. ASSUME e # FREE PROVE Linked(mid, new, e.clus) /\ SameData(m, r, new, e.clus)
  <2>1. /\ Sound(old, e.clus) /\ Linked(mid, old, e.clus)
        /\ SameData(m, s, old, e.clus) /\ SameData(s, r, old, e.clus)
        /\ \A b \in Mem(old, e.clus) : new[b] = old[b]
    BY <1>3 DEF SoundPath, Agrees, Stays
  <2>2. Mem(new, e.clus) = Mem(old, e.clus)
    BY <2>1, SoundKept
  <2>3. QED
    BY <2>1, <2>2 DEF Linked, SameData
<1>4. SlotsFor(r, new, p) = slots /\ fat16_find_file(r, new, p) = e
  BY DEF Stays
<1> HIDE DEF d, slots, e
<1>5. QED
  BY <1>1, <1>2, <1>3, <1>4 DEF Agrees, d, slots, e, f

(* What the invariant of the driver says of a path.                        *)
LEMMA PathIsSound ==
  ASSUME IInv, FInv, NEW p \in Paths, Writing => p # op.path
  PROVE  /\ SoundPath(vol, Table, p)
         /\ Len(p) # 1 /\ FindDir(vol, p[1]) # FREE =>
              Mem(Table, FindDir(vol, p[1]).clus) \subseteq Taken
         /\ fat16_find_file(vol, Table, p) # FREE =>
              \E a \in Others \ DirEntries(vol) :
                /\ Entry(vol, a) = fat16_find_file(vol, Table, p)
                /\ Mem(Table, Entry(vol, a).clus) = ClustersOf(vol, a)
                /\ Mem(Table, Entry(vol, a).clus) \subseteq Taken
<1> DEFINE d == FindDir(vol, p[1])
           e == fat16_find_file(vol, Table, p)
<1>1. ASSUME d # FREE
      PROVE  Sound(Table, d.clus) /\ Mem(Table, d.clus) \subseteq Taken
  <2>1. PICK q \in DirEntries(vol) : Entry(vol, q) = d
    BY <1>1, DirFound
  <2>2. QED
    BY <2>1, OtherDirs
<1>2. ASSUME e # FREE
      PROVE  \E a \in Others \ DirEntries(vol) :
               /\ Entry(vol, a) = e /\ e.size \in Nat /\ Sound(Table, e.clus)
               /\ Mem(Table, e.clus) = ClustersOf(vol, a)
               /\ Mem(Table, e.clus) \subseteq Taken
  <2>1. PICK a \in Others :
          Entry(vol, a) = e /\ e.size \in Nat /\ a \notin DirEntries(vol)
    BY <1>2, FileIsOther DEF FInv
  <2> HIDE DEF e
  <2>2. /\ Sound(Table, e.clus) /\ Mem(Table, e.clus) = ClustersOf(vol, a)
        /\ ClustersOf(vol, a) \subseteq Taken
    BY <2>1, OtherDirs
  <2>3. QED
    BY <2>1, <2>2
<1> HIDE DEF d, e
<1>3. QED
  BY <1>1, <1>2 DEF SoundPath, d, e

LEMMA HarmlessStays ==
  ASSUME IInv, FInv, NEW p \in Paths, Writing => p # op.path, Harmless
  PROVE  Stays(vol, Table, vol', Table', p)
<1> DEFINE d == FindDir(vol, p[1])
           slots == SlotsFor(vol, Table, p)
           e == fat16_find_file(vol, Table, p)
           f == NameOf(p)
<1>1. Alike(vol', Table')
  BY HarmlessIsAlike
<1>2. /\ FindDir(vol', p[1]) = d /\ SlotsFor(vol', Table', p) = slots
      /\ fat16_find_file(vol', Table', p) = e
  BY <1>1, AlikeFinds
<1>3. Older(vol, vol', RootSlots, DirHits(vol, p[1]), DirHits(vol', p[1]))
  <2>1. \A n \in DOMAIN RootSlots : RootSlots[n] \in AllSlots(vol)
    BY DEF AllSlots, SlotsIn
  <2>2. \A n \in DOMAIN RootSlots : Entry(vol, RootSlots[n]) = Entry(vol', RootSlots[n])
    BY <1>1, <2>1 DEF Alike
  <2>3. QED
    BY <2>2, DirsOlder
<1>4. Older(vol, vol', slots, FileHits(vol, slots, f), FileHits(vol', slots, f))
  <2>1. \A n \in DOMAIN slots : slots[n][1] < Window => slots[n] \in AllSlots(vol)
    BY SlotsForAre DEF Table
  <2> HIDE DEF slots
  <2>2. \A n \in DOMAIN slots : slots[n][1] < Window =>
          Entry(vol, slots[n]) = Entry(vol', slots[n])
    BY <1>1, <2>1 DEF Alike
  <2>3. QED
    BY <2>2, FilesOlder
<1>5. Len(p) # 1 /\ d # FREE => \A b \in Mem(Table, d.clus) : Table'[b] = Table[b]
  BY <1>1, PathIsSound DEF Alike
<1>6. e # FREE => /\ \A b \in Mem(Table, e.clus) : Table'[b] = Table[b]
                  /\ SameData(vol, vol', Table, e.clus)
  <2>1. e # FREE => Mem(Table, e.clus) \subseteq Taken
    BY PathIsSound
  <2>2. QED
    BY <1>1, <2>1 DEF Alike, SameData
<1> HIDE DEF d, slots, e
<1>7. QED
  BY <1>2, <1>3, <1>4, <1>5, <1>6 DEF Stays, d, slots, e, f

(* Both searches find the same where the older volume is still as it was.  *)
LEMMA LookOn ==
  ASSUME NEW s, NEW r, NEW slots, Scan(slots), Ended(s, slots), NEW N, NEW M,
         Older(s, r, slots, N, M), M \subseteq DOMAIN slots,
         \A n \in N : Entry(s, slots[n]) # FREE
  PROVE  Look(s, slots, N) = Look(r, slots, M)
<1>1. \A n \in M : n \in DOMAIN slots /\ slots[n][1] < Window => Entry(s, slots[n]) # FREE
  BY DEF Older
<1>2. Reached(s, slots, M)
  BY <1>1, EndedReached
<1>3. QED
  BY <1>2, LookOlder

LEMMA FindsOn ==
  ASSUME IInv, FInv, NEW r, NEW new, NEW p \in Paths, NEW slots,
         slots = SlotsFor(vol, Table, p), slots = SlotsFor(r, new, p),
         Older(vol, r, slots, FileHits(vol, slots, NameOf(p)), FileHits(r, slots, NameOf(p)))
  PROVE  fat16_find_file(r, new, p) = fat16_find_file(vol, Table, p)
<1> DEFINE N == FileHits(vol, slots, NameOf(p))
           M == FileHits(r, slots, NameOf(p))
<1>1. Scan(slots) /\ Ended(vol, slots)
  <2>1. Scan(slots)
    BY SlotsForScan
  <2>2. CASE slots = <<>>
    <3>1. DOMAIN slots = {}
      BY <2>2
    <3>2. QED
      BY <2>1, <3>1 DEF Ended
  <2>3. CASE Directory(slots)
    BY <2>3, DirectoryIs
  <2>4. QED
    BY <2>2, <2>3, PathDirectory
<1>2. M \subseteq DOMAIN slots /\ \A n \in N : Entry(vol, slots[n]) # FREE
  BY HitsAreEntries DEF FileHits
<1>3. /\ fat16_find_file(r, new, p) = Look(r, slots, M)
      /\ fat16_find_file(vol, Table, p) = Look(vol, slots, N)
  BY <1>1, FindFileLooks
<1>4. Older(vol, r, slots, N, M)
  OBVIOUS
<1> HIDE DEF N, M
<1>5. QED
  BY <1>1, <1>2, <1>3, <1>4, LookOn

LEMMA DirsOn ==
  ASSUME FInv, NEW r, NEW d,
         Older(vol, r, RootSlots, DirHits(vol, d), DirHits(r, d))
  PROVE  FindDir(r, d) = FindDir(vol, d)
<1> DEFINE N == DirHits(vol, d)
           M == DirHits(r, d)
<1>1. Scan(RootSlots) /\ Ended(vol, RootSlots)
  BY RootScan DEF FInv, DirsEnded
<1>2. M \subseteq DOMAIN RootSlots /\ \A n \in N : Entry(vol, RootSlots[n]) # FREE
  BY HitsAreEntries DEF DirHits
<1>3. FindDir(r, d) = Look(r, RootSlots, M) /\ FindDir(vol, d) = Look(vol, RootSlots, N)
  BY FindDirLooks
<1>4. Older(vol, r, RootSlots, N, M)
  OBVIOUS
<1> HIDE DEF N, M
<1>5. QED
  BY <1>1, <1>2, <1>3, <1>4, LookOn

(* The file of a path has no sector in common with a slot.                 *)
LEMMA SlotOffFile ==
  ASSUME IInv, FInv, NEW p \in Paths, Writing => p # op.path,
         NEW slot \in AllSlots(vol), NEW r,
         \A l \in Lbas : l # slot[1] => r.disk[l] = vol.disk[l],
         NEW e, e = fat16_find_file(vol, Table, p), e # FREE
  PROVE  SameData(vol, r, Table, e.clus)
<1>1. PICK a \in Others \ DirEntries(vol) :
        /\ Entry(vol, a) = e /\ Mem(Table, e.clus) = ClustersOf(vol, a)
        /\ Mem(Table, e.clus) \subseteq Taken
  <2>1. \E a \in Others \ DirEntries(vol) :
                /\ Entry(vol, a) = fat16_find_file(vol, Table, p)
                /\ Mem(Table, Entry(vol, a).clus) = ClustersOf(vol, a)
                /\ Mem(Table, Entry(vol, a).clus) \subseteq Taken
    BY PathIsSound
  <2>2. QED
    BY <2>1
<1>2. ASSUME NEW c \in Mem(Table, e.clus), NEW l \in ClusterLbas(c)
      PROVE  vol.disk[l] = r.disk[l]
  <2>1. l \in SectorsOf(ClustersOf(vol, a))
    BY <1>1, <1>2 DEF SectorsOf
  <2>2. l # slot[1]
    BY <2>1, SlotOffFiles
  <2>3. l \in Lbas
    BY <1>1, <1>2, OthersAre, SectorsAre
  <2>4. QED
    BY <2>2, <2>3
<1>3. QED
  BY <1>2 DEF SameData

LEMMA WriteEntryStays ==
  ASSUME IInv, FInv, WriteEntry, NEW p \in Paths, p # op.path
  PROVE  Stays(vol, Table, vol', Table', p)
<1>1. PICK e :
        /\ vol' = WithEntry(vol, op.slot, e)
        /\ e # FREE /\ ~e.dir /\ e.name = NameOf(op.path)
        /\ op.slot \in AllSlots(vol) /\ ~Entry(vol, op.slot).dir
        /\ op.path \in Paths /\ FirstSuitable(op.path, op.slot)
  BY NewEntry
<1>2. /\ DriverFat(vol') = Table /\ Entry(vol', op.slot) = e
      /\ \A sl : (sl = <<sl[1], sl[2]>> /\ sl[1] \in Lbas /\ sl # op.slot) =>
                   Entry(vol', sl) = Entry(vol, sl)
      /\ \A l \in Lbas : l # op.slot[1] => vol'.disk[l] = vol.disk[l]
  BY <1>1, SlotStored
<1>3. Table' = Table
  BY <1>2 DEF Table
<1> DEFINE slots == SlotsFor(vol, Table, p)
           f == NameOf(p)
<1>4. Older(vol, vol', RootSlots, DirHits(vol, p[1]), DirHits(vol', p[1]))
  <2>1. \A n \in DOMAIN RootSlots : RootSlots[n] # op.slot =>
          Entry(vol, RootSlots[n]) = Entry(vol', RootSlots[n])
    BY <1>2, RootScan DEF Scan
  <2>2. \A n \in DOMAIN RootSlots : RootSlots[n] = op.slot =>
          /\ Entry(vol', RootSlots[n]) # FREE
          /\ n \notin DirHits(vol, p[1]) /\ n \notin DirHits(vol', p[1])
    BY <1>1, <1>2 DEF DirHits
  <2>3. QED
    BY <2>1, <2>2, DirsOlder
<1>5. FindDir(vol', p[1]) = FindDir(vol, p[1])
  BY <1>4, DirsOn
<1>6. SlotsFor(vol', Table, p) = slots /\ Scan(slots)
  BY <1>1, WriteEntryFinds, SlotsForScan
<1>7. Older(vol, vol', slots, FileHits(vol, slots, f), FileHits(vol', slots, f))
  <2>1. \A n \in DOMAIN slots : slots[n] # op.slot =>
          Entry(vol, slots[n]) = Entry(vol', slots[n])
    BY <1>2, <1>6 DEF Scan
  <2>2. \A n \in DOMAIN slots : slots[n] = op.slot =>
          /\ Entry(vol', slots[n]) # FREE
          /\ n \notin FileHits(vol, slots, f) /\ n \notin FileHits(vol', slots, f)
    BY <1>1, <1>2, SlotIsNotAnothers
  <2> HIDE DEF slots
  <2>3. QED
    BY <2>1, <2>2, FilesOlder
<1>8. fat16_find_file(vol', Table, p) = fat16_find_file(vol, Table, p)
  BY <1>6, <1>7, FindsOn
<1>9. fat16_find_file(vol, Table, p) # FREE =>
        SameData(vol, vol', Table, fat16_find_file(vol, Table, p).clus)
  BY <1>1, <1>2, SlotOffFile
<1>10. QED
  BY <1>3, <1>4, <1>5, <1>6, <1>7, <1>8, <1>9 DEF Stays

LEMMA NothingStays ==
  ASSUME NEW p, vol' = vol
  PROVE  Stays(vol, Table, vol', Table', p)
BY DEF Stays, Older, SameData, Table

(* The new directory is found under its own name only.                     *)
LEMMA MkdirEntryStays ==
  ASSUME IInv, FInv, MkdirEntry, NEW p \in Paths,
         Len(p) = 1 \/ p[1] # op.path[1]
  PROVE  Stays(vol, Table, vol', Table', p)
<1>1. CASE vol' = vol
  BY <1>1, NothingStays
<1>2. CASE vol' # vol
  <2>1. PICK e, k :
           /\ k \in DOMAIN RootSlots /\ Entry(vol, RootSlots[k]) \in Empty
           /\ vol' = WithEntry(vol, RootSlots[k], e)
           /\ e # FREE /\ e \notin Empty /\ e.dir /\ e.name = op.path[1]
           /\ e.name \notin FileNames
           /\ RootSlots[k] \in AllSlots(vol) /\ ~Writing
    BY <1>2, NewDirectory
  <2> DEFINE slot == RootSlots[k]
             slots == SlotsFor(vol, Table, p)
             f == NameOf(p)
  <2>2. /\ DriverFat(vol') = Table /\ Entry(vol', slot) = e
        /\ \A sl : (sl = <<sl[1], sl[2]>> /\ sl[1] \in Lbas /\ sl # slot) =>
                     Entry(vol', sl) = Entry(vol, sl)
        /\ \A l \in Lbas : l # slot[1] => vol'.disk[l] = vol.disk[l]
    BY <2>1, SlotStored
  <2>3. Table' = Table
    BY <2>2 DEF Table
  <2>4. Entry(vol, slot) \in Empty /\ ~Entry(vol, slot).dir /\ slot \in AllSlots(vol)
    BY <2>1 DEF Empty, FREE, DELETED
  <2>5. f \in FileNames
    BY NamesAre
  <2> HIDE DEF slot, slots, f
  <2>6. p[1] # op.path[1] =>
          Older(vol, vol', RootSlots, DirHits(vol, p[1]), DirHits(vol', p[1]))
    <3>1. \A n \in DOMAIN RootSlots : RootSlots[n] # slot =>
            Entry(vol, RootSlots[n]) = Entry(vol', RootSlots[n])
      BY <2>2, RootScan DEF Scan
    <3>2. p[1] # op.path[1] => \A n \in DOMAIN RootSlots : RootSlots[n] = slot =>
            /\ Entry(vol', RootSlots[n]) # FREE
            /\ n \notin DirHits(vol, p[1]) /\ n \notin DirHits(vol', p[1])
      BY <2>1, <2>2, <2>4 DEF DirHits
    <3>3. QED
      BY <3>1, <3>2, DirsOlder
  <2>7. p[1] # op.path[1] => FindDir(vol', p[1]) = FindDir(vol, p[1])
    BY <2>6, DirsOn
  <2>8. Scan(slots)
    BY SlotsForScan DEF slots
  <2>9. SlotsFor(vol', Table, p) = slots
    <3>1. CASE Len(p) = 1
      BY <3>1 DEF SlotsFor, slots
    <3>2. CASE p[1] # op.path[1]
      BY <2>7, <3>2, SlotsSame DEF slots
    <3>3. QED
      BY <3>1, <3>2
  <2>10. Older(vol, vol', slots, FileHits(vol, slots, f), FileHits(vol', slots, f))
    <3>1. \A n \in DOMAIN slots : slots[n] # slot =>
            Entry(vol, slots[n]) = Entry(vol', slots[n])
      BY <2>2, <2>8 DEF Scan
    <3>2. \A n \in DOMAIN slots : slots[n] = slot =>
            /\ Entry(vol', slots[n]) # FREE
            /\ n \notin FileHits(vol, slots, f) /\ n \notin FileHits(vol', slots, f)
      BY <2>1, <2>2, <2>4, <2>5 DEF FileHits
    <3>3. QED
      BY <3>1, <3>2, FilesOlder
  <2>11. fat16_find_file(vol', Table, p) = fat16_find_file(vol, Table, p)
    BY <2>9, <2>10, FindsOn DEF slots, f
  <2>12. fat16_find_file(vol, Table, p) # FREE =>
           SameData(vol, vol', Table, fat16_find_file(vol, Table, p).clus)
    BY <2>1, <2>2, <2>4, SlotOffFile
  <2>13. QED
    BY <2>3, <2>6, <2>7, <2>9, <2>10, <2>11, <2>12 DEF Stays, slots, f
<1>3. QED
  BY <1>1, <1>2

-----------------------------------------------------------------------------
(* A flush: each sector of n is one of the older volume m or of the RAM    *)
(* disk.                                                                   *)
Mixed(n, m) ==
  \A l \in Lbas : n.disk[l] = m.disk[l] \/ n.disk[l] = vol.disk[l]

LEMMA MixedEntries ==
  ASSUME NEW n, NEW m, Mixed(n, m), NEW slots, Scan(slots)
  PROVE  \A i \in DOMAIN slots : \/ Entry(n, slots[i]) = Entry(m, slots[i])
                                 \/ Entry(n, slots[i]) = Entry(vol, slots[i])
<1>1. ASSUME NEW i \in DOMAIN slots
      PROVE  \/ Entry(n, slots[i]) = Entry(m, slots[i])
             \/ Entry(n, slots[i]) = Entry(vol, slots[i])
  <2>1. \/ n.disk[slots[i][1]] = m.disk[slots[i][1]]
        \/ n.disk[slots[i][1]] = vol.disk[slots[i][1]]
    BY DEF Mixed, Scan
  <2>2. QED
    BY <2>1 DEF Entry, Entries
<1>2. QED
  BY <1>1

LEMMA MixedReached ==
  ASSUME NEW n, NEW m, Mixed(n, m), NEW slots, Scan(slots), NEW M,
         Reached(m, slots, M), Ended(vol, slots),
         \A i \in M : Entry(vol, slots[i]) # FREE
  PROVE  Reached(n, slots, M)
<1>1. Reached(vol, slots, M)
  BY EndedReached
<1>2. QED
  BY <1>1, MixedEntries DEF Reached

LEMMA MixedLinks ==
  ASSUME IInv, FInv, NEW n, NEW m, Mixed(n, m), NEW c,
         Mem(Table, c) \subseteq Taken, Linked(DiskFat(m), Table, c)
  PROVE  Linked(DiskFat(n), Table, c)
<1>1. ASSUME NEW b \in Mem(Table, c)
      PROVE  DiskFat(n)[b] = Table[b]
  <2>1. b \in 0 .. MaxC - 1
    BY OthersAre, ClusterNumbers
  <2>2. DiskFat(vol)[b] = Table[b] /\ DiskFat(m)[b] = Table[b]
    BY DEF FInv, OnDisk, Linked
  <2>3. FatStart + FatSec(b) \in Lbas
    BY <2>1, FatPlace, FatPlaces
  <2>4. \/ n.disk[FatStart + FatSec(b)] = m.disk[FatStart + FatSec(b)]
        \/ n.disk[FatStart + FatSec(b)] = vol.disk[FatStart + FatSec(b)]
    BY <2>3 DEF Mixed
  <2>5. DiskFat(n)[b] = DiskFat(m)[b] \/ DiskFat(n)[b] = DiskFat(vol)[b]
    BY <2>1, <2>4 DEF DiskFat
  <2>6. QED
    BY <2>2, <2>5
<1>2. QED
  BY <1>1 DEF Linked

LEMMA MixedAgrees ==
  ASSUME IInv, FInv, NEW p \in Paths, Writing => p # op.path,
         NEW n, NEW m, Mixed(n, m), Agrees(m, DiskFat(m), vol, Table, p)
  PROVE  Agrees(n, DiskFat(n), vol, Table, p)
<1> DEFINE d == FindDir(vol, p[1])
           slots == SlotsFor(vol, Table, p)
           e == fat16_find_file(vol, Table, p)
           f == NameOf(p)
<1>1. /\ Len(p) # 1 /\ d # FREE => Mem(Table, d.clus) \subseteq Taken
      /\ e # FREE => Mem(Table, e.clus) \subseteq Taken
  BY PathIsSound
<1>2. ASSUME Len(p) # 1
      PROVE  /\ Older(n, vol, RootSlots, DirHits(n, p[1]), DirHits(vol, p[1]))
             /\ Reached(n, RootSlots, DirHits(vol, p[1]))
             /\ d # FREE => Linked(DiskFat(n), Table, d.clus)
  <2>1. /\ Older(m, vol, RootSlots, DirHits(m, p[1]), DirHits(vol, p[1]))
        /\ Reached(m, RootSlots, DirHits(vol, p[1]))
        /\ d # FREE => Linked(DiskFat(m), Table, d.clus)
    BY <1>2 DEF Agrees
  <2>2. \A i \in DOMAIN RootSlots :
          \/ Entry(n, RootSlots[i]) = Entry(m, RootSlots[i])
          \/ Entry(n, RootSlots[i]) = Entry(vol, RootSlots[i])
    BY RootScan, MixedEntries
  <2>3. Older(n, vol, RootSlots, DirHits(n, p[1]), DirHits(vol, p[1]))
    BY <2>1, <2>2 DEF Older, DirHits
  <2>4. Reached(n, RootSlots, DirHits(vol, p[1]))
    BY <2>1, RootScan, HitsAreEntries, MixedReached DEF FInv, DirsEnded
  <2>5. d # FREE => Linked(DiskFat(n), Table, d.clus)
    BY <1>1, <1>2, <2>1, MixedLinks
  <2>6. QED
    BY <2>3, <2>4, <2>5
<1>3. /\ Older(n, vol, slots, FileHits(n, slots, f), FileHits(vol, slots, f))
      /\ Reached(n, slots, FileHits(vol, slots, f))
  <2>1. Scan(slots) /\ Ended(vol, slots)
    <3>1. Scan(slots)
      BY SlotsForScan
    <3>2. CASE slots = <<>>
      <4>1. DOMAIN slots = {}
        BY <3>2
      <4> HIDE DEF slots
      <4>2. QED
        BY <3>1, <4>1 DEF Ended
    <3>3. CASE Directory(slots)
      BY <3>3, DirectoryIs
    <3>4. QED
      BY <3>2, <3>3, PathDirectory
  <2>2. /\ Older(m, vol, slots, FileHits(m, slots, f), FileHits(vol, slots, f))
        /\ Reached(m, slots, FileHits(vol, slots, f))
    BY DEF Agrees
  <2> HIDE DEF slots, f
  <2>3. \A i \in DOMAIN slots : \/ Entry(n, slots[i]) = Entry(m, slots[i])
                                \/ Entry(n, slots[i]) = Entry(vol, slots[i])
    BY <2>1, MixedEntries
  <2>4. Older(n, vol, slots, FileHits(n, slots, f), FileHits(vol, slots, f))
    BY <2>2, <2>3 DEF Older, FileHits
  <2>5. \A i \in FileHits(vol, slots, f) : Entry(vol, slots[i]) # FREE
    BY HitsAreEntries
  <2>6. Reached(n, slots, FileHits(vol, slots, f))
    BY <2>1, <2>2, <2>5, MixedReached
  <2>7. QED
    BY <2>4, <2>6
<1>4. ASSUME e # FREE
      PROVE  Linked(DiskFat(n), Table, e.clus) /\ SameData(n, vol, Table, e.clus)
  <2>1. Linked(DiskFat(m), Table, e.clus) /\ SameData(m, vol, Table, e.clus)
    BY <1>4 DEF Agrees
  <2>2. Linked(DiskFat(n), Table, e.clus)
    BY <1>1, <1>4, <2>1, MixedLinks
  <2>3. \A b \in Mem(Table, e.clus) : \A l \in ClusterLbas(b) : l \in Lbas
    BY <1>1, <1>4, OthersAre, SectorsAre
  <2>4. SameData(n, vol, Table, e.clus)
    BY <2>1, <2>3 DEF SameData, Mixed
  <2>5. QED
    BY <2>2, <2>4
<1> HIDE DEF d, slots, e
<1>5. QED
  BY <1>2, <1>3, <1>4 DEF Agrees, d, slots, e, f

(* A medium that holds the sectors of a volume agrees with it.             *)
LEMMA FreshAgrees ==
  ASSUME NEW s, Coherent(s), ~s.dirty, DirsEnded(s), NEW m, m.disk = s.disk,
         NEW p, NEW new, new = DriverFat(s)
  PROVE  Agrees(m, DiskFat(m), s, new, p)
<1> DEFINE d == FindDir(s, p[1])
           slots == SlotsFor(s, new, p)
           e == fat16_find_file(s, new, p)
           f == NameOf(p)
<1>1. \A sl : Entry(m, sl) = Entry(s, sl)
  BY DEF Entry, Entries
<1>2. \A c : Linked(DiskFat(m), new, c)
  <2>1. DiskFat(m) = DiskFat(s)
    BY DEF DiskFat
  <2>2. \A c : Mem(new, c) \subseteq Clusters
    BY ChainShape DEF Mem, Members
  <2>3. \A b \in Clusters : DiskFat(s)[b] = new[b]
    BY CleanIsSettled, ClusterNumbers DEF Settled
  <2>4. QED
    BY <2>1, <2>2, <2>3 DEF Linked
<1>3. Ended(s, slots) /\ Scan(slots)
  <2>1. Scan(slots)
    BY SlotsForScan
  <2>2. CASE Len(p) = 1
    BY <2>1, <2>2 DEF DirsEnded, SlotsFor
  <2>3. CASE Len(p) # 1 /\ d = FREE
    <3>1. slots = <<>>
      BY <2>3 DEF SlotsFor
    <3>2. DOMAIN slots = {}
      BY <3>1
    <3> HIDE DEF slots
    <3>3. QED
      BY <2>1, <3>2 DEF Ended
  <2>4. CASE Len(p) # 1 /\ d # FREE
    <3>1. PICK q \in DirEntries(s) : Entry(s, q) = d
      BY <2>4, DirFound
    <3>2. slots = SubdirSlots(DriverFat(s), Entry(s, q).clus)
      BY <2>4, <3>1 DEF SlotsFor
    <3> HIDE DEF slots, d
    <3>3. QED
      BY <2>1, <3>2 DEF DirsEnded
  <2>5. QED
    BY <2>2, <2>3, <2>4
<1>4. ASSUME NEW t, Scan(t), Ended(s, t), NEW M, \A n \in M : Entry(s, t[n]) # FREE
      PROVE  Reached(m, t, M)
  <2>1. Reached(s, t, M)
    BY <1>4, EndedReached
  <2>2. QED
    BY <1>1, <2>1 DEF Reached
<1>5. /\ Older(m, s, RootSlots, DirHits(m, p[1]), DirHits(s, p[1]))
      /\ Older(m, s, slots, FileHits(m, slots, f), FileHits(s, slots, f))
  BY <1>1 DEF Older, DirHits, FileHits
<1>6. Reached(m, RootSlots, DirHits(s, p[1]))
  BY <1>4, RootScan, HitsAreEntries DEF DirsEnded
<1>7. Reached(m, slots, FileHits(s, slots, f))
  BY <1>3, <1>4, HitsAreEntries
<1>8. \A c : SameData(m, s, new, c)
  BY DEF SameData
<1> HIDE DEF d, slots, e
<1>9. QED
  BY <1>2, <1>5, <1>6, <1>7, <1>8 DEF Agrees, d, slots, e, f

-----------------------------------------------------------------------------
(* A medium that is as the RAM disk between calls.                         *)
LEMMA SavedWhole ==
  ASSUME IInv, FInv, pc = "idle", media = vol.disk
  PROVE  /\ Coherent(Medium) /\ DirsWhole(Medium) /\ DirsEnded(Medium)
         /\ ChainsApart(Medium, AllEntries(Medium))
         /\ ~failed => \A c \in Clusters :
              DriverFat(Medium)[c] # 0 => c \in Held(Medium, AllEntries(Medium))
         /\ \A p \in Paths : expect[p] # Unknown =>
              fat16_read_file(Medium, DriverFat(Medium), p) = Contents(p, expect[p])
         /\ \A p \in Paths : Agrees(Medium, DiskFat(Medium), vol, Table, p)
<1>1. Coherent(vol) /\ ~vol.dirty /\ op = NoOp /\ Hand = {} /\ ~Writing
  BY DEF IInv, Cache, CallOK, Hand, Writing
<1>2. /\ Medium.disk = vol.disk /\ Medium.sec = NoSec /\ Medium.dirty = FALSE
      /\ Medium = [i \in Fields |-> Medium[i]]
  BY DEF Medium, Mounted, Fields
<1>3. Coherent(Medium)
  BY <1>1, <1>2 DEF Coherent
<1>4. DriverFat(Medium) = Table
  <2>1. \A k \in 0 .. FatSize - 1 : Now(Medium, k) = Now(vol, k)
    BY <1>1, <1>2, FatPlaces DEF Now, Coherent
  <2>2. QED
    BY <1>1, <1>3, <2>1, SameSectors DEF SameTable, Table
<1>5. Others = AllEntries(vol) /\ op.ok
  BY <1>1, OthersAre, NoOpIs
<1>6. SameDirs(vol, Medium) /\ DirsWhole(Medium) /\ ChainsApart(Medium, Others)
        /\ Held(Medium, Others) = Taken
  <2>1. DirsWhole(vol) /\ ChainsApart(vol, Others) /\ Taken = Held(vol, Others)
    BY DEF IInv, Dirs, Taken
  <2>2. \A c \in Held(vol, Others) : DriverFat(Medium)[c] = DriverFat(vol)[c]
    BY <1>4 DEF Table
  <2>3. DirEntries(vol) \subseteq Others /\ Others \subseteq AllSlots(vol)
    BY OthersAre
  <2>4. PICK X : X = {}
    OBVIOUS
  <2>5. /\ \A l \in X : l \notin RootLbas
        /\ \A c \in Held(vol, Others) : \A l \in ClusterLbas(c) : l \notin X
        /\ \A l \in Lbas : l >= RootStart /\ l \notin X => Medium.disk[l] = vol.disk[l]
    BY <1>2, <2>4
  <2>6. QED
    BY <2>1, <2>2, <2>3, <2>5, Kept
<1>7. AllEntries(Medium) = Others /\ DirEntries(Medium) = DirEntries(vol)
  BY <1>5, <1>6 DEF SameDirs
<1>8. DirsEnded(Medium)
  <2>1. \A sl : Entry(Medium, sl) = Entry(vol, sl)
    BY <1>2 DEF Entry, Entries
  <2>2. DirsEnded(vol)
    BY DEF FInv
  <2>3. QED
    BY <1>4, <1>7, <2>1, <2>2 DEF DirsEnded, Ended, Table
<1>9. ~failed => \A c \in Clusters : Table[c] # 0 => c \in Taken
  BY <1>1, <1>5 DEF IInv, Unlost
<1>10. \A p \in Paths : fat16_read_file(Medium, Table, p) = fat16_read_file(vol, Table, p)
  <2>1. Alike(Medium, Table)
    BY <1>2 DEF Alike, Entry, Entries
  <2>2. Placed
    BY DEF FInv
  <2>3. QED
    BY <1>1, <2>1, <2>2, ReadKept
<1>11. \A p \in Paths : expect[p] # Unknown =>
         fat16_read_file(Medium, Table, p) = Contents(p, expect[p])
  BY <1>10 DEF FInv, Reads
<1>12. \A p \in Paths : Agrees(Medium, DiskFat(Medium), vol, Table, p)
  BY <1>1, <1>2, FreshAgrees DEF FInv, Table
<1>13. QED
  BY <1>3, <1>4, <1>6, <1>7, <1>8, <1>9, <1>11, <1>12

LEMMA SInitIntact ==
  ASSUME SInit
  PROVE  Intact
<1>1. Init /\ media = vol.disk /\ safe = expect /\ fpos = 0 /\ who = "none"
  BY DEF SInit
<1>2. IInv /\ FInv /\ pc = "idle"
  BY <1>1, InitIs, InitSurvives DEF Init
<1>3. STypes
  BY <1>1, <1>2 DEF STypes, IInv, Types, TypeOK, Cache, Coherent
<1>4. OnMedium /\ Whole
  BY <1>1, <1>2, SavedWhole DEF OnMedium, Whole
<1>5. AtStake /\ Passed
  BY <1>1, <1>2 DEF AtStake, Passed, Writing
<1>6. QED
  BY <1>2, <1>3, <1>4, <1>5 DEF Intact

(* A flush goes on, or meets an error.                                     *)
LEMMA FlushSectorIntact ==
  ASSUME Intact, NEW i \in Lbas, FlushSector(i)
  PROVE  Intact'
<1>1. UNCHANGED <<vars, who, safe, torn>> /\ who \in {"flush", "halt"} /\ fpos' = i + 1
  BY DEF FlushSector
<1>2. /\ pc = "idle" /\ pc' = pc /\ op' = op /\ vol' = vol /\ expect' = expect
      /\ failed' = failed
  BY <1>1 DEF Intact, STypes, vars
<1>3. IInv' /\ FInv' /\ Table' = Table
  BY <1>1, <1>2, NothingHappens, StillSurvives DEF Intact, Table
<1>4. media' = media \/ media' = [media EXCEPT ![i] = vol.disk[i]]
  BY DEF FlushSector
<1>5. /\ media = [l \in Lbas |-> media[l]] /\ media' = [l \in Lbas |-> media'[l]]
      /\ \A l \in Lbas : media'[l] = media[l] \/ media'[l] = vol.disk[l]
  BY <1>4 DEF Intact, STypes
<1>6. STypes'
  <2>1. i + 1 \in Nat
    BY DEF Lbas
  <2>2. QED
    BY <1>1, <1>2, <1>5, <2>1 DEF Intact, STypes
<1>7. OnMedium'
  <2>1. PICK n : n = Medium'
    OBVIOUS
  <2>2. n.disk = media' /\ Medium.disk = media
    BY <2>1 DEF Medium, Mounted
  <2>3. Mixed(n, Medium)
    BY <1>5, <2>2 DEF Mixed
  <2>4. ASSUME NEW p \in Paths, safe[p] # Unknown
        PROVE  safe[p] = expect[p] /\ Agrees(n, DiskFat(n), vol, Table, p)
    <3>1. safe[p] = expect[p] /\ Agrees(Medium, DiskFat(Medium), vol, Table, p)
      BY <2>4 DEF Intact, OnMedium
    <3>2. ~Writing
      BY <1>2 DEF Writing
    <3>3. QED
      BY <2>3, <3>1, <3>2, MixedAgrees DEF Intact
  <2>5. QED
    BY <1>1, <1>2, <1>3, <2>1, <2>4 DEF OnMedium
<1>8. AtStake'
  BY <1>2 DEF AtStake, Writing
<1>9. Whole'
  <2>1. CASE whole' = FALSE
    BY <2>1 DEF Whole
  <2>2. CASE media' = media /\ whole' = whole
    BY <1>1, <1>2, <2>2 DEF Whole, Intact, Medium
  <2>3. QED
    BY <2>1, <2>2 DEF FlushSector
<1>10. Passed'
  <2>1. SUFFICES ASSUME ~ferr', NEW j \in Lbas, j < i + 1
                 PROVE  vol.disk[j] = media'[j]
    BY <1>1, <1>2 DEF Passed
  <2>2. media' = [media EXCEPT ![i] = vol.disk[i]] /\ ~ferr
    BY <2>1 DEF FlushSector
  <2>3. CASE j = i
    BY <1>5, <2>2, <2>3
  <2>4. CASE j < fpos
    BY <1>1, <1>5, <2>2, <2>4 DEF Intact, Passed
  <2>5. CASE ~(j < fpos) /\ j # i
    <3>1. fpos <= j /\ ~(i <= j)
      BY <2>1, <2>5 DEF Intact, STypes, Lbas
    <3>2. j \notin Ahead
      BY <3>1 DEF FlushSector
    <3>3. vol.disk[j] = media[j]
      BY <3>1, <3>2 DEF Ahead
    <3>4. QED
      BY <1>5, <2>2, <3>3
  <2>6. QED
    BY <2>3, <2>4, <2>5
<1>11. QED
  BY <1>3, <1>6, <1>7, <1>8, <1>9, <1>10 DEF Intact

LEMMA FlushEndIntact ==
  ASSUME Intact, FlushEnd
  PROVE  Intact'
<1>1. /\ UNCHANGED <<vars, media, fpos, ferr, torn>> /\ who \in {"flush", "halt"}
      /\ who' \in {"halted", "none"} /\ Ahead = {}
  BY DEF FlushEnd
<1>2. /\ pc = "idle" /\ pc' = pc /\ op' = op /\ vol' = vol /\ expect' = expect
      /\ failed' = failed
  BY <1>1 DEF Intact, STypes, vars
<1>3. IInv' /\ FInv' /\ Table' = Table /\ Medium' = Medium
  BY <1>1, <1>2, NothingHappens, StillSurvives DEF Intact, Table, Medium
<1>4. AtStake' /\ Passed'
  BY <1>1, <1>2 DEF AtStake, Writing, Passed
<1>5. CASE ferr
  <2>1. safe' = safe /\ (whole' => whole)
    BY <1>5 DEF FlushEnd, Succeeded
  <2>2. STypes' /\ OnMedium' /\ Whole'
    BY <1>1, <1>2, <1>3, <2>1 DEF Intact, STypes, OnMedium, Whole
  <2>3. QED
    BY <1>3, <1>4, <2>2 DEF Intact
<1>6. CASE ~ferr
  <2>1. safe' = expect
    BY <1>6 DEF FlushEnd, Succeeded
  <2>2. media = vol.disk
    <3>1. ASSUME NEW i \in Lbas PROVE media[i] = vol.disk[i]
      <4>1. CASE i < fpos
        BY <1>1, <1>6, <4>1 DEF Intact, Passed
      <4>2. CASE ~(i < fpos)
        <5>1. fpos <= i
          BY <4>2 DEF Intact, STypes, Lbas
        <5>2. QED
          BY <1>1, <5>1 DEF Ahead
      <4>3. QED
        BY <4>1, <4>2
    <3>2. media = [l \in Lbas |-> media[l]] /\ vol.disk = [l \in Lbas |-> vol.disk[l]]
      BY DEF Intact, STypes, IInv, Cache, Coherent
    <3>3. QED
      BY <3>1, <3>2
  <2>3. STypes'
    BY <1>1, <1>2, <2>1 DEF Intact, STypes, IInv, Types, TypeOK
  <2>4. OnMedium' /\ Whole'
    <3>1. IInv /\ FInv
      BY DEF Intact
    <3>2. QED
      BY <1>2, <1>3, <2>1, <2>2, <3>1, SavedWhole DEF OnMedium, Whole
  <2>5. QED
    BY <1>3, <1>4, <2>3, <2>4 DEF Intact
<1>7. QED
  BY <1>5, <1>6

(* The steps that only hand over control.                                  *)
LEMMA HandOverIntact ==
  ASSUME Intact, UNCHANGED <<vars, media, safe, whole, torn>>, pc = "idle",
         \/ fpos' = 0
         \/ UNCHANGED fpos /\ who' \in {"none", "halted"}
         \/ UNCHANGED <<fpos, who, ferr>>
  PROVE  Intact'
<1>1. /\ pc' = pc /\ op' = op /\ vol' = vol /\ expect' = expect /\ failed' = failed
      /\ media' = media /\ safe' = safe /\ whole' = whole
  BY DEF vars
<1>2. IInv' /\ FInv' /\ Table' = Table /\ Medium' = Medium
  BY <1>1, NothingHappens, StillSurvives DEF Intact, Table, Medium
<1>3. STypes' /\ OnMedium' /\ Whole'
  BY <1>1, <1>2 DEF Intact, STypes, OnMedium, Whole
<1>4. AtStake'
  BY <1>1 DEF AtStake, Writing
<1>5. Passed'
  <2>1. CASE fpos' = 0
    BY <2>1 DEF Passed, Lbas
  <2>2. CASE UNCHANGED fpos /\ who' \in {"none", "halted"}
    BY <2>2 DEF Passed
  <2>3. CASE UNCHANGED <<fpos, who, ferr>>
    BY <1>1, <2>3 DEF Passed, Intact
  <2>4. QED
    BY <2>1, <2>2, <2>3
<1>6. QED
  BY <1>2, <1>3, <1>4, <1>5 DEF Intact

LEMMA PowerLossIntact ==
  ASSUME Intact, PowerLoss, ~torn'
  PROVE  Intact'
<1>1. /\ vol' = Medium /\ pc' = "idle" /\ op' = NoOp /\ result' = 0 /\ expect' = safe
      /\ who' = "none" /\ fpos' = 0 /\ whole /\ Medium' = Medium
      /\ UNCHANGED <<ops, failed, media, safe>>
  BY DEF PowerLoss, Medium, Mounted
<1>2. /\ Coherent(Medium) /\ DirsWhole(Medium) /\ DirsEnded(Medium)
      /\ ChainsApart(Medium, AllEntries(Medium))
      /\ ~failed => \A c \in Clusters :
           DriverFat(Medium)[c] # 0 => c \in Held(Medium, AllEntries(Medium))
      /\ \A p \in Paths : safe[p] # Unknown =>
           fat16_read_file(Medium, DriverFat(Medium), p) = Contents(p, safe[p])
  BY <1>1 DEF Intact, Whole
<1>3. Table' = DriverFat(Medium) /\ ~vol'.dirty
  BY <1>1 DEF Table, Medium, Mounted
<1>4. IInv'
  <2>1. /\ ops' \in 0 .. MaxOps /\ DOMAIN expect' = Paths
        /\ \A p \in Paths :
             expect'[p] \in {Absent, Unknown} \union (0 .. MaxOps) \X Sizes
    BY <1>1 DEF Intact, STypes, IInv, Types, TypeOK
  <2>2. result' \in {-1, 0} \union Sizes
    BY <1>1
  <2>3. ~failed' => \A c \in Clusters : Table'[c] # 0 => c \in Held(vol', AllEntries(vol'))
    BY <1>1, <1>2, <1>3
  <2>4. Coherent(vol') /\ DirsWhole(vol') /\ ChainsApart(vol', AllEntries(vol'))
    BY <1>1, <1>2
  <2>5. QED
    BY <1>1, <1>3, <2>1, <2>2, <2>3, <2>4, Returned
<1>5. FInv'
  <2>1. OnDisk'
    BY <1>3, <1>4, CleanOnDisk
  <2>2. Reads' /\ DirsEnded(vol')
    BY <1>1, <1>2, <1>3 DEF Reads
  <2>3. Placed' /\ NoDirYet' /\ Content'
    BY <1>1 DEF Placed, NoDirYet, Content, Writing
  <2>4. QED
    BY <2>1, <2>2, <2>3 DEF FInv
<1>6. STypes'
  BY <1>1 DEF Intact, STypes
<1>7. OnMedium'
  <2>1. \A p \in Paths : Agrees(Medium, DiskFat(Medium), vol', Table', p)
    BY <1>1, <1>2, <1>3, FreshAgrees
  <2>2. QED
    BY <1>1, <2>1 DEF OnMedium
<1>8. Whole'
  BY <1>1, <1>2 DEF Whole
<1>9. AtStake' /\ Passed'
  BY <1>1 DEF AtStake, Passed, Writing
<1>10. QED
  BY <1>4, <1>5, <1>6, <1>7, <1>8, <1>9 DEF Intact

-----------------------------------------------------------------------------
(* A step of a call.  What is not at stake stays as it is.                 *)
LEMMA CallIntact ==
  ASSUME Intact, IInv', FInv', UNCHANGED <<media, fpos, whole>>,
         who' \in {"fwrite", "mkdir"}, AtStake', ~failed' => ~failed,
         DOMAIN safe' = Paths,
         \A p \in Paths : safe'[p] # Unknown =>
           /\ safe'[p] = safe[p] /\ expect'[p] = expect[p]
           /\ Stays(vol, Table, vol', Table', p)
  PROVE  Intact'
<1>1. Medium' = Medium
  BY DEF Medium
<1>2. STypes'
  BY DEF Intact, STypes
<1>3. OnMedium'
  <2>1. ASSUME NEW p \in Paths, safe'[p] # Unknown
        PROVE  safe'[p] = expect'[p] /\ Agrees(Medium, DiskFat(Medium), vol', Table', p)
    <3>1. /\ safe'[p] = safe[p] /\ expect'[p] = expect[p]
          /\ Stays(vol, Table, vol', Table', p)
      BY <2>1
    <3>2. safe[p] = expect[p] /\ Agrees(Medium, DiskFat(Medium), vol, Table, p)
      BY <2>1, <3>1 DEF Intact, OnMedium
    <3>3. Writing => p # op.path
      BY <2>1, <3>1 DEF Intact, AtStake
    <3>4. SoundPath(vol, Table, p)
      BY <3>3, PathIsSound DEF Intact
    <3>5. QED
      BY <3>1, <3>2, <3>4, StillAgrees
  <2>2. QED
    BY <1>1, <2>1 DEF OnMedium
<1>4. Whole'
  BY <1>1 DEF Whole, Intact
<1>5. Passed'
  BY DEF Passed
<1>6. QED
  BY <1>2, <1>3, <1>4, <1>5 DEF Intact

(* What the steps of the driver leave alone.                               *)
LEMMA ReturnIs ==
  ASSUME NEW r, Return(r)
  PROVE  /\ pc' = "idle" /\ op' = NoOp /\ op' = [i \in OpFields |-> op'[i]]
         /\ result' = r /\ (~failed' => ~failed)
<1> DEFINE negative == r < 0
<1>1. /\ pc' = "idle" /\ op' = NoOp /\ result' = r
      /\ failed' = (failed \/ negative)
  BY DEF Return
<1>2. op' = [i \in OpFields |-> op'[i]]
  BY <1>1, NoOpIs
<1> HIDE DEF negative
<1>3. QED
  BY <1>1, <1>2, Zenon

LEMMA StepIs ==
  ASSUME op = [i \in OpFields |-> op[i]], Step
  PROVE  /\ pc # "idle" /\ (~failed' => ~failed)
         /\ op' = [i \in OpFields |-> op'[i]]
         /\ pc' # "idle" =>
              op'.path = op.path /\ op'.mkdir = op.mkdir /\ op'.size = op.size
<1>1. {"path", "mkdir", "size"} \subseteq OpFields
  BY DEF OpFields
<1>2. CASE FreeOld
  <2>1. \E c : op' = [op EXCEPT !.clus = c]
    BY <1>2 DEF FreeOld
  <2>2. QED
    BY <1>1, <1>2, <2>1 DEF FreeOld
<1>3. CASE Alloc
  <2>1. \E c, k : op' = [op EXCEPT !.clus = c, !.ok = k]
    BY <1>3 DEF Alloc
  <2>2. QED
    BY <1>1, <1>3, <2>1 DEF Alloc
<1>4. CASE Link
  <2>1. \E c : op' = [op EXCEPT !.first = c]
    BY <1>4 DEF Link
  <2>2. QED
    BY <1>1, <1>4, <2>1 DEF Link
<1>5. CASE WriteData
  <2>1. \E c, n, k : op' = [op EXCEPT !.prev = c, !.done = n, !.ok = k]
    BY <1>5 DEF WriteData
  <2>2. QED
    BY <1>1, <1>5, <2>1 DEF WriteData
<1>6. CASE FlushFirst \/ MkdirZero
  BY <1>6 DEF FlushFirst, MkdirZero
<1>7. CASE FlushSecond
  <2>1. pc = "flush2" /\ (Return(-1) \/ (op' = op /\ failed' = failed))
    BY <1>7 DEF FlushSecond
  <2>2. QED
    BY <2>1, ReturnIs
<1>8. CASE WriteEntry
  <2>1. pc = "entry" /\ Return(op.size)
    BY <1>8 DEF WriteEntry
  <2>2. QED
    BY <2>1, ReturnIs
<1>9. CASE MkdirEntry
  BY <1>9, MkdirSlot, NoOpIs
<1>10. QED
  BY <1>2, <1>3, <1>4, <1>5, <1>6, <1>7, <1>8, <1>9 DEF Step

LEMMA InDriverIntact ==
  ASSUME Intact, InDriver
  PROVE  Intact'
<1>1. Step /\ UNCHANGED <<media, fpos, whole, safe, who>>
  BY DEF InDriver, svars
<1>2. IInv /\ FInv
  BY DEF Intact
<1>3. /\ pc # "idle" /\ (~failed' => ~failed)
      /\ pc' # "idle" => op'.path = op.path /\ op'.mkdir = op.mkdir
  BY <1>1, <1>2, StepIs DEF IInv, Types
<1>4. who' \in {"fwrite", "mkdir"}
  BY <1>1, <1>3 DEF Intact, STypes
<1>5. DOMAIN safe' = Paths
  BY <1>1 DEF Intact, STypes
<1>6. AtStake'
  BY <1>1, <1>3 DEF Intact, AtStake, Writing
<1>7. \A p \in Paths : safe[p] # Unknown =>
        /\ Writing => p # op.path
        /\ op.mkdir /\ Len(p) # 1 => p[1] # op.path[1]
  BY <1>3 DEF Intact, AtStake
<1>8. CASE FreeOld \/ Alloc \/ Link \/ WriteData \/ FlushFirst \/ FlushSecond \/ MkdirZero
  <2>1. IInv' /\ Harmless
    BY <1>2, <1>8, FreeOldStep, AllocStep, LinkStep, WriteDataStep, FlushFirstStep,
       FlushSecondStep, MkdirZeroStep
  <2>2. FInv'
    BY <1>2, <1>8, FreeOldSurvives, AllocSurvives, LinkSurvives, WriteDataSurvives,
       FlushFirstSurvives, FlushSecondSurvives, MkdirZeroSurvives
  <2>3. expect' = expect
    BY <1>8 DEF FreeOld, Alloc, Link, WriteData, FlushFirst, FlushSecond, MkdirZero
  <2>4. \A p \in Paths : safe[p] # Unknown => Stays(vol, Table, vol', Table', p)
    BY <1>2, <1>7, <2>1, HarmlessStays
  <2>5. QED
    BY <1>1, <1>3, <1>4, <1>5, <1>6, <2>1, <2>2, <2>3, <2>4, CallIntact
<1>9. CASE WriteEntry
  <2>1. IInv' /\ FInv'
    BY <1>2, <1>9, WriteEntryStep, WriteEntrySurvives
  <2>2. Writing
    BY <1>3, <1>9 DEF WriteEntry, Writing
  <2>3. \A p \in Paths : p # op.path => expect'[p] = expect[p]
    BY <1>2, <1>9 DEF WriteEntry, IInv, Types
  <2>4. \A p \in Paths : safe[p] # Unknown =>
          expect'[p] = expect[p] /\ Stays(vol, Table, vol', Table', p)
    BY <1>2, <1>7, <1>9, <2>2, <2>3, WriteEntryStays
  <2>5. QED
    BY <1>1, <1>3, <1>4, <1>5, <1>6, <2>1, <2>4, CallIntact
<1>10. CASE MkdirEntry
  <2>1. IInv' /\ FInv'
    BY <1>2, <1>10, MkdirEntryStep, MkdirEntrySurvives
  <2>2. expect' = expect /\ op.mkdir
    BY <1>10 DEF MkdirEntry
  <2>3. \A p \in Paths : safe[p] # Unknown => Stays(vol, Table, vol', Table', p)
    BY <1>2, <1>7, <1>10, <2>2, MkdirEntryStays
  <2>4. QED
    BY <1>1, <1>3, <1>4, <1>5, <1>6, <2>1, <2>2, <2>3, CallIntact
<1>11. QED
  BY <1>1, <1>8, <1>9, <1>10 DEF Step

(* The calls that begin.                                                   *)
LEMMA FwriteIntact ==
  ASSUME Intact, NEW p \in Paths, NEW n \in Sizes, Fwrite(p, n)
  PROVE  Intact'
<1>1. /\ WriteBegin(p, n) /\ pc = "idle" /\ who' = "fwrite"
      /\ UNCHANGED <<media, fpos, whole>>
      /\ safe' = IF expect'[p] = Unknown THEN [safe EXCEPT ![p] = Unknown] ELSE safe
  BY DEF Fwrite, Ready
<1>2. IInv /\ FInv /\ DOMAIN safe = Paths /\ DOMAIN expect = Paths
  BY DEF Intact, STypes, IInv, Types
<1>3. IInv' /\ Harmless /\ FInv'
  BY <1>1, <1>2, WriteBeginStep, WriteBeginSurvives
<1>4. \/ pc' = "idle" /\ expect' = expect
      \/ /\ op'.path = p /\ op'.mkdir = FALSE
         /\ expect' = [expect EXCEPT ![p] = Unknown]
  BY <1>1, NoOpIs DEF WriteBegin, Return, OpFields
<1>5. ~failed' => ~failed
  BY <1>1 DEF WriteBegin, Return
<1>6. DOMAIN safe' = Paths
  BY <1>1, <1>2
<1>7. AtStake'
  BY <1>1, <1>2, <1>4 DEF AtStake, Writing
<1>8. \A q \in Paths : safe'[q] # Unknown =>
        /\ safe'[q] = safe[q] /\ expect'[q] = expect[q]
        /\ Stays(vol, Table, vol', Table', q)
  <2>1. \A q \in Paths : Stays(vol, Table, vol', Table', q)
    BY <1>1, <1>2, <1>3, HarmlessStays DEF Writing
  <2>2. \A q \in Paths : safe'[q] # Unknown =>
          safe'[q] = safe[q] /\ expect'[q] = expect[q]
    BY <1>1, <1>2, <1>4
  <2>3. QED
    BY <2>1, <2>2
<1>9. QED
  BY <1>1, <1>3, <1>5, <1>6, <1>7, <1>8, CallIntact

LEMMA MkdirIntact ==
  ASSUME Intact, NEW d \in DirNames, Mkdir(d)
  PROVE  Intact'
<1>1. /\ MkdirBegin(d) /\ pc = "idle" /\ who' = "mkdir"
      /\ UNCHANGED <<media, fpos, whole>>
      /\ safe' = [p \in Paths |-> IF pc' # "idle" /\ p[1] = d /\ Len(p) = 2
                                  THEN Unknown ELSE safe[p]]
  BY DEF Mkdir, Ready
<1>2. IInv /\ FInv
  BY DEF Intact
<1>3. IInv' /\ Harmless /\ FInv'
  BY <1>1, <1>2, MkdirBeginStep, MkdirBeginSurvives
<1>4. \/ \E r : Return(r)
      \/ /\ failed' = failed
         /\ \E c : op' = [NoOp EXCEPT !.path = <<d>>, !.mkdir = TRUE, !.clus = c]
  BY <1>1 DEF MkdirBegin
<1>5. /\ pc' # "idle" => op'.path = <<d>> /\ op'.mkdir = TRUE
      /\ expect' = expect /\ (~failed' => ~failed)
  <2>1. expect' = expect
    BY <1>1 DEF MkdirBegin
  <2>2. ASSUME NEW r, Return(r)
        PROVE  pc' = "idle" /\ (~failed' => ~failed)
    BY <2>2, ReturnIs
  <2>3. ASSUME NEW c, op' = [NoOp EXCEPT !.path = <<d>>, !.mkdir = TRUE, !.clus = c]
        PROVE  op'.path = <<d>> /\ op'.mkdir = TRUE
    <3>1. "path" \in OpFields /\ "mkdir" \in OpFields
      BY DEF OpFields
    <3>2. QED
      BY <2>3, <3>1, NoOpIs
  <2>4. CASE \E r : Return(r)
    BY <2>1, <2>2, <2>4
  <2>5. CASE ~ \E r : Return(r)
    <3>1. failed' = failed
      BY <1>4, <2>5
    <3>2. ~failed' => ~failed
      BY <3>1
    <3>3. \E c : op' = [NoOp EXCEPT !.path = <<d>>, !.mkdir = TRUE, !.clus = c]
      BY <1>4, <2>5
    <3>4. QED
      BY <2>1, <2>3, <3>2, <3>3
  <2>6. QED
    BY <2>4, <2>5
<1>6. DOMAIN safe' = Paths
  BY <1>1
<1>7. AtStake'
  <2>1. \A p \in Paths : Len(p) # 1 => Len(p) = 2
    BY PathForms
  <2>2. QED
    BY <1>1, <1>5, <2>1 DEF AtStake, Writing
<1>8. \A q \in Paths : Stays(vol, Table, vol', Table', q)
  BY <1>1, <1>2, <1>3, HarmlessStays DEF Writing
<1>9. \A q \in Paths : safe'[q] # Unknown => safe'[q] = safe[q]
  BY <1>1
<1>10. QED
  BY <1>1, <1>3, <1>5, <1>6, <1>7, <1>8, <1>9, CallIntact

LEMMA TornForEver ==
  ASSUME SNext \/ UNCHANGED allVars, ~torn'
  PROVE  ~torn
<1>1. CASE SNext
  <2>1. ASSUME NEW p, NEW n, Fwrite(p, n) PROVE ~torn
    BY <2>1 DEF Fwrite
  <2>2. ASSUME NEW d, Mkdir(d) PROVE ~torn
    BY <2>2 DEF Mkdir
  <2>3. ASSUME NEW i, FlushSector(i) PROVE ~torn
    BY <2>3 DEF FlushSector
  <2>4. CASE InDriver \/ DriverReturns \/ FlushEnd \/ Sync \/ Halt
    BY <2>4 DEF InDriver, DriverReturns, FlushEnd, Sync, Halt, svars
  <2>5. CASE PowerLoss
    BY <2>5 DEF PowerLoss
  <2>6. QED
    BY <1>1, <2>1, <2>2, <2>3, <2>4, <2>5 DEF SNext, Progress
<1>2. CASE UNCHANGED allVars
  BY <1>2 DEF allVars, svars
<1>3. QED
  BY <1>1, <1>2

LEMMA SInvKept ==
  ASSUME SInv, SNext \/ UNCHANGED allVars
  PROVE  SInv'
<1>1. SUFFICES ASSUME ~torn' PROVE Intact'
  BY DEF SInv
<1>2. Intact
  BY <1>1, TornForEver DEF SInv
<1>3. ASSUME NEW p \in Paths, NEW n \in Sizes, Fwrite(p, n) PROVE Intact'
  BY <1>2, <1>3, FwriteIntact
<1>4. ASSUME NEW d \in DirNames, Mkdir(d) PROVE Intact'
  BY <1>2, <1>4, MkdirIntact
<1>5. CASE InDriver
  BY <1>2, <1>5, InDriverIntact
<1>6. CASE DriverReturns \/ Sync \/ Halt
  <2>1. /\ UNCHANGED <<vars, media, safe, whole, torn>> /\ pc = "idle"
        /\ fpos' = 0 \/ (UNCHANGED fpos /\ who' \in {"none", "halted"})
    BY <1>6 DEF DriverReturns, Sync, Halt, StartFlush, Ready
  <2>2. QED
    BY <1>2, <2>1, HandOverIntact
<1>7. ASSUME NEW i \in Lbas, FlushSector(i) PROVE Intact'
  BY <1>2, <1>7, FlushSectorIntact
<1>8. CASE FlushEnd
  BY <1>2, <1>8, FlushEndIntact
<1>9. CASE PowerLoss
  BY <1>1, <1>2, <1>9, PowerLossIntact
<1>10. CASE UNCHANGED allVars
  <2>1. /\ IInv' /\ FInv' /\ Table' = Table /\ Medium' = Medium
    BY <1>2, <1>10, NothingHappens, StillSurvives
       DEF allVars, svars, vars, Intact, Table, Medium
  <2>2. QED
    BY <1>2, <1>10, <2>1 DEF allVars, svars, vars, Intact, STypes, OnMedium, AtStake,
       Whole, Passed, Writing
<1>11. QED
  BY <1>3, <1>4, <1>5, <1>6, <1>7, <1>8, <1>9, <1>10 DEF SNext, Progress

(* The invariant holds in every state: until power is lost in the middle   *)
(* of a flush, the medium agrees with the RAM disk on every file that is   *)
(* saved, whatever of the other sectors has reached it.                    *)
THEOREM StorageInvariant == SSpec => []SInv
<1>1. SInit => SInv
  BY SInitIntact DEF SInv
<1>2. SInv /\ [SNext]_allVars => SInv'
  BY SInvKept
<1>3. QED
  BY <1>1, <1>2, PTL DEF SSpec

LEMMA IntactSurvives ==
  ASSUME Intact, NEW p \in Paths, safe[p] # Unknown
  PROVE  OnMedia(p) = Contents(p, safe[p])
<1> DEFINE m == [vol EXCEPT !.disk = media]
<1>1. safe[p] = expect[p] /\ Agrees(Medium, DiskFat(Medium), vol, Table, p)
  BY DEF Intact, OnMedium
<1>2. m.disk = media /\ Medium.disk = media
  BY DEF Intact, IInv, Cache, Coherent, Fields, Medium, Mounted
<1>3. OnMedia(p) = fat16_read_file(m, DiskFat(m), p)
  BY DEF OnMedia
<1> HIDE DEF m
<1>4. IInv /\ FInv /\ (Writing => p # op.path)
  BY DEF Intact, AtStake
<1>5. Agrees(m, DiskFat(m), vol, Table, p)
  BY <1>1, <1>2, <1>4, MixedAgrees DEF Mixed
<1>6. fat16_read_file(m, DiskFat(m), p) = fat16_read_file(vol, Table, p)
  BY <1>4, <1>5, PathIsSound, AgreesReads
<1>7. fat16_read_file(vol, Table, p) = Contents(p, expect[p])
  BY <1>1 DEF Intact, FInv, Reads
<1>8. QED
  BY <1>1, <1>3, <1>6, <1>7

(* A file that a complete flush has saved, and that nobody writes since,   *)
(* is read from the medium at every moment: while ap_fwrite, cmd_mkdir and *)
(* shell_save_config write, replace and fail to write others, half-way     *)
(* through ata_flush, with sectors that the medium refuses, and after      *)
(* losses of power between flushes.                                        *)
THEOREM SavedSurvive == SSpec => []SavedFilesSurvive
<1>1. SInv => SavedFilesSurvive
  BY IntactSurvives DEF SInv, SavedFilesSurvive
<1>2. QED
  BY <1>1, StorageInvariant, PTL

-----------------------------------------------------------------------------
LEMMA WrittenAtFirst ==
  ASSUME SInit
  PROVE  Written
<1>1. /\ Init /\ safe = expect /\ wrote = <<>> /\ ferr = FALSE /\ fails = 0 /\ losses = 0
  BY DEF SInit
<1>2. DOMAIN expect = Paths
  BY <1>1, InitIs DEF IInv, Types
<1>3. pc = "idle" /\ op = [i \in OpFields |-> op[i]]
  BY <1>1, NoOpIs DEF Init
<1>4. QED
  BY <1>1, <1>2, <1>3 DEF Written

LEMMA FwriteWritten ==
  ASSUME Written, NEW p \in Paths, NEW n \in Sizes, Fwrite(p, n)
  PROVE  Written'
<1>1. /\ WriteBegin(p, n) /\ who' = "fwrite" /\ wrote' = p
      /\ UNCHANGED <<ferr, fails, losses>>
      /\ safe' = IF expect'[p] = Unknown THEN [safe EXCEPT ![p] = Unknown] ELSE safe
  BY DEF Fwrite
<1>2. n \in Nat
  BY BoundsAssumption
<1>3. CASE Return(-1) /\ expect' = expect
  <2>1. pc' = "idle" /\ op' = [i \in OpFields |-> op'[i]] /\ result' = -1
    BY <1>3, ReturnIs
  <2>2. ~(result' > 0)
    BY <2>1
  <2>3. DOMAIN safe' = Paths
    BY <1>1 DEF Written
  <2>4. QED
    BY <1>1, <1>3, <2>1, <2>2, <2>3 DEF Written
<1>4. CASE ~(Return(-1) /\ expect' = expect)
  <2>1. /\ pc' \in {"alloc", "free"} /\ expect' = [expect EXCEPT ![p] = Unknown]
        /\ \E s, c : op' = [NoOp EXCEPT !.path = p, !.size = n, !.slot = s, !.clus = c]
    BY <1>1, <1>4 DEF WriteBegin
  <2>2. /\ op' = [i \in OpFields |-> op'[i]] /\ op'.path = p /\ op'.size = n
        /\ op'.mkdir = FALSE
    <3>1. {"path", "mkdir", "size", "slot", "clus"} \subseteq OpFields
      BY DEF OpFields
    <3>2. QED
      BY <2>1, <3>1, NoOpIs
  <2>3. DOMAIN expect' = Paths /\ DOMAIN safe' = Paths
    BY <1>1, <2>1 DEF Written
  <2>4. QED
    BY <1>1, <1>2, <2>1, <2>2, <2>3 DEF Written
<1>5. QED
  BY <1>3, <1>4

LEMMA MkdirWritten ==
  ASSUME Written, NEW d \in DirNames, Mkdir(d)
  PROVE  Written'
<1>1. /\ MkdirBegin(d) /\ who' = "mkdir" /\ wrote' = <<>> /\ DOMAIN safe' = Paths
      /\ UNCHANGED <<ferr, fails, losses>>
  BY DEF Mkdir
<1>2. /\ expect' = expect
      /\ \/ \E r : Return(r)
         \/ \E c : op' = [NoOp EXCEPT !.path = <<d>>, !.mkdir = TRUE, !.clus = c]
  BY <1>1 DEF MkdirBegin
<1>3. op' = [i \in OpFields |-> op'[i]]
  <2>1. ASSUME NEW r, Return(r) PROVE op' = [i \in OpFields |-> op'[i]]
    BY <2>1, ReturnIs
  <2>2. ASSUME NEW c, op' = [NoOp EXCEPT !.path = <<d>>, !.mkdir = TRUE, !.clus = c]
        PROVE  op' = [i \in OpFields |-> op'[i]]
    BY <2>2, NoOpIs
  <2>3. QED
    BY <1>2, <2>1, <2>2
<1>4. QED
  BY <1>1, <1>2, <1>3 DEF Written

LEMMA InDriverWritten ==
  ASSUME Written, InDriver
  PROVE  Written'
<1>1. Step /\ UNCHANGED <<who, wrote, ferr, fails, losses, safe>>
  BY DEF InDriver, svars
<1>2. op = [i \in OpFields |-> op[i]]
  BY DEF Written
<1>3. /\ pc # "idle" /\ op' = [i \in OpFields |-> op'[i]]
      /\ pc' # "idle" =>
           op'.path = op.path /\ op'.mkdir = op.mkdir /\ op'.size = op.size
  BY <1>1, <1>2, StepIs
<1>4. who \in {"fwrite", "mkdir"}
  BY <1>3 DEF Written
<1>5. CASE WriteEntry
  <2>1. /\ expect' = [expect EXCEPT ![op.path] = <<ops, op.size>>] /\ pc' = "idle"
    BY <1>5, ReturnIs DEF WriteEntry
  <2>2. DOMAIN expect' = Paths
    BY <2>1 DEF Written
  <2>3. wrote # <<>> => expect'[wrote] # Unknown
    <3>1. SUFFICES ASSUME wrote # <<>> PROVE expect'[wrote] # Unknown
      OBVIOUS
    <3>2. op.path = wrote /\ op.size \in Nat /\ wrote \in Paths
      BY <1>3, <1>4, <3>1 DEF Written
    <3>3. expect'[wrote] = <<ops, op.size>>
      BY <2>1, <3>2 DEF Written
    <3>4. op.size # -2
      BY <3>2
    <3>5. QED
      BY <3>3, <3>4 DEF Unknown
  <2>4. QED
    BY <1>1, <1>3, <1>4, <2>1, <2>2, <2>3 DEF Written
<1>6. CASE ~WriteEntry
  <2>1. expect' = expect
    BY <1>1, <1>6 DEF Step, FreeOld, Alloc, Link, WriteData, FlushFirst, FlushSecond,
       MkdirZero, MkdirEntry
  <2>2. wrote = <<>> \/ ~(pc' = "idle" /\ result' > 0)
    <3>1. SUFFICES ASSUME wrote # <<>>, pc' = "idle" PROVE ~(result' > 0)
      OBVIOUS
    <3>2. ~op.mkdir
      BY <1>3, <1>4, <3>1 DEF Written
    <3>3. FlushSecond
      BY <1>1, <1>6, <3>1, <3>2 DEF Step, FreeOld, Alloc, Link, WriteData, FlushFirst,
         MkdirZero, MkdirEntry
    <3>4. Return(-1)
      BY <3>1, <3>3 DEF FlushSecond
    <3>5. result' = -1
      BY <3>4, ReturnIs
    <3>6. QED
      BY <3>5
  <2>3. QED
    BY <1>1, <1>3, <1>4, <2>1, <2>2 DEF Written
<1>7. QED
  BY <1>5, <1>6

LEMMA WrittenKept ==
  ASSUME Written, SNext \/ UNCHANGED allVars
  PROVE  Written'
<1>1. CASE DriverReturns \/ Sync \/ Halt
  <2>1. /\ UNCHANGED <<vars, wrote, fails, losses, safe>> /\ pc = "idle"
        /\ ferr' = FALSE \/ UNCHANGED ferr
    BY <1>1 DEF DriverReturns, Sync, Halt, StartFlush, Ready
  <2>2. QED
    BY <2>1 DEF Written, vars
<1>2. ASSUME NEW i, FlushSector(i) PROVE Written'
  <2>1. /\ UNCHANGED <<vars, who, wrote, losses, safe>>
        /\ \/ UNCHANGED <<ferr, fails>>
           \/ fails' = fails + 1
    BY <1>2 DEF FlushSector
  <2>2. fails' \in Nat /\ (fails' = 0 => ~ferr')
    BY <2>1 DEF Written
  <2>3. QED
    BY <2>1, <2>2 DEF Written, vars
<1>3. CASE FlushEnd
  <2>1. /\ UNCHANGED <<vars, wrote, ferr, fails, losses>> /\ who \in {"flush", "halt"}
        /\ safe' = expect \/ safe' = safe
    BY <1>3 DEF FlushEnd
  <2>2. QED
    BY <2>1 DEF Written, vars
<1>4. CASE PowerLoss
  <2>1. /\ pc' = "idle" /\ op' = NoOp /\ expect' = safe /\ wrote' = <<>> /\ ferr' = FALSE
        /\ losses' = losses + 1 /\ UNCHANGED <<fails, safe>>
    BY <1>4 DEF PowerLoss
  <2>2. losses' \in Nat
    BY <2>1 DEF Written
  <2>3. QED
    BY <2>1, <2>2, NoOpIs DEF Written
<1>5. CASE UNCHANGED allVars
  BY <1>5 DEF Written, allVars, vars, svars
<1>6. QED
  BY <1>1, <1>2, <1>3, <1>4, <1>5, FwriteWritten, MkdirWritten, InDriverWritten
     DEF SNext, Progress

(* When ap_fwrite or shell_save_config returns after a write of a file     *)
(* that is not empty and no sector was refused, the flush it made has      *)
(* saved the version that was written.                                     *)
THEOREM WritesSaved == SSpec => WritesAreSaved
<1> DEFINE Saves ==
      (who \in {"fwrite", "flush"} /\ who' = "none" /\ losses' = losses
         /\ wrote # <<>> /\ result > 0 /\ fails = 0) =>
        safe'[wrote] = expect'[wrote] /\ safe'[wrote] # Unknown
<1>1. Written /\ [SNext]_allVars => Saves
  <2>1. SUFFICES ASSUME Written, SNext \/ UNCHANGED allVars,
                        who \in {"fwrite", "flush"}, who' = "none", losses' = losses,
                        wrote # <<>>, result > 0, fails = 0
                 PROVE  safe'[wrote] = expect'[wrote] /\ safe'[wrote] # Unknown
    OBVIOUS
  <2>2. ASSUME NEW p, NEW n, Fwrite(p, n) PROVE FALSE
    BY <2>1, <2>2 DEF Fwrite
  <2>3. ASSUME NEW d, Mkdir(d) PROVE FALSE
    BY <2>1, <2>3 DEF Mkdir
  <2>4. ASSUME NEW i, FlushSector(i) PROVE FALSE
    BY <2>1, <2>4 DEF FlushSector
  <2>5. CASE InDriver \/ UNCHANGED allVars
    BY <2>1, <2>5 DEF InDriver, allVars, svars
  <2>6. CASE Sync \/ Halt
    BY <2>1, <2>6 DEF Sync, Halt, StartFlush, Ready
  <2>7. CASE DriverReturns
    BY <2>1, <2>7 DEF DriverReturns, MustFlush, StartFlush
  <2>8. CASE PowerLoss
    <3>1. losses' = losses + 1 /\ losses \in Nat
      BY <2>1, <2>8 DEF PowerLoss, Written
    <3>2. QED
      BY <2>1, <3>1
  <2>9. CASE FlushEnd
    <3>1. who \in {"flush", "halt"} /\ expect' = expect
      BY <2>9 DEF FlushEnd, vars
    <3>2. ~ferr /\ pc = "idle" /\ expect[wrote] # Unknown
      BY <2>1, <3>1 DEF Written
    <3>3. safe' = expect
      BY <2>9, <3>2 DEF FlushEnd, Succeeded
    <3>4. QED
      BY <3>1, <3>2, <3>3
  <2>10. QED
    BY <2>1, <2>2, <2>3, <2>4, <2>5, <2>6, <2>7, <2>8, <2>9 DEF SNext, Progress
<1>2. SInit => Written
  BY WrittenAtFirst
<1>3. Written /\ [SNext]_allVars => Written'
  BY WrittenKept
<1>4. QED
  BY <1>1, <1>2, <1>3, PTL DEF SSpec, WritesAreSaved
=============================================================================
