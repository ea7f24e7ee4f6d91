----------------------------- MODULE HeapProofs -----------------------------
(***************************************************************************)
(* The heap keeps its block list whole and implements the abstract         *)
(* allocator, for every arena, header and split size and every size asked  *)
(* for.  A list is taken apart into the blocks before one, the block       *)
(* itself and those behind it; each part is a span of addresses, and the   *)
(* spans join again.                                                       *)
(***************************************************************************)
EXTENDS Heap, SequenceTheorems, WellFoundedInduction, TLAPS

(* Induction up to N, and the recursion of Coalesce.                       *)
LEMMA Induction ==
  ASSUME NEW N \in Nat, NEW P, 0 \in P,
         \A k \in 0 .. N - 1 : k \in P => k + 1 \in P
  PROVE  \A k \in 0 .. N : k \in P
<1> DEFINE R == OpToRel(<, Nat)
           T == (0 .. N) \ P
<1> SUFFICES ASSUME T # {} PROVE FALSE
  OBVIOUS
<1>1. IsWellFoundedOn(R, Nat)
  BY NatLessThanWellFounded
<1>2. PICK x \in T : \A y \in T : <<y, x>> \notin R
  <2> HIDE DEF R, T
  <2>1. T \subseteq Nat
    BY DEF T
  <2>2. QED
    BY <1>1, <2>1, WFMin
<1>3. x # 0 /\ x - 1 \in 0 .. N - 1
  OBVIOUS
<1>4. x - 1 \notin P
  BY <1>3
<1>5. x - 1 \in T /\ <<x - 1, x>> \in R
  BY <1>3, <1>4 DEF OpToRel
<1>6. QED
  BY <1>2, <1>5

LEMMA CoalesceDef ==
  ASSUME NEW bs, Len(bs) \in Nat
  PROVE  \E last : /\ last = [k \in 0 .. Len(bs) |->
                        IF k = 0 THEN <<>> ELSE Join(bs[Len(bs) - k + 1], last[k - 1])]
                   /\ Coalesce(bs) = last[Len(bs)]
<1> DEFINE N == Len(bs)
           E(g, k) == IF k = 0 THEN <<>> ELSE Join(bs[N - k + 1], g[k - 1])
           Up(g, m) == g = [k \in 0 .. m |-> E(g, k)]
           P == {m \in 0 .. N : \E g : Up(g, m)}
<1>1. 0 \in P
  <2> DEFINE g == [k \in 0 .. 0 |-> <<>>]
  <2>1. Up(g, 0)
    OBVIOUS
  <2> HIDE DEF g, Up
  <2>2. QED
    BY <2>1
<1>2. ASSUME NEW m \in 0 .. N - 1, m \in P
      PROVE  m + 1 \in P
  <2>1. PICK g : g = [k \in 0 .. m |-> E(g, k)]
    BY <1>2
  <2> DEFINE h == [k \in 0 .. m + 1 |-> IF k = m + 1 THEN E(g, m + 1) ELSE g[k]]
  <2>2. ASSUME NEW k \in 0 .. m + 1
        PROVE  h[k] = E(h, k)
    <3>1. CASE k = 0
      BY <2>1, <3>1
    <3>2. CASE k # 0
      <4>1. k - 1 \in 0 .. m /\ h[k - 1] = g[k - 1]
        BY <3>2
      <4>2. h[k] = E(g, k)
        BY <2>1, <3>2
      <4>3. QED
        BY <4>1, <4>2
    <3>3. QED
      BY <3>1, <3>2
  <2>3. Up(h, m + 1)
    BY <2>2
  <2>4. m + 1 \in 0 .. N
    OBVIOUS
  <2> HIDE DEF h, Up
  <2>5. QED
    BY <2>3, <2>4
<1>3. N \in P
  <2> HIDE DEF P
  <2>1. \A k \in 0 .. N : k \in P
    BY <1>1, <1>2, Induction
  <2>2. QED
    BY <2>1
<1>4. PICK g : g = [k \in 0 .. N |-> E(g, k)]
  BY <1>3
<1> DEFINE last == CHOOSE f : f = [k \in 0 .. N |-> E(f, k)]
<1>5. last = [k \in 0 .. N |-> E(last, k)]
  BY <1>4
<1>6. Coalesce(bs) = last[N]
  BY DEF Coalesce
<1>7. QED
  BY <1>5, <1>6

-----------------------------------------------------------------------------
Blocks == [at : Nat, size : Nat, free : BOOLEAN]

(* The list s fills the addresses from lo to hi.                           *)
Span(s, lo, hi) ==
  /\ s \in Seq(Blocks)
  /\ s = <<>> => lo = hi
  /\ s # <<>> => s[1].at = lo /\ End(s[Len(s)]) = hi
  /\ \A i \in 1 .. Len(s) - 1 : s[i + 1].at = End(s[i])
  /\ \A i \in 1 .. Len(s) : lo <= s[i].at /\ End(s[i]) <= hi
  /\ \A i, j \in 1 .. Len(s) : i < j => End(s[i]) <= s[j].at

NoPairs(s) == \A i \in 1 .. Len(s) - 1 : ~(s[i].free /\ s[i + 1].free)

Used(s) == {x \in ToSet(s) : ~x.free}

LEMMA HdrNat == Hdr \in Nat /\ Hdr > 0
BY HeapAssumption

LEMMA EndNat ==
  ASSUME NEW b \in Blocks
  PROVE  End(b) \in Nat /\ b.at < End(b) /\ b.at + b.size < End(b)
BY HdrNat DEF Blocks, End, Ptr

LEMMA ListOfBlocks ==
  ASSUME NEW s \in Seq(Blocks)
  PROVE  /\ Len(s) \in Nat
         /\ s = <<>> <=> Len(s) = 0
         /\ \A k \in 1 .. Len(s) :
              s[k] \in Blocks /\ End(s[k]) \in Nat /\ s[k].at \in Nat
<1>1. Len(s) \in Nat /\ (s = <<>> <=> Len(s) = 0)
  BY EmptySeq
<1>2. \A k \in 1 .. Len(s) : s[k] \in Blocks
  BY ElementOfSeq
<1>3. \A k \in 1 .. Len(s) : End(s[k]) \in Nat
  BY <1>2, EndNat
<1>4. \A k \in 1 .. Len(s) : s[k].at \in Nat
  BY <1>2 DEF Blocks
<1>5. QED
  BY <1>1, <1>2, <1>3, <1>4

LEMMA BlockIs ==
  ASSUME NEW at \in Nat, NEW size \in Nat, NEW fr \in BOOLEAN
  PROVE  /\ Block(at, size, fr) \in Blocks
         /\ Block(at, size, fr).at = at
         /\ Block(at, size, fr).size = size
         /\ Block(at, size, fr).free = fr
         /\ End(Block(at, size, fr)) = at + Hdr + size
BY HdrNat DEF Block, Blocks, End, Ptr

LEMMA OneBlock ==
  ASSUME NEW b \in Blocks
  PROVE  /\ <<b>> \in Seq(Blocks) /\ Len(<<b>>) = 1 /\ <<b>>[1] = b
         /\ <<b>> # <<>>
OBVIOUS

LEMMA TwoBlocks ==
  ASSUME NEW b \in Blocks, NEW d \in Blocks
  PROVE  <<b, d>> = <<b>> \o <<d>>
<1> DEFINE s == <<b>>
           t == <<d>>
           u == <<b, d>>
<1>1. /\ s \in Seq(Blocks) /\ Len(s) = 1 /\ s[1] = b
      /\ t \in Seq(Blocks) /\ Len(t) = 1 /\ t[1] = d
      /\ u \in Seq(Blocks) /\ Len(u) = 2 /\ u[1] = b /\ u[2] = d
  OBVIOUS
<1> HIDE DEF s, t, u
<1>2. /\ s \o t \in Seq(Blocks) /\ Len(s \o t) = 2
      /\ \A i \in 1 .. 2 : (s \o t)[i] = IF i <= 1 THEN s[i] ELSE t[i - 1]
  <2>1. /\ s \o t \in Seq(Blocks) /\ Len(s \o t) = Len(s) + Len(t)
        /\ \A i \in 1 .. Len(s) + Len(t) : (s \o t)[i] =
             IF i <= Len(s) THEN s[i] ELSE t[i - Len(s)]
    BY <1>1, ConcatProperties
  <2>2. QED
    BY <1>1, <2>1
<1>3. \A i \in 1 .. 2 : u[i] = (s \o t)[i]
  BY <1>1, <1>2
<1>4. u = s \o t
  BY <1>1, <1>2, <1>3, SeqEqual
<1>5. QED
  BY <1>4 DEF s, t, u

LEMMA OneSpan ==
  ASSUME NEW b \in Blocks
  PROVE  Span(<<b>>, b.at, End(b)) /\ NoPairs(<<b>>)
BY OneBlock, EndNat DEF Span, NoPairs, Blocks

LEMMA SpanConcat ==
  ASSUME NEW lo \in Nat, NEW mid \in Nat, NEW hi \in Nat, NEW s, NEW t,
         Span(s, lo, mid), Span(t, mid, hi)
  PROVE  Span(s \o t, lo, hi) /\ lo <= mid /\ mid <= hi
<1>1. /\ s \in Seq(Blocks) /\ t \in Seq(Blocks)
      /\ Len(s) \in Nat /\ Len(t) \in Nat
  BY DEF Span
<1>2. lo <= mid /\ mid <= hi
  <2>1. lo <= mid
    <3>1. CASE s = <<>>
      BY <3>1 DEF Span
    <3>2. CASE s # <<>>
      <4>1. 1 \in 1 .. Len(s) /\ s[1] \in Blocks
        BY <1>1, <3>2, EmptySeq, ElementOfSeq
      <4>2. QED
        BY <4>1, EndNat DEF Span, Blocks
    <3>3. QED
      BY <3>1, <3>2
  <2>2. mid <= hi
    <3>1. CASE t = <<>>
      BY <3>1 DEF Span
    <3>2. CASE t # <<>>
      <4>1. 1 \in 1 .. Len(t) /\ t[1] \in Blocks
        BY <1>1, <3>2, EmptySeq, ElementOfSeq
      <4>2. QED
        BY <4>1, EndNat DEF Span, Blocks
    <3>3. QED
      BY <3>1, <3>2
  <2>3. QED
    BY <2>1, <2>2
<1> DEFINE u == s \o t
<1>3. /\ u \in Seq(Blocks) /\ Len(u) = Len(s) + Len(t)
      /\ \A i \in 1 .. Len(s) + Len(t) : u[i] = IF i <= Len(s) THEN s[i] ELSE t[i - Len(s)]
  BY <1>1, ConcatProperties
<1>4. /\ \A i \in 1 .. Len(s) : s[i] \in Blocks /\ End(s[i]) \in Nat /\ s[i].at \in Nat
      /\ \A i \in 1 .. Len(t) : t[i] \in Blocks /\ End(t[i]) \in Nat /\ t[i].at \in Nat
  BY <1>1, ListOfBlocks
<1> HIDE DEF u
<1>5. u = <<>> => lo = hi
  <2> SUFFICES ASSUME u = <<>> PROVE lo = hi
    OBVIOUS
  <2>1. Len(s) = 0 /\ Len(t) = 0
    BY <1>1, <1>3
  <2>2. s = <<>> /\ t = <<>>
    BY <1>1, <2>1, EmptySeq
  <2>3. QED
    BY <2>2 DEF Span
<1>6. u # <<>> => u[1].at = lo /\ End(u[Len(u)]) = hi
  <2> SUFFICES ASSUME u # <<>> PROVE u[1].at = lo /\ End(u[Len(u)]) = hi
    OBVIOUS
  <2>1. Len(s) + Len(t) > 0
    BY <1>3, EmptySeq
  <2>2. s = <<>> <=> Len(s) = 0
    BY <1>1, EmptySeq
  <2>3. t = <<>> <=> Len(t) = 0
    BY <1>1, EmptySeq
  <2>4. u[1].at = lo
    <3>1. CASE Len(s) = 0
      BY <1>1, <1>3, <2>1, <2>2, <2>3, <3>1 DEF Span
    <3>2. CASE Len(s) # 0
      BY <1>1, <1>3, <2>1, <2>2, <3>2 DEF Span
    <3>3. QED
      BY <3>1, <3>2
  <2>5. End(u[Len(u)]) = hi
    <3>1. CASE Len(t) = 0
      BY <1>1, <1>3, <2>1, <2>2, <2>3, <3>1 DEF Span
    <3>2. CASE Len(t) # 0
      <4>1. Len(u) \in 1 .. Len(s) + Len(t) /\ ~(Len(u) <= Len(s)) /\ Len(u) - Len(s) = Len(t)
        BY <1>1, <1>3, <3>2
      <4>2. u[Len(u)] = t[Len(t)]
        BY <1>3, <4>1
      <4>3. QED
        BY <2>3, <3>2, <4>2 DEF Span
    <3>3. QED
      BY <3>1, <3>2
  <2>6. QED
    BY <2>4, <2>5
<1>7. \A i \in 1 .. Len(u) - 1 : u[i + 1].at = End(u[i])
  <2> SUFFICES ASSUME NEW i \in 1 .. Len(u) - 1 PROVE u[i + 1].at = End(u[i])
    OBVIOUS
  <2>1. CASE i < Len(s)
    BY <1>1, <1>3, <2>1 DEF Span
  <2>2. CASE i = Len(s)
    <3>1. /\ i + 1 \in 1 .. Len(s) + Len(t) /\ ~(i + 1 <= Len(s)) /\ i + 1 - Len(s) = 1
          /\ i \in 1 .. Len(s) + Len(t) /\ Len(s) # 0 /\ Len(t) # 0
      BY <1>1, <1>3, <2>2
    <3>2. u[i + 1] = t[1] /\ u[i] = s[Len(s)] /\ s # <<>> /\ t # <<>>
      BY <1>1, <1>3, <2>2, <3>1, ListOfBlocks
    <3>3. QED
      BY <3>2 DEF Span
  <2>3. CASE i > Len(s)
    <3>1. i - Len(s) \in 1 .. Len(t) - 1 /\ i - Len(s) + 1 = i + 1 - Len(s)
      BY <1>1, <1>3, <2>3
    <3>2. u[i] = t[i - Len(s)] /\ u[i + 1] = t[i - Len(s) + 1]
      BY <1>1, <1>3, <2>3, <3>1
    <3>3. QED
      BY <3>1, <3>2 DEF Span
  <2>4. QED
    BY <1>1, <1>3, <2>1, <2>2, <2>3
<1>8. \A i \in 1 .. Len(u) : lo <= u[i].at /\ End(u[i]) <= hi
  <2> SUFFICES ASSUME NEW i \in 1 .. Len(u) PROVE lo <= u[i].at /\ End(u[i]) <= hi
    OBVIOUS
  <2>1. CASE i <= Len(s)
    BY <1>1, <1>2, <1>3, <1>4, <2>1 DEF Span
  <2>2. CASE i > Len(s)
    <3>1. i - Len(s) \in 1 .. Len(t) /\ u[i] = t[i - Len(s)]
      BY <1>1, <1>3, <2>2
    <3>2. QED
      BY <1>2, <1>4, <3>1 DEF Span
  <2>3. QED
    BY <1>1, <1>3, <2>1, <2>2
<1>9. \A i, j \in 1 .. Len(u) : i < j => End(u[i]) <= u[j].at
  <2> SUFFICES ASSUME NEW i \in 1 .. Len(u), NEW j \in 1 .. Len(u), i < j
               PROVE  End(u[i]) <= u[j].at
    OBVIOUS
  <2>1. CASE j <= Len(s)
    <3>1. /\ i \in 1 .. Len(s) /\ j \in 1 .. Len(s)
          /\ u[i] = s[i] /\ u[j] = s[j]
      BY <1>1, <1>3, <2>1
    <3>2. QED
      BY <3>1 DEF Span
  <2>2. CASE i <= Len(s) /\ j > Len(s)
    <3>1. j - Len(s) \in 1 .. Len(t) /\ u[j] = t[j - Len(s)] /\ i \in 1 .. Len(s) /\ u[i] = s[i]
      BY <1>1, <1>3, <2>2
    <3>2. End(u[i]) <= mid /\ mid <= u[j].at
      BY <3>1 DEF Span
    <3>3. End(u[i]) \in Nat /\ u[j].at \in Nat
      BY <1>4, <3>1
    <3>4. QED
      BY <3>2, <3>3
  <2>3. CASE i > Len(s)
    <3>1. /\ i - Len(s) \in 1 .. Len(t) /\ u[i] = t[i - Len(s)]
          /\ j - Len(s) \in 1 .. Len(t) /\ u[j] = t[j - Len(s)]
          /\ i - Len(s) < j - Len(s)
      BY <1>1, <1>3, <2>3
    <3>2. QED
      BY <3>1 DEF Span
  <2>4. QED
    BY <1>1, <1>3, <2>1, <2>2, <2>3
<1>10. Span(u, lo, hi)
  BY <1>3, <1>5, <1>6, <1>7, <1>8, <1>9 DEF Span
<1>11. QED
  BY <1>2, <1>10 DEF u

(* The blocks before one and the blocks behind it.                         *)
Before(s, i) == SubSeq(s, 1, i - 1)

Behind(s, i) == SubSeq(s, i + 1, Len(s))

LEMMA Parts ==
  ASSUME NEW s \in Seq(Blocks), NEW i \in 1 .. Len(s)
  PROVE  /\ Before(s, i) \in Seq(Blocks) /\ Len(Before(s, i)) = i - 1
         /\ \A k \in 1 .. i - 1 : Before(s, i)[k] = s[k]
         /\ Behind(s, i) \in Seq(Blocks) /\ Len(Behind(s, i)) = Len(s) - i
         /\ \A k \in 1 .. Len(s) - i : Behind(s, i)[k] = s[i + k]
<1>1. Len(s) \in Nat /\ \A k \in 1 .. Len(s) : s[k] \in Blocks
  BY ElementOfSeq
<1>2. /\ Before(s, i) \in Seq(Blocks) /\ Len(Before(s, i)) = i - 1
      /\ \A k \in 1 .. i - 1 : Before(s, i)[k] = s[k]
  <2>1. 1 \in Int /\ i - 1 \in Int /\ \A k \in 1 .. i - 1 : s[k] \in Blocks
    BY <1>1
  <2>2. /\ SubSeq(s, 1, i - 1) \in Seq(Blocks)
        /\ Len(SubSeq(s, 1, i - 1)) = IF 1 <= i - 1 THEN i - 1 - 1 + 1 ELSE 0
        /\ \A k \in 1 .. i - 1 - 1 + 1 : SubSeq(s, 1, i - 1)[k] = s[1 + k - 1]
    BY <2>1, SubSeqProperties
  <2>3. QED
    BY <1>1, <2>2 DEF Before
<1>3. /\ Behind(s, i) \in Seq(Blocks) /\ Len(Behind(s, i)) = Len(s) - i
      /\ \A k \in 1 .. Len(s) - i : Behind(s, i)[k] = s[i + k]
  <2>1. i + 1 \in Int /\ Len(s) \in Int /\ \A k \in i + 1 .. Len(s) : s[k] \in Blocks
    BY <1>1
  <2>2. /\ SubSeq(s, i + 1, Len(s)) \in Seq(Blocks)
        /\ Len(SubSeq(s, i + 1, Len(s))) = IF i + 1 <= Len(s) THEN Len(s) - (i + 1) + 1 ELSE 0
        /\ \A k \in 1 .. Len(s) - (i + 1) + 1 : SubSeq(s, i + 1, Len(s))[k] = s[i + 1 + k - 1]
    BY <2>1, SubSeqProperties
  <2>3. QED
    BY <1>1, <2>2 DEF Behind
<1>4. QED
  BY <1>2, <1>3

LEMMA SpanCut ==
  ASSUME NEW lo \in Nat, NEW hi \in Nat, NEW s, Span(s, lo, hi),
         NEW i \in 1 .. Len(s)
  PROVE  Span(Before(s, i), lo, s[i].at) /\ Span(Behind(s, i), End(s[i]), hi)
<1> DEFINE b == Before(s, i)
           a == Behind(s, i)
<1>1. /\ s \in Seq(Blocks) /\ Len(s) \in Nat
      /\ \A k \in 1 .. Len(s) : s[k] \in Blocks /\ End(s[k]) \in Nat /\ s[k].at \in Nat
  BY ListOfBlocks DEF Span
<1>2. /\ b \in Seq(Blocks) /\ Len(b) = i - 1
      /\ \A k \in 1 .. i - 1 : b[k] = s[k]
      /\ a \in Seq(Blocks) /\ Len(a) = Len(s) - i
      /\ \A k \in 1 .. Len(s) - i : a[k] = s[i + k]
  BY <1>1, Parts
<1>3. (b = <<>> <=> i = 1) /\ (a = <<>> <=> i = Len(s))
  BY <1>1, <1>2, EmptySeq
<1> HIDE DEF b, a
<1>4. Span(b, lo, s[i].at)
  <2>1. b # <<>> => b[1].at = lo /\ End(b[Len(b)]) = s[i].at
    <3> SUFFICES ASSUME b # <<>> PROVE b[1].at = lo /\ End(b[Len(b)]) = s[i].at
      OBVIOUS
    <3>1. i > 1 /\ i - 1 \in 1 .. Len(s) - 1 /\ 1 \in 1 .. i - 1 /\ i - 1 \in 1 .. i - 1
      BY <1>1, <1>3
    <3>2. b[1] = s[1] /\ b[Len(b)] = s[i - 1] /\ s # <<>>
      BY <1>1, <1>2, <3>1
    <3>3. s[i - 1 + 1].at = End(s[i - 1])
      BY <3>1 DEF Span
    <3>4. QED
      BY <3>2, <3>3 DEF Span
  <2>2. b = <<>> => lo = s[i].at
    BY <1>1, <1>3 DEF Span
  <2>3. \A k \in 1 .. i - 1 : lo <= b[k].at /\ End(b[k]) <= s[i].at
    BY <1>1, <1>2 DEF Span
  <2>4. \A k \in 1 .. i - 1 - 1 : b[k + 1].at = End(b[k])
    BY <1>1, <1>2, SMTT(30) DEF Span
  <2>5. \A k, j \in 1 .. i - 1 : k < j => End(b[k]) <= b[j].at
    <3> SUFFICES ASSUME NEW k \in 1 .. i - 1, NEW j \in 1 .. i - 1, k < j
                 PROVE  End(b[k]) <= b[j].at
      OBVIOUS
    <3>1. k \in 1 .. Len(s) /\ j \in 1 .. Len(s) /\ b[k] = s[k] /\ b[j] = s[j]
      BY <1>1, <1>2
    <3>2. QED
      BY <3>1 DEF Span
  <2>6. QED
    BY <1>2, <2>1, <2>2, <2>3, <2>4, <2>5 DEF Span
<1>5. Span(a, End(s[i]), hi)
  <2>1. a # <<>> => a[1].at = End(s[i]) /\ End(a[Len(a)]) = hi
    <3> SUFFICES ASSUME a # <<>> PROVE a[1].at = End(s[i]) /\ End(a[Len(a)]) = hi
      OBVIOUS
    <3>1. /\ i \in 1 .. Len(s) - 1 /\ 1 \in 1 .. Len(s) - i /\ Len(s) - i \in 1 .. Len(s) - i
          /\ i + (Len(s) - i) = Len(s)
      BY <1>1, <1>3
    <3>2. a[1] = s[i + 1] /\ a[Len(a)] = s[Len(s)] /\ s # <<>>
      BY <1>1, <1>2, <3>1, SMTT(30)
    <3>3. QED
      BY <3>1, <3>2 DEF Span
  <2>2. a = <<>> => End(s[i]) = hi
    BY <1>1, <1>3 DEF Span
  <2>3. \A k \in 1 .. Len(s) - i : End(s[i]) <= a[k].at /\ End(a[k]) <= hi
    <3> SUFFICES ASSUME NEW k \in 1 .. Len(s) - i
                 PROVE  End(s[i]) <= a[k].at /\ End(a[k]) <= hi
      OBVIOUS
    <3>1. i + k \in 1 .. Len(s) /\ i < i + k /\ a[k] = s[i + k]
      BY <1>1, <1>2
    <3>2. QED
      BY <3>1 DEF Span
  <2>4. \A k \in 1 .. Len(s) - i - 1 : a[k + 1].at = End(a[k])
    <3> SUFFICES ASSUME NEW k \in 1 .. Len(s) - i - 1 PROVE a[k + 1].at = End(a[k])
      OBVIOUS
    <3>1. /\ k \in 1 .. Len(s) - i /\ k + 1 \in 1 .. Len(s) - i
          /\ i + k \in 1 .. Len(s) - 1 /\ i + (k + 1) = i + k + 1
      BY <1>1
    <3>2. a[k] = s[i + k] /\ a[k + 1] = s[i + k + 1]
      BY <1>2, <3>1, SMTT(30)
    <3>3. QED
      BY <3>1, <3>2 DEF Span
  <2>5. \A k, j \in 1 .. Len(s) - i : k < j => End(a[k]) <= a[j].at
    <3> SUFFICES ASSUME NEW k \in 1 .. Len(s) - i, NEW j \in 1 .. Len(s) - i, k < j
                 PROVE  End(a[k]) <= a[j].at
      OBVIOUS
    <3>1. i + k \in 1 .. Len(s) /\ i + j \in 1 .. Len(s) /\ i + k < i + j
      BY <1>1
    <3>2. QED
      BY <1>2, <3>1 DEF Span
  <2>6. QED
    BY <1>2, <2>1, <2>2, <2>3, <2>4, <2>5 DEF Span
<1>6. QED
  BY <1>4, <1>5 DEF a, b

(* The blocks of a span are distinct, and so are their pointers.           *)
LEMMA Distinct ==
  ASSUME NEW lo \in Nat, NEW hi \in Nat, NEW s, Span(s, lo, hi),
         NEW i \in 1 .. Len(s), NEW j \in 1 .. Len(s), i # j
  PROVE  /\ s[i].at # s[j].at /\ s[i] # s[j] /\ Ptr(s[i]) # Ptr(s[j])
         /\ End(s[i]) <= s[j].at \/ End(s[j]) <= s[i].at
<1>1. /\ s[i] \in Blocks /\ s[j] \in Blocks
      /\ End(s[i]) \in Nat /\ End(s[j]) \in Nat /\ s[i].at \in Nat /\ s[j].at \in Nat
      /\ s[i].at < End(s[i]) /\ s[j].at < End(s[j])
  BY ListOfBlocks, EndNat DEF Span
<1>2. i < j \/ j < i
  BY ListOfBlocks DEF Span
<1>3. End(s[i]) <= s[j].at \/ End(s[j]) <= s[i].at
  BY <1>2 DEF Span
<1>4. s[i].at # s[j].at
  BY <1>1, <1>3
<1>5. Ptr(s[i]) # Ptr(s[j])
  BY <1>1, <1>4, HdrNat DEF Ptr
<1>6. QED
  BY <1>3, <1>4, <1>5

-----------------------------------------------------------------------------
LEMMA Members ==
  ASSUME NEW s \in Seq(Blocks)
  PROVE  \A x : x \in ToSet(s) <=> \E i \in 1 .. Len(s) : x = s[i]
BY DEF ToSet

LEMMA UsedConcat ==
  ASSUME NEW s \in Seq(Blocks), NEW t \in Seq(Blocks)
  PROVE  Used(s \o t) = Used(s) \union Used(t)
<1> DEFINE u == s \o t
<1>1. /\ u \in Seq(Blocks) /\ Len(u) = Len(s) + Len(t)
      /\ \A i \in 1 .. Len(s) + Len(t) : u[i] = IF i <= Len(s) THEN s[i] ELSE t[i - Len(s)]
  BY ConcatProperties
<1>2. Len(s) \in Nat /\ Len(t) \in Nat
  OBVIOUS
<1> HIDE DEF u
<1>3. ASSUME NEW x, x \in ToSet(u)
      PROVE  x \in ToSet(s) \/ x \in ToSet(t)
  <2>1. PICK i \in 1 .. Len(u) : x = u[i]
    BY <1>1, <1>3, Members
  <2>2. CASE i <= Len(s)
    <3>1. i \in 1 .. Len(s) /\ x = s[i]
      BY <1>1, <1>2, <2>1, <2>2
    <3>2. QED
      BY <3>1, Members
  <2>3. CASE i > Len(s)
    <3>1. i - Len(s) \in 1 .. Len(t) /\ x = t[i - Len(s)]
      BY <1>1, <1>2, <2>1, <2>3
    <3>2. QED
      BY <3>1, Members
  <2>4. QED
    BY <1>2, <2>2, <2>3
<1>4. ASSUME NEW x, x \in ToSet(s)
      PROVE  x \in ToSet(u)
  <2>1. PICK i \in 1 .. Len(s) : x = s[i]
    BY <1>4, Members
  <2>2. i \in 1 .. Len(u) /\ x = u[i]
    BY <1>1, <1>2, <2>1
  <2>3. QED
    BY <1>1, <2>2, Members
<1>5. ASSUME NEW x, x \in ToSet(t)
      PROVE  x \in ToSet(u)
  <2>1. PICK i \in 1 .. Len(t) : x = t[i]
    BY <1>5, Members
  <2>2. /\ Len(s) + i \in 1 .. Len(s) + Len(t) /\ ~(Len(s) + i <= Len(s))
        /\ Len(s) + i - Len(s) = i
    BY <1>2
  <2>3. Len(s) + i \in 1 .. Len(u) /\ x = u[Len(s) + i]
    BY <1>1, <2>1, <2>2
  <2>4. QED
    BY <1>1, <2>3, Members
<1>6. QED
  BY <1>3, <1>4, <1>5 DEF Used, u

LEMMA MembersOne ==
  ASSUME NEW b \in Blocks
  PROVE  \A x : x \in ToSet(<<b>>) <=> x = b
<1>1. \A x : x \in ToSet(<<b>>) <=> \E i \in 1 .. Len(<<b>>) : x = <<b>>[i]
  BY OneBlock, Members
<1>2. Len(<<b>>) = 1 /\ <<b>>[1] = b
  BY OneBlock
<1> HIDE DEF ToSet
<1>3. QED
  BY <1>1, <1>2

LEMMA UsedOne ==
  ASSUME NEW b \in Blocks
  PROVE  Used(<<b>>) = IF b.free THEN {} ELSE {b}
<1>1. \A x : x \in ToSet(<<b>>) <=> x = b
  BY MembersOne
<1>2. \A x : x \in Used(<<b>>) <=> x = b /\ ~x.free
  BY <1>1 DEF Used
<1>3. QED
  BY <1>2

LEMMA UsedCut ==
  ASSUME NEW s \in Seq(Blocks), NEW i \in 1 .. Len(s)
  PROVE  Used(s) = Used(Before(s, i)) \union Used(<<s[i]>>) \union Used(Behind(s, i))
<1>1. s[i] \in Blocks /\ Len(s) \in Nat
  BY ListOfBlocks
<1> DEFINE b == Before(s, i)
           a == Behind(s, i)
<1>2. /\ b \in Seq(Blocks) /\ Len(b) = i - 1
      /\ \A k \in 1 .. i - 1 : b[k] = s[k]
      /\ a \in Seq(Blocks) /\ Len(a) = Len(s) - i
      /\ \A k \in 1 .. Len(s) - i : a[k] = s[i + k]
  BY Parts
<1> HIDE DEF a, b
<1>3. /\ \A x : x \in ToSet(b) <=> \E k \in 1 .. i - 1 : x = b[k]
      /\ \A x : x \in ToSet(a) <=> \E k \in 1 .. Len(s) - i : x = a[k]
      /\ \A x : x \in ToSet(<<s[i]>>) <=> x = s[i]
      /\ \A x : x \in ToSet(s) <=> \E k \in 1 .. Len(s) : x = s[k]
  <2>1. \A x : x \in ToSet(b) <=> \E k \in 1 .. i - 1 : x = b[k]
    BY <1>2, Members
  <2>2. \A x : x \in ToSet(a) <=> \E k \in 1 .. Len(s) - i : x = a[k]
    BY <1>2, Members
  <2>3. \A x : x \in ToSet(<<s[i]>>) <=> x = s[i]
    BY <1>1, MembersOne
  <2>4. \A x : x \in ToSet(s) <=> \E k \in 1 .. Len(s) : x = s[k]
    BY Members
  <2>5. QED
    BY <2>1, <2>2, <2>3, <2>4
<1>4. ASSUME NEW x, x \in ToSet(s)
      PROVE  x \in ToSet(b) \/ x \in ToSet(<<s[i]>>) \/ x \in ToSet(a)
  <2>1. PICK k \in 1 .. Len(s) : x = s[k]
    BY <1>3, <1>4
  <2>2. CASE k < i
    <3>1. k \in 1 .. i - 1 /\ x = b[k]
      BY <1>1, <1>2, <2>1, <2>2
    <3>2. QED
      BY <1>3, <3>1
  <2>3. CASE k = i
    BY <1>3, <2>1, <2>3
  <2>4. CASE k > i
    <3>1. k - i \in 1 .. Len(s) - i /\ i + (k - i) = k
      BY <1>1, <2>4
    <3>2. x = a[k - i]
      BY <1>2, <2>1, <3>1
    <3>3. QED
      BY <1>3, <3>1, <3>2
  <2>5. QED
    BY <1>1, <2>2, <2>3, <2>4
<1>5. ASSUME NEW x, x \in ToSet(b)
      PROVE  x \in ToSet(s)
  <2>1. PICK k \in 1 .. i - 1 : x = b[k]
    BY <1>3, <1>5
  <2>2. k \in 1 .. Len(s) /\ x = s[k]
    BY <1>1, <1>2, <2>1
  <2>3. QED
    BY <1>3, <2>2
<1>6. ASSUME NEW x, x \in ToSet(a)
      PROVE  x \in ToSet(s)
  <2>1. PICK k \in 1 .. Len(s) - i : x = a[k]
    BY <1>3, <1>6
  <2>2. i + k \in 1 .. Len(s) /\ x = s[i + k]
    BY <1>1, <1>2, <2>1
  <2>3. QED
    BY <1>3, <2>2
<1>7. ASSUME NEW x, x \in ToSet(<<s[i]>>)
      PROVE  x \in ToSet(s)
  BY <1>3, <1>7
<1>8. \A x : x \in ToSet(s) <=> x \in ToSet(b) \/ x \in ToSet(<<s[i]>>) \/ x \in ToSet(a)
  BY <1>4, <1>5, <1>6, <1>7
<1>9. QED
  BY <1>8 DEF Used, a, b

LEMMA PairsConcat ==
  ASSUME NEW s \in Seq(Blocks), NEW t \in Seq(Blocks), NoPairs(s), NoPairs(t),
         s # <<>> /\ t # <<>> => ~(s[Len(s)].free /\ t[1].free)
  PROVE  NoPairs(s \o t)
<1> DEFINE u == s \o t
<1>1. /\ u \in Seq(Blocks) /\ Len(u) = Len(s) + Len(t)
      /\ \A i \in 1 .. Len(s) + Len(t) : u[i] = IF i <= Len(s) THEN s[i] ELSE t[i - Len(s)]
  BY ConcatProperties
<1>2. Len(s) \in Nat /\ Len(t) \in Nat
  OBVIOUS
<1> HIDE DEF u
<1>3. ASSUME NEW i \in 1 .. Len(u) - 1
      PROVE  ~(u[i].free /\ u[i + 1].free)
  <2>1. CASE i < Len(s)
    BY <1>1, <1>2, <2>1, SMTT(30) DEF NoPairs
  <2>2. CASE i = Len(s)
    <3>1. /\ i + 1 \in 1 .. Len(s) + Len(t) /\ ~(i + 1 <= Len(s)) /\ i + 1 - Len(s) = 1
          /\ i \in 1 .. Len(s) + Len(t) /\ Len(s) # 0 /\ Len(t) # 0
      BY <1>1, <1>2, <2>2
    <3>2. u[i + 1] = t[1] /\ u[i] = s[Len(s)] /\ s # <<>> /\ t # <<>>
      BY <1>1, <2>2, <3>1, ListOfBlocks
    <3>3. QED
      BY <3>2
  <2>3. CASE i > Len(s)
    <3>1. /\ i - Len(s) \in 1 .. Len(t) - 1 /\ i - Len(s) + 1 = i + 1 - Len(s)
          /\ i \in 1 .. Len(s) + Len(t) /\ i + 1 \in 1 .. Len(s) + Len(t)
          /\ ~(i <= Len(s)) /\ ~(i + 1 <= Len(s))
      BY <1>1, <1>2, <2>3
    <3>2. u[i] = t[i - Len(s)] /\ u[i + 1] = t[i - Len(s) + 1]
      BY <1>1, <3>1
    <3>3. QED
      BY <3>1, <3>2 DEF NoPairs
  <2>4. QED
    BY <1>1, <1>2, <2>1, <2>2, <2>3
<1>4. QED
  BY <1>3 DEF NoPairs, u

LEMMA PairsCut ==
  ASSUME NEW s \in Seq(Blocks), NEW i \in 1 .. Len(s), NoPairs(s)
  PROVE  NoPairs(Before(s, i)) /\ NoPairs(Behind(s, i))
<1>1. Len(s) \in Nat
  BY ListOfBlocks
<1>2. /\ Len(Before(s, i)) = i - 1 /\ Len(Behind(s, i)) = Len(s) - i
      /\ \A k \in 1 .. i - 1 : Before(s, i)[k] = s[k]
      /\ \A k \in 1 .. Len(s) - i : Behind(s, i)[k] = s[i + k]
  BY Parts
<1>3. \A k \in 1 .. i - 1 - 1 : ~(Before(s, i)[k].free /\ Before(s, i)[k + 1].free)
  BY <1>1, <1>2 DEF NoPairs
<1>4. ASSUME NEW k \in 1 .. Len(s) - i - 1
      PROVE  ~(Behind(s, i)[k].free /\ Behind(s, i)[k + 1].free)
  <2>1. /\ k \in 1 .. Len(s) - i /\ k + 1 \in 1 .. Len(s) - i
        /\ i + k \in 1 .. Len(s) - 1 /\ i + (k + 1) = i + k + 1
    BY <1>1
  <2>2. Behind(s, i)[k] = s[i + k] /\ Behind(s, i)[k + 1] = s[i + k + 1]
    BY <1>2, <2>1
  <2>3. QED
    BY <2>1, <2>2 DEF NoPairs
<1>5. QED
  BY <1>2, <1>3, <1>4 DEF NoPairs

-----------------------------------------------------------------------------
(* malloc: the size is rounded up, unless that wraps.                      *)
LEMMA AlignUp ==
  ASSUME NEW n \in 0 .. Wrap - 1
  PROVE  Align4(n) \in Nat /\ (n + 3 < Wrap => n <= Align4(n))
<1>1. Wrap \in Nat \ {0}
  BY HeapAssumption
<1>2. (n + 3) % Wrap \in Nat
  BY <1>1
<1>3. n + 3 < Wrap => (n + 3) % Wrap = n + 3
  BY <1>1
<1>4. \A m \in Nat : (m \div 4) * 4 \in Nat /\ m - 3 <= (m \div 4) * 4
  OBVIOUS
<1>5. Align4(n) \in Nat
  BY <1>2, <1>4 DEF Align4
<1>6. n + 3 < Wrap => n <= Align4(n)
  <2> SUFFICES ASSUME n + 3 < Wrap PROVE n <= Align4(n)
    OBVIOUS
  <2>1. Align4(n) = ((n + 3) \div 4) * 4
    BY <1>3 DEF Align4
  <2>2. n + 3 \in Nat
    OBVIOUS
  <2>3. QED
    BY <1>4, <2>1, <2>2
<1>7. QED
  BY <1>5, <1>6

LEMMA FirstFitIs ==
  ASSUME NEW bs \in Seq(Blocks), NEW n \in Nat
  PROVE  LET i == FirstFit(bs, n)
         IN  i = 0 \/ (i \in 1 .. Len(bs) /\ bs[i].free /\ bs[i].size >= n)
<1> DEFINE fits == {i \in DOMAIN bs : bs[i].free /\ bs[i].size >= n}
<1>1. CASE fits = {}
  BY <1>1 DEF FirstFit
<1>2. CASE fits # {}
  <2>1. fits \subseteq Nat
    OBVIOUS
  <2>2. \E i \in fits : \A j \in fits : i <= j
    <3> DEFINE R == OpToRel(<, Nat)
    <3>1. IsWellFoundedOn(R, Nat)
      BY NatLessThanWellFounded
    <3>2. PICK i \in fits : \A j \in fits : <<j, i>> \notin R
      <4> HIDE DEF R, fits
      <4>1. QED
        BY <1>2, <2>1, <3>1, WFMin
    <3>3. \A j \in fits : ~(j < i)
      BY <2>1, <3>2 DEF OpToRel
    <3>4. QED
      BY <2>1, <3>3
  <2>3. FirstFit(bs, n) = CHOOSE i \in fits : \A j \in fits : i <= j
    BY <1>2 DEF FirstFit
  <2>4. FirstFit(bs, n) \in fits
    <3> HIDE DEF fits
    <3>1. QED
      BY <2>2, <2>3
  <2>5. QED
    BY <2>4
<1>3. QED
  BY <1>1, <1>2

(* The block that is taken covers what it was split from.                  *)
LEMMA SplitIs ==
  ASSUME NEW b \in Blocks, b.free, NEW n \in Nat, b.size >= n,
         End(b) + Hdr + MinSplit < Wrap
  PROVE  \E c \in Blocks :
           /\ c.at = b.at /\ ~c.free /\ c.size >= n /\ End(c) <= End(b)
           /\ Span(Split(b, n), b.at, End(b)) /\ NoPairs(Split(b, n))
           /\ Used(Split(b, n)) = {c}
           /\ Split(b, n) # <<>> /\ Split(b, n)[1] = c
<1>1. MinSplit \in Nat /\ Wrap \in Nat /\ Hdr \in Nat /\ Hdr > 0
  BY HeapAssumption
<1>2. b.at \in Nat /\ b.size \in Nat /\ End(b) = b.at + Hdr + b.size
  BY <1>1 DEF Blocks, End, Ptr
<1>3. (n + Hdr + MinSplit) % Wrap = n + Hdr + MinSplit
  <2>1. n + Hdr + MinSplit \in Int /\ 0 <= n + Hdr + MinSplit /\ n + Hdr + MinSplit < Wrap
    BY <1>1, <1>2
  <2>2. QED
    BY <1>1, <2>1
<1>4. CASE b.size >= n + Hdr + MinSplit
  <2> DEFINE c == Block(b.at, n, FALSE)
             d == Block(b.at + Hdr + n, b.size - n - Hdr, TRUE)
  <2>1. Split(b, n) = <<c, d>>
    BY <1>3, <1>4 DEF Split
  <2>2. /\ c \in Blocks /\ c.at = b.at /\ c.size = n /\ c.free = FALSE
        /\ End(c) = b.at + Hdr + n
    BY <1>2, BlockIs, ZenonT(30)
  <2>3. /\ d \in Blocks /\ d.at = End(c) /\ d.free = TRUE /\ End(d) = End(b)
    <3>1. b.at + Hdr + n \in Nat /\ b.size - n - Hdr \in Nat
      BY <1>1, <1>2, <1>4
    <3>2. /\ d \in Blocks /\ d.at = b.at + Hdr + n /\ d.free = TRUE
          /\ End(d) = b.at + Hdr + n + Hdr + (b.size - n - Hdr)
      BY <3>1, BlockIs
    <3>3. b.at + Hdr + n + Hdr + (b.size - n - Hdr) = b.at + Hdr + b.size
      BY <1>1, <1>2
    <3> HIDE DEF c, d
    <3>4. End(d) = End(b)
      BY <1>2, <3>2, <3>3
    <3>5. d.at = End(c)
      BY <2>2, <3>2
    <3>6. QED
      BY <3>2, <3>4, <3>5
  <2> HIDE DEF c, d
  <2>4. <<c, d>> = <<c>> \o <<d>>
    BY <2>2, <2>3, TwoBlocks
  <2>5. Span(<<c, d>>, b.at, End(b))
    <3>1. Span(<<c>>, b.at, End(c)) /\ Span(<<d>>, End(c), End(b))
      BY <2>2, <2>3, OneSpan
    <3>2. End(c) \in Nat /\ End(b) \in Nat
      BY <2>2, EndNat
    <3>3. QED
      BY <1>2, <2>4, <3>1, <3>2, SpanConcat
  <2>6. Len(<<c, d>>) = 2 /\ <<c, d>>[1] = c /\ <<c, d>>[2] = d /\ <<c, d>> # <<>>
    OBVIOUS
  <2>7. NoPairs(<<c, d>>)
    BY <2>2, <2>6 DEF NoPairs
  <2>8. Used(<<c, d>>) = {c}
    <3>1. Used(<<c>>) = {c} /\ Used(<<d>>) = {}
      BY <2>2, <2>3, UsedOne
    <3>2. Used(<<c>> \o <<d>>) = Used(<<c>>) \union Used(<<d>>)
      BY <2>2, <2>3, OneBlock, UsedConcat
    <3>3. QED
      BY <2>4, <3>1, <3>2
  <2>9. End(c) <= End(b)
    BY <1>1, <1>2, <1>4, <2>2
  <2>10. c.size >= n
    BY <2>2
  <2>11. QED
    BY <2>1, <2>2, <2>5, <2>6, <2>7, <2>8, <2>9, <2>10
<1>5. CASE ~(b.size >= n + Hdr + MinSplit)
  <2> DEFINE c == Block(b.at, b.size, FALSE)
  <2>1. Split(b, n) = <<c>>
    BY <1>3, <1>5 DEF Split
  <2>2. /\ c \in Blocks /\ c.at = b.at /\ c.size = b.size /\ c.free = FALSE
        /\ End(c) = End(b)
    BY <1>2, BlockIs, ZenonT(30)
  <2> HIDE DEF c
  <2>3. Span(<<c>>, b.at, End(b)) /\ NoPairs(<<c>>)
    BY <2>2, OneSpan
  <2>4. Used(<<c>>) = {c} /\ <<c>> # <<>> /\ <<c>>[1] = c
    BY <2>2, UsedOne, OneBlock
  <2>5. End(c) <= End(b)
    BY <1>1, <1>2, <2>2
  <2>6. QED
    BY <2>1, <2>2, <2>3, <2>4, <2>5
<1>6. QED
  BY <1>4, <1>5

(* The block taken keeps clear of what is in use, and the rest of the list *)
(* stays as it is.                                                         *)
LEMMA MallocIs ==
  ASSUME NEW lo \in Nat, NEW hi \in Nat, hi + Hdr + MinSplit < Wrap,
         NEW bs, Span(bs, lo, hi), NoPairs(bs), NEW size \in 0 .. Wrap - 1
  PROVE  LET r == Malloc(bs, size)
         IN  \/ r.ptr = NULL /\ r.list = bs
             \/ \E c \in Blocks :
                  /\ ~c.free /\ c.size >= Align4(size) /\ lo <= c.at /\ End(c) <= hi
                  /\ r.ptr = Ptr(c) /\ Ptr(c) # NULL
                  /\ \A o \in Used(bs) : c.at # o.at /\ (End(c) <= o.at \/ End(o) <= c.at)
                  /\ Span(r.list, lo, hi) /\ NoPairs(r.list)
                  /\ Used(r.list) = Used(bs) \union {c}
<1> DEFINE n == Align4(size)
           i == FirstFit(bs, n)
           r == Malloc(bs, size)
<1>1. bs \in Seq(Blocks) /\ n \in Nat
  BY AlignUp DEF Span
<1>2. CASE size = 0 \/ i = 0
  BY <1>2 DEF Malloc
<1>3. CASE ~(size = 0 \/ i = 0)
  <2>1. /\ i \in 1 .. Len(bs) /\ bs[i].free /\ bs[i].size >= n
        /\ r.list = Before(bs, i) \o Split(bs[i], n) \o Behind(bs, i)
        /\ r.ptr = Ptr(bs[i])
    BY <1>1, <1>3, FirstFitIs DEF Malloc, Before, Behind
  <2> HIDE DEF r, i, n
  <2> DEFINE b == bs[i]
  <2>2. /\ b \in Blocks /\ End(b) \in Nat /\ b.at \in Nat
        /\ lo <= b.at /\ End(b) <= hi
    BY <1>1, <2>1, ListOfBlocks DEF Span
  <2>3. End(b) + Hdr + MinSplit < Wrap
    BY <2>2, HeapAssumption
  <2>4. PICK c \in Blocks :
          /\ c.at = b.at /\ ~c.free /\ c.size >= n /\ End(c) <= End(b)
          /\ Span(Split(b, n), b.at, End(b)) /\ NoPairs(Split(b, n))
          /\ Used(Split(b, n)) = {c}
          /\ Split(b, n) # <<>> /\ Split(b, n)[1] = c
    BY <1>1, <2>1, <2>2, <2>3, SplitIs
  <2>5. /\ Span(Before(bs, i), lo, b.at) /\ Span(Behind(bs, i), End(b), hi)
        /\ NoPairs(Before(bs, i)) /\ NoPairs(Behind(bs, i))
    BY <1>1, <2>1, SpanCut, PairsCut
  <2> DEFINE p == Before(bs, i)
             m == Split(b, n)
             q == Behind(bs, i)
  <2>6. p \in Seq(Blocks) /\ m \in Seq(Blocks) /\ q \in Seq(Blocks) /\ p \o m \in Seq(Blocks)
    BY <2>4, <2>5, ConcatProperties DEF Span
  <2>7. Span((p \o m) \o q, lo, hi)
    <3>1. Span(p \o m, lo, End(b))
      BY <2>2, <2>4, <2>5, SpanConcat
    <3>2. QED
      BY <2>2, <2>5, <3>1, SpanConcat
  <2>8. NoPairs((p \o m) \o q)
    <3>1. NoPairs(p \o m)
      BY <2>4, <2>5, <2>6, PairsConcat
    <3>2. p \o m # <<>> /\ q # <<>> => ~((p \o m)[Len(p \o m)].free /\ q[1].free)
      <4> SUFFICES ASSUME q # <<>> PROVE ~q[1].free
        OBVIOUS
      <4>1. Len(q) = Len(bs) - i /\ \A k \in 1 .. Len(bs) - i : q[k] = bs[i + k]
        BY <1>1, <2>1, Parts
      <4>2. Len(q) # 0 /\ Len(q) \in Nat /\ Len(bs) \in Nat
        BY <1>1, <2>6, ListOfBlocks
      <4>3. q[1] = bs[i + 1] /\ i \in 1 .. Len(bs) - 1
        BY <2>1, <4>1, <4>2
      <4>4. QED
        BY <2>1, <4>3 DEF NoPairs
    <3>3. QED
      BY <2>5, <2>6, <3>1, <3>2, PairsConcat
  <2>9. Used((p \o m) \o q) = Used(bs) \union {c}
    <3>1. Used((p \o m) \o q) = Used(p) \union {c} \union Used(q)
      BY <2>4, <2>6, UsedConcat, ZenonT(30)
    <3>2. Used(<<b>>) = {}
      BY <2>1, <2>2, UsedOne
    <3>3. Used(bs) = Used(p) \union Used(q)
      <4>1. Used(bs) = Used(Before(bs, i)) \union Used(<<bs[i]>>) \union Used(Behind(bs, i))
        BY <1>1, <2>1, UsedCut
      <4>2. QED
        BY <3>2, <4>1
    <3>4. QED
      BY <3>1, <3>3
  <2>10. \A o \in Used(bs) : c.at # o.at /\ (End(c) <= o.at \/ End(o) <= c.at)
    <3> SUFFICES ASSUME NEW o \in Used(bs)
                 PROVE  c.at # o.at /\ (End(c) <= o.at \/ End(o) <= c.at)
      OBVIOUS
    <3>1. PICK j \in 1 .. Len(bs) : o = bs[j]
      BY <1>1, Members DEF Used
    <3>2. j # i
      BY <2>1, <3>1 DEF Used
    <3>3. o.at # b.at /\ (End(b) <= o.at \/ End(o) <= b.at)
      BY <2>1, <3>1, <3>2, Distinct
    <3>4. o.at \in Nat /\ End(c) \in Nat
      BY <1>1, <3>1, EndNat, ListOfBlocks
    <3>5. QED
      BY <2>2, <2>4, <3>3, <3>4
  <2>11. r.ptr = Ptr(c) /\ Ptr(c) # NULL
    BY <2>1, <2>2, <2>4, HdrNat DEF Ptr, NULL
  <2>12. End(c) <= hi /\ lo <= c.at
    BY <2>2, <2>4, EndNat
  <2> HIDE DEF p, m, q, b
  <2>13. r.list = (p \o m) \o q
    BY <2>1 DEF p, m, q, b
  <2>14. QED
    BY <2>4, <2>7, <2>8, <2>9, <2>10, <2>11, <2>12, <2>13 DEF r, n
<1>4. QED
  BY <1>2, <1>3

-----------------------------------------------------------------------------
(* free: what coalesce makes of a list fills the same addresses with the   *)
(* same blocks in use, and leaves no two free neighbours.                  *)
LEMMA JoinIs ==
  ASSUME NEW hi \in Nat, NEW b \in Blocks, NEW rest,
         Span(rest, End(b), hi), NoPairs(rest)
  PROVE  /\ Span(Join(b, rest), b.at, hi) /\ NoPairs(Join(b, rest))
         /\ Used(Join(b, rest)) = Used(<<b>>) \union Used(rest)
<1>1. /\ rest \in Seq(Blocks) /\ End(b) \in Nat /\ b.at \in Nat /\ b.size \in Nat
      /\ b.free \in BOOLEAN
  BY EndNat DEF Span, Blocks
<1>2. CASE rest # <<>> /\ b.free /\ rest[1].free
  <2> DEFINE f == rest[1]
             c == Block(b.at, b.size + Hdr + f.size, TRUE)
  <2>1. 1 \in 1 .. Len(rest) /\ f \in Blocks /\ f.at = End(b) /\ f.size \in Nat
    BY <1>1, <1>2, ListOfBlocks DEF Span, Blocks
  <2>2. /\ c \in Blocks /\ c.at = b.at /\ c.free = TRUE
        /\ End(c) = b.at + Hdr + (b.size + Hdr + f.size)
    <3>1. b.size + Hdr + f.size \in Nat
      BY <1>1, <2>1, HdrNat
    <3>2. QED
      BY <1>1, <3>1, BlockIs, ZenonT(30)
  <2>3. End(c) = End(f)
    <3> HIDE DEF c, f
    <3>1. End(b) = b.at + Hdr + b.size /\ End(f) = f.at + Hdr + f.size
      BY DEF End, Ptr
    <3>2. QED
      BY <1>1, <2>1, <2>2, <3>1, HdrNat, SMTT(30)
  <2>4. Tail(rest) = Behind(rest, 1)
    BY <1>1, <1>2, TailIsSubSeq DEF Behind
  <2>5. Join(b, rest) = <<c>> \o Tail(rest)
    BY <1>2 DEF Join
  <2> HIDE DEF c, f
  <2>6. Span(Tail(rest), End(c), hi) /\ NoPairs(Tail(rest))
    <3>1. Span(Behind(rest, 1), End(rest[1]), hi)
      BY <1>1, <2>1, SpanCut
    <3>2. NoPairs(Behind(rest, 1))
      BY <1>1, <2>1, PairsCut
    <3>3. QED
      BY <2>3, <2>4, <3>1, <3>2 DEF f
  <2>7. Tail(rest) \in Seq(Blocks) /\ End(c) \in Nat
    BY <2>2, <2>6, EndNat DEF Span
  <2>8. Span(<<c>> \o Tail(rest), b.at, hi)
    BY <1>1, <2>2, <2>6, <2>7, OneSpan, SpanConcat
  <2>9. NoPairs(<<c>> \o Tail(rest))
    <3>1. Tail(rest) # <<>> => ~Tail(rest)[1].free
      <4> SUFFICES ASSUME Tail(rest) # <<>> PROVE ~Tail(rest)[1].free
        OBVIOUS
      <4>1. /\ Len(Behind(rest, 1)) = Len(rest) - 1
            /\ \A k \in 1 .. Len(rest) - 1 : Behind(rest, 1)[k] = rest[1 + k]
        BY <1>1, <2>1, Parts
      <4>2. Len(Tail(rest)) # 0 /\ Len(Tail(rest)) \in Nat /\ Len(rest) \in Nat
        BY <1>1, <2>7, ListOfBlocks
      <4>3. Tail(rest)[1] = rest[1 + 1] /\ 1 \in 1 .. Len(rest) - 1
        BY <2>4, <4>1, <4>2
      <4>4. QED
        BY <1>2, <4>3 DEF NoPairs
    <3>2. QED
      BY <2>2, <2>6, <2>7, <3>1, OneBlock, OneSpan, PairsConcat
  <2>10. Used(<<c>> \o Tail(rest)) = Used(<<b>>) \union Used(rest)
    <3>1. Used(<<c>> \o Tail(rest)) = Used(Tail(rest))
      <4>1. Used(<<c>> \o Tail(rest)) = Used(<<c>>) \union Used(Tail(rest))
        BY <2>2, <2>7, OneBlock, UsedConcat
      <4>2. Used(<<c>>) = {}
        BY <2>2, UsedOne
      <4>3. QED
        BY <4>1, <4>2
    <3>2. Used(<<b>>) = {} /\ Used(<<f>>) = {}
      BY <1>2, <2>1, UsedOne DEF f
    <3>3. Used(rest) = Used(Before(rest, 1)) \union Used(<<rest[1]>>) \union Used(Behind(rest, 1))
      BY <1>1, <2>1, UsedCut
    <3>4. Used(Before(rest, 1)) = {}
      <4>1. Before(rest, 1) = <<>>
        BY SubSeqEmpty DEF Before
      <4>2. QED
        BY <4>1 DEF Used, ToSet
    <3>5. QED
      BY <2>4, <3>1, <3>2, <3>3, <3>4 DEF f
  <2>11. QED
    BY <2>5, <2>8, <2>9, <2>10
<1>3. CASE ~(rest # <<>> /\ b.free /\ rest[1].free)
  <2>1. Join(b, rest) = <<b>> \o rest
    BY <1>3 DEF Join
  <2>2. Span(<<b>> \o rest, b.at, hi)
    BY <1>1, OneSpan, SpanConcat
  <2>3. NoPairs(<<b>> \o rest)
    BY <1>1, <1>3, OneBlock, OneSpan, PairsConcat
  <2>4. Used(<<b>> \o rest) = Used(<<b>>) \union Used(rest)
    BY <1>1, OneBlock, UsedConcat
  <2>5. QED
    BY <2>1, <2>2, <2>3, <2>4
<1>4. QED
  BY <1>2, <1>3

LEMMA CoalesceIs ==
  ASSUME NEW lo \in Nat, NEW hi \in Nat, NEW bs, Span(bs, lo, hi)
  PROVE  /\ Span(Coalesce(bs), lo, hi) /\ NoPairs(Coalesce(bs))
         /\ Used(Coalesce(bs)) = Used(bs)
<1> DEFINE N == Len(bs)
           From(k) == SubSeq(bs, N - k + 1, N)
           Start(k) == IF k = 0 THEN hi ELSE bs[N - k + 1].at
<1>1. bs \in Seq(Blocks) /\ N \in Nat
  BY ListOfBlocks DEF Span
<1>2. PICK last : /\ last = [k \in 0 .. N |->
                       IF k = 0 THEN <<>> ELSE Join(bs[N - k + 1], last[k - 1])]
                  /\ Coalesce(bs) = last[N]
  BY <1>1, CoalesceDef
<1> DEFINE P == {k \in 0 .. N : /\ Span(last[k], Start(k), hi) /\ NoPairs(last[k])
                                /\ Used(last[k]) = Used(From(k))}
<1>3. 0 \in P
  <2>1. last[0] = <<>>
    BY <1>1, <1>2
  <2>2. From(0) = <<>>
    BY <1>1, SubSeqEmpty
  <2>3. Span(<<>>, hi, hi) /\ NoPairs(<<>>)
    BY DEF Span, NoPairs
  <2>4. Start(0) = hi /\ 0 \in 0 .. N
    BY <1>1
  <2> HIDE DEF From, Start
  <2>5. QED
    BY <2>1, <2>2, <2>3, <2>4
<1>4. ASSUME NEW k \in 0 .. N - 1, k \in P
      PROVE  k + 1 \in P
  <2> DEFINE j == N - k
  <2>1. /\ j \in 1 .. Len(bs) /\ N - (k + 1) + 1 = j /\ N - k + 1 = j + 1
        /\ k + 1 \in 0 .. N /\ k + 1 # 0 /\ k + 1 - 1 = k
    BY <1>1
  <2>2. last[k + 1] = Join(bs[j], last[k])
    BY <1>2, <2>1
  <2>3. bs[j] \in Blocks
    BY <1>1, <2>1, ListOfBlocks
  <2>4. Start(k) = End(bs[j])
    <3>1. CASE k = 0
      BY <1>1, <2>1, <3>1, ListOfBlocks DEF Span
    <3>2. CASE k # 0
      <4>1. j \in 1 .. Len(bs) - 1
        BY <1>1, <3>2
      <4>2. QED
        BY <2>1, <3>2, <4>1 DEF Span
    <3>3. QED
      BY <3>1, <3>2
  <2>5. Span(last[k], End(bs[j]), hi) /\ NoPairs(last[k]) /\ Used(last[k]) = Used(From(k))
    BY <1>4, <2>4
  <2>6. /\ Span(last[k + 1], bs[j].at, hi) /\ NoPairs(last[k + 1])
        /\ Used(last[k + 1]) = Used(<<bs[j]>>) \union Used(last[k])
    BY <2>2, <2>3, <2>5, JoinIs
  <2>7. From(k) = SubSeq(bs, j + 1, N) /\ From(k + 1) = SubSeq(bs, j, N)
    BY <2>1
  <2>8. From(k + 1) = <<bs[j]>> \o From(k)
    <3>1. j \in 1 .. Len(bs) /\ N \in j .. Len(bs)
      BY <1>1, <2>1
    <3>2. SubSeq(bs, j, N) = <<bs[j]>> \o SubSeq(bs, j + 1, N)
      BY <1>1, <3>1, SubSeqRecursiveFirst
    <3>3. QED
      BY <2>7, <3>2
  <2>9. From(k) \in Seq(Blocks)
    BY <1>1, <2>1, <2>7, Parts DEF Behind
  <2>10. Used(From(k + 1)) = Used(<<bs[j]>>) \union Used(From(k))
    BY <2>3, <2>8, <2>9, OneBlock, UsedConcat
  <2>11. Start(k + 1) = bs[j].at
    BY <2>1
  <2> HIDE DEF From, Start, j
  <2>12. QED
    BY <2>1, <2>5, <2>6, <2>10, <2>11
<1>5. N \in P
  <2> HIDE DEF P, N
  <2>1. \A k \in 0 .. N : k \in P
    BY <1>1, <1>3, <1>4, Induction
  <2>2. QED
    BY <1>1, <2>1
<1>6. From(N) = bs
  BY <1>1, SubSeqFull
<1>7. Start(N) = lo
  BY <1>1, ListOfBlocks DEF Span
<1>8. QED
  BY <1>2, <1>5, <1>6, <1>7

(* The block of a pointer, and what becomes of the list when it is freed.  *)
LEMMA IndexIs ==
  ASSUME NEW lo \in Nat, NEW hi \in Nat, NEW bs, Span(bs, lo, hi),
         NEW b \in ToSet(bs)
  PROVE  IndexOf(bs, Ptr(b)) \in 1 .. Len(bs) /\ bs[IndexOf(bs, Ptr(b))] = b
<1>1. bs \in Seq(Blocks) /\ DOMAIN bs = 1 .. Len(bs)
  BY DEF Span
<1>2. PICK i \in 1 .. Len(bs) : b = bs[i]
  BY <1>1, Members
<1>3. \A j \in 1 .. Len(bs) : Ptr(bs[j]) = Ptr(b) => j = i
  BY <1>2, Distinct
<1>4. IndexOf(bs, Ptr(b)) = i
  BY <1>1, <1>2, <1>3 DEF IndexOf
<1>5. QED
  BY <1>2, <1>4

LEMMA ReleaseIs ==
  ASSUME NEW lo \in Nat, NEW hi \in Nat, NEW bs, Span(bs, lo, hi),
         NEW b \in Used(bs)
  PROVE  /\ Span(Release(bs, Ptr(b)), lo, hi) /\ NoPairs(Release(bs, Ptr(b)))
         /\ Used(Release(bs, Ptr(b))) = Used(bs) \ {b}
<1> DEFINE i == IndexOf(bs, Ptr(b))
           f == [b EXCEPT !.free = TRUE]
           s == [bs EXCEPT ![i].free = TRUE]
<1>1. b \in ToSet(bs) /\ bs \in Seq(Blocks)
  BY DEF Used, Span
<1>2. i \in 1 .. Len(bs) /\ bs[i] = b
  BY <1>1, IndexIs
<1>3. b \in Blocks
  BY <1>1, <1>2, ListOfBlocks
<1> HIDE DEF i
<1>4. f \in Blocks /\ f.at = b.at /\ End(f) = End(b) /\ f.free
  BY <1>3 DEF Blocks, End, Ptr
<1>5. /\ s \in Seq(Blocks) /\ Len(s) = Len(bs)
      /\ \A j \in 1 .. Len(bs) : s[j] = IF j = i THEN f ELSE bs[j]
  <2>1. s = [bs EXCEPT ![i] = f]
    BY <1>2
  <2> HIDE DEF f, s
  <2>2. QED
    BY <1>1, <1>2, <1>4, <2>1, ExceptSeq
<1> HIDE DEF f, s
<1>6. Len(bs) \in Nat /\ (s = <<>> <=> bs = <<>>)
  BY <1>1, <1>5, ListOfBlocks
<1>7. \A j \in 1 .. Len(bs) : s[j].at = bs[j].at /\ End(s[j]) = End(bs[j])
  BY <1>2, <1>4, <1>5
<1>8. Span(s, lo, hi)
  <2>1. s # <<>> => s[1].at = lo /\ End(s[Len(s)]) = hi
    BY <1>1, <1>5, <1>6, <1>7, ListOfBlocks DEF Span
  <2>2. \A j \in 1 .. Len(s) - 1 : s[j + 1].at = End(s[j])
    BY <1>5, <1>6, <1>7 DEF Span
  <2>3. QED
    BY <1>5, <1>6, <1>7, <2>1, <2>2 DEF Span
<1>9. Used(s) = Used(bs) \ {b}
  <2>1. \A x : x \in ToSet(s) <=> \E j \in 1 .. Len(bs) : x = s[j]
    BY <1>5, Members
  <2>2. \A x : x \in ToSet(bs) <=> \E j \in 1 .. Len(bs) : x = bs[j]
    BY <1>1, Members
  <2>3. \A j \in 1 .. Len(bs) : j # i => bs[j] # b
    BY <1>2, Distinct
  <2>4. \A x : x \in Used(s) <=> x \in Used(bs) /\ x # b
    BY <1>2, <1>4, <1>5, <2>1, <2>2, <2>3 DEF Used
  <2>5. QED
    BY <2>4
<1>10. Release(bs, Ptr(b)) = Coalesce(s)
  BY DEF Release, i, s
<1>11. QED
  BY <1>8, <1>9, <1>10, CoalesceIs

-----------------------------------------------------------------------------
(* The list spans the heap with no free neighbours, and its used blocks    *)
(* are the pointers a program holds, each with the size it asked for.      *)
HeapSpan == Span(blocks, HeapStart, HeapEnd) /\ NoPairs(blocks)

WantsOK == wants \in [Live -> 0 .. Wrap - 1]

ResultOK == result \in {NULL} \union HeapStart .. HeapEnd

IInv == HeapSpan /\ UsedIsHeld /\ WantsOK /\ ResultOK

LEMMA Bounds ==
  /\ HeapStart \in Nat /\ HeapEnd \in Nat /\ Wrap \in Nat \ {0}
  /\ HeapStart + Hdr < HeapEnd /\ HeapEnd + Hdr + MinSplit < Wrap
BY HeapAssumption

LEMMA HeldIs ==
  UsedIsHeld <=> {Ptr(b) : b \in Used(blocks)} = Live
BY DEF UsedIsHeld, Used

(* The tiling of the heap and the types follow.                            *)
LEMMA IInvTiled == IInv => Tiled
<1> SUFFICES ASSUME IInv PROVE Tiled
  OBVIOUS
<1>1. /\ blocks \in Seq(Blocks) /\ Span(blocks, HeapStart, HeapEnd) /\ NoPairs(blocks)
      /\ Len(blocks) \in Nat
  BY DEF IInv, HeapSpan, Span
<1>2. blocks # <<>> /\ Len(blocks) > 0
  BY <1>1, Bounds, HdrNat, ListOfBlocks DEF Span
<1> DEFINE B == [at : HeapStart .. HeapEnd, size : 0 .. HeapEnd - HeapStart, free : BOOLEAN]
<1>3. \A i \in 1 .. Len(blocks) : blocks[i] \in B
  <2> SUFFICES ASSUME NEW i \in 1 .. Len(blocks) PROVE blocks[i] \in B
    OBVIOUS
  <2> DEFINE b == blocks[i]
  <2>1. b \in Blocks /\ HeapStart <= b.at /\ End(b) <= HeapEnd
    BY <1>1, ListOfBlocks DEF Span
  <2>2. b.at \in Nat /\ b.size \in Nat /\ End(b) = b.at + Hdr + b.size
    BY <2>1 DEF Blocks, End, Ptr
  <2>3. b.at \in HeapStart .. HeapEnd /\ b.size \in 0 .. HeapEnd - HeapStart
    BY <2>1, <2>2, Bounds, HdrNat, SMTT(30)
  <2>4. QED
    BY <2>1, <2>3 DEF Blocks
<1>4. blocks \in Seq(B)
  <2>1. blocks \in [1 .. Len(blocks) -> B]
    BY <1>1, <1>3
  <2> HIDE DEF B
  <2>2. QED
    BY <1>1, <2>1
<1>5. TypeOK
  BY <1>4 DEF TypeOK, IInv, ResultOK
<1>6. QED
  BY <1>1, <1>2, <1>5 DEF Tiled, Span, NoPairs

LEMMA InitOK == Init => IInv
<1> SUFFICES ASSUME Init PROVE IInv
  OBVIOUS
<1> DEFINE b == Block(HeapStart, HeapEnd - HeapStart - Hdr, TRUE)
<1>1. /\ b \in Blocks /\ b.at = HeapStart /\ b.free = TRUE
      /\ End(b) = HeapStart + Hdr + (HeapEnd - HeapStart - Hdr)
  <2>1. HeapEnd - HeapStart - Hdr \in Nat
    BY Bounds, HdrNat
  <2>2. QED
    BY <2>1, Bounds, BlockIs
<1>2. End(b) = HeapEnd
  <2> HIDE DEF b
  <2>1. QED
    BY <1>1, Bounds, HdrNat
<1>3. blocks = <<b>> /\ wants = <<>> /\ result = NULL
  BY DEF Init
<1> HIDE DEF b
<1>4. HeapSpan
  BY <1>1, <1>2, <1>3, OneSpan DEF HeapSpan
<1>5. Used(blocks) = {}
  BY <1>1, <1>3, UsedOne
<1>6. Live = {}
  BY <1>3 DEF Live
<1>7. UsedIsHeld
  BY <1>5, <1>6, HeldIs
<1>8. WantsOK
  BY <1>3, <1>6 DEF WantsOK
<1>9. QED
  BY <1>3, <1>4, <1>7, <1>8 DEF IInv, ResultOK

(* What the calls do to the used blocks.  A call that succeeds takes c and *)
(* adds its pointer; one that frees drops b and its pointer.               *)
Taken(list, c) ==
  /\ ~c.free /\ HeapStart <= c.at /\ End(c) <= HeapEnd /\ Ptr(c) # NULL
  /\ \A o \in Used(blocks) : c.at # o.at /\ (End(c) <= o.at \/ End(o) <= c.at)
  /\ Span(list, HeapStart, HeapEnd) /\ NoPairs(list)
  /\ Used(list) = Used(blocks) \union {c}

LEMMA MallocTakes ==
  ASSUME IInv, NEW size \in 0 .. Wrap - 1
  PROVE  LET r == Malloc(blocks, size)
         IN  \/ r.ptr = NULL /\ r.list = blocks
             \/ \E c \in Blocks : Taken(r.list, c) /\ r.ptr = Ptr(c) /\ c.size >= Align4(size)
BY Bounds, MallocIs DEF IInv, HeapSpan, Taken

LEMMA TakenPtr ==
  ASSUME IInv, NEW c \in Blocks, NEW list, Taken(list, c)
  PROVE  Ptr(c) \notin Live /\ Ptr(c) \in HeapStart .. HeapEnd
<1>1. c.at \in Nat /\ c.size \in Nat /\ End(c) = c.at + Hdr + c.size
  BY DEF Blocks, End, Ptr
<1>2. \A o \in Used(blocks) : Ptr(c) # Ptr(o)
  <2> SUFFICES ASSUME NEW o \in Used(blocks) PROVE Ptr(c) # Ptr(o)
    OBVIOUS
  <2>1. c.at # o.at /\ o \in Blocks
    BY Members, ListOfBlocks DEF Taken, IInv, HeapSpan, Span, Used
  <2>2. QED
    BY <1>1, <2>1, HdrNat DEF Ptr, Blocks
<1>3. Ptr(c) \notin Live
  BY <1>2, HeldIs DEF IInv
<1>4. Ptr(c) \in HeapStart .. HeapEnd
  BY <1>1, Bounds, HdrNat DEF Taken, Ptr
<1>5. QED
  BY <1>3, <1>4

(* A pointer a program holds is that of a used block.                      *)
LEMMA HeldBlock ==
  ASSUME IInv, NEW p \in Live
  PROVE  \E b \in Used(blocks) :
           /\ p = Ptr(b) /\ b \in Blocks
           /\ blocks[IndexOf(blocks, p)] = b
           /\ \A o \in Used(blocks) : o # b => Ptr(o) # p /\ o.at # b.at
           /\ \A o \in Used(blocks) : o # b => End(o) <= b.at \/ End(b) <= o.at
           /\ p \in HeapStart .. HeapEnd /\ HeapStart <= b.at /\ End(b) <= HeapEnd
<1>1. Span(blocks, HeapStart, HeapEnd) /\ blocks \in Seq(Blocks)
  BY DEF IInv, HeapSpan, Span
<1>2. PICK b \in Used(blocks) : p = Ptr(b)
  BY HeldIs DEF IInv
<1>3. PICK i \in 1 .. Len(blocks) : b = blocks[i]
  BY <1>1, Members DEF Used
<1>4. blocks[IndexOf(blocks, p)] = b
  BY <1>1, <1>2, Bounds, IndexIs DEF Used
<1>5. ASSUME NEW o \in Used(blocks), o # b
      PROVE  Ptr(o) # p /\ o.at # b.at /\ (End(o) <= b.at \/ End(b) <= o.at)
  <2>1. PICK j \in 1 .. Len(blocks) : o = blocks[j]
    BY <1>1, Members DEF Used
  <2>2. i # j
    BY <1>3, <1>5, <2>1
  <2>3. QED
    BY <1>1, <1>2, <1>3, <2>1, <2>2, Bounds, Distinct
<1>6. b \in Blocks /\ HeapStart <= b.at /\ End(b) <= HeapEnd
  BY <1>1, <1>3, ListOfBlocks DEF Span
<1>7. p \in HeapStart .. HeapEnd
  BY <1>2, <1>6, Bounds, HdrNat DEF Blocks, End, Ptr
<1>8. QED
  BY <1>2, <1>4, <1>5, <1>6, <1>7

-----------------------------------------------------------------------------
(* The five things a call can do to the heap and to what is held.          *)
Whole == Span(blocks', HeapStart, HeapEnd) /\ NoPairs(blocks')

GivesNothing == UNCHANGED <<blocks, wants>> /\ result' = NULL

Enough(c, n) == n \in 0 .. Wrap - 1 /\ (n + 3 < Wrap => n <= c.size)

Takes(c, n) ==
  /\ Taken(blocks', c) /\ Enough(c, n)
  /\ wants' = With(Ptr(c), n) /\ result' = Ptr(c)

Drops(b) ==
  /\ Whole /\ Used(blocks') = Used(blocks) \ {b}
  /\ wants' = Without(wants, Ptr(b)) /\ result' \in {result, NULL}

Keeps(b, n) ==
  /\ UNCHANGED blocks /\ Enough(b, n)
  /\ wants' = With(Ptr(b), n) /\ result' = Ptr(b)

Moves(b, c, list, n) ==
  /\ Taken(list, c) /\ Enough(c, n)
  /\ Whole /\ Used(blocks') = (Used(blocks) \union {c}) \ {b}
  /\ wants' = Without(With(Ptr(c), n), Ptr(b)) /\ result' = Ptr(c)

LEMMA MallocDoes ==
  ASSUME IInv, NEW n \in 0 .. Wrap - 1, malloc(n)
  PROVE  GivesNothing \/ \E c \in Blocks : Takes(c, n)
<1> DEFINE r == Malloc(blocks, n)
<1>1. /\ blocks' = r.list /\ result' = r.ptr
      /\ wants' = IF r.ptr = NULL THEN wants ELSE With(r.ptr, n)
  BY DEF malloc
<1>2. CASE r.ptr = NULL /\ r.list = blocks
  BY <1>1, <1>2 DEF GivesNothing
<1>3. ASSUME NEW c \in Blocks, Taken(r.list, c), r.ptr = Ptr(c), c.size >= Align4(n)
      PROVE  Takes(c, n)
  <2>1. Align4(n) \in Nat /\ (n + 3 < Wrap => n <= Align4(n))
    BY AlignUp
  <2>2. Enough(c, n)
    BY <1>3, <2>1 DEF Enough, Blocks
  <2>3. Ptr(c) # NULL
    BY <1>3 DEF Taken
  <2> HIDE DEF r
  <2>4. QED
    BY <1>1, <1>3, <2>2, <2>3 DEF Takes
<1>4. QED
  BY <1>2, <1>3, MallocTakes

LEMMA FreeDoes ==
  ASSUME IInv, NEW p \in Live, blocks' = Release(blocks, p),
         wants' = Without(wants, p), result' \in {result, NULL}
  PROVE  \E b \in Used(blocks) : Drops(b)
<1>1. PICK b \in Used(blocks) : p = Ptr(b)
  BY HeldBlock
<1>2. Whole /\ Used(blocks') = Used(blocks) \ {b}
  BY <1>1, Bounds, ReleaseIs DEF IInv, HeapSpan, Whole
<1>3. QED
  BY <1>1, <1>2 DEF Drops

LEMMA ReallocDoes ==
  ASSUME IInv, NEW p \in Live, NEW n \in 0 .. Wrap - 1, realloc(p, n)
  PROVE  \/ GivesNothing
         \/ \E b \in Used(blocks) : Drops(b) \/ Keeps(b, n)
         \/ \E b \in Used(blocks), c \in Blocks, list \in Seq(Blocks) : Moves(b, c, list, n)
<1> DEFINE r == Malloc(blocks, n)
<1>1. PICK b \in Used(blocks) : /\ p = Ptr(b) /\ b \in Blocks
                                /\ blocks[IndexOf(blocks, p)] = b
  BY HeldBlock
<1>2. CASE n = 0
  <2>1. blocks' = Release(blocks, p) /\ wants' = Without(wants, p) /\ result' = NULL
    BY <1>2 DEF realloc
  <2>2. QED
    BY <2>1, FreeDoes
<1>3. CASE n # 0 /\ b.size >= n
  <2>1. wants' = With(p, n) /\ result' = p /\ UNCHANGED blocks
    BY <1>1, <1>3 DEF realloc
  <2>2. Enough(b, n)
    BY <1>1, <1>3 DEF Enough, Blocks
  <2>3. QED
    BY <1>1, <2>1, <2>2 DEF Keeps
<1>4. CASE n # 0 /\ ~(b.size >= n)
  <2>1. IF r.ptr = NULL THEN result' = NULL /\ UNCHANGED <<blocks, wants>>
        ELSE /\ blocks' = Release(r.list, p)
             /\ wants' = Without(With(r.ptr, n), p)
             /\ result' = r.ptr
    BY <1>1, <1>4 DEF realloc, Moved
  <2>2. CASE r.ptr = NULL
    BY <2>1, <2>2 DEF GivesNothing
  <2>3. CASE r.ptr # NULL
    <3>1. PICK c \in Blocks : Taken(r.list, c) /\ r.ptr = Ptr(c) /\ c.size >= Align4(n)
      BY <2>3, MallocTakes
    <3>2. b \in Used(r.list) /\ Span(r.list, HeapStart, HeapEnd)
      BY <3>1 DEF Taken
    <3>3. Whole /\ Used(blocks') = Used(r.list) \ {b}
      BY <1>1, <2>1, <2>3, <3>2, Bounds, ReleaseIs DEF Whole
    <3>4. Align4(n) \in Nat /\ (n + 3 < Wrap => n <= Align4(n))
      BY AlignUp
    <3>5. Enough(c, n)
      BY <3>1, <3>4 DEF Enough, Blocks
    <3> HIDE DEF r
    <3>6. Moves(b, c, r.list, n)
      BY <1>1, <2>1, <2>3, <3>1, <3>3, <3>5 DEF Moves, Taken
    <3>7. r.list \in Seq(Blocks)
      BY <3>2 DEF Span
    <3>8. QED
      BY <3>6, <3>7
  <2>4. QED
    BY <2>2, <2>3
<1>5. QED
  BY <1>2, <1>3, <1>4

(* Every call does one of them; a size stays below Wrap, also where        *)
(* calloc's product wraps.                                                 *)
Asked ==
  Requests \union
    {m \in 0 .. Wrap - 1 : \E k \in 1 .. 2, n \in Requests : m = (k * n) % Wrap}

LEMMA AskedIs ==
  /\ Asked \subseteq 0 .. Wrap - 1
  /\ \A k \in 1 .. 2, n \in Requests : (k * n) % Wrap \in Asked
<1>1. Requests \subseteq 0 .. Wrap - 1 /\ Wrap \in Nat \ {0}
  BY HeapAssumption
<1>2. \A m \in Nat : m % Wrap \in 0 .. Wrap - 1
  BY <1>1
<1>3. ASSUME NEW k \in 1 .. 2, NEW n \in Requests
      PROVE  (k * n) % Wrap \in 0 .. Wrap - 1
  <2> DEFINE m == k * n
  <2>1. m \in Nat
    <3>1. n \in Nat
      BY <1>1
    <3>2. CASE k = 1
      BY <3>1, <3>2
    <3>3. CASE k = 2
      BY <3>1, <3>3
    <3>4. QED
      BY <3>2, <3>3
  <2> HIDE DEF m
  <2>2. m % Wrap \in 0 .. Wrap - 1
    BY <1>2, <2>1
  <2>3. QED
    BY <2>2 DEF m
<1>4. QED
  BY <1>1, <1>3 DEF Asked

Effect ==
  \/ GivesNothing
  \/ \E c \in Blocks, n \in Asked : Takes(c, n)
  \/ \E b \in Used(blocks) : Drops(b)
  \/ \E b \in Used(blocks), n \in Asked : Keeps(b, n)
  \/ \E b \in Used(blocks), c \in Blocks, list \in Seq(Blocks), n \in Asked : Moves(b, c, list, n)

LEMMA NextDoes == IInv /\ Next => Effect
<1> SUFFICES ASSUME IInv, Next PROVE Effect
  OBVIOUS
<1>1. ASSUME NEW n \in Requests, malloc(n) PROVE Effect
  <2>1. n \in Asked /\ n \in 0 .. Wrap - 1
    BY AskedIs DEF Asked
  <2>2. GivesNothing \/ \E c \in Blocks : Takes(c, n)
    BY <1>1, <2>1, MallocDoes
  <2>3. QED
    BY <2>1, <2>2 DEF Effect
<1>2. ASSUME NEW k \in 1 .. 2, NEW n \in Requests, calloc(k, n) PROVE Effect
  <2> DEFINE m == (k * n) % Wrap
  <2>1. m \in Asked /\ m \in 0 .. Wrap - 1
    BY AskedIs
  <2>2. malloc(m)
    BY <1>2 DEF calloc
  <2> HIDE DEF m
  <2>3. GivesNothing \/ \E c \in Blocks : Takes(c, m)
    BY <2>1, <2>2, MallocDoes
  <2>4. QED
    BY <2>1, <2>3 DEF Effect
<1>3. ASSUME NEW p \in Live, free(p) PROVE Effect
  <2>1. blocks' = Release(blocks, p) /\ wants' = Without(wants, p) /\ result' = result
    BY <1>3 DEF free
  <2>2. \E b \in Used(blocks) : Drops(b)
    BY <2>1, FreeDoes
  <2>3. QED
    BY <2>2 DEF Effect
<1>4. ASSUME NEW p \in Live, NEW n \in Requests, realloc(p, n) PROVE Effect
  <2>1. n \in Asked /\ n \in 0 .. Wrap - 1
    BY AskedIs DEF Asked
  <2>2. CASE GivesNothing
    BY <2>2 DEF Effect
  <2>3. CASE \E b \in Used(blocks) : Drops(b) \/ Keeps(b, n)
    BY <2>1, <2>3 DEF Effect
  <2>4. CASE \E b \in Used(blocks), c \in Blocks, list \in Seq(Blocks) : Moves(b, c, list, n)
    <3>1. PICK b \in Used(blocks), c \in Blocks, list \in Seq(Blocks) : Moves(b, c, list, n)
      BY <2>4
    <3>2. \E x \in Used(blocks), y \in Blocks, l \in Seq(Blocks), m \in Asked : Moves(x, y, l, m)
      BY <2>1, <3>1
    <3>3. QED
      BY <3>2 DEF Effect
  <2>5. QED
    BY <1>4, <2>1, <2>2, <2>3, <2>4, ReallocDoes
<1>5. QED
  BY <1>1, <1>2, <1>3, <1>4 DEF Next

-----------------------------------------------------------------------------
(* What the effects leave of the pointers held.                            *)
LEMMA WithIs ==
  ASSUME NEW p, NEW n
  PROVE  /\ DOMAIN With(p, n) = Live \union {p}
         /\ With(p, n)[p] = n
         /\ \A x \in Live : x # p => With(p, n)[x] = wants[x]
BY DEF With

LEMMA WantsAre ==
  ASSUME WantsOK, NEW p, NEW n \in 0 .. Wrap - 1
  PROVE  /\ DOMAIN With(p, n) = Live \union {p}
         /\ With(p, n) \in [Live \union {p} -> 0 .. Wrap - 1]
BY DEF With, WantsOK

LEMMA WithoutIs ==
  ASSUME NEW f, NEW p
  PROVE  /\ DOMAIN Without(f, p) = DOMAIN f \ {p}
         /\ \A x \in DOMAIN f \ {p} : Without(f, p)[x] = f[x]
BY DEF Without

LEMMA EffectOK == IInv /\ Effect => IInv'
<1> SUFFICES ASSUME IInv, Effect PROVE IInv'
  OBVIOUS
<1>1. /\ WantsOK /\ {Ptr(b) : b \in Used(blocks)} = Live /\ HeapSpan
      /\ ResultOK /\ Asked \subseteq 0 .. Wrap - 1
  BY HeldIs, AskedIs DEF IInv
<1>2. ASSUME Whole, {Ptr(b) : b \in Used(blocks')} = DOMAIN wants',
             wants' \in [DOMAIN wants' -> 0 .. Wrap - 1],
             result' \in {NULL} \union HeapStart .. HeapEnd
      PROVE  IInv'
  <2>1. HeapSpan'
    BY <1>2 DEF Whole, HeapSpan
  <2>2. UsedIsHeld'
    BY <1>2 DEF UsedIsHeld, Used, Live
  <2>3. WantsOK' /\ ResultOK'
    BY <1>2 DEF WantsOK, ResultOK, Live
  <2>4. QED
    BY <2>1, <2>2, <2>3 DEF IInv
<1>3. CASE GivesNothing
  BY <1>1, <1>2, <1>3 DEF GivesNothing, HeapSpan, Whole, WantsOK, Live
<1>4. ASSUME NEW c \in Blocks, NEW n \in Asked, Takes(c, n)
      PROVE  IInv'
  <2>1. Whole /\ Used(blocks') = Used(blocks) \union {c} /\ result' = Ptr(c)
    BY <1>4 DEF Takes, Taken, Whole
  <2>2. wants' = With(Ptr(c), n)
    BY <1>4 DEF Takes
  <2>3. /\ DOMAIN wants' = Live \union {Ptr(c)}
        /\ wants' \in [DOMAIN wants' -> 0 .. Wrap - 1]
    BY <1>1, <2>2, WantsAre
  <2>4. {Ptr(b) : b \in Used(blocks')} = DOMAIN wants'
    BY <1>1, <2>1, <2>3
  <2>5. Ptr(c) \in HeapStart .. HeapEnd
    BY <1>4, TakenPtr DEF Takes
  <2>6. QED
    BY <1>2, <2>1, <2>3, <2>4, <2>5
<1>5. ASSUME NEW b \in Used(blocks), Drops(b)
      PROVE  IInv'
  <2>1. /\ Whole /\ Used(blocks') = Used(blocks) \ {b}
        /\ wants' = Without(wants, Ptr(b)) /\ result' \in {result, NULL}
    BY <1>5 DEF Drops
  <2>2. \A o \in Used(blocks) : o # b => Ptr(o) # Ptr(b)
    BY <1>1, HeldBlock
  <2>3. DOMAIN wants' = Live \ {Ptr(b)}
    BY <2>1, WithoutIs DEF Live
  <2>4. wants' \in [DOMAIN wants' -> 0 .. Wrap - 1]
    BY <1>1, <2>1 DEF Without, WantsOK, Live
  <2>5. {Ptr(o) : o \in Used(blocks')} = DOMAIN wants'
    BY <1>1, <2>1, <2>2, <2>3
  <2>6. QED
    BY <1>1, <1>2, <2>1, <2>4, <2>5 DEF ResultOK
<1>6. ASSUME NEW b \in Used(blocks), NEW n \in Asked, Keeps(b, n)
      PROVE  IInv'
  <2>1. blocks' = blocks /\ wants' = With(Ptr(b), n) /\ result' = Ptr(b) /\ Ptr(b) \in Live
    BY <1>1, <1>6 DEF Keeps
  <2>2. DOMAIN wants' = Live /\ wants' \in [DOMAIN wants' -> 0 .. Wrap - 1]
    <3>1. Live \union {Ptr(b)} = Live /\ n \in 0 .. Wrap - 1
      BY <1>1, <2>1
    <3>2. /\ DOMAIN With(Ptr(b), n) = Live \union {Ptr(b)}
          /\ With(Ptr(b), n) \in [Live \union {Ptr(b)} -> 0 .. Wrap - 1]
      BY <1>1, <3>1, WantsAre
    <3>3. QED
      BY <2>1, <3>1, <3>2
  <2>3. Ptr(b) \in HeapStart .. HeapEnd
    BY <2>1, HeldBlock
  <2>4. QED
    BY <1>1, <1>2, <2>1, <2>2, <2>3 DEF HeapSpan, Whole
<1>7. ASSUME NEW b \in Used(blocks), NEW c \in Blocks, NEW list \in Seq(Blocks), NEW n \in Asked,
             Moves(b, c, list, n)
      PROVE  IInv'
  <2>1. /\ Whole /\ Used(blocks') = (Used(blocks) \union {c}) \ {b}
        /\ wants' = Without(With(Ptr(c), n), Ptr(b)) /\ result' = Ptr(c) /\ Taken(list, c)
    BY <1>7 DEF Moves
  <2>2. \A o \in Used(blocks) : o # b => Ptr(o) # Ptr(b)
    BY <1>1, HeldBlock
  <2>3. Ptr(c) \notin Live /\ Ptr(c) \in HeapStart .. HeapEnd
    BY <2>1, TakenPtr
  <2>4. Ptr(b) \in Live
    BY <1>1
  <2> DEFINE w == With(Ptr(c), n)
  <2>5. DOMAIN w = Live \union {Ptr(c)} /\ w \in [Live \union {Ptr(c)} -> 0 .. Wrap - 1]
    BY <1>1, WantsAre
  <2> HIDE DEF w
  <2>6. wants' = Without(w, Ptr(b))
    BY <2>1 DEF w
  <2>7. DOMAIN wants' = (Live \union {Ptr(c)}) \ {Ptr(b)}
    BY <2>5, <2>6, WithoutIs
  <2>8. wants' \in [DOMAIN wants' -> 0 .. Wrap - 1]
    BY <2>5, <2>6 DEF Without
  <2>9. {Ptr(o) : o \in Used(blocks')} = DOMAIN wants'
    BY <1>1, <2>1, <2>2, <2>3, <2>4, <2>7
  <2>10. QED
    BY <1>2, <2>1, <2>3, <2>8, <2>9
<1>8. QED
  BY <1>3, <1>4, <1>5, <1>6, <1>7 DEF Effect

LEMMA NextOK == IInv /\ [Next]_vars => IInv'
<1>1. IInv /\ UNCHANGED vars => IInv'
  BY DEF vars, IInv, HeapSpan, UsedIsHeld, WantsOK, ResultOK, Live
<1>2. QED
  BY <1>1, NextDoes, EffectOK

THEOREM HeapInvariant == Spec => []IInv
BY InitOK, NextOK, PTL DEF Spec

(* memory.c, malloc, free and realloc in any order, for every arena and    *)
(* every size: the blocks tile the heap and free neighbours are merged.    *)
THEOREM HeapIsTiled == Spec => []Tiled
BY HeapInvariant, IInvTiled, PTL

(* The blocks in use are the ones whose pointer a program holds.           *)
THEOREM NothingLeaks == Spec => []UsedIsHeld
<1>1. IInv => UsedIsHeld
  BY DEF IInv
<1>2. QED
  BY <1>1, HeapInvariant, PTL

-----------------------------------------------------------------------------
(* The live blocks of the mapping are the used blocks of the list.         *)
View(b, w) == [at |-> Ptr(b), len |-> b.size, want |-> w[Ptr(b)]]

Views(bs, w) == {View(b, w) : b \in Used(bs)}

LEMMA ViewsAre ==
  ASSUME NEW bs, Span(bs, HeapStart, HeapEnd), NEW w,
         {Ptr(b) : b \in Used(bs)} = DOMAIN w
  PROVE  {[at |-> Ptr(b), len |-> b.size, want |-> w[Ptr(b)]] :
             b \in {x \in ToSet(bs) : Ptr(x) \in DOMAIN w}} = Views(bs, w)
<1>1. ASSUME NEW x \in ToSet(bs), Ptr(x) \in DOMAIN w
      PROVE  x \in Used(bs)
  <2>1. PICK b \in Used(bs) : Ptr(b) = Ptr(x)
    BY <1>1
  <2>2. bs[IndexOf(bs, Ptr(x))] = x
    BY Bounds, IndexIs
  <2>3. bs[IndexOf(bs, Ptr(b))] = b
    BY Bounds, IndexIs DEF Used
  <2>4. QED
    BY <2>1, <2>2, <2>3
<1>2. {x \in ToSet(bs) : Ptr(x) \in DOMAIN w} = Used(bs)
  BY <1>1 DEF Used
<1>3. QED
  BY <1>2 DEF Views, View

LEMMA LiveBlocksAre == IInv => LiveBlocks = Views(blocks, wants)
BY ViewsAre, HeldIs DEF IInv, HeapSpan, LiveBlocks, Live

LEMMA LiveBlocksNext == IInv' => LiveBlocks' = Views(blocks', wants')
<1> SUFFICES ASSUME IInv' PROVE LiveBlocks' = Views(blocks', wants')
  OBVIOUS
<1>1. Span(blocks', HeapStart, HeapEnd)
  BY DEF IInv, HeapSpan
<1>2. {Ptr(b) : b \in Used(blocks')} = DOMAIN wants'
  BY DEF IInv, UsedIsHeld, Used, Live
<1>3. QED
  BY <1>1, <1>2, ViewsAre DEF LiveBlocks, Live

(* A view shows where its block is.                                        *)
LEMMA ViewIs ==
  ASSUME NEW b, NEW w
  PROVE  View(b, w).at = Ptr(b) /\ View(b, w).len = b.size /\ View(b, w).want = w[Ptr(b)]
BY DEF View

LEMMA Apart ==
  ASSUME NEW b \in Blocks, NEW c \in Blocks, NEW v, NEW w,
         End(b) <= c.at \/ End(c) <= b.at
  PROVE  A!Disjoint(View(b, v), View(c, w))
BY ViewIs, HdrNat DEF A!Disjoint, Blocks, End, Ptr

(* A block that is large enough fits among others it keeps clear of.       *)
LEMMA FitsAmong ==
  ASSUME NEW c \in Blocks, HeapStart <= c.at, End(c) <= HeapEnd,
         NEW v, v[Ptr(c)] <= c.size, NEW others,
         \A o \in others : \E b \in Blocks : \E w :
            o = View(b, w) /\ (End(b) <= c.at \/ End(c) <= b.at)
  PROVE  A!Fits(View(c, v), others)
<1>1. c.at \in Nat /\ c.size \in Nat /\ End(c) = c.at + Hdr + c.size
  BY DEF Blocks, End, Ptr
<1>2. HeapStart <= Ptr(c) /\ Ptr(c) + c.size <= HeapEnd
  BY <1>1, Bounds, HdrNat DEF Ptr
<1>3. ASSUME NEW o \in others
      PROVE  A!Disjoint(View(c, v), o)
  <2>1. PICK b \in Blocks : \E w : o = View(b, w) /\ (End(b) <= c.at \/ End(c) <= b.at)
    BY <1>3
  <2>2. PICK w : o = View(b, w)
    BY <2>1
  <2>3. QED
    BY <2>1, <2>2, Apart
<1>4. QED
  BY <1>2, <1>3, ViewIs DEF A!Fits

LEMMA UsedBlocks == IInv => Used(blocks) \subseteq Blocks
BY Members, ListOfBlocks DEF IInv, HeapSpan, Span, Used

-----------------------------------------------------------------------------
(* A request near Wrap is rounded up to 0 and gets too small a block.      *)
RequestsFit == \A n \in Asked : n + 3 < Wrap

LEMMA TakesAllocates ==
  ASSUME RequestsFit, IInv, IInv', NEW c \in Blocks, NEW n \in Asked, Takes(c, n)
  PROVE  A!Alloc
<1>1. /\ WantsOK /\ {Ptr(b) : b \in Used(blocks)} = Live
      /\ LiveBlocks = Views(blocks, wants) /\ LiveBlocks' = Views(blocks', wants')
      /\ Used(blocks) \subseteq Blocks /\ n \in 0 .. Wrap - 1
  BY HeldIs, LiveBlocksAre, LiveBlocksNext, UsedBlocks, AskedIs DEF IInv
<1>2. /\ Used(blocks') = Used(blocks) \union {c} /\ wants' = With(Ptr(c), n)
      /\ HeapStart <= c.at /\ End(c) <= HeapEnd
      /\ \A o \in Used(blocks) : End(c) <= o.at \/ End(o) <= c.at
      /\ n <= c.size
  BY DEF Takes, Taken, Enough, RequestsFit
<1>3. Ptr(c) \notin Live
  BY TakenPtr DEF Takes
<1>4. \A o \in Used(blocks) : Ptr(o) \in Live /\ wants'[Ptr(o)] = wants[Ptr(o)]
  <2>1. \A x \in Live : x # Ptr(c) => With(Ptr(c), n)[x] = wants[x]
    BY DEF With
  <2>2. \A o \in Used(blocks) : Ptr(o) \in Live
    BY <1>1
  <2>3. QED
    BY <1>2, <1>3, <2>1, <2>2
<1>5. \A o \in Used(blocks) : View(o, wants') = View(o, wants)
  BY <1>4 DEF View
<1> DEFINE v == View(c, wants')
<1>6. LiveBlocks' = LiveBlocks \union {v}
  BY <1>1, <1>2, <1>5 DEF Views
<1>7. v \notin LiveBlocks
  <2>1. \A o \in Used(blocks) : View(o, wants).at # v.at
    BY <1>3, <1>4, ViewIs
  <2>2. QED
    BY <1>1, <2>1 DEF Views
<1>8. A!Fits(v, LiveBlocks)
  <2>1. wants'[Ptr(c)] <= c.size
    BY <1>1, <1>2, WithIs
  <2>2. \A o \in LiveBlocks : \E b \in Blocks : \E w :
          o = View(b, w) /\ (End(b) <= c.at \/ End(c) <= b.at)
    BY <1>1, <1>2 DEF Views
  <2>3. QED
    BY <1>2, <2>1, <2>2, FitsAmong
<1>9. v \in LiveBlocks'
  BY <1>6
<1> HIDE DEF v
<1>10. QED
  BY <1>6, <1>7, <1>8, <1>9 DEF A!Alloc

LEMMA DropsFrees ==
  ASSUME IInv, IInv', NEW b \in Used(blocks), Drops(b)
  PROVE  A!Free
<1>1. /\ WantsOK /\ {Ptr(o) : o \in Used(blocks)} = Live
      /\ LiveBlocks = Views(blocks, wants) /\ LiveBlocks' = Views(blocks', wants')
  BY HeldIs, LiveBlocksAre, LiveBlocksNext DEF IInv
<1>2. Used(blocks') = Used(blocks) \ {b} /\ wants' = Without(wants, Ptr(b))
  BY DEF Drops
<1>3. Ptr(b) \in Live /\ \A o \in Used(blocks) : Ptr(o) \in Live /\ (o # b => Ptr(o) # Ptr(b))
  BY <1>1, HeldBlock
<1>4. \A o \in Used(blocks') : View(o, wants') = View(o, wants)
  BY <1>2, <1>3, WithoutIs DEF View, Live
<1>5. \A o \in Used(blocks) : o # b => View(o, wants) # View(b, wants)
  BY <1>3, ViewIs
<1>6. LiveBlocks' = LiveBlocks \ {View(b, wants)} /\ View(b, wants) \in LiveBlocks
  BY <1>1, <1>2, <1>4, <1>5 DEF Views
<1>7. QED
  BY <1>6 DEF A!Free

LEMMA KeepsResizes ==
  ASSUME RequestsFit, IInv, IInv', NEW b \in Used(blocks), NEW n \in Asked, Keeps(b, n)
  PROVE  A!Resize
<1>1. /\ WantsOK /\ {Ptr(o) : o \in Used(blocks)} = Live
      /\ LiveBlocks = Views(blocks, wants) /\ LiveBlocks' = Views(blocks', wants')
      /\ Used(blocks) \subseteq Blocks /\ n \in 0 .. Wrap - 1
  BY HeldIs, LiveBlocksAre, LiveBlocksNext, UsedBlocks, AskedIs DEF IInv
<1>2. blocks' = blocks /\ wants' = With(Ptr(b), n) /\ n <= b.size
  BY DEF Keeps, Enough, RequestsFit
<1>3. /\ Ptr(b) \in Live /\ b \in Blocks /\ HeapStart <= b.at /\ End(b) <= HeapEnd
      /\ \A o \in Used(blocks) : Ptr(o) \in Live
      /\ \A o \in Used(blocks) : o # b =>
           Ptr(o) # Ptr(b) /\ (End(o) <= b.at \/ End(b) <= o.at)
  <2>1. Ptr(b) \in Live
    BY <1>1
  <2>2. PICK d \in Used(blocks) :
           /\ Ptr(b) = Ptr(d) /\ d \in Blocks
           /\ \A o \in Used(blocks) : o # d => Ptr(o) # Ptr(b) /\ o.at # d.at
           /\ \A o \in Used(blocks) : o # d => End(o) <= d.at \/ End(d) <= o.at
           /\ HeapStart <= d.at /\ End(d) <= HeapEnd
    BY <2>1, HeldBlock
  <2>3. d = b
    BY <2>2
  <2>4. QED
    BY <1>1, <2>1, <2>2, <2>3
<1>4. \A o \in Used(blocks) : o # b => View(o, wants') = View(o, wants)
  <2>1. \A x \in Live : x # Ptr(b) => With(Ptr(b), n)[x] = wants[x]
    BY DEF With
  <2>2. \A o \in Used(blocks) : o # b => wants'[Ptr(o)] = wants[Ptr(o)]
    BY <1>2, <1>3, <2>1
  <2>3. QED
    BY <2>2 DEF View
<1>5. \A o \in Used(blocks) : o # b => View(o, wants) # View(b, wants)
  BY <1>3, ViewIs
<1> DEFINE old == View(b, wants)
           new == View(b, wants')
<1>6. LiveBlocks' = (LiveBlocks \ {old}) \union {new} /\ old \in LiveBlocks /\ new \in LiveBlocks'
  BY <1>1, <1>2, <1>4, <1>5 DEF Views
<1>7. A!Fits(new, LiveBlocks \ {old})
  <2>1. wants'[Ptr(b)] <= b.size
    BY <1>1, <1>2, WithIs
  <2>2. \A o \in LiveBlocks \ {old} : \E d \in Blocks : \E w :
          o = View(d, w) /\ (End(d) <= b.at \/ End(b) <= d.at)
    BY <1>1, <1>3 DEF Views
  <2>3. QED
    BY <1>3, <2>1, <2>2, FitsAmong
<1> HIDE DEF old, new
<1>8. QED
  BY <1>6, <1>7 DEF A!Resize

LEMMA MovesResizes ==
  ASSUME RequestsFit, IInv, IInv', NEW b \in Used(blocks), NEW c \in Blocks, NEW list \in Seq(Blocks),
         NEW n \in Asked, Moves(b, c, list, n)
  PROVE  A!Resize
<1>1. /\ WantsOK /\ {Ptr(o) : o \in Used(blocks)} = Live
      /\ LiveBlocks = Views(blocks, wants) /\ LiveBlocks' = Views(blocks', wants')
      /\ Used(blocks) \subseteq Blocks /\ n \in 0 .. Wrap - 1
  BY HeldIs, LiveBlocksAre, LiveBlocksNext, UsedBlocks, AskedIs DEF IInv
<1>2. /\ Used(blocks') = (Used(blocks) \union {c}) \ {b}
      /\ wants' = Without(With(Ptr(c), n), Ptr(b))
      /\ HeapStart <= c.at /\ End(c) <= HeapEnd /\ Taken(list, c)
      /\ \A o \in Used(blocks) : End(c) <= o.at \/ End(o) <= c.at
      /\ n <= c.size
  BY DEF Moves, Taken, Enough, RequestsFit
<1>3. Ptr(c) \notin Live
  BY <1>2, TakenPtr
<1>4. /\ Ptr(b) \in Live
      /\ \A o \in Used(blocks) : Ptr(o) \in Live /\ (o # b => Ptr(o) # Ptr(b))
  BY <1>1, HeldBlock
<1>5. Ptr(c) # Ptr(b)
  BY <1>3, <1>4
<1>6. /\ \A o \in Used(blocks) : o # b => wants'[Ptr(o)] = wants[Ptr(o)]
      /\ wants'[Ptr(c)] = n
  <2> DEFINE w == With(Ptr(c), n)
  <2>1. /\ DOMAIN w = Live \union {Ptr(c)} /\ w[Ptr(c)] = n
        /\ \A x \in Live : x # Ptr(c) => w[x] = wants[x]
    BY DEF With
  <2>2. \A x \in DOMAIN w \ {Ptr(b)} : wants'[x] = w[x]
    BY <1>2, WithoutIs
  <2> HIDE DEF w
  <2>3. QED
    BY <1>3, <1>4, <1>5, <2>1, <2>2
<1>7. \A o \in Used(blocks) : o # b => View(o, wants') = View(o, wants)
  BY <1>6 DEF View
<1>8. \A o \in Used(blocks) : o # b => View(o, wants) # View(b, wants)
  BY <1>4, ViewIs
<1>9. c # b
  BY <1>5
<1> DEFINE old == View(b, wants)
           new == View(c, wants')
<1>10. LiveBlocks' = (LiveBlocks \ {old}) \union {new} /\ old \in LiveBlocks /\ new \in LiveBlocks'
  BY <1>1, <1>2, <1>7, <1>8, <1>9 DEF Views
<1>11. A!Fits(new, LiveBlocks \ {old})
  <2>1. wants'[Ptr(c)] <= c.size
    BY <1>2, <1>6
  <2>2. \A o \in LiveBlocks \ {old} : \E d \in Blocks : \E w :
          o = View(d, w) /\ (End(d) <= c.at \/ End(c) <= d.at)
    BY <1>1, <1>2 DEF Views
  <2>3. QED
    BY <1>2, <2>1, <2>2, FitsAmong
<1> HIDE DEF old, new
<1>12. QED
  BY <1>10, <1>11 DEF A!Resize

LEMMA NextAllocator ==
  ASSUME RequestsFit, IInv, IInv', [Next]_vars
  PROVE  [A!ANext]_LiveBlocks
<1>1. CASE GivesNothing \/ UNCHANGED vars
  BY <1>1 DEF GivesNothing, vars, LiveBlocks, Live
<1>2. CASE \E c \in Blocks, n \in Asked : Takes(c, n)
  BY <1>2, TakesAllocates DEF A!ANext
<1>3. CASE \E b \in Used(blocks) : Drops(b)
  BY <1>3, DropsFrees DEF A!ANext
<1>4. CASE \E b \in Used(blocks), n \in Asked : Keeps(b, n)
  BY <1>4, KeepsResizes DEF A!ANext
<1>5. CASE \E b \in Used(blocks), c \in Blocks, list \in Seq(Blocks), n \in Asked : Moves(b, c, list, n)
  BY <1>5, MovesResizes DEF A!ANext
<1>6. QED
  BY <1>1, <1>2, <1>3, <1>4, <1>5, NextDoes DEF Effect

LEMMA InitAllocator == Init => A!AInit
<1> SUFFICES ASSUME Init PROVE LiveBlocks = {}
  BY DEF A!AInit
<1>1. Live = {}
  BY DEF Init, Live
<1>2. QED
  BY <1>1 DEF LiveBlocks

(* As long as no size asked for wraps when it is rounded up to a multiple  *)
(* of 4: every live block is a range of its own in the heap, as long as    *)
(* was asked for, and a call touches no block but its own.                 *)
THEOREM HeapImplementsAllocator ==
  ASSUME RequestsFit
  PROVE  Spec => ImplementsAllocator
<1>1. RequestsFit
  OBVIOUS
<1>2. IInv /\ IInv' /\ [Next]_vars => [A!ANext]_LiveBlocks
  BY <1>1, NextAllocator
<1>3. QED
  BY <1>2, InitAllocator, HeapInvariant, PTL DEF Spec, ImplementsAllocator, A!ASpec
=============================================================================
