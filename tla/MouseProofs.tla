---------------------------- MODULE MouseProofs -----------------------------
(***************************************************************************)
(* What Mouse keeps, for every screen, every set of reports and every set  *)
(* of positions and sensitivities, and however many bytes are lost; then   *)
(* what mouse_init keeps, whatever the mouse refuses, however often the    *)
(* controller is busy, and however few replies it can hold.                *)
(***************************************************************************)
EXTENDS MousePort, SequenceTheorems, TLAPS

-----------------------------------------------------------------------------
(* Bytes of a report.                                                      *)

(* The three bytes are bytes.                                              *)
LEMMA BytesAreBytes ==
  ASSUME NEW r \in ReportSet
  PROVE  /\ Bytes(r)[1] \in 0 .. 255
         /\ Bytes(r)[2] \in 0 .. 255
         /\ Bytes(r)[3] \in 0 .. 255
BY DEF ReportSet, Bytes, Flag

(* The first carries bit 3: the handler takes it for the start of a packet *)
(* in every state.                                                         *)
LEMMA FlagsStart ==
  ASSUME NEW r \in ReportSet
  PROVE  Always1(Bytes(r)[1])
BY DEF ReportSet, Bytes, Flag, Always1, Bit

(* The handler reads the buttons back from it, and no overflow unless the  *)
(* mouse reported one.                                                     *)
LEMMA FlagsAreRead ==
  ASSUME NEW r \in ReportSet, ~r.over
  PROVE  /\ ButtonBits(Bytes(r)[1]) = r.buttons
         /\ ~Overflow(Bytes(r)[1])
BY DEF ReportSet, Bytes, Flag, ButtonBits, Overflow, Bit

(* Clamping ends on the axis.                                              *)
LEMMA ClampInRange ==
  ASSUME NEW v \in Int, NEW m \in Nat
  PROVE  Clamp(v, m) \in 0 .. m
BY DEF Clamp

(* Appending keeps the elements there are and adds one.                    *)
LEMMA AppendShape ==
  ASSUME NEW S, NEW s \in Seq(S), NEW e \in S
  PROVE  /\ Append(s, e) \in Seq(S)
         /\ Len(Append(s, e)) = Len(s) + 1
         /\ \A i \in 1 .. Len(s) : Append(s, e)[i] = s[i]
         /\ Append(s, e)[Len(s) + 1] = e
BY AppendProperties

(* A second element put behind the only one of a sequence.                 *)
LEMMA AppendSecond ==
  ASSUME NEW S, NEW s \in Seq(S), Len(s) = 1, NEW e \in S
  PROVE  Append(s, e) = <<s[1], e>> /\ s[1] \in S
<1> DEFINE t == <<s[1], e>>
<1>1. s[1] \in S
  <2>1. 1 \in 1 .. Len(s)
    OBVIOUS
  <2> QED
    BY <2>1, ElementOfSeq
<1>2. Append(s, e) \in Seq(S)
  BY AppendShape, Zenon
<1>3. Len(Append(s, e)) = Len(s) + 1
  BY AppendShape, Zenon
<1>4. \A i \in 1 .. Len(s) : Append(s, e)[i] = s[i]
  BY AppendShape, SMTT(30)
<1>5. Append(s, e)[Len(s) + 1] = e
  BY AppendShape, Zenon
<1>6. t \in Seq(S)
  BY <1>1
<1>7. Len(t) = 2 /\ Len(Append(s, e)) = 2
  BY <1>3
<1>8. \A i \in 1 .. Len(Append(s, e)) : Append(s, e)[i] = t[i]
  BY <1>4, <1>5, <1>7
<1> HIDE DEF t
<1>9. Append(s, e) = t
  BY <1>2, <1>6, <1>7, <1>8, SeqEqual
<1> QED
  BY <1>1, <1>9 DEF t

(* A third element put behind two.                                         *)
LEMMA AppendThird ==
  ASSUME NEW S, NEW s \in Seq(S), Len(s) = 2, NEW e \in S
  PROVE  /\ s[1] \in S /\ s[2] \in S /\ s # <<>> /\ 2 \in DOMAIN s
         /\ Append(s, e)[1] = s[1] /\ Append(s, e)[2] = s[2]
         /\ Append(s, e)[3] = e
<1>1. 1 \in 1 .. Len(s) /\ 2 \in 1 .. Len(s) /\ DOMAIN s = 1 .. Len(s)
  OBVIOUS
<1>2. s[1] \in S /\ s[2] \in S
  BY <1>1, ElementOfSeq
<1>3. \A i \in 1 .. Len(s) : Append(s, e)[i] = s[i]
  BY ONLY s \in Seq(S), e \in S, AppendShape
<1>4. Append(s, e)[Len(s) + 1] = e
  BY AppendShape, Zenon
<1>5. Append(s, e)[3] = e
  <2>1. Len(s) + 1 = 3
    OBVIOUS
  <2> QED
    BY ONLY <1>4, <2>1, Zenon
<1>6. s # <<>>
  BY EmptySeq
<1> QED
  BY <1>1, <1>2, <1>3, <1>5, <1>6, Zenon

-----------------------------------------------------------------------------
(***************************************************************************)
(* The packet under way, tight: its bytes are those that the mouse sent    *)
(* last, without one missing, all of one report; the next report may have  *)
(* begun.  A packet that is not tight has lost a byte since it started,    *)
(* and that byte has not been counted for an earlier packet.               *)
(***************************************************************************)
InRow == \A k \in DOMAIN origin : origin[k] = <<origin[1][1], origin[1][2] + k - 1>>

UpToNow ==
  \/ origin[1][1] = number /\ origin[1][2] + Len(pkt) - 1 = sent
  \/ origin[1][1] = number - 1 /\ origin[1][2] + Len(pkt) = 4 /\ sent = 0

Tight == InRow /\ UpToNow

Charged == pkt # <<>> => (Tight \/ junk + 1 <= lost)

(* What has been collected of a report of which nothing was lost.          *)
Collected ==
  /\ intact /\ sent = 1 => pkt = <<Bytes(report)[1]>>
  /\ intact /\ sent = 2 /\ ~Always1(Bytes(report)[2]) =>
       pkt = <<Bytes(report)[1], Bytes(report)[2]>>

(***************************************************************************)
(* A coordinate f of the pointer that is v is mended by a step of the call *)
(* when that step stores a value on the axis 0 .. m, or finds v beyond the *)
(* bound it tests.  Fenced: v is on the axis or will be mended, and so is  *)
(* whatever the call has still to store.                                   *)
(***************************************************************************)
IsStore(f, step) == step[1] = f /\ step[2] = "store"

Mends(f, v, m, step) ==
  \/ IsStore(f, step) /\ step[3] \in 0 .. m
  \/ step[1] = f /\ step[2] = "below" /\ v < 0
  \/ step[1] = f /\ step[2] = "above" /\ v > m

Mended(t, f, v, m, n) ==
  v \in 0 .. m \/ \E j \in DOMAIN t : j > n /\ Mends(f, v, m, t[j])

Fenced(t, f, v, m) ==
  /\ Mended(t, f, v, m, 0)
  /\ \A i \in DOMAIN t : IsStore(f, t[i]) => Mended(t, f, t[i][3], m, i)

PointerFenced == Fenced(todo, "x", x, MaxX) /\ Fenced(todo, "y", y, MaxY)

IInv == TypeOK /\ PointerFenced /\ JunkIsBounded /\ Charged /\ Collected

(* The rest of a call, when its first step has been done and neither       *)
(* stored to f nor would have mended it.                                   *)
LEMMA FencedBehind ==
  ASSUME NEW S, NEW t \in Seq(S), t # <<>>, NEW f, NEW v, NEW m,
         Fenced(t, f, v, m), ~IsStore(f, t[1]), ~Mends(f, v, m, t[1])
  PROVE  Fenced(Tail(t), f, v, m)
<1> DEFINE u == Tail(t)
<1>1. /\ DOMAIN u = 1 .. Len(t) - 1 /\ DOMAIN t = 1 .. Len(t) /\ Len(t) \in Nat \ {0}
      /\ \A i \in 1 .. Len(t) - 1 : u[i] = t[i + 1]
  OBVIOUS
<1> HIDE DEF u
<1>2. ASSUME NEW w, NEW n \in Nat, Mended(t, f, w, m, n + 1)
      PROVE  Mended(u, f, w, m, n)
  <2> SUFFICES ASSUME NEW j \in DOMAIN t, j > n + 1, Mends(f, w, m, t[j])
               PROVE  \E k \in DOMAIN u : k > n /\ Mends(f, w, m, u[k])
    BY <1>2 DEF Mended
  <2>1. j - 1 \in DOMAIN u /\ j - 1 > n /\ u[j - 1] = t[j]
    BY <1>1
  <2> QED
    BY <2>1
<1>3. Mended(t, f, v, m, 1)
  <2>1. SUFFICES ASSUME NEW j \in DOMAIN t, j > 0, Mends(f, v, m, t[j])
                 PROVE  j > 1
    BY DEF Fenced, Mended
  <2>2. j # 1
    BY <2>1
  <2> QED
    BY <1>1, <2>1, <2>2
<1>4. Mended(u, f, v, m, 0)
  BY <1>2, <1>3
<1>5. ASSUME NEW i \in DOMAIN u, IsStore(f, u[i])
      PROVE  Mended(u, f, u[i][3], m, i)
  <2>1. i \in Nat /\ i + 1 \in DOMAIN t /\ u[i] = t[i + 1]
    BY <1>1
  <2>2. Mended(t, f, t[i + 1][3], m, i + 1)
    BY <1>5, <2>1 DEF Fenced
  <2> QED
    BY <1>2, <2>1, <2>2
<1> QED
  BY <1>4, <1>5 DEF Fenced, u

(* The rest of a call, when its first step has stored to f.                *)
LEMMA FencedStored ==
  ASSUME NEW S, NEW t \in Seq(S), t # <<>>, NEW f, NEW v, NEW m,
         Fenced(t, f, v, m), IsStore(f, t[1])
  PROVE  Fenced(Tail(t), f, t[1][3], m)
<1> DEFINE u == Tail(t)
<1>1. /\ DOMAIN u = 1 .. Len(t) - 1 /\ DOMAIN t = 1 .. Len(t) /\ Len(t) \in Nat \ {0}
      /\ \A i \in 1 .. Len(t) - 1 : u[i] = t[i + 1]
  OBVIOUS
<1> HIDE DEF u
<1>2. ASSUME NEW n \in Nat, n + 1 \in DOMAIN t, IsStore(f, t[n + 1])
      PROVE  Mended(u, f, t[n + 1][3], m, n)
  <2>1. Mended(t, f, t[n + 1][3], m, n + 1)
    BY <1>2 DEF Fenced
  <2> SUFFICES ASSUME NEW j \in DOMAIN t, j > n + 1, Mends(f, t[n + 1][3], m, t[j])
               PROVE  \E k \in DOMAIN u : k > n /\ Mends(f, t[n + 1][3], m, u[k])
    BY <2>1 DEF Mended
  <2>2. j - 1 \in DOMAIN u /\ j - 1 > n /\ u[j - 1] = t[j]
    BY <1>1
  <2> QED
    BY <2>2
<1>3. Mended(u, f, t[1][3], m, 0)
  <2>1. 0 \in Nat /\ 0 + 1 = 1 /\ 1 \in DOMAIN t
    BY <1>1
  <2> QED
    BY <1>2, <2>1
<1>4. ASSUME NEW i \in DOMAIN u, IsStore(f, u[i])
      PROVE  Mended(u, f, u[i][3], m, i)
  <2>1. i \in Nat /\ i + 1 \in DOMAIN t /\ u[i] = t[i + 1]
    BY <1>1
  <2> QED
    BY <1>2, <1>4, <2>1
<1> QED
  BY <1>3, <1>4 DEF Fenced, u

(* A test that has found a coordinate g beyond becomes the store of the    *)
(* bound: it still mends what it mended.                                   *)
LEMMA FencedFound ==
  ASSUME NEW S, NEW t \in Seq(S), t # <<>>, NEW f, NEW v, NEW m,
         Fenced(t, f, v, m), NEW g, NEW b, t[1][1] = g, g = f => b \in 0 .. m
  PROVE  Fenced([t EXCEPT ![1] = <<g, "store", b>>], f, v, m)
<1> DEFINE u == [t EXCEPT ![1] = <<g, "store", b>>]
<1>1. /\ DOMAIN u = DOMAIN t /\ DOMAIN t = 1 .. Len(t) /\ 1 \in DOMAIN t
      /\ u[1] = <<g, "store", b>>
      /\ \A i \in DOMAIN t : i # 1 => u[i] = t[i]
  OBVIOUS
<1> HIDE DEF u
<1>2. ASSUME NEW w, NEW j \in DOMAIN t, Mends(f, w, m, t[j])
      PROVE  Mends(f, w, m, u[j])
  <2>1. CASE j = 1
    <3>1. g = f
      BY <1>2, <2>1 DEF Mends, IsStore
    <3> QED
      BY <1>1, <2>1, <3>1 DEF Mends, IsStore
  <2>2. CASE j # 1
    BY <1>1, <1>2, <2>2
  <2> QED
    BY <2>1, <2>2
<1>3. ASSUME NEW w, NEW n, Mended(t, f, w, m, n)
      PROVE  Mended(u, f, w, m, n)
  BY <1>1, <1>2, <1>3 DEF Mended
<1>4. ASSUME NEW i \in DOMAIN u, IsStore(f, u[i])
      PROVE  Mended(u, f, u[i][3], m, i)
  <2>1. CASE i = 1
    BY <1>1, <1>4, <2>1 DEF Mended, IsStore
  <2>2. CASE i # 1
    <3>1. u[i] = t[i] /\ i \in DOMAIN t
      BY <1>1, <2>2
    <3>2. Mended(t, f, t[i][3], m, i)
      BY <1>4, <3>1 DEF Fenced
    <3> QED
      BY <1>3, <3>1, <3>2
  <2> QED
    BY <2>1, <2>2
<1> QED
  BY <1>3, <1>4 DEF Fenced, u

(* A coordinate put on the axis by somebody else.                          *)
LEMMA FencedOnAxis ==
  ASSUME NEW t, NEW f, NEW v, NEW m, Fenced(t, f, v, m), NEW w \in 0 .. m
  PROVE  Fenced(t, f, w, m)
BY DEF Fenced, Mended

(* Nothing to do for f: it is on the axis.                                 *)
LEMMA FencedAtRest ==
  ASSUME NEW t, NEW f, NEW v, NEW m, Fenced(t, f, v, m),
         \A i \in DOMAIN t : t[i][1] # f
  PROVE  v \in 0 .. m
BY DEF Fenced, Mended, Mends, IsStore

(* The report under way is one the mouse can send.                         *)
LEMMA ReportIsReport ==
  ASSUME TypeOK
  PROVE  report \in ReportSet
<1>1. Idle \in ReportSet
  BY DEF Idle, ReportSet
<1>2. Reports \subseteq ReportSet
  BY MouseAssumption DEF MouseAssumption
<1>3. report \in Reports \union {Idle}
  BY DEF TypeOK
<1> QED
  BY <1>1, <1>2, <1>3

(* The first byte of a report always starts a packet.                      *)
LEMMA FirstByteStarts ==
  ASSUME TypeOK, sent = 0
  PROVE  Starts(Byte)
BY ReportIsReport, FlagsStart DEF TypeOK, Starts, Byte

(* What arrives is a byte.                                                 *)
LEMMA ByteIsByte ==
  ASSUME TypeOK, sent < 3
  PROVE  Byte \in 0 .. 255 /\ From \in Nat \X (1 .. 3)
<1>1. sent + 1 \in 1 .. 3
  BY DEF TypeOK
<1>2. Byte \in 0 .. 255
  BY <1>1, ReportIsReport, BytesAreBytes DEF Byte
<1>3. From \in Nat \X (1 .. 3)
  BY <1>1 DEF TypeOK, From
<1> QED
  BY <1>2, <1>3

(* The displacement the handler computes is a number.                      *)
LEMMA MoveIsInt ==
  ASSUME TypeOK, NEW p, p[2] \in 0 .. 255, p[3] \in 0 .. 255
  PROVE  MoveX(p) \in Int /\ MoveY(p) \in Int
<1>1. sens[1] \in 1 .. 8 /\ sens[2] \in 1 .. 8
  BY DEF TypeOK
<1>2. Signed(p[2]) \in Int /\ -Signed(p[3]) \in Int
  BY DEF Signed
<1>3. \A a \in Int, n \in 1 .. 8 : Quot(a, n) \in Int
  BY DEF Quot
<1>4. Quot(Signed(p[2]), sens[1]) \in Int /\ Quot(-Signed(p[3]), sens[2]) \in Int
  BY ONLY <1>1, <1>2, <1>3
<1> QED
  BY <1>4 DEF MoveX, MoveY

-----------------------------------------------------------------------------
(* The initial state satisfies the invariant.                              *)
LEMMA InitIInv ==
  ASSUME Init
  PROVE  IInv
<1>1. x \in 0 .. MaxX /\ y \in 0 .. MaxY /\ x \in IntSet /\ y \in IntSet
  BY MouseAssumption DEF MouseAssumption, Init, IntSet
<1>2. TypeOK
  <2>1. sens \in (1 .. 8) \X (1 .. 8)
    BY DEF Init
  <2>2. number \in 0 .. MaxReports /\ calls \in 0 .. MaxCalls
    BY MouseAssumption DEF MouseAssumption, Init
  <2>3. pkt \in Seq(0 .. 255) /\ Len(pkt) = 0 /\ todo \in Seq(Steps)
    BY DEF Init
  <2>4. origin \in Seq(Nat \X (1 .. 3)) /\ Len(origin) = 0
    BY DEF Init
  <2> QED
    BY <1>1, <2>1, <2>2, <2>3, <2>4 DEF Init, TypeOK
<1>3. PointerFenced
  BY <1>1 DEF Init, PointerFenced, Fenced, Mended
<1>4. JunkIsBounded /\ Charged /\ Collected
  BY DEF Init, JunkIsBounded, Charged, Collected
<1> QED
  BY <1>2, <1>3, <1>4 DEF IInv

-----------------------------------------------------------------------------
(* The mouse begins a report.                                              *)
LEMMA SendKeepsIInv ==
  ASSUME IInv, NEW r \in Reports, Send(r)
  PROVE  IInv'
<1> USE DEF IInv
<1>1. TypeOK'
  <2>1. number' \in 0 .. MaxReports
    BY MouseAssumption DEF MouseAssumption, Send, TypeOK
  <2>2. intact' \in BOOLEAN /\ report' \in Reports \union {Idle} /\ sent' \in 0 .. 3
    BY DEF Send
  <2> QED
    BY <2>1, <2>2 DEF Send, TypeOK, pointer, thread
<1>2. PointerFenced' /\ JunkIsBounded'
  BY DEF Send, PointerFenced, JunkIsBounded, pointer, thread
<1>3. Charged'
  <2> SUFFICES ASSUME pkt # <<>>, Tight
               PROVE  Tight'
    BY DEF Send, Charged
  <2>1. InRow'
    BY DEF Send, Tight, InRow
  <2>2. origin[1] \in Nat \X (1 .. 3)
    BY DEF TypeOK
  <2>3. UpToNow'
    BY <2>2, SMTT(30) DEF Send, Tight, UpToNow, TypeOK
  <2> QED
    BY <2>1, <2>3 DEF Tight
<1>4. Collected'
  BY DEF Send, Collected
<1> QED
  BY <1>1, <1>2, <1>3, <1>4

(* A byte is lost: the packet under way may have a gap, and there is one   *)
(* more loss to answer for it.                                             *)
LEMMA LoseKeepsIInv ==
  ASSUME IInv, Lose
  PROVE  IInv'
<1> USE DEF IInv
<1>1. TypeOK'
  <2>1. sent' \in 0 .. 3 /\ lost' \in Nat
    BY DEF Lose, TypeOK
  <2>2. intact' \in BOOLEAN
    BY DEF Lose
  <2> QED
    BY <2>1, <2>2 DEF Lose, TypeOK, pointer, thread
<1>2. PointerFenced'
  BY DEF Lose, PointerFenced, pointer, thread
<1>3. junk' = junk /\ lost' = lost + 1 /\ junk <= lost /\ junk \in Nat /\ lost \in Nat
  BY DEF Lose, JunkIsBounded, TypeOK
<1>4. JunkIsBounded' /\ Charged'
  BY <1>3 DEF JunkIsBounded, Charged
<1>5. Collected'
  BY DEF Lose, Collected
<1> QED
  BY <1>1, <1>2, <1>4, <1>5

(* A byte that cannot start a packet, between packets.                     *)
LEMMA SkipKeepsIInv ==
  ASSUME IInv, Skip
  PROVE  IInv'
<1> USE DEF IInv
<1>1. TypeOK'
  BY DEF Skip, Arrives, TypeOK, pointer, thread
<1>2. PointerFenced' /\ JunkIsBounded'
  BY DEF Skip, Arrives, PointerFenced, JunkIsBounded, pointer, thread
<1>3. Charged'
  BY DEF Skip, Charged
<1>4. Collected'
  <2>1. sent # 0
    BY FirstByteStarts DEF Skip
  <2>2. ~(intact /\ sent = 1)
    BY DEF Skip, Collected
  <2> QED
    BY <2>1, <2>2 DEF Skip, Arrives, Collected, TypeOK
<1> QED
  BY <1>1, <1>2, <1>3, <1>4

(* A byte that starts a packet: whatever was collected is forgotten.       *)
LEMMA StartKeepsIInv ==
  ASSUME IInv, Start
  PROVE  IInv'
<1> USE DEF IInv
<1>1. Byte \in 0 .. 255 /\ From \in Nat \X (1 .. 3)
  BY ByteIsByte DEF Start, Arrives
<1>2. TypeOK'
  BY <1>1 DEF Start, Arrives, TypeOK, pointer, thread
<1>3. PointerFenced' /\ JunkIsBounded'
  BY DEF Start, Arrives, PointerFenced, JunkIsBounded, pointer, thread
<1>4. Charged'
  <2>1. InRow'
    BY DEF Start, From, InRow, TypeOK
  <2>2. UpToNow'
    BY DEF Start, Arrives, From, UpToNow, TypeOK
  <2> QED
    BY <2>1, <2>2 DEF Charged, Tight
<1>5. Collected'
  <2>1. CASE sent = 0
    BY <2>1 DEF Start, Arrives, Byte, Collected
  <2>2. CASE sent = 1
    BY <2>2 DEF Start, Starts, Arrives, Byte, Collected
  <2>3. CASE sent = 2
    BY <2>3 DEF Start, Arrives, Collected
  <2> QED
    BY <2>1, <2>2, <2>3 DEF Start, Arrives, TypeOK
<1> QED
  BY <1>2, <1>3, <1>4, <1>5

(* The second byte of a packet.                                            *)
LEMMA ContinueKeepsIInv ==
  ASSUME IInv, Continue
  PROVE  IInv'
<1> USE DEF IInv
<1>0. /\ pkt' = Append(pkt, Byte) /\ Len(pkt) = 1
      /\ origin' = Append(origin, From) /\ Len(origin) = 1
      /\ pkt \in Seq(0 .. 255) /\ origin \in Seq(Nat \X (1 .. 3))
  BY DEF Continue, TypeOK
<1>1. Byte \in 0 .. 255 /\ From \in Nat \X (1 .. 3)
  BY ByteIsByte DEF Continue, Arrives
<1>2. pkt' = <<pkt[1], Byte>> /\ pkt[1] \in 0 .. 255
  <2> DEFINE B == 0 .. 255
  <2> HIDE DEF B
  <2>1. pkt \in Seq(B) /\ Byte \in B
    BY <1>0, <1>1 DEF B
  <2>2. Append(pkt, Byte) = <<pkt[1], Byte>> /\ pkt[1] \in B
    BY <1>0, <2>1, AppendSecond
  <2> QED
    BY <1>0, <2>2 DEF B
<1>3. origin' = <<origin[1], From>> /\ origin[1] \in Nat \X (1 .. 3)
  BY <1>0, <1>1, AppendSecond
<1>4. TypeOK'
  <2>1. pkt' \in Seq(0 .. 255) /\ Len(pkt') = 2
    BY <1>1, <1>2
  <2>2. origin' \in Seq(Nat \X (1 .. 3)) /\ Len(origin') = 2
    BY <1>1, <1>3
  <2> QED
    BY <2>1, <2>2 DEF Continue, Arrives, TypeOK, pointer, thread
<1>5. PointerFenced' /\ JunkIsBounded'
  BY DEF Continue, Arrives, PointerFenced, JunkIsBounded, pointer, thread
<1>6. sent # 0
  BY FirstByteStarts DEF Continue
<1>7. Charged'
  <2> SUFFICES ASSUME Tight
               PROVE  Tight'
    BY DEF Continue, Arrives, Charged, TypeOK
  <2>0. Len(pkt) = 1 /\ Len(origin) = 1 /\ origin[1] \in Nat \X (1 .. 3)
    BY DEF Continue, TypeOK
  <2>1. origin[1][1] = number /\ origin[1][2] = sent
    BY <1>6, <2>0 DEF Tight, UpToNow, TypeOK
  <2>2. /\ DOMAIN origin' = 1 .. 2
        /\ origin'[1] = origin[1] /\ origin'[2] = From
    BY <1>3
  <2>3. origin[1] = <<number, sent>> /\ From = <<number, sent + 1>>
    BY <2>0, <2>1 DEF From
  <2>4. InRow'
    <3>1. origin'[1] = <<origin'[1][1], origin'[1][2] + 1 - 1>>
      BY <2>2, <2>3 DEF TypeOK
    <3>2. origin'[2] = <<origin'[1][1], origin'[1][2] + 2 - 1>>
      BY <2>2, <2>3 DEF TypeOK
    <3> QED
      BY <2>2, <3>1, <3>2 DEF InRow
  <2>5. UpToNow'
    <3>1. origin'[1][1] = number' /\ origin'[1][2] + 2 - 1 = sent'
      BY <2>2, <2>3 DEF Continue, Arrives, TypeOK
    <3>2. Len(pkt') = 2
      BY <1>2
    <3> QED
      BY <3>1, <3>2 DEF UpToNow
  <2> QED
    BY <2>4, <2>5 DEF Tight
<1>8. Collected'
  <2>1. CASE sent = 1
    <3>1. intact => pkt[1] = Bytes(report)[1]
      BY <2>1 DEF Collected
    <3>2. Byte = Bytes(report)[2]
      BY <2>1 DEF Byte
    <3> QED
      BY <1>2, <2>1, <3>1, <3>2 DEF Continue, Arrives, Collected
  <2>2. CASE sent = 2
    BY <2>2 DEF Continue, Arrives, Collected
  <2> QED
    BY <1>6, <2>1, <2>2 DEF Continue, Arrives, TypeOK
<1> QED
  BY <1>4, <1>5, <1>7, <1>8

(* The third byte: the packet is complete.  Tight, it is a report.         *)
LEMMA CompleteKeepsIInv ==
  ASSUME IInv, Complete
  PROVE  IInv'
<1> DEFINE p == Append(pkt, Byte)
<1> DEFINE o == Append(origin, From)
<1> USE DEF IInv
<1>1. p[1] \in 0 .. 255 /\ p[2] \in 0 .. 255 /\ p[3] \in 0 .. 255 /\ pkt # <<>>
  <2> DEFINE B == 0 .. 255
  <2> HIDE DEF B
  <2>1. Byte \in B
    BY ByteIsByte DEF Complete, Arrives, B
  <2>2. pkt \in Seq(B) /\ Len(pkt) = 2
    BY DEF Complete, TypeOK, B
  <2>3. p[1] \in B /\ p[2] \in B /\ p[3] \in B /\ pkt # <<>>
    BY <2>1, <2>2, AppendThird
  <2> QED
    BY <2>3 DEF B
<1>2. MoveX(p) \in Int /\ MoveY(p) \in Int
  BY <1>1, MoveIsInt
<1> HIDE DEF p
<1>3. /\ \/ x' = x /\ y' = y
         \/ x' \in 0 .. MaxX /\ y' \in 0 .. MaxY
      /\ todo' = todo
  <2>1. x \in Int /\ y \in Int /\ MaxX \in Nat /\ MaxY \in Nat /\ IntMax \in Nat
    BY MouseAssumption DEF MouseAssumption, TypeOK, IntSet
  <2>2. Plus(x, MoveX(p)) \in Int /\ Plus(y, MoveY(p)) \in Int
    BY <1>2, <2>1 DEF Plus
  <2>3. /\ Clamp(Plus(x, MoveX(p)), MaxX) \in 0 .. MaxX
        /\ Clamp(Plus(y, MoveY(p)), MaxY) \in 0 .. MaxY
    BY <2>1, <2>2, ClampInRange
  <2>4. \/ x' = x /\ y' = y
        \/ /\ x' = Clamp(Plus(x, MoveX(p)), MaxX)
           /\ y' = Clamp(Plus(y, MoveY(p)), MaxY)
    BY DEF Complete, pointer, p
  <2> QED
    BY <2>3, <2>4 DEF Complete, Arrives, thread
<1>11. PointerFenced' /\ x' \in IntSet /\ y' \in IntSet
  <2>1. 0 .. MaxX \subseteq IntSet /\ 0 .. MaxY \subseteq IntSet
    BY MouseAssumption DEF MouseAssumption, IntSet
  <2>2. Fenced(todo, "x", x, MaxX) /\ Fenced(todo, "y", y, MaxY)
    BY DEF PointerFenced
  <2>3. Fenced(todo, "x", x', MaxX) /\ Fenced(todo, "y", y', MaxY)
    BY <1>3, <2>2, FencedOnAxis
  <2> QED
    BY <1>3, <2>1, <2>3 DEF PointerFenced, TypeOK
<1>4. buttons' \in 0 .. 7
  <2>1. ButtonBits(p[1]) \in 0 .. 7
    <3>1. \A b \in 0 .. 255 : b % 8 \in 0 .. 7
      OBVIOUS
    <3> QED
      BY <1>1, <3>1 DEF ButtonBits
  <2> QED
    BY <2>1 DEF Complete, pointer, TypeOK, p
<1>5. junk' \in Nat /\ lost' = lost /\ (junk' = junk \/ (junk' = junk + 1 /\ ~Whole(o)))
  BY DEF Complete, Arrives, TypeOK
<1>6. TypeOK'
  BY <1>4, <1>5, <1>11 DEF Complete, Arrives, TypeOK, thread
<1>7. Tight => Whole(o)
  <2> SUFFICES ASSUME Tight
               PROVE  Whole(o)
    OBVIOUS
  <2>1. Len(origin) = 2 /\ origin \in Seq(Nat \X (1 .. 3)) /\ Len(pkt) = 2
    BY DEF Complete, TypeOK
  <2>2. /\ origin[1] \in Nat \X (1 .. 3) /\ 2 \in DOMAIN origin
        /\ o[1] = origin[1] /\ o[2] = origin[2] /\ o[3] = From
    <3>1. From \in Nat \X (1 .. 3)
      BY ByteIsByte DEF Complete, Arrives
    <3> QED
      BY <2>1, <3>1, AppendThird
  <2>3. sent # 0
    BY FirstByteStarts DEF Complete
  <2>4. origin[1][1] = number /\ origin[1][2] + 1 = sent
    BY <2>1, <2>2, <2>3 DEF Tight, UpToNow, TypeOK
  <2>5. origin[1][2] = 1 /\ sent = 2
    BY <2>2, <2>4 DEF Complete, Arrives, TypeOK
  <2>6. origin[2] = <<number, 2>> /\ origin[1] = <<number, 1>>
    <3>1. origin[2] = <<origin[1][1], origin[1][2] + 2 - 1>>
      BY <2>2 DEF Tight, InRow
    <3> QED
      BY <2>2, <2>4, <2>5, <3>1
  <2>7. From = <<number, 3>>
    BY <2>5 DEF From
  <2> QED
    BY <2>2, <2>6, <2>7 DEF Whole
<1> HIDE DEF o
<1>8. JunkIsBounded'
  BY <1>1, <1>5, <1>7 DEF Charged, JunkIsBounded, TypeOK
<1>9. Charged'
  BY DEF Complete, Charged
<1>10. Collected'
  <2>1. sent # 0
    BY FirstByteStarts DEF Complete
  <2>2. ~(intact /\ sent = 1)
    BY DEF Complete, Collected
  <2> QED
    BY <2>1, <2>2 DEF Complete, Arrives, Collected, TypeOK
<1> QED
  BY <1>6, <1>8, <1>9, <1>10, <1>11

-----------------------------------------------------------------------------
(* A call of the thread whose steps mend what they store.                  *)
LEMMA CallKeepsIInv ==
  ASSUME IInv, NEW st \in Seq(Steps), Call(st),
         \A i \in DOMAIN st : IsStore("x", st[i]) => Mended(st, "x", st[i][3], MaxX, i),
         \A i \in DOMAIN st : IsStore("y", st[i]) => Mended(st, "y", st[i][3], MaxY, i)
  PROVE  IInv'
<1> USE DEF IInv
<1>1. TypeOK'
  <2>1. calls' \in 0 .. MaxCalls
    BY MouseAssumption DEF MouseAssumption, Call, TypeOK
  <2> QED
    BY <2>1 DEF Call, TypeOK, device, pointer
<1>2. PointerFenced'
  <2>1. todo = <<>> /\ todo' = st /\ x' = x /\ y' = y
    BY DEF Call, pointer
  <2>2. x \in 0 .. MaxX /\ y \in 0 .. MaxY
    BY <2>1, FencedAtRest DEF PointerFenced
  <2> QED
    BY <2>1, <2>2 DEF PointerFenced, Fenced, Mended
<1>3. JunkIsBounded'
  BY DEF Call, JunkIsBounded
<1>4. Charged'
  BY DEF Call, Charged, Tight, InRow, UpToNow, device
<1>5. Collected'
  BY DEF Call, Collected, device
<1> QED
  BY <1>1, <1>2, <1>3, <1>4, <1>5

(* mouse_set_pos as written: each store is followed by both tests of its   *)
(* coordinate.                                                             *)
LEMMA WrittenIsMended ==
  ASSUME NEW p, p[1] \in IntSet, p[2] \in IntSet, NEW st, st = SetThenClamp(p)
  PROVE  /\ st \in Seq(Steps)
         /\ \A i \in DOMAIN st : IsStore("x", st[i]) => Mended(st, "x", st[i][3], MaxX, i)
         /\ \A i \in DOMAIN st : IsStore("y", st[i]) => Mended(st, "y", st[i][3], MaxY, i)
<1> DEFINE a == p[1]
           b == p[2]
<1>1. /\ a \in IntSet /\ b \in IntSet /\ a \in Int /\ b \in Int
      /\ MaxX \in Nat /\ MaxY \in Nat
  BY MouseAssumption DEF MouseAssumption, IntSet
<1>2. st = << <<"x", "store", a>>, <<"y", "store", b>>,
              <<"x", "below", 0>>, <<"y", "below", 0>>,
              <<"x", "above", MaxX>>, <<"y", "above", MaxY>> >>
  BY DEF SetThenClamp
<1> HIDE DEF a, b
<1>3. st \in Seq(Steps)
  <2>1. /\ <<"x", "store", a>> \in Steps /\ <<"y", "store", b>> \in Steps
        /\ <<"x", "below", 0>> \in Steps /\ <<"y", "below", 0>> \in Steps
        /\ <<"x", "above", MaxX>> \in Steps /\ <<"y", "above", MaxY>> \in Steps
    BY <1>1 DEF Steps
  <2> QED
    BY <1>2, <2>1
<1>4. /\ DOMAIN st = 1 .. 6
      /\ st[1] = <<"x", "store", a>> /\ st[2] = <<"y", "store", b>>
      /\ st[3] = <<"x", "below", 0>> /\ st[4] = <<"y", "below", 0>>
      /\ st[5] = <<"x", "above", MaxX>> /\ st[6] = <<"y", "above", MaxY>>
  BY <1>2
<1>5. Mended(st, "x", a, MaxX, 1)
  <2>1. a < 0 => Mends("x", a, MaxX, st[3])
    BY <1>4 DEF Mends
  <2>2. a > MaxX => Mends("x", a, MaxX, st[5])
    BY <1>4 DEF Mends
  <2>3. 3 \in DOMAIN st /\ 5 \in DOMAIN st /\ 3 > 1 /\ 5 > 1
    BY <1>4
  <2> QED
    BY <1>1, <2>1, <2>2, <2>3 DEF Mended
<1>6. Mended(st, "y", b, MaxY, 2)
  <2>1. b < 0 => Mends("y", b, MaxY, st[4])
    BY <1>4 DEF Mends
  <2>2. b > MaxY => Mends("y", b, MaxY, st[6])
    BY <1>4 DEF Mends
  <2>3. 4 \in DOMAIN st /\ 6 \in DOMAIN st /\ 4 > 2 /\ 6 > 2
    BY <1>4
  <2> QED
    BY <1>1, <2>1, <2>2, <2>3 DEF Mended
<1>7. \A i \in DOMAIN st : IsStore("x", st[i]) => i = 1
  BY <1>4, SMTT(30) DEF IsStore
<1>8. \A i \in DOMAIN st : IsStore("y", st[i]) => i = 2
  BY <1>4, SMTT(30) DEF IsStore
<1>9. st[1][3] = a /\ st[2][3] = b
  BY <1>4
<1> QED
  BY <1>3, <1>5, <1>6, <1>7, <1>8, <1>9

LEMMA SetPosKeepsIInv ==
  ASSUME IInv, NEW p \in Points, mouse_set_pos(p)
  PROVE  IInv'
<1>1. /\ p[1] \in IntSet /\ p[2] \in IntSet /\ p[1] \in Int /\ p[2] \in Int
      /\ MaxX \in Nat /\ MaxY \in Nat
      /\ 0 .. MaxX \subseteq IntSet /\ 0 .. MaxY \subseteq IntSet
  BY MouseAssumption DEF MouseAssumption, IntSet
<1>2. CASE Call(SetThenClamp(p))
  BY <1>1, <1>2, WrittenIsMended, CallKeepsIInv
<1>3. CASE Call(<< <<"x", "store", Clamp(p[1], MaxX)>>,
                   <<"y", "store", Clamp(p[2], MaxY)>> >>)
  <2> DEFINE a == Clamp(p[1], MaxX)
             b == Clamp(p[2], MaxY)
             st == << <<"x", "store", a>>, <<"y", "store", b>> >>
  <2>1. a \in 0 .. MaxX /\ b \in 0 .. MaxY
    BY <1>1, ClampInRange
  <2> HIDE DEF a, b
  <2>2. st \in Seq(Steps)
    <3>1. <<"x", "store", a>> \in Steps /\ <<"y", "store", b>> \in Steps
      BY <1>1, <2>1 DEF Steps
    <3> QED
      BY <3>1
  <2>3. \A i \in DOMAIN st : IsStore("x", st[i]) => st[i][3] \in 0 .. MaxX
    BY <2>1 DEF IsStore
  <2>4. \A i \in DOMAIN st : IsStore("y", st[i]) => st[i][3] \in 0 .. MaxY
    BY <2>1 DEF IsStore
  <2>5. Call(st)
    BY <1>3 DEF a, b
  <2> HIDE DEF st
  <2> QED
    BY <2>2, <2>3, <2>4, <2>5, CallKeepsIInv DEF Mended
<1> QED
  BY <1>2, <1>3 DEF mouse_set_pos

LEMMA SetSensitivityKeepsIInv ==
  ASSUME IInv, NEW sx \in Sens, NEW sy \in Sens, mouse_set_sensitivity(sx, sy)
  PROVE  IInv'
<1> DEFINE a == SensOf(sx)
           b == SensOf(sy)
           st == << <<"sens_x", "store", a>>, <<"sens_y", "store", b>> >>
<1>1. sx \in Int /\ sy \in Int
  BY MouseAssumption DEF MouseAssumption, IntSet
<1>2. a \in 1 .. 8 /\ b \in 1 .. 8
  BY <1>1 DEF SensOf
<1>3. Call(st)
  BY DEF mouse_set_sensitivity
<1> HIDE DEF a, b
<1>4. st \in Seq(Steps)
  <2>1. <<"sens_x", "store", a>> \in Steps /\ <<"sens_y", "store", b>> \in Steps
    BY <1>2 DEF Steps
  <2> QED
    BY <2>1
<1>5. \A i \in DOMAIN st : ~IsStore("x", st[i]) /\ ~IsStore("y", st[i])
  BY DEF IsStore
<1> HIDE DEF st
<1> QED
  BY <1>3, <1>4, <1>5, CallKeepsIInv

(* What the first step of a call is.                                       *)
LEMMA StepIsStep ==
  ASSUME NEW s \in Steps
  PROVE  /\ IsStore("x", s) \/ IsStore("y", s) => s[3] \in IntSet
         /\ s[1] \in {"sens_x", "sens_y"} => s[2] = "store" /\ s[3] \in 1 .. 8
         /\ s[2] # "store" =>
              \/ s[1] \in {"x", "y"} /\ s[2] = "below" /\ s[3] = 0
              \/ s[1] = "x" /\ s[2] = "above" /\ s[3] = MaxX
              \/ s[1] = "y" /\ s[2] = "above" /\ s[3] = MaxY
BY DEF Steps, IsStore

(* One store of the thread, with the packet under way untouched.           *)
LEMMA StoreKeepsIInv ==
  ASSUME IInv, Store
  PROVE  IInv'
<1> DEFINE s == todo[1]
<1> USE DEF IInv
<1>1. /\ s \in Steps /\ Tail(todo) \in Seq(Steps) /\ todo' = Tail(todo)
      /\ todo \in Seq(Steps) /\ todo # <<>> /\ Head(todo) = s
  <2>1. todo \in Seq(Steps) /\ todo # <<>>
    BY DEF Store, TypeOK
  <2>2. Head(todo) = s /\ Head(todo) \in Steps /\ Tail(todo) \in Seq(Steps)
    BY <2>1, HeadTailProperties
  <2> QED
    BY <2>1, <2>2 DEF Store
<1>2. /\ s[2] = "store"
      /\ x' = IF s[1] = "x" THEN s[3] ELSE x
      /\ y' = IF s[1] = "y" THEN s[3] ELSE y
      /\ sens' = << IF s[1] = "sens_x" THEN s[3] ELSE sens[1],
                    IF s[1] = "sens_y" THEN s[3] ELSE sens[2] >>
  BY <1>1 DEF Store
<1> HIDE DEF s
<1>3. /\ s[1] \in {"x", "y"} => s[3] \in IntSet
      /\ s[1] \in {"sens_x", "sens_y"} => s[3] \in 1 .. 8
  BY <1>1, <1>2, StepIsStep DEF IsStore
<1>4. Fenced(todo', "x", x', MaxX)
  <2>0. Fenced(todo, "x", x, MaxX)
    BY DEF PointerFenced
  <2>1. CASE s[1] = "x"
    BY <1>1, <1>2, <2>0, <2>1, FencedStored DEF s, IsStore
  <2>2. CASE s[1] # "x"
    BY <1>1, <1>2, <2>0, <2>2, FencedBehind DEF s, IsStore, Mends
  <2> QED
    BY <2>1, <2>2
<1>5. Fenced(todo', "y", y', MaxY)
  <2>0. Fenced(todo, "y", y, MaxY)
    BY DEF PointerFenced
  <2>1. CASE s[1] = "y"
    BY <1>1, <1>2, <2>0, <2>1, FencedStored DEF s, IsStore
  <2>2. CASE s[1] # "y"
    BY <1>1, <1>2, <2>0, <2>2, FencedBehind DEF s, IsStore, Mends
  <2> QED
    BY <2>1, <2>2
<1>6. sens' \in (1 .. 8) \X (1 .. 8)
  <2>1. sens[1] \in 1 .. 8 /\ sens[2] \in 1 .. 8
    BY DEF TypeOK
  <2> QED
    BY <1>2, <1>3, <2>1
<1>7. x' \in IntSet /\ y' \in IntSet
  BY <1>2, <1>3 DEF TypeOK
<1>8. TypeOK'
  BY <1>1, <1>6, <1>7 DEF Store, TypeOK, device
<1>9. JunkIsBounded'
  BY DEF Store, JunkIsBounded
<1>10. Charged'
  BY DEF Store, Charged, Tight, InRow, UpToNow, device
<1>11. Collected'
  BY DEF Store, Collected, device
<1> QED
  BY <1>4, <1>5, <1>8, <1>9, <1>10, <1>11 DEF PointerFenced

(* One test of the thread: of the coordinate as the handler left it.       *)
LEMMA TestKeepsIInv ==
  ASSUME IInv, Test
  PROVE  IInv'
<1> DEFINE s   == todo[1]
           now == IF s[1] = "x" THEN x ELSE y
           put == [todo EXCEPT ![1] = <<s[1], "store", s[3]>>]
<1> USE DEF IInv
<1>1. /\ s \in Steps /\ Tail(todo) \in Seq(Steps)
      /\ todo \in Seq(Steps) /\ todo # <<>> /\ Head(todo) = s
  <2>1. todo \in Seq(Steps) /\ todo # <<>>
    BY DEF Test, TypeOK
  <2> QED
    BY <2>1, HeadTailProperties
<1>2. /\ s[2] # "store" /\ x' = x /\ y' = y
      /\ todo' = IF Beyond(now, s[2], s[3]) THEN put ELSE Tail(todo)
  BY <1>1 DEF Test, pointer
<1>3. \/ s[1] \in {"x", "y"} /\ s[2] = "below" /\ s[3] = 0
      \/ s[1] = "x" /\ s[2] = "above" /\ s[3] = MaxX
      \/ s[1] = "y" /\ s[2] = "above" /\ s[3] = MaxY
  BY <1>1, <1>2, StepIsStep
<1>4. /\ s[1] = "x" => s[3] \in 0 .. MaxX
      /\ s[1] = "y" => s[3] \in 0 .. MaxY
      /\ s[1] \in {"x", "y"} /\ s[3] \in IntSet
  BY <1>3, MouseAssumption DEF MouseAssumption, IntSet
<1>5. put \in Seq(Steps)
  <2>1. <<s[1], "store", s[3]>> \in Steps
    BY <1>4 DEF Steps
  <2> HIDE DEF s
  <2> QED
    BY <1>1, <2>1
<1> HIDE DEF put
<1>6. todo' \in Seq(Steps)
  BY <1>1, <1>2, <1>5
<1>7. Fenced(todo, "x", x, MaxX) /\ Fenced(todo, "y", y, MaxY)
  BY DEF PointerFenced
<1>8. ASSUME Beyond(now, s[2], s[3])
      PROVE  PointerFenced'
  <2>1. todo' = put
    BY <1>2, <1>8
  <2>2. Fenced(put, "x", x, MaxX)
    BY <1>1, <1>4, <1>7, FencedFound DEF put
  <2>3. Fenced(put, "y", y, MaxY)
    BY <1>1, <1>4, <1>7, FencedFound DEF put
  <2> QED
    BY <1>2, <2>1, <2>2, <2>3 DEF PointerFenced
<1>9. ASSUME ~Beyond(now, s[2], s[3])
      PROVE  PointerFenced'
  <2>1. todo' = Tail(todo)
    BY <1>2, <1>9
  <2>2. ~Mends("x", x, MaxX, s) /\ ~Mends("y", y, MaxY, s)
    BY <1>2, <1>3, <1>9 DEF Beyond, Mends, IsStore
  <2>3. ~IsStore("x", s) /\ ~IsStore("y", s)
    BY <1>2 DEF IsStore
  <2>4. Fenced(Tail(todo), "x", x, MaxX) /\ Fenced(Tail(todo), "y", y, MaxY)
    BY <1>1, <1>7, <2>2, <2>3, FencedBehind
  <2> QED
    BY <1>2, <2>1, <2>4 DEF PointerFenced
<1>10. PointerFenced'
  BY <1>8, <1>9
<1>11. TypeOK'
  BY <1>6 DEF Test, TypeOK, device, pointer
<1>12. JunkIsBounded'
  BY DEF Test, JunkIsBounded
<1>13. Charged'
  BY DEF Test, Charged, Tight, InRow, UpToNow, device
<1>14. Collected'
  BY DEF Test, Collected, device
<1> QED
  BY <1>10, <1>11, <1>12, <1>13, <1>14

(* A step that changes nothing.                                            *)
LEMMA StutterKeepsIInv ==
  ASSUME IInv, UNCHANGED vars
  PROVE  IInv'
<1> USE DEF IInv, vars, device, pointer, thread
<1>1. TypeOK'
  BY DEF TypeOK
<1>2. PointerFenced' /\ JunkIsBounded'
  BY DEF PointerFenced, JunkIsBounded
<1>3. Charged' /\ Collected'
  BY DEF Charged, Tight, InRow, UpToNow, Collected
<1> QED
  BY <1>1, <1>2, <1>3

-----------------------------------------------------------------------------
(***************************************************************************)
(* The invariant of the driver: types, the pointer on the screen or to be  *)
(* mended by the call under way, junk bounded by losses, and what this     *)
(* needs of the packet under way.                                          *)
(***************************************************************************)
THEOREM MouseInvariant == Spec => []IInv
<1>1. Init => IInv
  BY InitIInv
<1>2. IInv /\ [Next]_vars => IInv'
  <2> SUFFICES ASSUME IInv, [Next]_vars
               PROVE  IInv'
    OBVIOUS
  <2>1. CASE \E r \in Reports : Send(r)
    BY <2>1, SendKeepsIInv
  <2>2. CASE Lose
    BY <2>2, LoseKeepsIInv
  <2>3. CASE MouseIRQ
    BY <2>3, SkipKeepsIInv, StartKeepsIInv, ContinueKeepsIInv, CompleteKeepsIInv
       DEF MouseIRQ
  <2>4. CASE \E p \in Points : mouse_set_pos(p)
    BY <2>4, SetPosKeepsIInv
  <2>5. CASE \E sx, sy \in Sens : mouse_set_sensitivity(sx, sy)
    BY <2>5, SetSensitivityKeepsIInv
  <2>6. CASE Store
    BY <2>6, StoreKeepsIInv
  <2>7. CASE Test
    BY <2>7, TestKeepsIInv
  <2>8. CASE UNCHANGED vars
    BY <2>8, StutterKeepsIInv
  <2> QED
    BY <2>1, <2>2, <2>3, <2>4, <2>5, <2>6, <2>7, <2>8 DEF Next
<1> QED
  BY <1>1, <1>2, PTL DEF Spec

(* The types of mouse.c's state hold at every step of the driver.          *)
THEOREM MouseTypes == Spec => []TypeOK
<1>1. IInv => TypeOK
  BY DEF IInv
<1> QED
  BY <1>1, MouseInvariant, PTL

(* Whenever no mouse_set_pos is under way the pointer of mouse.c is on the *)
(* screen, whatever was asked for and however the interrupt handler came   *)
(* between the raw stores, the tests and the corrections of the calls.     *)
THEOREM PointerStaysOnScreen == Spec => []PointerOnScreen
<1>1. IInv => PointerOnScreen
  <2> SUFFICES ASSUME IInv, ~InSetPos
               PROVE  OnScreen
    BY DEF PointerOnScreen
  <2>1. /\ \A i \in DOMAIN todo : todo[i][1] # "x"
        /\ \A i \in DOMAIN todo : todo[i][1] # "y"
    BY DEF InSetPos
  <2> QED
    BY <2>1, FencedAtRest DEF IInv, PointerFenced, OnScreen
<1> QED
  BY <1>1, MouseInvariant, PTL

(* mouse_handler accepts at most one packet that the mouse did not send    *)
(* for each byte lost: none when nothing is lost.                          *)
THEOREM JunkNeedsLoss == Spec => []JunkIsBounded
<1>1. IInv => JunkIsBounded
  BY DEF IInv
<1> QED
  BY <1>1, MouseInvariant, PTL

-----------------------------------------------------------------------------
(* The third byte of a clear report completes the packet of that report.   *)
LEMMA ClearReportCompletes ==
  ASSUME IInv, [Next]_vars, LastByteArrives, Clear(report)
  PROVE  /\ buttons' = report.buttons
         /\ x' = Clamp(Plus(x, MoveX(Bytes(report))), MaxX)
         /\ y' = Clamp(Plus(y, MoveY(Bytes(report))), MaxY)
<1> DEFINE p == Append(pkt, Byte)
<1> USE DEF IInv
<1>1. MouseIRQ
  <2>1. sent' # sent /\ sent # 3
    BY DEF LastByteArrives
  <2>2. ~(\E r \in Reports : Send(r)) /\ ~Lose
    BY <2>1 DEF Send, Lose, LastByteArrives
  <2>3. ~Store /\ ~Test /\ \A st : ~Call(st)
    BY <2>1 DEF Store, Test, Call, device
  <2>4. /\ ~\E q \in Points : mouse_set_pos(q)
        /\ ~\E sx, sy \in Sens : mouse_set_sensitivity(sx, sy)
    BY <2>3 DEF mouse_set_pos, mouse_set_sensitivity
  <2>5. ~UNCHANGED vars
    BY <2>1 DEF vars, device
  <2> QED
    BY <2>2, <2>3, <2>4, <2>5 DEF Next
<1>2. intact
  BY <1>1 DEF MouseIRQ, Skip, Start, Continue, Complete, Arrives, LastByteArrives
<1>3. pkt = <<Bytes(report)[1], Bytes(report)[2]>>
  BY <1>2 DEF Collected, LastByteArrives, Clear
<1>4. Byte = Bytes(report)[3] /\ ~Starts(Byte)
  BY DEF LastByteArrives, Byte, Clear, Starts
<1>5. Len(pkt) = 2 /\ pkt # <<>>
  BY <1>3
<1>6. Complete
  BY <1>1, <1>4, <1>5 DEF MouseIRQ, Skip, Start, Continue
<1>7. /\ p[1] = Bytes(report)[1]
      /\ p[2] = Bytes(report)[2]
      /\ p[3] = Bytes(report)[3]
  BY <1>3, <1>4
<1>8. ~Overflow(p[1]) /\ ButtonBits(p[1]) = report.buttons
  <2>1. report \in ReportSet /\ ~report.over
    BY ReportIsReport DEF Clear
  <2> QED
    BY <1>7, <2>1, FlagsAreRead
<1>9. MoveX(p) = MoveX(Bytes(report)) /\ MoveY(p) = MoveY(Bytes(report))
  BY <1>7 DEF MoveX, MoveY
<1>10. /\ buttons' = ButtonBits(p[1])
       /\ x' = Clamp(Plus(x, MoveX(p)), MaxX)
       /\ y' = Clamp(Plus(y, MoveY(p)), MaxY)
  BY <1>6, <1>8 DEF Complete
<1> QED
  BY <1>8, <1>9, <1>10

(* One clear report whose bytes all arrive is taken by mouse_handler,      *)
(* whatever state lost bytes have left it in.                              *)
THEOREM ClearReportsGetThrough == Spec => ClearReportsAreTaken
<1>1. IInv /\ [Next]_vars =>
        [LastByteArrives /\ Clear(report) =>
           /\ buttons' = report.buttons
           /\ x' = Clamp(Plus(x, MoveX(Bytes(report))), MaxX)
           /\ y' = Clamp(Plus(y, MoveY(Bytes(report))), MaxY)]_vars
  BY ClearReportCompletes
<1> QED
  BY <1>1, MouseInvariant, PTL DEF Spec, ClearReportsAreTaken


-----------------------------------------------------------------------------
(* The set-up of the driver: what the lines of Script say.                 *)
Rates == {13, 15, 17, 22, 24}
Arguments == {14, 16, 18, 23, 25}
Flushes == {1, 3, 12, 21, 28, 31}

LEMMA ScriptIsLong == Len(Script) = 33 /\ Len(Dialogue) = 29
BY DEF Script, Dialogue, FailPath, Rate

LEMMA Places == FailAt = 30 /\ Done = 34
BY ScriptIsLong DEF FailAt, Done

(* The line says: do d with w, and on failure e.                           *)
Says(d, w, e) == Line.do = d /\ Line.what = w /\ Line.else = e

LEMMA LineIs ==
  ASSUME at \in 1 .. 34, at # Done
  PROVE  /\ at \in 1 .. 33
         /\ \/ at \in Flushes /\ Says("flush", "none", "none")
            \/ at = 2 /\ Says("ctl", "enable_aux", "fail")
            \/ at = 4 /\ Says("ctl", "read_cfg", "fail")
            \/ at = 5 /\ Says("read", "cfg", "fail")
            \/ at = 6 /\ Says("ctl", "write_cfg_off", "fail")
            \/ at = 7 /\ Says("ctl", "test_aux", "fail")
            \/ at = 8 /\ Says("read", "test", "fail")
            \/ at = 9 /\ Says("cmd", "reset", "fail")
            \/ at = 10 /\ Says("read", "selftest", "fail")
            \/ at \in {11, 20} /\ Says("read", "any", "fail")
            \/ at \in Rates /\ Says("cmd", "rate", "skip")
            \/ at \in Arguments /\ Says("cmd", "argument", "next")
            \/ at = 19 /\ Says("cmd", "get_id", "fail")
            \/ at = 26 /\ Says("ctl", "write_cfg_on", "fail")
            \/ at = 27 /\ Says("cmd", "enable", "fail")
            \/ at = 29 /\ Says("ready", "none", "none")
            \/ at = 30 /\ Says("cmd", "disable", "next")
            \/ at = 32 /\ Says("ctl", "write_cfg_off", "next")
            \/ at = 33 /\ Says("masked", "none", "none")
<1> DEFINE T(d, w, e) == Script[at] = L(d, w, e)
<1>0. at \in 1 .. 33
  BY Places
<1>1. ASSUME at \in Flushes PROVE T("flush", "none", "none")
  BY <1>1 DEF Script, Dialogue, FailPath, Rate, Flushes
<1>2. /\ at = 2 => T("ctl", "enable_aux", "fail")
      /\ at = 4 => T("ctl", "read_cfg", "fail")
      /\ at = 5 => T("read", "cfg", "fail")
      /\ at = 6 => T("ctl", "write_cfg_off", "fail")
      /\ at = 7 => T("ctl", "test_aux", "fail")
      /\ at = 8 => T("read", "test", "fail")
      /\ at = 9 => T("cmd", "reset", "fail")
      /\ at = 10 => T("read", "selftest", "fail")
      /\ at \in {11, 20} => T("read", "any", "fail")
  BY DEF Script, Dialogue, FailPath, Rate
<1>3. ASSUME at \in Rates PROVE T("cmd", "rate", "skip")
  BY <1>3 DEF Script, Dialogue, FailPath, Rate, Rates
<1>4. ASSUME at \in Arguments PROVE T("cmd", "argument", "next")
  BY <1>4 DEF Script, Dialogue, FailPath, Rate, Arguments
<1>5. /\ at = 19 => T("cmd", "get_id", "fail")
      /\ at = 26 => T("ctl", "write_cfg_on", "fail")
      /\ at = 27 => T("cmd", "enable", "fail")
      /\ at = 29 => T("ready", "none", "none")
      /\ at = 30 => T("cmd", "disable", "next")
      /\ at = 32 => T("ctl", "write_cfg_off", "next")
      /\ at = 33 => T("masked", "none", "none")
  BY DEF Script, Dialogue, FailPath, Rate
<1>6. \A d, w, e : T(d, w, e) => Says(d, w, e)
  BY DEF Says, Line, L
<1>7. at \in Flushes \union Rates \union Arguments \union {11, 20}
        \/ at \in {2, 4, 5, 6, 7, 8, 9, 10, 19, 26, 27, 29, 30, 32, 33}
  BY <1>0 DEF Flushes, Rates, Arguments
<1> HIDE DEF T
<1> QED
  BY <1>0, <1>1, <1>2, <1>3, <1>4, <1>5, <1>6, <1>7

(* Where a failure leads: to the fail path, past both halves of a rate, or *)
(* on.                                                                     *)
LEMMA FailsTo ==
  ASSUME at \in 1 .. 34, at # Done, Line.do \in {"ctl", "cmd", "read"}, Failed
  PROVE  /\ asked' = FALSE
         /\ \/ at' = 30
            \/ at \in Rates /\ at' = at + 2
            \/ at \in Arguments \union {30, 32} /\ at' = at + 1
<1>1. Line.else = "fail" => at' = 30
  BY Places DEF Failed, GoTo
<1>2. Line.else = "skip" => at' = at + 2
  BY DEF Failed, GoTo
<1>3. Line.else = "next" => at' = at + 1
  BY DEF Failed, GoTo
<1>4. asked' = FALSE
  BY DEF Failed, GoTo
<1> QED
  BY <1>1, <1>2, <1>3, <1>4, LineIs DEF Says

-----------------------------------------------------------------------------
(* The bits of the command byte that write_cfg touches, and those it does  *)
(* not.                                                                    *)
LEMMA BitsOff ==
  ASSUME NEW b \in Nat
  PROVE  /\ Off(b, AuxIrq) \in Nat /\ Off(b, AuxClockOff) \in Nat
         /\ Bit(Off(b, AuxIrq), KbdIrq) = Bit(b, KbdIrq)
         /\ Bit(Off(b, AuxClockOff), KbdIrq) = Bit(b, KbdIrq)
         /\ Bit(Off(b, AuxClockOff), AuxIrq) = Bit(b, AuxIrq)
BY DEF Off, Bit, AuxIrq, AuxClockOff, KbdIrq

LEMMA BitsOn ==
  ASSUME NEW b \in Nat
  PROVE  /\ On(b, AuxIrq) \in Nat
         /\ Bit(On(b, AuxIrq), KbdIrq) = Bit(b, KbdIrq)
         /\ Bit(On(b, AuxIrq), AuxIrq)
BY DEF On, Bit, AuxIrq, KbdIrq

LEMMA ConfigBits ==
  ASSUME cfg \in Nat
  PROVE  /\ ConfigOff \in Nat /\ ConfigOn \in Nat
         /\ Bit(cfg, KbdIrq) => Bit(ConfigOff, KbdIrq) /\ Bit(ConfigOn, KbdIrq)
         /\ Bit(ConfigOn, AuxIrq)
BY BitsOff, BitsOn DEF ConfigOff, ConfigOn

-----------------------------------------------------------------------------
(***************************************************************************)
(* While no byte has come unasked or too late, the bytes on their way are  *)
(* replies to the command that is out, or to the one before the line:      *)
(* never more than it is owed.  The first is the ACK if the command was    *)
(* taken; a mouse that refuses sends one byte.                             *)
(***************************************************************************)
Pending == Len(out) + Len(coming)

First == IF out # <<>> THEN Head(out) ELSE Head(coming)

Due ==
  IF asked THEN (IF at = 9 THEN 3 ELSE IF at = 19 THEN 2 ELSE 1)
  ELSE IF at = 10 THEN 2 ELSE IF at \in {5, 8, 11, 20} THEN 1 ELSE 0

SetupTypes ==
  /\ at \in 1 .. 34 /\ cfg \in Nat /\ command \in Nat
  /\ asked \in BOOLEAN /\ ready \in BOOLEAN /\ masked \in BOOLEAN
  /\ reports \in BOOLEAN /\ stale \in BOOLEAN /\ known \in BOOLEAN
  /\ coming \in Seq(Nat) /\ out \in Seq(Nat)
  /\ asked => at \in Rates \union Arguments \union {9, 19, 27, 30}

RepliesAreDue ==
  ~stale /\ at < 30 =>
    /\ Pending <= Due
    /\ Pending > 0 =>
         /\ asked /\ First # ACK => Pending = 1
         /\ at = 5 => First = command
         /\ asked /\ at = 27 /\ First = ACK => reports

(* What has been done by a line.                                           *)
DoneSoFar ==
  /\ at <= 5 => command \in Configs /\ ~known
  /\ at \in 27 .. 29 => Bit(command, AuxIrq)
  /\ ~stale /\ at \in {28, 29} => reports
  /\ ready => at = 34

SetupInv ==
  /\ SetupTypes /\ RepliesAreDue /\ DoneSoFar
  /\ known => Bit(cfg, KbdIrq) /\ Bit(command, KbdIrq)
  /\ ReadyMeansReporting

(* Sequences of bytes.                                                     *)
LEMMA SeqsOfBytes ==
  ASSUME NEW s \in Seq(Nat)
  PROVE  /\ Len(s) \in Nat /\ (Len(s) = 0 <=> s = <<>>)
         /\ s # <<>> => /\ Head(s) \in Nat /\ Tail(s) \in Seq(Nat)
                        /\ Len(Tail(s)) = Len(s) - 1
<1>1. Len(s) \in Nat
  BY LenProperties
<1>2. Len(s) = 0 <=> s = <<>>
  BY EmptySeq
<1>3. s # <<>> => /\ Head(s) \in Nat /\ Tail(s) \in Seq(Nat)
                  /\ Len(Tail(s)) = Len(s) - 1
  BY HeadTailProperties
<1> QED
  BY <1>1, <1>2, <1>3

(* What is sent to a driver for which nothing else is on its way.          *)
LEMMA QueuedAlone ==
  ASSUME coming = <<>>, NEW r \in Seq(Nat), r # <<>>
  PROVE  /\ Queued(r) \in Seq(Nat) /\ Len(Queued(r)) <= Len(r)
         /\ Queued(r) # <<>> => Head(Queued(r)) = r[1]
<1>0. Room \in Nat
  BY SetupAssumption DEF SetupAssumption
<1>1. coming \o r = r
  BY ConcatEmptySeq
<1>2. CASE Len(r) > Room
  <2> DEFINE q == SubSeq(r, 1, Room)
  <2>1. Queued(r) = q
    BY <1>1, <1>2 DEF Queued
  <2>2. q \in Seq(Nat) /\ Len(q) = Room /\ \A i \in 1 .. Room : q[i] = r[i]
    BY <1>0, <1>2
  <2> HIDE DEF q
  <2>3. q # <<>> => Head(q) = r[1]
    <3>1. q # <<>> => Len(q) # 0 /\ Head(q) = q[1]
      BY <2>2, EmptySeq
    <3> QED
      BY <1>0, <2>2, <3>1
  <2> QED
    BY <1>2, <2>1, <2>2, <2>3
<1>3. CASE ~(Len(r) > Room)
  BY <1>1, <1>3 DEF Queued
<1> QED
  BY <1>2, <1>3

(* In any case bytes are added behind those there are.                     *)
LEMMA QueuedIs ==
  ASSUME coming \in Seq(Nat), NEW r \in Seq(Nat)
  PROVE  Queued(r) \in Seq(Nat)
<1>0. Room \in Nat
  BY SetupAssumption DEF SetupAssumption
<1> DEFINE q == coming \o r
<1>1. q \in Seq(Nat)
  OBVIOUS
<1> HIDE DEF q
<1>2. Len(q) > Room => SubSeq(q, 1, Room) \in Seq(Nat)
  BY <1>0, <1>1
<1> QED
  BY <1>1, <1>2 DEF Queued, q

-----------------------------------------------------------------------------
(* The invariant holds when mouse_init starts.                             *)
LEMMA SetupInitInv ==
  ASSUME SetupInit
  PROVE  SetupInv
<1>1. command \in Configs /\ command \in Nat
  BY SetupAssumption DEF SetupAssumption, SetupInit
<1>2. SetupTypes
  <2>1. at \in 1 .. 34 /\ cfg \in Nat /\ coming \in Seq(Nat) /\ out \in Seq(Nat)
    BY DEF SetupInit
  <2> QED
    BY <1>1, <2>1, Zenon DEF SetupInit, SetupTypes
<1>3. Pending = 0
  BY DEF SetupInit, Pending
<1>4. RepliesAreDue
  BY <1>3 DEF SetupInit, RepliesAreDue, Due
<1>5. DoneSoFar
  BY <1>1 DEF SetupInit, DoneSoFar
<1> QED
  BY <1>2, <1>4, <1>5 DEF SetupInit, SetupInv, ReadyMeansReporting

(* What no reply is owed for, nothing is on its way for.                   *)
LEMMA NothingDue ==
  ASSUME SetupInv, ~stale, at < 30, Due = 0
  PROVE  out = <<>> /\ coming = <<>>
<1>1. Pending <= 0
  BY DEF SetupInv, RepliesAreDue
<1>2. Len(out) = 0 /\ Len(coming) = 0
  BY <1>1, SeqsOfBytes DEF SetupInv, SetupTypes, Pending
<1> QED
  BY <1>2, SeqsOfBytes DEF SetupInv, SetupTypes

(* The hardware: a reply that arrives was on its way; a byte that nobody   *)
(* asked for makes what is on its way doubtful.                            *)
LEMMA ArriveKeeps ==
  ASSUME SetupInv, Arrive
  PROVE  SetupInv'
<1> USE DEF SetupInv
<1>0. /\ out' = <<Head(coming)>> /\ coming' = Tail(coming)
      /\ out = <<>> /\ coming # <<>> /\ UNCHANGED <<driver, command, reports, stale, known>>
  BY DEF Arrive
<1>1. Head(coming) \in Nat /\ Tail(coming) \in Seq(Nat) /\ Len(Tail(coming)) = Len(coming) - 1
  BY <1>0, SeqsOfBytes DEF SetupTypes
<1>2. SetupTypes'
  <2>1. out' \in Seq(Nat) /\ coming' \in Seq(Nat)
    BY <1>0, <1>1
  <2> QED
    BY <1>0, <2>1 DEF SetupTypes, driver
<1>3. Pending' = Pending /\ First' = First /\ Due' = Due
  <2>1. Len(out') = 1 /\ Len(out) = 0 /\ Len(coming') = Len(coming) - 1 /\ Len(coming) \in Nat
    BY <1>0, <1>1, SeqsOfBytes DEF SetupTypes
  <2>2. First' = Head(out') /\ Head(out') = Head(coming) /\ First = Head(coming)
    BY <1>0 DEF First
  <2> QED
    BY <1>0, <2>1, <2>2 DEF Pending, Due, driver
<1>4. RepliesAreDue'
  BY <1>0, <1>3 DEF RepliesAreDue, driver
<1> QED
  BY <1>0, <1>2, <1>4 DEF DoneSoFar, ReadyMeansReporting, driver

LEMMA StrayByteKeeps ==
  ASSUME SetupInv, NEW b \in Stray, StrayByte(b)
  PROVE  SetupInv'
<1> USE DEF SetupInv
<1>1. b \in Nat
  BY SetupAssumption DEF SetupAssumption
<1>2. SetupTypes'
  BY <1>1 DEF StrayByte, SetupTypes, driver
<1>3. RepliesAreDue' /\ DoneSoFar' /\ ReadyMeansReporting'
  BY DEF StrayByte, RepliesAreDue, DoneSoFar, ReadyMeansReporting, driver
<1> QED
  BY <1>2, <1>3 DEF StrayByte, driver

-----------------------------------------------------------------------------
(* A failure with nothing on its way leads to a line where nothing is      *)
(* owed.                                                                   *)
LEMMA FailKeeps ==
  ASSUME SetupInv, at # Done, Line.do \in {"ctl", "cmd", "read"}, Failed,
         coming' \in Seq(Nat), out' \in Seq(Nat),
         stale' \in BOOLEAN, stale => stale',
         ~stale' /\ at < 30 => out' = <<>> /\ coming' = <<>>,
         UNCHANGED <<ready, masked, command, reports>>,
         \/ UNCHANGED <<cfg, known>>
         \/ at = 5 /\ UNCHANGED cfg /\ known' = FALSE
  PROVE  SetupInv'
<1> USE DEF SetupInv
<1>1. /\ asked' = FALSE /\ at \in 1 .. 33
      /\ \/ at' = 30
         \/ at \in Rates /\ at' = at + 2
         \/ at \in Arguments \union {30, 32} /\ at' = at + 1
  BY FailsTo, LineIs DEF SetupTypes
<1>2. /\ at' < 30 => at < 30
      /\ at' \in 1 .. 34 /\ at' > 5 /\ at' \notin 27 .. 29
  <2>1. CASE at' = 30
    BY <2>1
  <2>2. CASE at \in Rates /\ at' = at + 2
    BY <2>2 DEF Rates
  <2>3. CASE at \in Arguments \union {30, 32} /\ at' = at + 1
    BY <2>3 DEF Arguments
  <2> QED
    BY <1>1, <2>1, <2>2, <2>3
<1>3. SetupTypes'
  BY <1>1, <1>2 DEF SetupTypes
<1>4. RepliesAreDue'
  <2> SUFFICES ASSUME ~stale', at' < 30
               PROVE  Pending' <= Due' /\ ~(Pending' > 0)
    BY DEF RepliesAreDue
  <2>1. Pending' = 0
    BY <1>2 DEF Pending
  <2>2. Due' \in Nat
    BY <1>1 DEF Due
  <2> QED
    BY <2>1, <2>2
<1>5. ~ready
  BY <1>1 DEF DoneSoFar
<1> QED
  BY <1>2, <1>3, <1>4, <1>5 DEF DoneSoFar, ReadyMeansReporting

(* Whoever gives up before sending, or waits in vain, leaves nothing on    *)
(* its way, or what comes is too late.                                     *)
LEMMA BusyKeeps ==
  ASSUME SetupInv, Busy
  PROVE  SetupInv'
<1>1. at \in 1 .. 33 /\ Line.do \in {"ctl", "cmd"} /\ ~asked /\ Failed
  BY LineIs DEF Busy, SetupInv, SetupTypes
<1>2. ~stale /\ at < 30 => out = <<>> /\ coming = <<>>
  <2>1. at \notin {5, 8, 10, 11, 20}
    BY <1>1, LineIs
       DEF Busy, SetupInv, SetupTypes, Says, Rates, Arguments, Flushes
  <2> QED
    BY <1>1, <2>1, NothingDue DEF Due
<1> QED
  BY <1>1, <1>2, FailKeeps DEF Busy, port, SetupInv, SetupTypes

LEMMA TimeoutKeeps ==
  ASSUME SetupInv, Timeout
  PROVE  SetupInv'
<1>1. Line.do \in {"read", "cmd"}
  <2>1. asked => Line.do = "cmd"
    BY LineIs DEF Timeout, SetupInv, SetupTypes, Says, Rates, Arguments, Flushes
  <2> QED
    BY <2>1 DEF Timeout
<1> QED
  BY <1>1, FailKeeps DEF Timeout, port, SetupInv, SetupTypes

-----------------------------------------------------------------------------
(* Commands to the controller: only two lines send for a reply, of one     *)
(* byte, and the byte that the first gets is the command byte.             *)
LEMMA NextIs ==
  ASSUME NextLine
  PROVE  at' = at + 1 /\ asked' = FALSE
BY DEF NextLine, GoTo

LEMMA CtlKeeps ==
  ASSUME SetupInv, Ctl
  PROVE  SetupInv'
<1> USE DEF SetupInv
<1>0. /\ at' = at + 1 /\ asked' = FALSE /\ at \in 1 .. 33 /\ Line.do = "ctl"
      /\ UNCHANGED <<ready, masked, reports, out, stale, known>>
  BY NextIs, LineIs DEF Ctl, SetupTypes
<1>1. \/ at = 2 /\ Line.what = "enable_aux"
      \/ at = 4 /\ Line.what = "read_cfg"
      \/ at \in {6, 32} /\ Line.what = "write_cfg_off"
      \/ at = 7 /\ Line.what = "test_aux"
      \/ at = 26 /\ Line.what = "write_cfg_on"
  BY <1>0, LineIs DEF Ctl, SetupTypes, Says
<1>2. ~asked
  BY <1>1 DEF SetupTypes, Rates, Arguments
<1>3. ~stale /\ at < 30 => out = <<>> /\ coming = <<>>
  BY <1>1, <1>2, NothingDue DEF Due
<1>4. /\ Line.what = "write_cfg_off" => cfg' = ConfigOff /\ command' = ConfigOff
      /\ Line.what = "write_cfg_on" => cfg' = ConfigOn /\ command' = ConfigOn
      /\ Line.what \in {"enable_aux", "read_cfg", "test_aux"} =>
           cfg' = cfg /\ command' = command
  BY DEF Ctl
<1>5. cfg' \in Nat /\ command' \in Nat
  BY <1>1, <1>4, ConfigBits DEF SetupTypes
<1>6. PICK ok \in BOOLEAN :
        coming' = CASE Line.what = "read_cfg" -> Queued(<<command>>)
                    [] Line.what = "test_aux" ->
                         Queued(<<IF ok THEN AuxOK ELSE AuxOK + 1>>)
                    [] OTHER -> coming
  BY DEF Ctl
<1>7. PICK r \in Nat :
        /\ coming' = coming \/ coming' = Queued(<<r>>)
        /\ at \notin {4, 7} => coming' = coming
        /\ at = 4 => r = command
  <2>1. CASE at = 4
    BY <1>1, <1>6, <2>1 DEF SetupTypes
  <2>2. CASE at = 7
    <3>1. (IF ok THEN AuxOK ELSE AuxOK + 1) \in Nat
      BY DEF AuxOK
    <3> QED
      BY <1>1, <1>6, <2>2, <3>1
  <2>3. CASE at \notin {4, 7}
    BY <1>1, <1>6, <2>3
  <2> QED
    BY <2>1, <2>2, <2>3
<1>8. coming' \in Seq(Nat)
  <2>1. <<r>> \in Seq(Nat)
    OBVIOUS
  <2>2. Queued(<<r>>) \in Seq(Nat)
    BY <2>1, QueuedIs DEF SetupTypes
  <2> QED
    BY <1>7, <2>2 DEF SetupTypes
<1>9. SetupTypes'
  <2>1. at' \in 1 .. 34
    BY <1>0
  <2> QED
    BY <1>0, <1>5, <1>8, <2>1, Zenon DEF SetupTypes
<1>10. RepliesAreDue'
  <2> SUFFICES ASSUME ~stale', at' < 30
               PROVE  /\ Pending' <= Due'
                      /\ Pending' > 0 => (at' = 5 => First' = command')
    BY <1>0 DEF RepliesAreDue
  <2>1. out' = <<>> /\ coming = <<>>
    BY <1>0, <1>3
  <2>2. CASE at \notin {4, 7}
    <3>1. coming' = <<>>
      BY <1>7, <2>1, <2>2
    <3>2. Pending' = 0
      BY <2>1, <3>1 DEF Pending
    <3> QED
      BY <1>0, <3>2 DEF Due
  <2>3. CASE at \in {4, 7}
    <3>1. Len(coming') <= 1 /\ (coming' # <<>> => Head(coming') = r)
      <4>1. <<r>> \in Seq(Nat) /\ <<r>> # <<>> /\ Len(<<r>>) = 1 /\ <<r>>[1] = r
        OBVIOUS
      <4>2. /\ Len(Queued(<<r>>)) <= 1
            /\ Queued(<<r>>) # <<>> => Head(Queued(<<r>>)) = r
        BY <2>1, <4>1, QueuedAlone
      <4>3. Len(coming) = 0
        BY <2>1
      <4> QED
        BY <1>7, <2>1, <4>2, <4>3
    <3>2. Len(coming') \in Nat /\ (Len(coming') = 0 <=> coming' = <<>>)
      BY <1>8, SeqsOfBytes
    <3>3. Pending' = Len(coming') /\ First' = Head(coming')
      BY <2>1, <3>2 DEF Pending, First
    <3>4. Due' = 1
      BY <1>0, <2>3 DEF Due
    <3>5. at = 4 => command' = command
      BY <1>1, <1>4
    <3> QED
      BY <1>0, <1>7, <3>1, <3>2, <3>3, <3>4, <3>5
  <2> QED
    BY <2>2, <2>3
<1>11. known' => Bit(cfg', KbdIrq) /\ Bit(command', KbdIrq)
  <2>1. CASE at \in {6, 26, 32}
    BY <1>0, <1>1, <1>4, <2>1, ConfigBits DEF SetupTypes
  <2>2. CASE at \notin {6, 26, 32}
    BY <1>0, <1>1, <1>4, <2>2
  <2> QED
    BY <2>1, <2>2
<1>12. at' <= 5 => command' \in Configs /\ ~known'
  BY <1>0, <1>1, <1>4 DEF DoneSoFar
<1>13. at' \in 27 .. 29 => Bit(command', AuxIrq)
  <2>1. at = 26 => command' = ConfigOn
    BY <1>1, <1>4
  <2>2. at' \in 27 .. 29 => at = 26
    BY <1>0, <1>1
  <2> QED
    BY <2>1, <2>2, ConfigBits DEF SetupTypes
<1>14. ~ready /\ at' \notin {28, 29}
  BY <1>0, <1>1 DEF DoneSoFar
<1> QED
  BY <1>0, <1>9, <1>10, <1>11, <1>12, <1>13, <1>14 DEF DoneSoFar, ReadyMeansReporting

(* A byte is read: one less is owed.                                       *)
LEMMA ReadKeeps ==
  ASSUME SetupInv, Read
  PROVE  SetupInv'
<1> USE DEF SetupInv
<1>0. /\ at # Done /\ at \in 1 .. 33 /\ Line.do = "read" /\ out # <<>>
      /\ out' = Tail(out) /\ coming' = coming
      /\ UNCHANGED <<ready, masked, command, reports, stale>>
  BY LineIs DEF Read, SetupTypes
<1>1. \/ at = 5 /\ Line.what = "cfg"
      \/ at = 8 /\ Line.what = "test"
      \/ at = 10 /\ Line.what = "selftest"
      \/ at \in {11, 20} /\ Line.what = "any"
  BY <1>0, LineIs DEF SetupTypes, Says
<1>2. ~asked
  BY <1>1 DEF SetupTypes, Rates, Arguments
<1>3. /\ Head(out) \in Nat /\ Tail(out) \in Seq(Nat)
      /\ Len(Tail(out)) = Len(out) - 1 /\ Len(out) \in Nat /\ Len(coming) \in Nat
  BY <1>0, SeqsOfBytes DEF SetupTypes
<1>4. Pending' = Pending - 1 /\ Pending > 0 /\ First = Head(out)
  <2>1. Len(out) # 0
    BY <1>0, SeqsOfBytes DEF SetupTypes
  <2> QED
    BY <1>0, <1>3, <2>1 DEF Pending, First
<1>5. ~stale /\ at < 30 => Pending' <= Due - 1
  BY <1>3, <1>4 DEF RepliesAreDue, Pending, Due
<1>6. /\ at = 5 => cfg' = Head(out) /\ known' = ~stale
      /\ at # 5 => cfg' = cfg /\ known' = known
  BY <1>1 DEF Read
<1>7. known' => Bit(cfg', KbdIrq) /\ Bit(command', KbdIrq)
  <2>1. CASE at = 5
    <3>1. ~stale => cfg' = command
      BY <1>4, <1>6, <2>1 DEF RepliesAreDue
    <3>2. command \in Configs
      BY <2>1 DEF DoneSoFar
    <3>3. Bit(command, KbdIrq)
      BY <3>2, SetupAssumption DEF SetupAssumption
    <3> QED
      BY <1>0, <1>6, <2>1, <3>1, <3>3
  <2>2. CASE at # 5
    BY <1>0, <1>6, <2>2
  <2> QED
    BY <2>1, <2>2
<1>8. \/ at' = at + 1 \/ at' = 30
  <2>1. NextLine => at' = at + 1
    BY NextIs
  <2>2. ASSUME Failed PROVE at' = 30
    <3>1. \/ at' = 30
          \/ at \in Rates /\ at' = at + 2
          \/ at \in Arguments \union {30, 32} /\ at' = at + 1
      BY <1>0, <2>2, FailsTo DEF SetupTypes
    <3> QED
      BY <1>1, <3>1 DEF Rates, Arguments
  <2> QED
    BY <2>1, <2>2 DEF Read
<1>9. asked' = FALSE
  BY <1>0, NextIs, FailsTo DEF Read, SetupTypes
<1>10. SetupTypes'
  <2>1. at' \in 1 .. 34
    <3>1. at \in 1 .. 33
      BY <1>0, Zenon
    <3> QED
      BY ONLY <1>8, <3>1
  <2>2. cfg' \in Nat
    BY <1>3, <1>6 DEF SetupTypes
  <2>3. known' \in BOOLEAN
    BY <1>6 DEF SetupTypes
  <2> QED
    BY <1>0, <1>3, <1>9, <2>1, <2>3, <2>2, Zenon DEF SetupTypes
<1>11. RepliesAreDue'
  <2> SUFFICES ASSUME ~stale', at' < 30
               PROVE  Pending' <= Due' /\ at' # 5
    BY <1>9 DEF RepliesAreDue
  <2>1. Pending' <= Due - 1
    BY <1>0, <1>1, <1>5
  <2>2. Due' = IF at = 10 THEN 1 ELSE 0
    BY <1>1, <1>8, <1>9 DEF Due
  <2>3. Due = IF at = 10 THEN 2 ELSE 1
    BY <1>1, <1>2 DEF Due
  <2>4. Pending' \in Int
    BY <1>3, <1>4 DEF Pending
  <2> QED
    BY <1>1, <1>8, <2>1, <2>2, <2>3, <2>4
<1>12. ~ready /\ at' \notin 27 .. 29 /\ ~(at' <= 5)
  BY <1>1, <1>8 DEF DoneSoFar
<1> QED
  BY <1>0, <1>7, <1>10, <1>11, <1>12 DEF DoneSoFar, ReadyMeansReporting

(* A flush finds nothing that is owed to anybody.                          *)
LEMMA FlushKeeps ==
  ASSUME SetupInv, Flush
  PROVE  SetupInv'
<1> USE DEF SetupInv
<1>0. /\ at' = at + 1 /\ asked' = FALSE /\ at \in 1 .. 33 /\ at \in Flushes
      /\ out' = <<>>
      /\ UNCHANGED <<cfg, ready, masked, command, reports, stale, known>>
  BY NextIs, LineIs DEF Flush, SetupTypes, Says
<1>1. ~asked
  BY <1>0 DEF SetupTypes, Rates, Arguments, Flushes
<1>2. ~stale /\ at < 30 => out = <<>> /\ coming = <<>>
  BY <1>0, <1>1, NothingDue DEF Due, Flushes
<1>3. PICK n \in 0 .. Len(coming) : coming' = SubSeq(coming, n + 1, Len(coming))
  BY DEF Flush
<1>4. /\ coming' \in Seq(Nat)
      /\ coming = <<>> => coming' = <<>>
  <2>1. Len(coming) \in Nat
    BY SeqsOfBytes DEF SetupTypes
  <2>2. coming' \in Seq(Nat) /\ Len(coming') = Len(coming) - n
    BY <1>3, <2>1 DEF SetupTypes
  <2>3. coming = <<>> => Len(coming') = 0
    BY <2>1, <2>2
  <2> QED
    BY <2>2, <2>3, SeqsOfBytes
<1>5. SetupTypes'
  <2>1. at' \in 1 .. 34 /\ out' \in Seq(Nat)
    BY <1>0
  <2> QED
    BY <1>0, <1>4, <2>1, Zenon DEF SetupTypes
<1>6. RepliesAreDue'
  <2> SUFFICES ASSUME ~stale', at' < 30
               PROVE  Pending' = 0 /\ Due' = 0
    BY <1>0 DEF RepliesAreDue
  <2>1. Pending' = 0
    BY <1>0, <1>2, <1>4 DEF Pending
  <2> QED
    BY <1>0, <2>1 DEF Due, Flushes
<1>7. DoneSoFar'
  BY <1>0 DEF DoneSoFar, Flushes
<1>8. ~ready
  BY <1>0 DEF DoneSoFar
<1> QED
  BY <1>0, <1>5, <1>6, <1>7, <1>8 DEF ReadyMeansReporting

-----------------------------------------------------------------------------
(* mouse_cmd sends a command.                                              *)
LEMMA ReplyIs ==
  ASSUME SetupTypes, at # Done, Line.do = "cmd"
  PROVE  /\ at \in Rates \union Arguments \union {9, 19, 27, 30}
         /\ Reply(Line.what) \in Seq(Nat) /\ Reply(Line.what) # <<>>
         /\ Reply(Line.what)[1] = ACK
         /\ Len(Reply(Line.what)) = IF at = 9 THEN 3 ELSE IF at = 19 THEN 2 ELSE 1
<1>1. \/ at = 9 /\ Line.what = "reset"
      \/ at = 19 /\ Line.what = "get_id"
      \/ at \in Rates /\ Line.what = "rate"
      \/ at \in Arguments /\ Line.what = "argument"
      \/ at = 27 /\ Line.what = "enable"
      \/ at = 30 /\ Line.what = "disable"
  BY LineIs DEF SetupTypes, Says
<1>2. CASE at = 9
  <2>1. Line.what = "reset"
    BY <1>1, <1>2 DEF Rates, Arguments
  <2>2. Reply(Line.what) = <<ACK, SelfTestOK, 0>>
    BY <2>1 DEF Reply
  <2> QED
    BY <1>2, <2>2 DEF ACK, SelfTestOK
<1>3. CASE at = 19
  <2>1. Line.what = "get_id"
    BY <1>1, <1>3 DEF Rates, Arguments
  <2>2. Reply(Line.what) = <<ACK, 0>>
    BY <2>1 DEF Reply
  <2> QED
    BY <1>3, <2>2 DEF ACK
<1>4. CASE at \notin {9, 19}
  <2>1. Line.what \in {"rate", "argument", "enable", "disable"}
    BY <1>1, <1>4
  <2>2. Reply(Line.what) = <<ACK>>
    BY <2>1 DEF Reply
  <2> QED
    BY <1>1, <1>4, <2>2 DEF ACK
<1> QED
  BY <1>2, <1>3, <1>4

LEMMA CommandKeeps ==
  ASSUME SetupInv, Command
  PROVE  SetupInv'
<1> USE DEF SetupInv
<1>0. /\ at # Done /\ Line.do = "cmd" /\ ~asked /\ asked' = TRUE
      /\ UNCHANGED <<at, cfg, ready, masked, command, out, stale, known>>
  BY DEF Command
<1>1. at \in Rates \union Arguments \union {9, 19, 27, 30}
  BY <1>0, ReplyIs DEF SetupTypes
<1>2. ~stale /\ at < 30 => out = <<>> /\ coming = <<>>
  BY <1>0, <1>1, NothingDue DEF Due, Rates, Arguments
<1>3. \/ /\ coming' = Queued(Reply(Line.what))
         /\ reports' = CASE Line.what = "enable" -> TRUE
                         [] Line.what \in {"reset", "disable"} -> FALSE
                         [] OTHER -> reports
      \/ coming' \in {coming, Queued(<<RESEND>>)} /\ reports' = reports
  BY DEF Command
<1>4. coming' \in Seq(Nat)
  <2>1. Queued(Reply(Line.what)) \in Seq(Nat)
    BY <1>0, ReplyIs, QueuedIs DEF SetupTypes
  <2>2. <<RESEND>> \in Seq(Nat)
    BY DEF RESEND
  <2>3. Queued(<<RESEND>>) \in Seq(Nat)
    BY <2>2, QueuedIs DEF SetupTypes
  <2> QED
    BY <1>3, <2>1, <2>3 DEF SetupTypes
<1>5. reports' \in BOOLEAN
  BY <1>3 DEF SetupTypes
<1>6. SetupTypes'
  BY <1>0, <1>1, <1>4, <1>5, Zenon DEF SetupTypes
<1>7. RepliesAreDue'
  <2> SUFFICES ASSUME ~stale', at' < 30
               PROVE  /\ Pending' <= Due'
                      /\ Pending' > 0 =>
                           /\ First' # ACK => Pending' = 1
                           /\ at' = 27 /\ First' = ACK => reports'
    BY <1>0, <1>1 DEF RepliesAreDue, Rates, Arguments
  <2>1. out' = <<>> /\ coming = <<>>
    BY <1>0, <1>2
  <2>2. Len(coming') \in Nat /\ (Len(coming') = 0 <=> coming' = <<>>)
    BY <1>4, SeqsOfBytes
  <2>3. Pending' = Len(coming') /\ First' = Head(coming')
    BY <2>1, <2>2 DEF Pending, First
  <2>4. Due' = IF at = 9 THEN 3 ELSE IF at = 19 THEN 2 ELSE 1
    BY <1>0 DEF Due
  <2>5. CASE coming' = Queued(Reply(Line.what)) /\ (at = 27 => reports')
    <3>1. Len(coming') <= Due' /\ (coming' # <<>> => Head(coming') = ACK)
      BY <1>0, <2>1, <2>4, <2>5, ReplyIs, QueuedAlone
    <3> QED
      BY <1>0, <2>2, <2>3, <2>5, <3>1
  <2>6. CASE coming' = coming
    BY <2>1, <2>2, <2>3, <2>4, <2>6
  <2>7. CASE coming' = Queued(<<RESEND>>)
    <3>1. <<RESEND>> \in Seq(Nat) /\ <<RESEND>> # <<>> /\ Len(<<RESEND>>) = 1
          /\ <<RESEND>>[1] = RESEND
      BY DEF RESEND
    <3>2. Len(coming') <= 1 /\ (coming' # <<>> => Head(coming') = RESEND)
      BY <2>1, <2>7, <3>1, QueuedAlone
    <3>3. RESEND # ACK
      BY DEF RESEND, ACK
    <3> QED
      BY <2>2, <2>3, <2>4, <3>2, <3>3
  <2>8. at = 27 => Line.what = "enable"
    BY <1>0, LineIs DEF SetupTypes, Says, Rates, Arguments, Flushes
  <2> QED
    BY <1>3, <2>5, <2>6, <2>7, <2>8
<1>8. at \notin {28, 29} /\ ~ready
  BY <1>1 DEF DoneSoFar, Rates, Arguments
<1> QED
  BY <1>0, <1>6, <1>7, <1>8 DEF DoneSoFar, ReadyMeansReporting

(* The answer.                                                             *)
LEMMA AnswerKeeps ==
  ASSUME SetupInv, Answer
  PROVE  SetupInv'
<1> USE DEF SetupInv
<1>0. /\ at # Done /\ asked /\ out # <<>> /\ out' = Tail(out) /\ coming' = coming
      /\ UNCHANGED <<cfg, ready, masked, command, reports, stale, known>>
  BY DEF Answer
<1>1. at \in Rates \union Arguments \union {9, 19, 27, 30}
  BY <1>0 DEF SetupTypes
<1>2. Line.do = "cmd"
  BY <1>0, <1>1, LineIs DEF SetupTypes, Says, Rates, Arguments, Flushes
<1>3. /\ Tail(out) \in Seq(Nat) /\ Len(Tail(out)) = Len(out) - 1
      /\ Len(out) \in Nat /\ Len(coming) \in Nat /\ Len(out) # 0
  BY <1>0, SeqsOfBytes DEF SetupTypes
<1>4. Pending' = Pending - 1 /\ Pending > 0 /\ Pending \in Nat /\ First = Head(out)
  BY <1>0, <1>3 DEF Pending, First
<1>5. Due = IF at = 9 THEN 3 ELSE IF at = 19 THEN 2 ELSE 1
  BY <1>0 DEF Due
<1>6. ~ready /\ ~(at <= 5)
  BY <1>1 DEF DoneSoFar, Rates, Arguments
<1>7. CASE Agreed(Head(out))
  <2>1. at' = at + 1 /\ asked' = FALSE
    BY <1>7, NextIs DEF Answer
  <2>2. SetupTypes'
    <3>1. at' \in 1 .. 34
      BY <1>1, <2>1 DEF Rates, Arguments
    <3> QED
      BY <1>0, <1>3, <2>1, <3>1, Zenon DEF SetupTypes
  <2>3. RepliesAreDue'
    <3> SUFFICES ASSUME ~stale', at' < 30
                 PROVE  Pending' <= Due' /\ at' # 5
      BY <2>1 DEF RepliesAreDue
    <3>1. Pending <= Due
      BY <1>0, <1>1, <2>1 DEF RepliesAreDue, Rates, Arguments
    <3>2. Due' = IF at = 9 THEN 2 ELSE IF at = 19 THEN 1 ELSE 0
      BY <1>1, <2>1 DEF Due, Rates, Arguments
    <3> QED
      BY <1>1, <1>4, <1>5, <2>1, <3>1, <3>2 DEF Rates, Arguments
  <2>4. at' \in 27 .. 29 => at = 27 /\ at' = 28
    BY <1>1, <2>1 DEF Rates, Arguments
  <2>5. ~stale /\ at = 27 => reports
    BY <1>0, <1>4, <1>7 DEF RepliesAreDue, Agreed
  <2>6. DoneSoFar'
    BY <1>0, <1>1, <1>6, <2>1, <2>4, <2>5 DEF DoneSoFar, Rates, Arguments
  <2> QED
    BY <1>0, <1>6, <2>2, <2>3, <2>6 DEF ReadyMeansReporting
<1>8. CASE ~Agreed(Head(out)) /\ Head(out) = RESEND /\ tries > 1
  <2>1. at' = at /\ asked' = FALSE
    BY <1>8 DEF Answer
  <2>2. SetupTypes'
    BY <1>0, <1>3, <2>1, Zenon DEF SetupTypes
  <2>3. RepliesAreDue'
    <3> SUFFICES ASSUME ~stale', at' < 30
                 PROVE  Pending' <= Due' /\ at' # 5
      BY <2>1 DEF RepliesAreDue
    <3>1. Pending = 1
      BY <1>0, <1>4, <1>8, <2>1 DEF RepliesAreDue, Agreed
    <3>2. Due' \in Nat
      BY <2>1 DEF Due
    <3> QED
      BY <1>4, <1>6, <2>1, <3>1, <3>2
  <2>4. at \notin {28, 29}
    BY <1>1 DEF Rates, Arguments
  <2> QED
    BY <1>0, <1>6, <2>1, <2>2, <2>3, <2>4 DEF DoneSoFar, ReadyMeansReporting
<1>9. CASE ~Agreed(Head(out)) /\ ~(Head(out) = RESEND /\ tries > 1)
  <2>1. Failed
    BY <1>9 DEF Answer
  <2>2. ~stale /\ at < 30 => out' = <<>> /\ coming' = <<>>
    <3> SUFFICES ASSUME ~stale, at < 30
                 PROVE  out' = <<>> /\ coming' = <<>>
      OBVIOUS
    <3>1. Pending = 1
      BY <1>0, <1>4, <1>9 DEF RepliesAreDue, Agreed
    <3>2. Len(Tail(out)) = 0 /\ Len(coming) = 0
      BY <1>3, <3>1 DEF Pending
    <3> QED
      BY <1>0, <1>3, <3>2, SeqsOfBytes DEF SetupTypes
  <2> QED
    BY <1>0, <1>2, <1>3, <2>1, <2>2, FailKeeps DEF SetupTypes
<1> QED
  BY <1>7, <1>8, <1>9

-----------------------------------------------------------------------------
(* The ends of mouse_init.                                                 *)
LEMMA EndKeeps ==
  ASSUME SetupInv, Ready \/ Masked
  PROVE  SetupInv'
<1> USE DEF SetupInv
<1>0. /\ at' = 34 /\ asked' = FALSE
      /\ UNCHANGED <<cfg, command, reports, coming, out, stale, known>>
      /\ at # Done /\ at \in 1 .. 33
      /\ \/ ready' = TRUE /\ masked' = FALSE /\ Line.do = "ready"
         \/ ready' = FALSE /\ masked' = TRUE
  BY Places, LineIs DEF Ready, Masked, GoTo, port, SetupTypes
<1>1. SetupTypes'
  <2>1. at' \in 1 .. 34
    BY <1>0
  <2>2. ready' \in BOOLEAN /\ masked' \in BOOLEAN
    BY <1>0, Zenon
  <2> QED
    BY <1>0, <2>1, <2>2, Zenon DEF SetupTypes
<1>2. RepliesAreDue' /\ DoneSoFar'
  BY <1>0 DEF RepliesAreDue, DoneSoFar
<1>3. Line.do = "ready" => at = 29
  BY <1>0, LineIs DEF SetupTypes, Says
<1>4. ReadyMeansReporting'
  BY <1>0, <1>3 DEF DoneSoFar, ReadyMeansReporting
<1> QED
  BY <1>0, <1>1, <1>2, <1>4

LEMMA SetupStutterKeeps ==
  ASSUME SetupInv, UNCHANGED setup
  PROVE  SetupInv'
<1>1. /\ UNCHANGED <<at, asked, cfg, ready, masked, command, reports>>
      /\ UNCHANGED <<coming, out, stale, known>>
  BY DEF setup, driver, port
<1>2. Pending' = Pending /\ First' = First /\ Due' = Due
  BY <1>1 DEF Pending, First, Due
<1>3. SetupTypes' /\ DoneSoFar' /\ ReadyMeansReporting'
  BY <1>1 DEF SetupInv, SetupTypes, DoneSoFar, ReadyMeansReporting
<1>4. RepliesAreDue'
  BY <1>1, <1>2 DEF SetupInv, RepliesAreDue
<1> QED
  BY <1>1, <1>3, <1>4 DEF SetupInv

-----------------------------------------------------------------------------
(***************************************************************************)
(* The invariant of the set-up, through mouse_init and whatever follows.   *)
(***************************************************************************)
THEOREM SetupInvariant == PortSpec => []SetupInv
<1>1. PortInit => SetupInv
  BY SetupInitInv DEF PortInit
<1>2. SetupInv /\ [SettingUp \/ Running]_<<vars, setup>> => SetupInv'
  <2> SUFFICES ASSUME SetupInv, [SettingUp \/ Running]_<<vars, setup>>
               PROVE  SetupInv'
    OBVIOUS
  <2>1. CASE SetupNext
    BY <2>1, BusyKeeps, TimeoutKeeps, CtlKeeps, ReadKeeps, FlushKeeps,
       CommandKeeps, AnswerKeeps, EndKeeps, ArriveKeeps, StrayByteKeeps
       DEF SetupNext, DriverStep
  <2>2. CASE UNCHANGED setup
    BY <2>2, SetupStutterKeeps
  <2> QED
    BY <2>1, <2>2 DEF SettingUp, Running
<1> QED
  BY <1>1, <1>2, PTL DEF PortSpec

(* When mouse_init reports success, the mouse is enabled, the controller   *)
(* passes its interrupt on, and the line is open, whatever was refused,    *)
(* lost or late, unless a byte that was no reply was taken for one.        *)
THEOREM ReadyIsReporting == PortSpec => []ReadyMeansReporting
<1>1. SetupInv => ReadyMeansReporting
  BY DEF SetupInv
<1> QED
  BY <1>1, SetupInvariant, PTL

(* mouse_init leaves the keyboard's interrupt on once it has read the      *)
(* command byte, on its fail path too.                                     *)
THEOREM KeyboardStaysOn == PortSpec => []KeyboardIsKept
<1>1. SetupInv => KeyboardIsKept
  BY DEF SetupInv, KeyboardIsKept
<1> QED
  BY <1>1, SetupInvariant, PTL

(* From the start of the kernel on, with mouse_init before it, the handler *)
(* does what Mouse says: the theorems about Spec hold of the whole driver. *)
THEOREM PortImplementsMouse == PortSpec => Spec
<1>1. PortInit => Init
  BY DEF PortInit
<1>2. [SettingUp \/ Running]_<<vars, setup>> => [Next]_vars
  BY DEF SettingUp, Running
<1> QED
  BY <1>1, <1>2, PTL DEF PortSpec, Spec
=============================================================================
