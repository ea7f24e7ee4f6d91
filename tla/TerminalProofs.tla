--------------------------- MODULE TerminalProofs ---------------------------
(***************************************************************************)
(* What the terminal keeps.  The rings of the keyboard driver are queues,  *)
(* for every size of the rings, every set of codes and however the handler *)
(* interrupts the thread: first what the index arithmetic does, then one   *)
(* ring, then the driver's steps.  On a screen of any size the line that   *)
(* is typed, the mouse cursor and the shapes a program draws are what they *)
(* should be.                                                              *)
(***************************************************************************)
EXTENDS Keyboard, Video, SequenceTheorems, FiniteSetTheorems, WellFoundedInduction, TLAPS

LEMMA Modulo ==
  ASSUME NEW n \in Nat \ {0}, NEW a \in Int
  PROVE  /\ 0 <= a /\ a < n => a % n = a
         /\ n <= a /\ a < n + n => a % n = a - n
         /\ -n <= a /\ a < 0 => a % n = a + n
OBVIOUS

LEMMA IncIs ==
  ASSUME NEW n \in Nat \ {0, 1}, NEW i \in 0 .. n - 1
  PROVE  Inc(i, n) = IF i = n - 1 THEN 0 ELSE i + 1
<1>1. CASE i = n - 1
  <2>1. (i + 1) % n = i + 1 - n
    BY <1>1, Modulo
  <2>2. QED
    BY <1>1, <2>1 DEF Inc
<1>2. CASE i # n - 1
  <2>1. i + 1 \in Int /\ 0 <= i + 1 /\ i + 1 < n
    BY <1>2
  <2>2. (i + 1) % n = i + 1
    BY <2>1, Modulo
  <2>3. QED
    BY <1>2, <2>2 DEF Inc
<1>3. QED
  BY <1>1, <1>2

-----------------------------------------------------------------------------
(* The number of events queued, and where they are.                        *)
Count(r, n) == IF r.head >= r.tail THEN r.head - r.tail ELSE r.head - r.tail + n

Slot(r, n, i) == IF r.tail + i - 1 < n THEN r.tail + i - 1 ELSE r.tail + i - 1 - n

LEMMA QueuedIs ==
  ASSUME NEW n \in Nat \ {0, 1}, NEW S, NEW r \in Ring(n, S)
  PROVE  /\ Count(r, n) \in 0 .. n - 1
         /\ \A i \in 1 .. Count(r, n) : Slot(r, n, i) \in 0 .. n - 1
         /\ Queued(r, n) \in Seq(S \union {None})
         /\ Len(Queued(r, n)) = Count(r, n)
         /\ \A i \in 1 .. Count(r, n) : Queued(r, n)[i] = r.buf[Slot(r, n, i)]
<1>1. r.head \in 0 .. n - 1 /\ r.tail \in 0 .. n - 1 /\ n \in Nat \ {0}
  BY DEF Ring
<1>2. Count(r, n) \in 0 .. n - 1 /\ (r.head - r.tail) % n = Count(r, n)
  <2>1. CASE r.head >= r.tail
    <3>1. r.head - r.tail \in Int /\ 0 <= r.head - r.tail /\ r.head - r.tail < n
      BY <1>1, <2>1
    <3>2. (r.head - r.tail) % n = r.head - r.tail
      BY <1>1, <3>1, Modulo
    <3>3. QED
      BY <1>1, <2>1, <3>1, <3>2 DEF Count
  <2>2. CASE ~(r.head >= r.tail)
    <3>1. r.head - r.tail \in Int /\ -n <= r.head - r.tail /\ r.head - r.tail < 0
      BY <1>1, <2>2
    <3>2. (r.head - r.tail) % n = r.head - r.tail + n
      BY <1>1, <3>1, Modulo
    <3>3. QED
      BY <1>1, <2>2, <3>1, <3>2 DEF Count
  <2>3. QED
    BY <2>1, <2>2
<1>3. ASSUME NEW i \in 1 .. Count(r, n)
      PROVE  /\ Slot(r, n, i) \in 0 .. n - 1
             /\ (r.tail + i - 1) % n = Slot(r, n, i)
  <2>1. r.tail + i - 1 \in Int /\ 0 <= r.tail + i - 1 /\ r.tail + i - 1 < n + n
    BY <1>1, <1>2
  <2>2. CASE r.tail + i - 1 < n
    <3>1. (r.tail + i - 1) % n = r.tail + i - 1
      BY <1>1, <2>1, <2>2, Modulo
    <3>2. QED
      BY <1>1, <2>1, <2>2, <3>1 DEF Slot
  <2>3. CASE ~(r.tail + i - 1 < n)
    <3>1. (r.tail + i - 1) % n = r.tail + i - 1 - n
      BY <1>1, <2>1, <2>3, Modulo
    <3>2. QED
      BY <1>1, <2>1, <2>3, <3>1 DEF Slot
  <2>4. QED
    BY <2>2, <2>3
<1>4. \A i \in 1 .. Count(r, n) :
        r.buf[(r.tail + i - 1) % n] = r.buf[Slot(r, n, i)] /\ r.buf[Slot(r, n, i)] \in S \union {None}
  BY <1>3 DEF Ring
<1>5. Queued(r, n) = [i \in 1 .. Count(r, n) |-> r.buf[(r.tail + i - 1) % n]]
  BY <1>2 DEF Queued
<1>6. Queued(r, n) \in [1 .. Count(r, n) -> S \union {None}]
  BY <1>4, <1>5
<1>7. Queued(r, n) \in Seq(S \union {None}) /\ Len(Queued(r, n)) = Count(r, n)
  BY <1>2, <1>6
<1>8. QED
  BY <1>2, <1>3, <1>4, <1>5, <1>7

LEMMA EmptyQueued ==
  ASSUME NEW n \in Nat \ {0, 1}, NEW S, NEW r \in Ring(n, S), ~NonEmpty(r)
  PROVE  Queued(r, n) = <<>>
<1>1. Count(r, n) = 0
  BY DEF NonEmpty, Count, Ring
<1>2. Queued(r, n) \in Seq(S \union {None}) /\ Len(Queued(r, n)) = 0
  BY <1>1, QueuedIs
<1>3. QED
  BY <1>2, EmptySeq

(* A ring that is full drops the event; another takes it at the end.       *)
LEMMA PutFull ==
  ASSUME NEW n \in Nat \ {0, 1}, NEW S, NEW r \in Ring(n, S), NEW e \in S,
         Inc(r.head, n) = r.tail
  PROVE  PutIn(r, n, e) = r /\ Len(Queued(r, n)) = n - 1
<1>1. r.head \in 0 .. n - 1 /\ r.tail \in 0 .. n - 1
  BY DEF Ring
<1>2. Count(r, n) = n - 1
  BY <1>1, IncIs DEF Count
<1>3. QED
  BY <1>2, QueuedIs DEF PutIn

LEMMA PutRing ==
  ASSUME NEW n \in Nat \ {0, 1}, NEW S, NEW r \in Ring(n, S), NEW e \in S
  PROVE  /\ PutIn(r, n, e) \in Ring(n, S)
         /\ PutIn(r, n, e).tail = r.tail
         /\ NonEmpty(r) => /\ NonEmpty(PutIn(r, n, e))
                           /\ PutIn(r, n, e).buf[r.tail] = r.buf[r.tail]
<1>1. /\ r.head \in 0 .. n - 1 /\ r.tail \in 0 .. n - 1
      /\ r.buf \in [0 .. n - 1 -> S \union {None}]
  BY DEF Ring
<1>2. Inc(r.head, n) \in 0 .. n - 1
  BY <1>1, IncIs
<1>3. QED
  BY <1>1, <1>2 DEF Ring, PutIn, NonEmpty

LEMMA PutQueued ==
  ASSUME NEW n \in Nat \ {0, 1}, NEW S, NEW r \in Ring(n, S), NEW e \in S,
         Inc(r.head, n) # r.tail
  PROVE  /\ Queued(PutIn(r, n, e), n) = Append(Queued(r, n), e)
         /\ Len(Queued(r, n)) < n - 1
<1> DEFINE p == PutIn(r, n, e)
<1>1. /\ r.head \in 0 .. n - 1 /\ r.tail \in 0 .. n - 1 /\ p \in Ring(n, S)
      /\ r.buf \in [0 .. n - 1 -> S \union {None}]
  BY PutRing DEF Ring
<1>2. /\ p.head = IF r.head = n - 1 THEN 0 ELSE r.head + 1
      /\ p.tail = r.tail
      /\ p.buf = [r.buf EXCEPT ![r.head] = e]
  BY <1>1, IncIs DEF PutIn, Ring
<1>3. Count(p, n) = Count(r, n) + 1 /\ Count(r, n) < n - 1
  <2>1. r.tail # (IF r.head = n - 1 THEN 0 ELSE r.head + 1)
    BY <1>1, IncIs
  <2>2. CASE r.head = n - 1
    BY <1>1, <1>2, <2>1, <2>2 DEF Count
  <2>3. CASE r.head # n - 1
    <3>1. p.head = r.head + 1 /\ r.tail # r.head + 1
      BY <1>2, <2>1, <2>3
    <3>2. CASE r.head >= r.tail
      BY <1>1, <1>2, <2>3, <3>1, <3>2 DEF Count
    <3>3. CASE ~(r.head >= r.tail)
      BY <1>1, <1>2, <2>3, <3>1, <3>3 DEF Count
    <3>4. QED
      BY <3>2, <3>3
  <2>4. QED
    BY <2>2, <2>3
<1>4. Slot(p, n, Count(p, n)) = r.head
  BY <1>1, <1>2, <1>3 DEF Count, Slot
<1>5. \A i \in 1 .. Count(r, n) : Slot(p, n, i) = Slot(r, n, i) /\ Slot(r, n, i) # r.head
  BY <1>1, <1>2, <1>3 DEF Count, Slot
<1>6. /\ Queued(p, n) \in Seq(S \union {None}) /\ Queued(r, n) \in Seq(S \union {None})
      /\ Len(Queued(p, n)) = Count(p, n) /\ Len(Queued(r, n)) = Count(r, n)
      /\ Count(r, n) \in 0 .. n - 1
  BY <1>1, QueuedIs
<1>7. /\ Append(Queued(r, n), e) \in Seq(S \union {None})
      /\ Len(Append(Queued(r, n), e)) = Count(p, n)
      /\ \A i \in 1 .. Count(r, n) : Append(Queued(r, n), e)[i] = Queued(r, n)[i]
      /\ Append(Queued(r, n), e)[Count(p, n)] = e
  BY <1>3, <1>6, AppendProperties
<1>8. ASSUME NEW i \in 1 .. Count(p, n)
      PROVE  Queued(p, n)[i] = Append(Queued(r, n), e)[i]
  <2>1. Queued(p, n)[i] = p.buf[Slot(p, n, i)]
    BY <1>1, QueuedIs
  <2>2. CASE i = Count(p, n)
    BY <1>1, <1>2, <1>4, <1>7, <2>1, <2>2
  <2>3. CASE i # Count(p, n)
    <3>1. i \in 1 .. Count(r, n)
      BY <1>3, <1>6, <2>3
    <3>2. /\ Queued(r, n)[i] = r.buf[Slot(r, n, i)] /\ Slot(r, n, i) \in 0 .. n - 1
      BY <3>1, QueuedIs
    <3>3. p.buf[Slot(r, n, i)] = r.buf[Slot(r, n, i)]
      BY <1>1, <1>2, <1>5, <3>1, <3>2
    <3>4. QED
      BY <1>5, <1>7, <2>1, <3>1, <3>2, <3>3
  <2>4. QED
    BY <2>2, <2>3
<1>9. Queued(p, n) = Append(Queued(r, n), e)
  BY <1>6, <1>7, <1>8, SeqEqual
<1>10. QED
  BY <1>3, <1>6, <1>9

(* The advance of the tail takes the first event off the queue.            *)
LEMMA GetQueued ==
  ASSUME NEW n \in Nat \ {0, 1}, NEW S, NEW r \in Ring(n, S), NonEmpty(r)
  PROVE  LET g == [r EXCEPT !.tail = Inc(@, n)]
         IN  /\ g \in Ring(n, S)
             /\ Queued(r, n) # <<>> /\ Head(Queued(r, n)) = r.buf[r.tail]
             /\ Queued(g, n) = Tail(Queued(r, n))
<1> DEFINE g == [r EXCEPT !.tail = Inc(@, n)]
<1>1. r.head \in 0 .. n - 1 /\ r.tail \in 0 .. n - 1 /\ Inc(r.tail, n) \in 0 .. n - 1
  BY IncIs DEF Ring
<1>2. /\ g \in Ring(n, S) /\ g.head = r.head /\ g.buf = r.buf
      /\ g.tail = IF r.tail = n - 1 THEN 0 ELSE r.tail + 1
  BY <1>1, IncIs DEF Ring
<1>3. Count(r, n) = Count(g, n) + 1 /\ Count(r, n) > 0
  BY <1>1, <1>2 DEF Count, NonEmpty
<1>4. Slot(r, n, 1) = r.tail
  BY <1>1 DEF Slot
<1>5. \A i \in 1 .. Count(g, n) : Slot(g, n, i) = Slot(r, n, i + 1)
  BY <1>1, <1>2, <1>3 DEF Slot, Count
<1>6. /\ Queued(g, n) \in Seq(S \union {None}) /\ Queued(r, n) \in Seq(S \union {None})
      /\ Len(Queued(g, n)) = Count(g, n) /\ Len(Queued(r, n)) = Count(r, n)
      /\ Count(r, n) \in 0 .. n - 1 /\ Count(g, n) \in 0 .. n - 1
  BY <1>2, QueuedIs
<1>7. Queued(r, n) # <<>>
  BY <1>3, <1>6, EmptySeq
<1>8. /\ Tail(Queued(r, n)) \in Seq(S \union {None})
      /\ Len(Tail(Queued(r, n))) = Count(g, n)
      /\ \A i \in 1 .. Count(g, n) : Tail(Queued(r, n))[i] = Queued(r, n)[i + 1]
  BY <1>3, <1>6, <1>7, HeadTailProperties, SMTT(30)
<1>9. Head(Queued(r, n)) = r.buf[r.tail]
  <2>1. Queued(r, n)[1] = r.buf[Slot(r, n, 1)]
    BY <1>3, <1>6, QueuedIs
  <2>2. QED
    BY <1>4, <1>6, <1>7, <2>1
<1>10. \A i \in 1 .. Count(g, n) : Queued(g, n)[i] = Tail(Queued(r, n))[i]
  <2> SUFFICES ASSUME NEW i \in 1 .. Count(g, n)
               PROVE  Queued(g, n)[i] = Tail(Queued(r, n))[i]
    OBVIOUS
  <2>1. Queued(g, n)[i] = g.buf[Slot(g, n, i)]
    BY <1>2, QueuedIs
  <2>2. Queued(r, n)[i + 1] = r.buf[Slot(r, n, i + 1)]
    <3>1. i + 1 \in 1 .. Count(r, n)
      BY <1>3, <1>6
    <3>2. QED
      BY <3>1, QueuedIs
  <2>3. QED
    BY <1>2, <1>5, <1>8, <2>1, <2>2
<1>11. Queued(g, n) = Tail(Queued(r, n))
  BY <1>6, <1>8, <1>10, SeqEqual
<1>12. QED
  BY <1>2, <1>7, <1>9, <1>11

(* During a clear the head starts again from 0 and does not wrap, so what  *)
(* came since then is at the front of the buffer.                          *)
NoWrap(r) == r.tail = 0 \/ r.head < r.tail

LEMMA SinceClearIs ==
  ASSUME NEW n \in Nat \ {0, 1}, NEW S, NEW r \in Ring(n, S)
  PROVE  LET z == [r EXCEPT !.tail = 0]
         IN  z \in Ring(n, S) /\ Queued(z, n) = SinceClear(r)
<1> DEFINE z == [r EXCEPT !.tail = 0]
<1>1. /\ r.head \in 0 .. n - 1 /\ z \in Ring(n, S)
      /\ z.head = r.head /\ z.buf = r.buf /\ z.tail = 0
  BY DEF Ring
<1>2. (z.head - z.tail) % n = r.head
  <2>1. z.head - z.tail = r.head
    BY <1>1
  <2>2. r.head % n = r.head
    BY <1>1, Modulo
  <2>3. QED
    BY <2>1, <2>2
<1>3. \A i \in 1 .. r.head : z.buf[(z.tail + i - 1) % n] = r.buf[i - 1]
  <2> SUFFICES ASSUME NEW i \in 1 .. r.head
               PROVE  z.buf[(z.tail + i - 1) % n] = r.buf[i - 1]
    OBVIOUS
  <2>1. z.tail + i - 1 = i - 1 /\ i - 1 \in Int /\ 0 <= i - 1 /\ i - 1 < n
    BY <1>1
  <2>2. (i - 1) % n = i - 1
    BY <2>1, Modulo
  <2>3. QED
    BY <1>1, <2>1, <2>2
<1>4. Queued(z, n) = SinceClear(r)
  BY <1>2, <1>3 DEF Queued, SinceClear
<1>5. QED
  BY <1>1, <1>4

LEMMA PutSinceClear ==
  ASSUME NEW n \in Nat \ {0, 1}, NEW S, NEW r \in Ring(n, S), NEW e \in S,
         NoWrap(r)
  PROVE  /\ NoWrap(PutIn(r, n, e))
         /\ \/ SinceClear(PutIn(r, n, e)) = SinceClear(r)
            \/ /\ SinceClear(PutIn(r, n, e)) = Append(SinceClear(r), e)
               /\ Len(SinceClear(r)) < n - 1
<1> DEFINE p == PutIn(r, n, e)
<1>1. /\ r.head \in 0 .. n - 1 /\ r.tail \in 0 .. n - 1
      /\ r.buf \in [0 .. n - 1 -> S \union {None}]
  BY DEF Ring
<1>2. CASE Inc(r.head, n) = r.tail
  BY <1>2 DEF PutIn
<1>3. CASE Inc(r.head, n) # r.tail
  <2>1. r.head < n - 1 /\ Inc(r.head, n) = r.head + 1 /\ r.head + 1 # r.tail
    BY <1>1, <1>3, IncIs DEF NoWrap
  <2>2. p.head = r.head + 1 /\ p.tail = r.tail /\ p.buf = [r.buf EXCEPT ![r.head] = e]
    BY <1>1, <1>3, <2>1 DEF PutIn, Ring
  <2>3. NoWrap(p)
    BY <1>1, <2>1, <2>2 DEF NoWrap
  <2>4. /\ SinceClear(r) \in Seq(S \union {None}) /\ Len(SinceClear(r)) = r.head
        /\ \A i \in 1 .. r.head : SinceClear(r)[i] = r.buf[i - 1]
    <3>1. \A i \in 1 .. r.head : r.buf[i - 1] \in S \union {None}
      BY <1>1
    <3>2. SinceClear(r) \in [1 .. r.head -> S \union {None}]
      BY <3>1 DEF SinceClear
    <3>3. SinceClear(r) \in Seq(S \union {None}) /\ Len(SinceClear(r)) = r.head
      BY <1>1, <3>2
    <3>4. \A i \in 1 .. r.head : SinceClear(r)[i] = r.buf[i - 1]
      BY DEF SinceClear
    <3>5. QED
      BY <3>3, <3>4
  <2>5. /\ SinceClear(p) \in Seq(S \union {None}) /\ Len(SinceClear(p)) = r.head + 1
        /\ \A i \in 1 .. r.head + 1 : SinceClear(p)[i] = p.buf[i - 1]
    <3>1. \A i \in 1 .. r.head + 1 : p.buf[i - 1] \in S \union {None}
      BY <1>1, <2>2
    <3>2. SinceClear(p) \in [1 .. r.head + 1 -> S \union {None}]
      BY <2>2, <3>1 DEF SinceClear
    <3>3. SinceClear(p) \in Seq(S \union {None}) /\ Len(SinceClear(p)) = r.head + 1
      BY <1>1, <3>2
    <3>4. \A i \in 1 .. r.head + 1 : SinceClear(p)[i] = p.buf[i - 1]
      BY <2>2 DEF SinceClear
    <3>5. QED
      BY <3>3, <3>4
  <2>6. /\ Append(SinceClear(r), e) \in Seq(S \union {None})
        /\ Len(Append(SinceClear(r), e)) = r.head + 1
        /\ \A i \in 1 .. r.head : Append(SinceClear(r), e)[i] = SinceClear(r)[i]
        /\ Append(SinceClear(r), e)[r.head + 1] = e
    BY <2>4, AppendProperties
  <2>7. ASSUME NEW i \in 1 .. r.head + 1
        PROVE  SinceClear(p)[i] = Append(SinceClear(r), e)[i]
    <3>1. CASE i = r.head + 1
      BY <1>1, <2>2, <2>5, <2>6, <3>1
    <3>2. CASE i # r.head + 1
      <4>1. i \in 1 .. r.head /\ i - 1 \in 0 .. n - 1 /\ i - 1 # r.head
        BY <1>1, <3>2
      <4>2. QED
        BY <1>1, <2>2, <2>4, <2>5, <2>6, <4>1, ZenonT(30)
    <3>3. QED
      BY <3>1, <3>2
  <2>8. SinceClear(p) = Append(SinceClear(r), e)
    BY <2>5, <2>6, <2>7, SeqEqual
  <2>9. QED
    BY <1>1, <2>1, <2>3, <2>4, <2>8
<1>4. QED
  BY <1>2, <1>3

-----------------------------------------------------------------------------
(* Between the two stores of a clear the new head does not pass the old    *)
(* tail; a call that has seen an event in its ring still has it there when *)
(* it advances, and what it has read is the oldest one.                    *)
InClear == at = "clear" => NoWrap(rings.key)

Holding ==
  /\ at \in {"read", "advance"} => NonEmpty(rings[which])
  /\ at = "advance" => c = rings[which].buf[rings[which].tail]
  /\ at = "advance" => c \in (IF which = "key" THEN Chars ELSE RawEvents) \union {None}
  /\ at \in {"look", "sleep", "halted"} => which = "key"

IInv == TypeOK /\ InClear /\ Holding

LEMMA RingSizes ==
  /\ KeySize \in Nat \ {0, 1} /\ RawSize \in Nat \ {0, 1}
  /\ Size.key = KeySize /\ Size.raw = RawSize
BY KeyboardAssumption DEF Size

LEMMA EmptyRingIs ==
  ASSUME NEW n \in Nat \ {0, 1}, NEW S
  PROVE  EmptyRing(n) \in Ring(n, S) /\ ~NonEmpty(EmptyRing(n))
BY DEF EmptyRing, Ring, NonEmpty

(* A key event offers the character ring one character or none.            *)
LEMMA CharOfIs ==
  ASSUME mods \in [shift : BOOLEAN, ctrl : BOOLEAN, caps : BOOLEAN],
         NEW k \in Codes, NEW pressed \in BOOLEAN,
         CharOf(k, pressed) # {}
  PROVE  (CHOOSE e \in CharOf(k, pressed) : TRUE) \in Chars
<1>1. UseShift(k) \in BOOLEAN
  BY DEF UseShift
<1>2. \A u \in BOOLEAN : <<k, u>> \in Chars
  BY DEF Chars
<1>3. \A e \in CharOf(k, pressed) : e \in Chars
  BY <1>1, <1>2 DEF CharOf
<1>4. QED
  BY <1>3

(* The lemmas above for the two rings of the driver.                       *)
KeyRing == Ring(KeySize, Chars)

RawRing == Ring(RawSize, RawEvents)

(* The oldest event of a ring is still there.                              *)
Kept(r, p) ==
  NonEmpty(r) => /\ NonEmpty(p) /\ p.tail = r.tail
                 /\ p.buf[r.tail] = r.buf[r.tail]

LEMMA KeyPut ==
  \A r \in KeyRing, e \in Chars :
    LET p == PutIn(r, KeySize, e)
    IN  p \in KeyRing /\ Kept(r, p) /\ (NoWrap(r) => NoWrap(p))
<1> SUFFICES ASSUME NEW r \in KeyRing, NEW e \in Chars
             PROVE  /\ PutIn(r, KeySize, e) \in KeyRing
                    /\ Kept(r, PutIn(r, KeySize, e))
                    /\ NoWrap(r) => NoWrap(PutIn(r, KeySize, e))
  OBVIOUS
<1>1. KeySize \in Nat \ {0, 1} /\ r \in Ring(KeySize, Chars)
  BY RingSizes DEF KeyRing
<1>2. PutIn(r, KeySize, e) \in KeyRing /\ Kept(r, PutIn(r, KeySize, e))
  BY <1>1, PutRing DEF KeyRing, Kept
<1>3. NoWrap(r) => NoWrap(PutIn(r, KeySize, e))
  BY <1>1, PutSinceClear
<1>4. QED
  BY <1>2, <1>3

LEMMA RawPut ==
  \A r \in RawRing, e \in RawEvents :
    LET p == PutIn(r, RawSize, e)
    IN  p \in RawRing /\ Kept(r, p)
BY RingSizes, PutRing DEF RawRing, Kept

(* What a key event leaves of the two rings.                               *)
LEMMA KeyIRQRings ==
  ASSUME IInv, NEW k \in Codes, NEW pressed \in BOOLEAN, KeyIRQ(k, pressed)
  PROVE  /\ rings' \in [key : KeyRing, raw : RawRing]
         /\ rings'.raw = PutIn(rings.raw, RawSize, <<k, pressed>>)
         /\ offered'.raw = offered.raw + 1
         /\ <<k, pressed>> \in RawEvents
         /\ \/ rings'.key = rings.key /\ offered'.key = offered.key
            \/ \E e \in Chars : /\ rings'.key = PutIn(rings.key, KeySize, e)
                                /\ offered'.key = offered.key + 1
<1> DEFINE ch == CharOf(k, pressed)
<1>1. /\ rings.key \in KeyRing /\ rings.raw \in RawRing
  BY DEF IInv, TypeOK, KeyRing, RawRing
<1>2. <<k, pressed>> \in RawEvents
  BY DEF RawEvents
<1>3. /\ rings' = [key |-> IF ch = {} THEN rings.key
                           ELSE PutIn(rings.key, KeySize, CHOOSE e \in ch : TRUE),
                   raw |-> PutIn(rings.raw, RawSize, <<k, pressed>>)]
      /\ offered' = [key |-> IF ch = {} THEN offered.key ELSE offered.key + 1,
                     raw |-> offered.raw + 1]
  BY DEF KeyIRQ
<1>4. PutIn(rings.raw, RawSize, <<k, pressed>>) \in RawRing
  BY <1>1, <1>2, RawPut
<1>5. CASE ch = {}
  BY <1>1, <1>2, <1>3, <1>4, <1>5
<1>6. CASE ch # {}
  <2>1. PICK e \in Chars : e = CHOOSE x \in ch : TRUE
    BY <1>6, CharOfIs DEF IInv, TypeOK
  <2>2. PutIn(rings.key, KeySize, e) \in KeyRing
    BY <1>1, KeyPut
  <2>3. rings' = [key |-> PutIn(rings.key, KeySize, e),
                  raw |-> PutIn(rings.raw, RawSize, <<k, pressed>>)]
    BY <1>3, <1>6, <2>1
  <2>4. rings' \in [key : KeyRing, raw : RawRing]
    BY <1>4, <2>2, <2>3
  <2>5. offered'.key = offered.key + 1 /\ offered'.raw = offered.raw + 1
    BY <1>3, <1>6
  <2>6. /\ rings'.key = PutIn(rings.key, KeySize, e)
        /\ rings'.raw = PutIn(rings.raw, RawSize, <<k, pressed>>)
    BY <2>3
  <2>7. QED
    BY <1>2, <2>4, <2>5, <2>6
<1>7. QED
  BY <1>5, <1>6

LEMMA KeyIRQStep ==
  ASSUME IInv, NEW k \in Codes, NEW pressed \in BOOLEAN, KeyIRQ(k, pressed)
  PROVE  IInv'
<1>1. /\ rings.key \in KeyRing /\ rings.raw \in RawRing
      /\ which \in {"key", "raw"} /\ which' = which /\ c' = c /\ got' = got
  BY DEF IInv, TypeOK, KeyIRQ, KeyRing, RawRing
<1>2. TypeOK'
  <2>1. rings' \in [key : KeyRing, raw : RawRing]
    BY KeyIRQRings
  <2>2. mods' \in [shift : BOOLEAN, ctrl : BOOLEAN, caps : BOOLEAN]
    BY DEF IInv, TypeOK, KeyIRQ, ModsAfter
  <2>3. offered' \in [key : Nat, raw : Nat]
    BY DEF IInv, TypeOK, KeyIRQ
  <2>4. at' \in {"run", "check", "read", "advance", "look", "sleep", "halted", "clear"}
    BY DEF IInv, TypeOK, KeyIRQ, Woken
  <2>5. QED
    BY <1>1, <2>1, <2>2, <2>3, <2>4 DEF IInv, TypeOK, KeyRing, RawRing
<1>3. Kept(rings.key, rings'.key) /\ Kept(rings.raw, rings'.raw)
  <2>1. rings'.raw = PutIn(rings.raw, RawSize, <<k, pressed>>) /\ <<k, pressed>> \in RawEvents
    BY KeyIRQRings
  <2>2. Kept(rings.raw, rings'.raw)
    BY <1>1, <2>1, RawPut
  <2>3. CASE rings'.key = rings.key
    BY <2>2, <2>3 DEF Kept
  <2>4. ASSUME NEW e \in Chars, rings'.key = PutIn(rings.key, KeySize, e)
        PROVE  Kept(rings.key, rings'.key)
    BY <1>1, <2>4, KeyPut
  <2>5. QED
    BY <2>2, <2>3, <2>4, KeyIRQRings
<1>4. NoWrap(rings.key) => NoWrap(rings'.key)
  BY <1>1, KeyIRQRings, KeyPut
<1>5. /\ at' \in {"read", "advance", "clear"} => at' = at
      /\ at' \in {"look", "sleep", "halted"} => at \in {"look", "sleep", "halted"}
  BY DEF KeyIRQ, Woken
<1>6. InClear'
  BY <1>4, <1>5 DEF IInv, InClear
<1>7. Holding'
  BY <1>1, <1>3, <1>5 DEF IInv, Holding, Kept
<1>8. QED
  BY <1>2, <1>6, <1>7 DEF IInv

(* The thread's own steps.                                                 *)
LEMMA AdvanceRings ==
  ASSUME IInv, Advance
  PROVE  /\ rings' \in [key : KeyRing, raw : RawRing]
         /\ rings'[which] = [rings[which] EXCEPT !.tail = Inc(@, Size[which])]
         /\ \A r \in {"key", "raw"} : r # which => rings'[r] = rings[r]
<1>1. /\ rings \in [key : KeyRing, raw : RawRing] /\ which \in {"key", "raw"}
      /\ NonEmpty(rings[which])
      /\ rings' = [rings EXCEPT ![which].tail = Inc(@, Size[which])]
  BY DEF IInv, TypeOK, Holding, Advance, KeyRing, RawRing
<1>2. CASE which = "key"
  <2>1. [rings.key EXCEPT !.tail = Inc(@, KeySize)] \in KeyRing
    BY <1>1, <1>2, RingSizes, GetQueued DEF KeyRing
  <2>2. QED
    BY <1>1, <1>2, <2>1, RingSizes
<1>3. CASE which = "raw"
  <2>1. [rings.raw EXCEPT !.tail = Inc(@, RawSize)] \in RawRing
    BY <1>1, <1>3, RingSizes, GetQueued DEF RawRing
  <2>2. QED
    BY <1>1, <1>3, <2>1, RingSizes
<1>4. QED
  BY <1>1, <1>2, <1>3

LEMMA ThreadStep ==
  ASSUME IInv,
         \/ TimerIRQ \/ WaitCall \/ ClearHead \/ Inside
         \/ \E r \in {"key", "raw"} : GetCall(r)
  PROVE  IInv'
<1>1. /\ rings \in [key : KeyRing, raw : RawRing]
      /\ which \in {"key", "raw"}
  BY DEF IInv, TypeOK, KeyRing, RawRing
<1> USE DEF IInv, TypeOK, InClear, Holding
<1>2. CASE TimerIRQ
  BY <1>2 DEF TimerIRQ, Woken
<1>3. CASE WaitCall
  BY <1>3 DEF WaitCall
<1>4. CASE ClearHead
  <2>1. rings'.key = [rings.key EXCEPT !.head = 0] /\ rings'.raw = rings.raw
    BY <1>1, <1>4 DEF ClearHead
  <2>2. rings'.key \in KeyRing /\ NoWrap(rings'.key)
    BY <1>1, <2>1, RingSizes DEF KeyRing, Ring, NoWrap
  <2>3. rings' \in [key : KeyRing, raw : RawRing]
    BY <1>1, <1>4, <2>1, <2>2 DEF ClearHead
  <2>4. QED
    BY <1>4, <2>2, <2>3 DEF ClearHead, KeyRing, RawRing
<1>5. CASE Check
  <2>1. got' \in [key : Chars \union {None}, raw : RawEvents \union {None}]
    BY <1>1, <1>5 DEF Check
  <2>2. QED
    BY <1>5, <2>1 DEF Check
<1>6. CASE Read
  <2>1. rings[which].buf[rings[which].tail]
          \in (IF which = "key" THEN Chars ELSE RawEvents) \union {None}
    BY <1>1 DEF KeyRing, RawRing, Ring
  <2>2. QED
    BY <1>1, <1>6, <2>1 DEF Read
<1>7. CASE Advance
  <2>1. rings' \in [key : KeyRing, raw : RawRing]
    BY <1>7, AdvanceRings
  <2>2. got' \in [key : Chars \union {None}, raw : RawEvents \union {None}]
    BY <1>1, <1>7 DEF Advance
  <2>3. QED
    BY <1>7, <2>1, <2>2 DEF Advance, KeyRing, RawRing
<1>8. CASE Look
  BY <1>8 DEF Look
<1>9. CASE Halt
  BY <1>9 DEF Halt
<1>10. CASE ClearTail
  <2>1. rings'.key = [rings.key EXCEPT !.tail = 0] /\ rings'.raw = rings.raw
    BY <1>1, <1>10 DEF ClearTail
  <2>2. rings'.key \in KeyRing
    BY <1>1, <2>1, RingSizes, SinceClearIs DEF KeyRing
  <2>3. rings' \in [key : KeyRing, raw : RawRing]
    BY <1>1, <1>10, <2>1, <2>2 DEF ClearTail
  <2>4. QED
    BY <1>10, <2>3 DEF ClearTail, KeyRing, RawRing
<1>11. CASE \E r \in {"key", "raw"} : GetCall(r)
  BY <1>11 DEF GetCall
<1>12. QED
  BY <1>2, <1>3, <1>4, <1>5, <1>6, <1>7, <1>8, <1>9, <1>10, <1>11 DEF Inside

LEMMA InitOK == Init => IInv
<1> SUFFICES ASSUME Init PROVE IInv
  OBVIOUS
<1>1. EmptyRing(KeySize) \in Ring(KeySize, Chars) /\ EmptyRing(RawSize) \in Ring(RawSize, RawEvents)
  BY RingSizes, EmptyRingIs
<1>2. QED
  BY <1>1 DEF Init, IInv, TypeOK, InClear, Holding

LEMMA NextOK == IInv /\ [Next]_vars => IInv'
<1>1. IInv /\ Next => IInv'
  BY KeyIRQStep, ThreadStep DEF Next
<1>2. IInv /\ UNCHANGED vars => IInv'
  BY DEF vars, IInv, TypeOK, InClear, Holding
<1>3. QED
  BY <1>1, <1>2

(* The invariant holds in every state of the driver.                       *)
THEOREM KeyboardInvariant == Spec => []IInv
BY InitOK, NextOK, PTL DEF Spec

-----------------------------------------------------------------------------
(* What the refinement mapping takes for the two queues.                   *)
KeysNow ==
  IF at = "clear" THEN SinceClear(rings.key) ELSE Queued(rings.key, KeySize)

RawNow == Queued(rings.raw, RawSize)

LEMMA KeysInClear ==
  ASSUME IInv
  PROVE  at = "clear" => Queued([rings.key EXCEPT !.tail = 0], KeySize) = KeysNow
<1>1. rings.key \in Ring(KeySize, Chars)
  BY DEF IInv, TypeOK
<1>2. QED
  BY <1>1, RingSizes, SinceClearIs DEF KeysNow

(* The handler puts an event at the end, or drops it in a full queue.      *)
LEMMA PutKeys ==
  ASSUME IInv, NEW e \in Chars, at' = "clear" <=> at = "clear",
         rings'.key = PutIn(rings.key, KeySize, e)
  PROVE  \/ Len(KeysNow) < KeySize - 1 /\ KeysNow' = Append(KeysNow, e)
         \/ (Len(KeysNow) = KeySize - 1 \/ at = "clear") /\ KeysNow' = KeysNow
<1>1. rings.key \in Ring(KeySize, Chars) /\ (at = "clear" => NoWrap(rings.key))
  BY DEF IInv, TypeOK, InClear
<1>2. CASE at = "clear"
  <2>1. KeySize \in Nat \ {0, 1} /\ NoWrap(rings.key)
    BY <1>1, <1>2, RingSizes
  <2>2. \/ SinceClear(rings'.key) = SinceClear(rings.key)
        \/ /\ SinceClear(rings'.key) = Append(SinceClear(rings.key), e)
           /\ Len(SinceClear(rings.key)) < KeySize - 1
    BY <1>1, <2>1, PutSinceClear
  <2>3. KeysNow = SinceClear(rings.key) /\ KeysNow' = SinceClear(rings'.key)
    BY <1>2 DEF KeysNow
  <2>4. QED
    BY <1>2, <2>2, <2>3
<1>3. CASE at # "clear" /\ Inc(rings.key.head, KeySize) = rings.key.tail
  <2>1. /\ PutIn(rings.key, KeySize, e) = rings.key
        /\ Len(Queued(rings.key, KeySize)) = KeySize - 1
    BY <1>1, <1>3, RingSizes, PutFull
  <2>2. QED
    BY <1>3, <2>1 DEF KeysNow
<1>4. CASE at # "clear" /\ Inc(rings.key.head, KeySize) # rings.key.tail
  <2>1. /\ Queued(PutIn(rings.key, KeySize, e), KeySize) = Append(Queued(rings.key, KeySize), e)
        /\ Len(Queued(rings.key, KeySize)) < KeySize - 1
    BY <1>1, <1>4, RingSizes, PutQueued
  <2>2. QED
    BY <1>4, <2>1 DEF KeysNow
<1>5. QED
  BY <1>2, <1>3, <1>4

LEMMA PutRaw ==
  ASSUME IInv, NEW e \in RawEvents, rings'.raw = PutIn(rings.raw, RawSize, e)
  PROVE  \/ Len(RawNow) < RawSize - 1 /\ RawNow' = Append(RawNow, e)
         \/ Len(RawNow) = RawSize - 1 /\ RawNow' = RawNow
<1>1. rings.raw \in Ring(RawSize, RawEvents)
  BY DEF IInv, TypeOK
<1>2. CASE Inc(rings.raw.head, RawSize) = rings.raw.tail
  <2>1. /\ PutIn(rings.raw, RawSize, e) = rings.raw
        /\ Len(Queued(rings.raw, RawSize)) = RawSize - 1
    BY <1>1, <1>2, RingSizes, PutFull
  <2>2. QED
    BY <2>1 DEF RawNow
<1>3. CASE Inc(rings.raw.head, RawSize) # rings.raw.tail
  <2>1. /\ Queued(PutIn(rings.raw, RawSize, e), RawSize) = Append(Queued(rings.raw, RawSize), e)
        /\ Len(Queued(rings.raw, RawSize)) < RawSize - 1
    BY <1>1, <1>3, RingSizes, PutQueued
  <2>2. QED
    BY <2>1 DEF RawNow
<1>4. QED
  BY <1>2, <1>3

(* A call that advances returns the oldest event and takes it off.         *)
LEMMA AdvanceGets ==
  ASSUME IInv, Advance
  PROVE  /\ which = "key" => /\ KeysNow # <<>> /\ got'.key = Head(KeysNow)
                             /\ KeysNow' = Tail(KeysNow) /\ RawNow' = RawNow
                             /\ got'.raw = got.raw
         /\ which = "raw" => /\ RawNow # <<>> /\ got'.raw = Head(RawNow)
                             /\ RawNow' = Tail(RawNow) /\ KeysNow' = KeysNow
                             /\ got'.key = got.key
<1>1. /\ rings.key \in Ring(KeySize, Chars) /\ rings.raw \in Ring(RawSize, RawEvents)
      /\ NonEmpty(rings[which]) /\ c = rings[which].buf[rings[which].tail]
      /\ at = "advance" /\ at' = "run" /\ got' = [got EXCEPT ![which] = c]
      /\ DOMAIN got = {"key", "raw"}
  BY DEF IInv, TypeOK, Holding, Advance
<1>2. CASE which = "key"
  <2>1. /\ rings'.key = [rings.key EXCEPT !.tail = Inc(@, KeySize)]
        /\ rings'.raw = rings.raw
    BY <1>2, AdvanceRings, RingSizes
  <2>2. /\ Queued(rings.key, KeySize) # <<>>
        /\ Head(Queued(rings.key, KeySize)) = rings.key.buf[rings.key.tail]
        /\ Queued(rings'.key, KeySize) = Tail(Queued(rings.key, KeySize))
    BY <1>1, <1>2, <2>1, RingSizes, GetQueued, ZenonT(30)
  <2>3. got'.key = c /\ got'.raw = got.raw
    BY <1>1, <1>2
  <2>4. QED
    BY <1>1, <1>2, <2>1, <2>2, <2>3 DEF KeysNow, RawNow
<1>3. CASE which = "raw"
  <2>1. /\ rings'.raw = [rings.raw EXCEPT !.tail = Inc(@, RawSize)]
        /\ rings'.key = rings.key
    BY <1>3, AdvanceRings, RingSizes
  <2>2. /\ Queued(rings.raw, RawSize) # <<>>
        /\ Head(Queued(rings.raw, RawSize)) = rings.raw.buf[rings.raw.tail]
        /\ Queued(rings'.raw, RawSize) = Tail(Queued(rings.raw, RawSize))
    BY <1>1, <1>3, <2>1, RingSizes, GetQueued, ZenonT(30)
  <2>3. got'.raw = c /\ got'.key = got.key
    BY <1>1, <1>3
  <2>4. QED
    BY <1>1, <1>3, <2>1, <2>2, <2>3 DEF KeysNow, RawNow
<1>4. QED
  BY <1>2, <1>3 DEF IInv, TypeOK

-----------------------------------------------------------------------------
(* Every step is a step of each queue or leaves it alone.                  *)
QueueStep == [KeyQ!QNext]_KeyQ!kvars /\ [RawQ!QNext]_RawQ!kvars

LEMMA KeyIRQQueues ==
  ASSUME IInv, NEW k \in Codes, NEW pressed \in BOOLEAN, KeyIRQ(k, pressed)
  PROVE  QueueStep
<1>1. at' = "clear" <=> at = "clear"
  BY DEF KeyIRQ, Woken
<1>2. got' = got
  BY DEF KeyIRQ
<1>3. RawQ!Put(<<k, pressed>>) /\ <<k, pressed>> \in RawEvents
  <2>1. /\ rings'.raw = PutIn(rings.raw, RawSize, <<k, pressed>>)
        /\ offered'.raw = offered.raw + 1 /\ <<k, pressed>> \in RawEvents
    BY KeyIRQRings
  <2>2. \/ Len(RawNow) < RawSize - 1 /\ RawNow' = Append(RawNow, <<k, pressed>>)
        \/ Len(RawNow) = RawSize - 1 /\ RawNow' = RawNow
    BY <2>1, PutRaw
  <2>3. QED
    BY <1>2, <2>1, <2>2 DEF RawQ!Put, RawNow
<1>4. CASE rings'.key = rings.key /\ offered'.key = offered.key
  <2>1. UNCHANGED KeyQ!kvars
    BY <1>1, <1>2, <1>4 DEF KeyQ!kvars
  <2>2. QED
    BY <1>3, <2>1 DEF QueueStep, RawQ!QNext
<1>5. ASSUME NEW e \in Chars, rings'.key = PutIn(rings.key, KeySize, e),
             offered'.key = offered.key + 1
      PROVE  QueueStep
  <2>1. \/ Len(KeysNow) < KeySize - 1 /\ KeysNow' = Append(KeysNow, e)
        \/ (Len(KeysNow) = KeySize - 1 \/ at = "clear") /\ KeysNow' = KeysNow
    BY <1>1, <1>5, PutKeys
  <2>2. KeyQ!Put(e)
    BY <1>1, <1>2, <1>5, <2>1 DEF KeyQ!Put, KeysNow
  <2>3. QED
    BY <1>3, <2>2 DEF QueueStep, RawQ!QNext, KeyQ!QNext
<1>6. QED
  BY <1>4, <1>5, KeyIRQRings

(* A step that changes no ring, nothing returned and no clear.             *)
LEMMA QueuesRest ==
  ASSUME UNCHANGED <<rings, got, offered>>, at' = "clear" <=> at = "clear"
  PROVE  UNCHANGED KeyQ!kvars /\ UNCHANGED RawQ!kvars
BY DEF KeyQ!kvars, RawQ!kvars

LEMMA CheckQueues ==
  ASSUME IInv, Check
  PROVE  QueueStep
<1>1. /\ rings.key \in Ring(KeySize, Chars) /\ rings.raw \in Ring(RawSize, RawEvents)
      /\ which \in {"key", "raw"} /\ at = "check" /\ at' # "clear"
      /\ rings' = rings /\ offered' = offered /\ DOMAIN got = {"key", "raw"}
  BY DEF IInv, TypeOK, Check
<1>2. CASE NonEmpty(rings[which])
  <2>1. got' = got
    BY <1>2 DEF Check
  <2>2. QED
    BY <1>1, <2>1, QueuesRest DEF QueueStep
<1>3. CASE ~NonEmpty(rings[which])
  <2>1. got' = [got EXCEPT ![which] = None]
    BY <1>3 DEF Check
  <2>2. CASE which = "key"
    <3>1. Queued(rings.key, KeySize) = <<>>
      BY <1>1, <1>3, <2>2, RingSizes, EmptyQueued
    <3>2. KeyQ!GetNone
      BY <1>1, <2>1, <2>2, <3>1 DEF KeyQ!GetNone
    <3>3. UNCHANGED RawQ!kvars
      BY <1>1, <2>1, <2>2 DEF RawQ!kvars
    <3>4. QED
      BY <3>2, <3>3 DEF QueueStep, KeyQ!QNext
  <2>3. CASE which = "raw"
    <3>1. Queued(rings.raw, RawSize) = <<>>
      BY <1>1, <1>3, <2>3, RingSizes, EmptyQueued
    <3>2. RawQ!GetNone
      BY <1>1, <2>1, <2>3, <3>1 DEF RawQ!GetNone
    <3>3. UNCHANGED KeyQ!kvars
      BY <1>1, <2>1, <2>3 DEF KeyQ!kvars
    <3>4. QED
      BY <3>2, <3>3 DEF QueueStep, RawQ!QNext
  <2>4. QED
    BY <1>1, <2>2, <2>3
<1>4. QED
  BY <1>2, <1>3

LEMMA AdvanceQueues ==
  ASSUME IInv, Advance
  PROVE  QueueStep
<1>1. at # "clear" /\ at' # "clear" /\ offered' = offered /\ which \in {"key", "raw"}
  BY DEF Advance, IInv, TypeOK
<1>2. CASE which = "key"
  <2>1. KeyQ!Get
    BY <1>1, <1>2, AdvanceGets DEF KeyQ!Get, KeysNow
  <2>2. UNCHANGED RawQ!kvars
    BY <1>1, <1>2, AdvanceGets DEF RawQ!kvars, RawNow
  <2>3. QED
    BY <2>1, <2>2 DEF QueueStep, KeyQ!QNext
<1>3. CASE which = "raw"
  <2>1. RawQ!Get
    BY <1>1, <1>3, AdvanceGets DEF RawQ!Get, RawNow
  <2>2. UNCHANGED KeyQ!kvars
    BY <1>1, <1>3, AdvanceGets DEF KeyQ!kvars, KeysNow
  <2>3. QED
    BY <2>1, <2>2 DEF QueueStep, RawQ!QNext
<1>4. QED
  BY <1>1, <1>2, <1>3

LEMMA ClearQueues ==
  ASSUME IInv, ClearHead \/ ClearTail
  PROVE  QueueStep
<1>1. rings.key \in Ring(KeySize, Chars) /\ DOMAIN rings = {"key", "raw"}
  BY DEF IInv, TypeOK
<1>2. CASE ClearHead
  <2>1. /\ at # "clear" /\ at' = "clear" /\ got' = got /\ offered' = offered
        /\ rings'.key = [rings.key EXCEPT !.head = 0] /\ rings'.raw = rings.raw
    BY <1>1, <1>2 DEF ClearHead
  <2>2. rings'.key.head = 0
    BY <1>1, <2>1 DEF Ring
  <2>3. SinceClear(rings'.key) = <<>>
    BY <2>2 DEF SinceClear
  <2>4. KeyQ!Clear
    BY <2>1, <2>3 DEF KeyQ!Clear
  <2>5. UNCHANGED RawQ!kvars
    BY <2>1 DEF RawQ!kvars
  <2>6. QED
    BY <2>4, <2>5 DEF QueueStep, KeyQ!QNext
<1>3. CASE ClearTail
  <2>1. /\ at = "clear" /\ at' # "clear" /\ got' = got /\ offered' = offered
        /\ rings'.key = [rings.key EXCEPT !.tail = 0] /\ rings'.raw = rings.raw
    BY <1>1, <1>3 DEF ClearTail
  <2>2. Queued(rings'.key, KeySize) = KeysNow
    BY <2>1, KeysInClear
  <2>3. KeyQ!Cleared
    BY <2>1, <2>2 DEF KeyQ!Cleared, KeysNow
  <2>4. UNCHANGED RawQ!kvars
    BY <2>1 DEF RawQ!kvars
  <2>5. QED
    BY <2>3, <2>4 DEF QueueStep, KeyQ!QNext
<1>4. QED
  BY <1>2, <1>3

LEMMA NextQueues == IInv /\ [Next]_vars => QueueStep
<1> SUFFICES ASSUME IInv, [Next]_vars PROVE QueueStep
  OBVIOUS
<1>1. CASE \E k \in Codes, pressed \in BOOLEAN : KeyIRQ(k, pressed)
  BY <1>1, KeyIRQQueues
<1>2. CASE Check
  BY <1>2, CheckQueues
<1>3. CASE Advance
  BY <1>3, AdvanceQueues
<1>4. CASE ClearHead \/ ClearTail
  BY <1>4, ClearQueues
<1>5. CASE \/ TimerIRQ \/ WaitCall \/ Read \/ Look \/ Halt \/ UNCHANGED vars
           \/ \E r \in {"key", "raw"} : GetCall(r)
  <2>1. UNCHANGED <<rings, got, offered>> /\ (at' = "clear" <=> at = "clear")
    BY <1>5 DEF TimerIRQ, Woken, WaitCall, Read, Look, Halt, vars, GetCall
  <2>2. QED
    BY <2>1, QueuesRest DEF QueueStep
<1>6. QED
  BY <1>1, <1>2, <1>3, <1>4, <1>5 DEF Next, Inside

LEMMA InitQueues == Init => KeyQ!QInit /\ RawQ!QInit
<1> SUFFICES ASSUME Init PROVE KeyQ!QInit /\ RawQ!QInit
  OBVIOUS
<1>1. /\ rings.key = EmptyRing(KeySize) /\ rings.raw = EmptyRing(RawSize)
      /\ at = "run" /\ got.key = None /\ got.raw = None
      /\ offered.key = 0 /\ offered.raw = 0
  BY DEF Init
<1>2. Queued(rings.key, KeySize) = <<>> /\ Queued(rings.raw, RawSize) = <<>>
  BY <1>1, RingSizes, EmptyRingIs, EmptyQueued
<1>3. QED
  BY <1>1, <1>2 DEF KeyQ!QInit, RawQ!QInit

(* keyboard.c without a lock: for every size of the two rings and every    *)
(* way the IRQ1 handler interrupts keyboard_getchar, keyboard_wait_char,   *)
(* keyboard_raw_get and keyboard_clear_buffer, each ring is a bounded      *)
(* first-in first-out queue that loses an event only when it is full or    *)
(* being cleared.                                                          *)
THEOREM RingsAreQueues == Spec => ImplementsQueues
<1>1. IInv => TypeOK
  BY DEF IInv
<1>2. Spec => [][QueueStep]_vars
  BY KeyboardInvariant, NextQueues, PTL DEF Spec
<1>3. QueueStep => [KeyQ!QNext]_KeyQ!kvars /\ [RawQ!QNext]_RawQ!kvars
  BY DEF QueueStep
<1>4. UNCHANGED vars => UNCHANGED KeyQ!kvars /\ UNCHANGED RawQ!kvars
  BY QueuesRest DEF vars
<1>5. QED
  BY <1>1, <1>2, <1>3, <1>4, InitQueues, KeyboardInvariant, PTL
     DEF Spec, ImplementsQueues, KeyQ!QSpec, RawQ!QSpec

-----------------------------------------------------------------------------
(* Induction up to N, and the functions defined by recursion on a position. *)
LEMMA Induction ==
  ASSUME NEW N \in Nat, NEW P, 0 \in P,
         \A k \in 0 .. N - 1 : k \in P => k + 1 \in P
  PROVE  \A k \in 0 .. N : k \in P
<1> DEFINE R == OpToRel(<, Nat)
           T == (0 .. N) \ P
<1> SUFFICES ASSUME T # {} PROVE FALSE
  OBVIOUS
<1>1. IsWellFoundedOn(R, Nat)
  BY NatLessThanWellFounded
<1>2. PICK x \in T : \A y \in T : <<y, x>> \notin R
  <2> HIDE DEF R, T
  <2>1. T \subseteq Nat
    BY DEF T
  <2>2. QED
    BY <1>1, <2>1, WFMin
<1>3. x # 0 /\ x - 1 \in 0 .. N - 1
  OBVIOUS
<1>4. x - 1 \notin P
  BY <1>3
<1>5. x - 1 \in T /\ <<x - 1, x>> \in R
  BY <1>3, <1>4 DEF OpToRel
<1>6. QED
  BY <1>2, <1>5

Runs(N, S, s, T) ==
  {g \in [0 .. N -> S] : g[0] = s /\ \A i \in 1 .. N : g[i] = T[<<g[i - 1], i>>]}

LEMMA Recursion ==
  ASSUME NEW N \in Nat, NEW S, NEW s \in S, NEW T \in [S \X (1 .. N) -> S]
  PROVE  \E g : g \in Runs(N, S, s, T)
<1> DEFINE Up(g, m) == /\ g \in [0 .. m -> S] /\ g[0] = s
                       /\ \A i \in 1 .. m : g[i] = T[<<g[i - 1], i>>]
           P == {m \in 0 .. N : \E g : Up(g, m)}
<1>1. 0 \in P
  <2> DEFINE g == [k \in 0 .. 0 |-> s]
  <2>1. Up(g, 0)
    OBVIOUS
  <2> HIDE DEF g, Up
  <2>2. QED
    BY <2>1
<1>2. ASSUME NEW m \in 0 .. N - 1, m \in P
      PROVE  m + 1 \in P
  <2>1. PICK g : Up(g, m)
    BY <1>2
  <2> DEFINE h == [k \in 0 .. m + 1 |-> IF k = m + 1 THEN T[<<g[m], m + 1>>] ELSE g[k]]
  <2>2. m \in 0 .. m /\ g[m] \in S /\ m + 1 \in 1 .. N
    BY <2>1
  <2>3. T[<<g[m], m + 1>>] \in S
    BY <2>2
  <2>4. h \in [0 .. m + 1 -> S] /\ h[0] = s
    BY <2>1, <2>3
  <2>5. ASSUME NEW i \in 1 .. m + 1
        PROVE  h[i] = T[<<h[i - 1], i>>]
    <3>1. i - 1 \in 0 .. m /\ h[i - 1] = g[i - 1]
      OBVIOUS
    <3>2. CASE i = m + 1
      <4>1. h[m + 1] = T[<<g[m], m + 1>>] /\ i - 1 = m
        BY <3>2
      <4>2. QED
        BY <3>1, <3>2, <4>1
    <3>3. CASE i # m + 1
      BY <2>1, <3>1, <3>3
    <3>4. QED
      BY <3>2, <3>3
  <2>6. Up(h, m + 1)
    BY <2>4, <2>5
  <2>7. m + 1 \in 0 .. N
    OBVIOUS
  <2> HIDE DEF h, Up
  <2>8. QED
    BY <2>6, <2>7
<1>3. N \in P
  <2> HIDE DEF P
  <2>1. \A k \in 0 .. N : k \in P
    BY <1>1, <1>2, Induction
  <2>2. QED
    BY <2>1
<1>4. PICK g : Up(g, N)
  BY <1>3
<1>5. QED
  BY <1>4 DEF Runs

-----------------------------------------------------------------------------
(* The console.                                                            *)
Pictures == Int \X Int \X Int

Consoles ==
  [cells : [Lines -> [Columns -> Pictures]], x : Columns, y : Lines,
   fg : Int, bg : Int]

LEMMA ScreenSize ==
  /\ Cols \in Nat /\ Rows \in Nat /\ Cols > 0 /\ Rows > 0
  /\ 0 \in Columns /\ 0 \in Lines /\ Rows - 1 \in Lines
BY ConsoleAssumption DEF Columns, Lines

LEMMA ConsoleIs ==
  ASSUME NEW s \in Consoles
  PROVE  /\ s.x \in 0 .. Cols - 1 /\ s.y \in 0 .. Rows - 1 /\ s.x \in Int /\ s.y \in Int
         /\ s.x \in Columns /\ s.y \in Lines /\ s.fg \in Int /\ s.bg \in Int
         /\ s.cells \in [Lines -> [Columns -> Pictures]]
<1>1. /\ s.x \in Columns /\ s.y \in Lines /\ s.fg \in Int /\ s.bg \in Int
      /\ s.cells \in [Lines -> [Columns -> Pictures]]
  BY DEF Consoles
<1>2. s.x \in 0 .. Cols - 1 /\ s.y \in 0 .. Rows - 1
  BY <1>1 DEF Columns, Lines
<1>3. QED
  BY <1>1, <1>2

LEMMA PictureIs ==
  ASSUME NEW k \in Int, NEW fg \in Int, NEW bg \in Int
  PROVE  Picture(k, fg, bg) \in Pictures /\ Picture(k, fg, bg)[1] = k
BY DEF Picture, Pictures, Space

LEMMA PutCharAtIs ==
  ASSUME NEW s \in Consoles, NEW col \in Int, NEW row \in Int, NEW k \in Int
  PROVE  /\ PutCharAt(s, col, row, k) \in Consoles
         /\ PutCharAt(s, col, row, k).x = s.x /\ PutCharAt(s, col, row, k).y = s.y
         /\ <<col, row>> \in Cells => Glyph(PutCharAt(s, col, row, k), <<col, row>>) = k
         /\ \A cell \in Cells : cell # <<col, row>> =>
              Glyph(PutCharAt(s, col, row, k), cell) = Glyph(s, cell)
<1>1. Picture(k, s.fg, s.bg) \in Pictures /\ Picture(k, s.fg, s.bg)[1] = k
  BY PictureIs DEF Consoles
<1>2. CASE <<col, row>> \in Cells
  <2> DEFINE v == Picture(k, s.fg, s.bg)
             new == [s.cells[row] EXCEPT ![col] = v]
  <2>1. col \in Columns /\ row \in Lines
    BY <1>2 DEF Cells
  <2>2. PutCharAt(s, col, row, k) = [s EXCEPT !.cells[row][col] = v]
    BY <1>2 DEF PutCharAt
  <2>3. s.cells[row] \in [Columns -> Pictures]
    BY <2>1 DEF Consoles
  <2> HIDE DEF v
  <2>4. new \in [Columns -> Pictures] /\ new[col] = v
    BY <2>1, <2>3, <1>1 DEF v
  <2>5. [s EXCEPT !.cells[row][col] = v] = [s EXCEPT !.cells = [s.cells EXCEPT ![row] = new]]
    BY <2>1 DEF Consoles
  <2>6. [s.cells EXCEPT ![row] = new] \in [Lines -> [Columns -> Pictures]]
    BY <2>1, <2>4 DEF Consoles
  <2>7. PutCharAt(s, col, row, k) \in Consoles
    BY <2>2, <2>5, <2>6 DEF Consoles
  <2>8. PutCharAt(s, col, row, k).x = s.x /\ PutCharAt(s, col, row, k).y = s.y
    BY <2>2, <2>5 DEF Consoles
  <2>9. PutCharAt(s, col, row, k).cells = [s.cells EXCEPT ![row] = new]
    BY <2>2, <2>5 DEF Consoles
  <2>10. Glyph(PutCharAt(s, col, row, k), <<col, row>>) = k
    BY <2>1, <2>4, <2>9, <1>1 DEF Glyph, Consoles, v
  <2>11. ASSUME NEW cell \in Cells, cell # <<col, row>>
         PROVE  Glyph(PutCharAt(s, col, row, k), cell) = Glyph(s, cell)
    <3>1. cell[1] \in Columns /\ cell[2] \in Lines /\ cell = <<cell[1], cell[2]>>
      BY DEF Cells
    <3>2. cell[1] # col \/ cell[2] # row
      BY <2>11, <3>1
    <3>3. s.cells[cell[2]] \in [Columns -> Pictures]
      BY <3>1 DEF Consoles
    <3>4. CASE cell[2] # row
      BY <2>9, <3>1, <3>4 DEF Glyph, Consoles
    <3>5. CASE cell[2] = row /\ cell[1] # col
      <4>1. PutCharAt(s, col, row, k).cells[row] = new
        BY <2>1, <2>9 DEF Consoles
      <4>2. new[cell[1]] = s.cells[row][cell[1]]
        BY <2>3, <3>1, <3>5
      <4>3. QED
        BY <3>5, <4>1, <4>2 DEF Glyph
    <3>6. QED
      BY <3>2, <3>4, <3>5
  <2>12. QED
    BY <2>7, <2>8, <2>10, <2>11
<1>3. CASE <<col, row>> \notin Cells
  <2>1. PutCharAt(s, col, row, k) = s
    BY <1>3 DEF PutCharAt
  <2>2. QED
    BY <1>3, <2>1
<1>4. QED
  BY <1>2, <1>3

LEMMA PutCharAtStays ==
  ASSUME NEW s \in Consoles, NEW col \in Int, NEW row \in Int, NEW k \in Int
  PROVE  PutCharAt(s, col, row, k).x = s.x /\ PutCharAt(s, col, row, k).y = s.y
BY PutCharAtIs

LEMMA NextRowIs ==
  ASSUME NEW s \in Consoles
  PROVE  NextRow(s) \in Consoles
<1> DEFINE blank == [k \in Columns |-> Picture(Space, s.fg, s.bg)]
           cells == [r \in Lines |-> IF r + 1 \in Lines THEN s.cells[r + 1] ELSE blank]
<1>1. Picture(Space, s.fg, s.bg) \in Pictures
  <2>1. Space \in Int
    BY DEF Space
  <2>2. QED
    BY <2>1, PictureIs, ConsoleIs
<1>2. blank \in [Columns -> Pictures]
  BY <1>1
<1>3. cells \in [Lines -> [Columns -> Pictures]]
  BY <1>2 DEF Consoles
<1>4. ScrollUp(s) = [s EXCEPT !.cells = cells]
  BY DEF ScrollUp
<1>5. ScrollUp(s) \in Consoles
  <2> HIDE DEF cells
  <2>1. QED
    BY <1>3, <1>4 DEF Consoles
<1>6. CASE s.y + 1 >= Rows
  BY <1>5, <1>6, ScreenSize DEF NextRow, Consoles
<1>7. CASE ~(s.y + 1 >= Rows)
  <2>1. s.y + 1 \in Lines
    BY <1>7, ScreenSize, ConsoleIs DEF Lines
  <2>2. QED
    BY <1>7, <2>1, ScreenSize DEF NextRow, Consoles
<1>8. QED
  BY <1>6, <1>7

LEMMA PrintCharIs ==
  ASSUME NEW s \in Consoles, NEW k \in Int
  PROVE  /\ PrintChar(s, k) \in Consoles
         /\ k = Backspace /\ s.x > 0 => PrintChar(s, k) = Erase(s)
         /\ k >= Space /\ s.x + 1 < Cols =>
              PrintChar(s, k) = [PutCharAt(s, s.x, s.y, k) EXCEPT !.x = @ + 1]
<1> DEFINE put == PutCharAt(s, s.x, s.y, k)
<1>0. s.x \in Columns /\ s.y \in Lines /\ s.x \in Int /\ s.y \in Int
  BY ConsoleIs
<1>1. CASE k = Newline
  <2>2. k # Backspace /\ k # Return /\ ~(k >= Space)
    BY <1>1 DEF Newline, Backspace, Return, Space
  <2>1. PrintChar(s, k) = NextRow(s)
    BY <1>1, <2>2, Zenon DEF PrintChar
  <2>3. QED
    BY <2>1, <2>2, NextRowIs
<1>2. CASE k = Backspace
  <2>0. k # Newline /\ k # Return /\ ~(k >= Space)
    BY <1>2 DEF Newline, Backspace, Return, Space
  <2>1. PrintChar(s, k) = (IF s.x > 0 THEN Erase(s) ELSE s)
    BY <1>2, <2>0, Zenon DEF PrintChar
  <2>2. CASE s.x > 0
    <3>0. s.x - 1 \in Int /\ Space \in Int
      BY <1>0 DEF Space
    <3>1. PutCharAt(s, s.x - 1, s.y, Space) \in Consoles
      BY <1>0, <3>0, PutCharAtIs
    <3>2. s.x - 1 \in Columns
      BY <1>0, <2>2, ScreenSize DEF Columns
    <3>3. PutCharAt(s, s.x - 1, s.y, Space).x = s.x
      BY <1>0, <3>0, PutCharAtStays
    <3>4. Erase(s) \in Consoles
      BY <3>1, <3>2, <3>3 DEF Erase, Consoles
    <3>5. QED
      BY <2>0, <2>1, <2>2, <3>4
  <2>3. CASE ~(s.x > 0)
    BY <2>0, <2>1, <2>3
  <2>4. QED
    BY <2>2, <2>3
<1>3. CASE k = Return
  <2>1. k # Newline /\ k # Backspace /\ ~(k >= Space)
    BY <1>3 DEF Newline, Backspace, Return, Space
  <2>2. PrintChar(s, k) = [s EXCEPT !.x = 0]
    BY <1>3, <2>1, Zenon DEF PrintChar
  <2>3. QED
    BY <2>1, <2>2, ScreenSize DEF Consoles
<1>4. CASE k >= Space
  <2>1. k # Newline /\ k # Backspace /\ k # Return
    BY <1>4 DEF Newline, Backspace, Return, Space
  <2>2. PrintChar(s, k) = IF s.x + 1 >= Cols THEN NextRow(put) ELSE [put EXCEPT !.x = @ + 1]
    BY <1>4, <2>1, Zenon DEF PrintChar
  <2>3. put \in Consoles /\ put.x = s.x
    BY <1>0, PutCharAtIs
  <2>4. CASE s.x + 1 >= Cols
    BY <2>1, <2>2, <2>3, <2>4, <1>0, NextRowIs, ScreenSize DEF Columns
  <2>5. CASE ~(s.x + 1 >= Cols)
    <3>1. s.x + 1 \in Columns
      BY <2>5, <1>0, ScreenSize DEF Columns
    <3>2. [put EXCEPT !.x = @ + 1] \in Consoles
      BY <2>3, <3>1 DEF Consoles
    <3>3. QED
      BY <2>1, <2>2, <2>5, <3>2
  <2>6. QED
    BY <2>4, <2>5
<1>5. CASE k # Newline /\ k # Backspace /\ k # Return /\ ~(k >= Space)
  <2>1. PrintChar(s, k) = s
    BY <1>5, Zenon DEF PrintChar
  <2>2. QED
    BY <1>5, <2>1
<1>6. QED
  BY <1>1, <1>2, <1>3, <1>4, <1>5

LEMMA EraseIs ==
  ASSUME NEW s \in Consoles, s.x > 0
  PROVE  /\ Erase(s).x = s.x - 1 /\ Erase(s).y = s.y
         /\ <<s.x - 1, s.y>> \in Cells
         /\ Glyph(Erase(s), <<s.x - 1, s.y>>) = Space
         /\ \A cell \in Cells : cell # <<s.x - 1, s.y>> => Glyph(Erase(s), cell) = Glyph(s, cell)
<1> DEFINE col == s.x - 1
           put == PutCharAt(s, col, s.y, Space)
<1>1. col \in Int /\ s.y \in Int /\ Space \in Int /\ col \in Columns /\ s.y \in Lines
  BY ConsoleIs, ScreenSize DEF Columns, Space
<1>2. <<col, s.y>> \in Cells
  BY <1>1 DEF Cells
<1>3. Erase(s) = [put EXCEPT !.x = @ - 1]
  BY DEF Erase
<1> HIDE DEF col
<1>4. put \in Consoles /\ put.x = s.x /\ put.y = s.y
  BY <1>1, PutCharAtIs
<1>5. /\ Glyph(put, <<col, s.y>>) = Space
      /\ \A cell \in Cells : cell # <<col, s.y>> => Glyph(put, cell) = Glyph(s, cell)
  BY <1>1, <1>2, PutCharAtIs
<1> HIDE DEF put
<1>6. Erase(s).x = s.x - 1 /\ Erase(s).y = s.y /\ Erase(s).cells = put.cells
  BY <1>3, <1>4 DEF Consoles
<1>7. \A cell : Glyph(Erase(s), cell) = Glyph(put, cell)
  BY <1>6 DEF Glyph
<1>8. /\ <<col, s.y>> \in Cells
      /\ Glyph(Erase(s), <<col, s.y>>) = Space
      /\ \A cell \in Cells : cell # <<col, s.y>> => Glyph(Erase(s), cell) = Glyph(s, cell)
  BY <1>2, <1>5, <1>7
<1>9. QED
  BY <1>6, <1>8 DEF col

LEMMA PutIs ==
  ASSUME NEW s \in Consoles, NEW k \in Int, k >= Space, s.x + 1 < Cols
  PROVE  /\ PrintChar(s, k).x = s.x + 1 /\ PrintChar(s, k).y = s.y
         /\ <<s.x, s.y>> \in Cells
         /\ Glyph(PrintChar(s, k), <<s.x, s.y>>) = k
         /\ \A cell \in Cells : cell # <<s.x, s.y>> =>
              Glyph(PrintChar(s, k), cell) = Glyph(s, cell)
<1> DEFINE put == PutCharAt(s, s.x, s.y, k)
<1>1. s.x \in Int /\ s.y \in Int /\ s.x \in Columns /\ s.y \in Lines
  BY ConsoleIs
<1>2. <<s.x, s.y>> \in Cells
  BY <1>1 DEF Cells
<1>3. PrintChar(s, k) = [put EXCEPT !.x = @ + 1]
  BY PrintCharIs
<1>4. put \in Consoles /\ put.x = s.x /\ put.y = s.y
  BY <1>1, PutCharAtIs
<1>5. /\ Glyph(put, <<s.x, s.y>>) = k
      /\ \A cell \in Cells : cell # <<s.x, s.y>> => Glyph(put, cell) = Glyph(s, cell)
  BY <1>1, <1>2, PutCharAtIs
<1> HIDE DEF put
<1>6. PrintChar(s, k).x = s.x + 1 /\ PrintChar(s, k).y = s.y /\ PrintChar(s, k).cells = put.cells
  BY <1>3, <1>4 DEF Consoles
<1>7. \A cell : Glyph(PrintChar(s, k), cell) = Glyph(put, cell)
  BY <1>6 DEF Glyph
<1>8. QED
  BY <1>2, <1>5, <1>6, <1>7

-----------------------------------------------------------------------------
(* Text that is printed: a sequence of print_char.                         *)
Prints == {Char(n) : n \in Int}

LEMMA DoIs ==
  ASSUME NEW s \in Consoles, NEW call \in Prints
  PROVE  Do(s, call) \in Consoles
<1>1. PICK n \in Int : call = <<"print_char", n>>
  BY DEF Prints, Char
<1>2. call[1] = "print_char" /\ call[2] = n
  BY <1>1
<1>3. "print_char" # "set_cursor" /\ "print_char" # "set_color"
  OBVIOUS
<1>4. Do(s, call) = PrintChar(s, call[2])
  BY <1>2, <1>3, Zenon DEF Do
<1>5. QED
  BY <1>2, <1>4, PrintCharIs

LEMMA DrawIs ==
  ASSUME NEW s \in Consoles, NEW calls \in Seq(Prints)
  PROVE  Draw(s, calls) \in Consoles
<1> DEFINE N == Len(calls)
           E(g, i) == IF i = 0 THEN s ELSE Do(g[i - 1], calls[i])
           T == [e \in Consoles \X (1 .. N) |-> Do(e[1], calls[e[2]])]
<1>1. N \in Nat /\ \A i \in 1 .. N : calls[i] \in Prints
  OBVIOUS
<1>2. T \in [Consoles \X (1 .. N) -> Consoles]
  BY <1>1, DoIs
<1>3. PICK g \in [0 .. N -> Consoles] :
        g[0] = s /\ \A i \in 1 .. N : g[i] = T[<<g[i - 1], i>>]
  <2> HIDE DEF T, N, E
  <2>1. N \in Nat
    BY <1>1
  <2>2. PICK g : g \in Runs(N, Consoles, s, T)
    BY <2>1, <1>2, Recursion, Zenon
  <2>3. QED
    BY <2>2 DEF Runs
<1>4. ASSUME NEW i \in 1 .. N
      PROVE  T[<<g[i - 1], i>>] = Do(g[i - 1], calls[i])
  <2>1. i - 1 \in 0 .. N /\ i \in 1 .. N
    BY <1>1
  <2>2. g[i - 1] \in Consoles
    BY <2>1
  <2>3. QED
    BY <2>1, <2>2
<1>5. g = [i \in 0 .. N |-> E(g, i)]
  <2>1. ASSUME NEW i \in 0 .. N
        PROVE  g[i] = E(g, i)
    <3>1. CASE i = 0
      BY <1>3, <3>1
    <3>2. CASE i # 0
      <4>1. i \in 1 .. N
        BY <1>1, <3>2
      <4> HIDE DEF T, N
      <4>2. QED
        BY <1>3, <1>4, <3>2, <4>1
    <3>3. QED
      BY <3>1, <3>2
  <2> HIDE DEF E, N
  <2>2. QED
    BY <1>3, <2>1
<1> DEFINE after == CHOOSE f : f = [i \in 0 .. N |-> E(f, i)]
<1>6. after = [i \in 0 .. N |-> E(after, i)]
  BY <1>5
<1>7. Draw(s, calls) = after[N]
  BY DEF Draw
<1> HIDE DEF after
<1> DEFINE P == {i \in 0 .. N : after[i] \in Consoles}
<1>8. 0 \in P
  BY <1>1, <1>6
<1>9. ASSUME NEW i \in 0 .. N - 1, i \in P
      PROVE  i + 1 \in P
  <2>1. after[i + 1] = Do(after[i], calls[i + 1])
    BY <1>1, <1>6
  <2>2. QED
    BY <1>1, <1>9, <2>1, DoIs
<1>10. \A i \in 0 .. N : i \in P
  <2> HIDE DEF P, N
  <2>1. QED
    BY <1>1, <1>8, <1>9, Induction
<1>11. QED
  BY <1>1, <1>7, <1>10

LEMMA CyrillicIs ==
  ASSUME NEW lead \in Int, NEW b \in Int
  PROVE  Cyrillic(lead, b) \in Int
BY DEF Cyrillic

Decoding == [out : Seq(Int), lead : Int]

LEMMA DecodeIs ==
  ASSUME NEW acc \in Decoding, NEW b \in Int
  PROVE  Decode(acc, b) \in Decoding
<1>1. acc.out \in Seq(Int) /\ acc.lead \in Int /\ Cyrillic(acc.lead, b) \in Int
  BY CyrillicIs DEF Decoding
<1>2. /\ Append(acc.out, Cyrillic(acc.lead, b)) \in Seq(Int)
      /\ Append(acc.out, IF b < 128 THEN b ELSE 63) \in Seq(Int)
  BY <1>1
<1>3. CASE acc.lead # 0
  BY <1>2, <1>3 DEF Decode, Decoding
<1>4. CASE acc.lead = 0 /\ b \in {208, 209}
  BY <1>1, <1>4 DEF Decode, Decoding
<1>5. CASE acc.lead = 0 /\ b \notin {208, 209}
  BY <1>1, <1>2, <1>5 DEF Decode, Decoding
<1>6. QED
  BY <1>3, <1>4, <1>5

LEMMA DecodedIs ==
  ASSUME NEW bytes \in Seq(Int)
  PROVE  Decoded(bytes) \in Seq(Int)
<1> DEFINE N == Len(bytes)
           none == [out |-> <<>>, lead |-> 0]
           E(g, i) == IF i = 0 THEN none ELSE Decode(g[i - 1], bytes[i])
           T == [e \in Decoding \X (1 .. N) |-> Decode(e[1], bytes[e[2]])]
<1>1. N \in Nat /\ none \in Decoding /\ \A i \in 1 .. N : bytes[i] \in Int
  BY DEF Decoding
<1>2. T \in [Decoding \X (1 .. N) -> Decoding]
  <2> HIDE DEF none
  <2>1. QED
    BY <1>1, DecodeIs
<1>3. PICK g \in [0 .. N -> Decoding] :
        g[0] = none /\ \A i \in 1 .. N : g[i] = T[<<g[i - 1], i>>]
  <2> HIDE DEF T, N, E, none
  <2>1. N \in Nat
    BY <1>1
  <2>2. none \in Decoding
    BY <1>1
  <2>3. PICK g : g \in Runs(N, Decoding, none, T)
    BY <2>1, <2>2, <1>2, Recursion, Zenon
  <2>4. QED
    BY <2>3 DEF Runs
<1>4. ASSUME NEW i \in 1 .. N
      PROVE  T[<<g[i - 1], i>>] = Decode(g[i - 1], bytes[i])
  <2>1. i - 1 \in 0 .. N /\ i \in 1 .. N
    BY <1>1
  <2>2. g[i - 1] \in Decoding
    BY <2>1
  <2>3. QED
    BY <2>1, <2>2
<1>5. g = [i \in 0 .. N |-> E(g, i)]
  <2>1. ASSUME NEW i \in 0 .. N
        PROVE  g[i] = E(g, i)
    <3> HIDE DEF none
    <3>1. CASE i = 0
      BY <1>3, <3>1
    <3>2. CASE i # 0
      <4>1. i \in 1 .. N
        BY <1>1, <3>2
      <4> HIDE DEF T, N
      <4>2. QED
        BY <1>3, <1>4, <3>2, <4>1
    <3>3. QED
      BY <3>1, <3>2
  <2> HIDE DEF E, N
  <2>2. QED
    BY <1>3, <2>1
<1> DEFINE after == CHOOSE f : f = [i \in 0 .. N |-> E(f, i)]
<1>6. after = [i \in 0 .. N |-> E(after, i)]
  BY <1>5
<1>7. Decoded(bytes) =
        IF after[N].lead = 0 THEN after[N].out ELSE Append(after[N].out, 63)
  BY DEF Decoded
<1> HIDE DEF after, none
<1> DEFINE P == {i \in 0 .. N : after[i] \in Decoding}
<1>8. 0 \in P
  BY <1>1, <1>6
<1>9. ASSUME NEW i \in 0 .. N - 1, i \in P
      PROVE  i + 1 \in P
  <2>1. after[i + 1] = Decode(after[i], bytes[i + 1])
    BY <1>1, <1>6
  <2>2. QED
    BY <1>1, <1>9, <2>1, DecodeIs
<1>10. \A i \in 0 .. N : i \in P
  <2> HIDE DEF P, N
  <2>1. QED
    BY <1>1, <1>8, <1>9, Induction
<1>11. after[N] \in Decoding
  BY <1>1, <1>10
<1>12. after[N].out \in Seq(Int) /\ Append(after[N].out, 63) \in Seq(Int)
  BY <1>11 DEF Decoding
<1>13. QED
  BY <1>7, <1>12

LEMMA TextIs ==
  ASSUME NEW bytes \in Seq(Int)
  PROVE  Text(bytes) \in Seq(Prints)
<1>1. Decoded(bytes) \in Seq(Int)
  BY DecodedIs
<1>2. \A i \in DOMAIN Decoded(bytes) : Char(Decoded(bytes)[i]) \in Prints
  BY <1>1 DEF Prints
<1>3. DOMAIN Decoded(bytes) = 1 .. Len(Decoded(bytes)) /\ Len(Decoded(bytes)) \in Nat
  BY <1>1
<1>4. QED
  BY <1>2, <1>3, SeqDef DEF Text

LEMMA PromptIs ==
  ASSUME NEW style
  PROVE  Prompt(style) \in Seq(Prints)
<1> DEFINE user == <<117>>
           host == <<64, 104>>
           p1 == user \o host \o <<Space, 62, Space>>
           p2 == user \o <<35, Space>>
           p3 == user \o <<200>>
           p4 == user \o host \o <<58, 126, 36, Space>>
<1>1. p1 \in Seq(Int) /\ p2 \in Seq(Int) /\ p3 \in Seq(Int) /\ p4 \in Seq(Int)
  <2>1. user \in Seq(Int) /\ host \in Seq(Int) /\ <<200>> \in Seq(Int)
    OBVIOUS
  <2>2. <<Space, 62, Space>> \in Seq(Int) /\ <<35, Space>> \in Seq(Int)
    BY DEF Space
  <2>3. <<58, 126, 36, Space>> \in Seq(Int)
    BY DEF Space
  <2> HIDE DEF user, host
  <2>4. user \o host \in Seq(Int)
    BY <2>1
  <2>5. QED
    BY <2>1, <2>2, <2>3, <2>4, ConcatProperties
<1>2. \/ Prompt(style) = Text(p1) \/ Prompt(style) = Text(p2)
      \/ Prompt(style) = Text(p3) \/ Prompt(style) = Text(p4)
  <2>1. CASE style = 1
    <3>1. style # 2 /\ style # 3
      BY <2>1
    <3>2. QED
      BY <2>1, <3>1, Zenon DEF Prompt
  <2>2. CASE style = 2
    <3>1. style # 1 /\ style # 3
      BY <2>2
    <3>2. QED
      BY <2>2, <3>1, Zenon DEF Prompt
  <2>3. CASE style = 3
    <3>1. style # 1 /\ style # 2
      BY <2>3
    <3>2. QED
      BY <2>3, <3>1, Zenon DEF Prompt
  <2>4. CASE style # 1 /\ style # 2 /\ style # 3
    BY <2>4, Zenon DEF Prompt
  <2>5. QED
    BY <2>1, <2>2, <2>3, <2>4
<1> HIDE DEF p1, p2, p3, p4
<1>3. QED
  BY <1>1, <1>2, TextIs

LEMMA TimesIs ==
  ASSUME NEW n \in Int, NEW k, Char(k) \in Prints
  PROVE  Times(n, k) \in Seq(Prints)
<1>1. CASE n < 1
  <2>1. Times(n, k) = <<>>
    BY <1>1 DEF Times
  <2>2. QED
    BY <2>1
<1>2. CASE ~(n < 1)
  <2>1. n \in Nat /\ Times(n, k) = [i \in 1 .. n |-> Char(k)]
    BY <1>2 DEF Times
  <2>2. [i \in 1 .. n |-> Char(k)] \in [1 .. n -> Prints]
    OBVIOUS
  <2>3. QED
    BY <2>1, <2>2, SeqDef
<1>3. QED
  BY <1>1, <1>2

LEMMA FullIs == Full \in Consoles
<1>1. Picture(Space, Black, Black) \in Pictures
  BY PictureIs DEF Space, Black
<1>2. BlankScreen \in [Lines -> [Columns -> Pictures]]
  BY <1>1 DEF BlankScreen
<1>3. Start \in Consoles /\ Clear(Start) \in Consoles
  BY <1>2, ScreenSize DEF Start, Clear, Consoles, White, Black
<1>4. Char(Old) \in Prints
  BY DEF Prints, Old
<1>5. Cols * Rows - 1 \in Int
  BY ScreenSize
<1>6. Times(Cols * Rows - 1, Old) \in Seq(Prints)
  BY <1>4, <1>5, TimesIs, Zenon
<1>7. QED
  BY <1>3, <1>6, DrawIs DEF Full

-----------------------------------------------------------------------------
(* The line that is typed.                                                 *)
LineType ==
  line \in [on : BOOLEAN, buf : Seq(Int), max : Nat, x : Int, y : Int, most : Nat, flat : BOOLEAN]

(* Where the line began and how long it has been fit in its row.           *)
Shown ==
  /\ line.y \in Lines /\ line.x \in Nat /\ line.x + line.most <= Cols - 1
  /\ con.x = line.x + Len(line.buf) /\ con.y = line.y /\ Len(line.buf) <= line.most
  /\ \A i \in 1 .. line.most :
       Glyph(con, <<line.x + i - 1, line.y>>) = IF i \in 1 .. Len(line.buf) THEN line.buf[i] ELSE Space

LineInv ==
  /\ LineType
  /\ line.on => drawn = Nothing
  /\ drawn = Nothing => con \in Consoles
  /\ line.on /\ line.flat => Shown

LEMMA LineInvHolds ==
  ASSUME LineInv
  PROVE  LineIsShown
<1> SUFFICES ASSUME line.on, line.flat
             PROVE  /\ <<con.x, con.y>> = <<line.x + Len(line.buf), line.y>>
                    /\ \A i \in 1 .. line.most :
                         Glyph(con, <<line.x + i - 1, line.y>>) =
                           IF i \in DOMAIN line.buf THEN line.buf[i] ELSE Space
  BY DEF LineIsShown
<1>1. Shown /\ line.buf \in Seq(Int)
  BY DEF LineInv, LineType
<1>2. DOMAIN line.buf = 1 .. Len(line.buf)
  BY <1>1
<1>3. QED
  BY <1>1, <1>2 DEF Shown

(* What a key may do to a line.                                            *)
Ends   == con' \in Consoles /\ line' = [line EXCEPT !.on = FALSE]
Adds(k) == con' = PrintChar(con, k) /\ line' = Longer(k)
Erases == /\ line.buf # <<>> /\ con' = PrintChar(con, Backspace)
          /\ line' = [line EXCEPT !.buf = Front(@)]

KeyPressed == line.on /\ (Ends \/ (\E k \in Int : Adds(k)) \/ Erases \/ UNCHANGED <<con, line>>)

LEMMA KeysArePressed ==
  ASSUME con \in Consoles, NEW k \in Keys, ShellKey(k) \/ ProgramKey(k)
  PROVE  KeyPressed
<1>1. k \in Int /\ Newline \in Int /\ Newline # Backspace /\ ~(Newline >= Space) /\ ~(Backspace >= Space)
  BY ConsoleAssumption DEF Newline, Backspace, Space
<1>2. PrintChar(con, Newline) \in Consoles
  BY <1>1, PrintCharIs
<1>3. line.on
  BY DEF ShellKey, ProgramKey, Type
<1>4. CASE k = Newline
  <2>1. k # Backspace /\ ~(k >= Space)
    BY <1>1, <1>4
  <2>2. con' = PrintChar(con, Newline) /\ EndLine
    BY <1>4, <2>1, Zenon DEF ShellKey, ProgramKey
  <2>3. QED
    BY <1>2, <1>3, <2>2 DEF KeyPressed, Ends, EndLine
<1>5. CASE k = Backspace
  <2>1. k # Newline /\ ~(k >= Space)
    BY <1>1, <1>5
  <2>2. IF line.buf # <<>>
        THEN con' = PrintChar(con, Backspace) /\ line' = [line EXCEPT !.buf = Front(@)]
        ELSE UNCHANGED <<con, line>>
    BY <1>5, <2>1, Zenon DEF ShellKey, ProgramKey
  <2>3. QED
    BY <1>3, <2>2 DEF KeyPressed, Erases
<1>6. CASE k # Newline /\ k # Backspace
  <2>1. CASE ShellKey(k)
    <3>1. IF Len(line.buf) < BufferSize - 1 THEN con' = PrintChar(con, k) /\ line' = Longer(k)
          ELSE UNCHANGED <<con, line>>
      BY <1>6, <2>1, Zenon DEF ShellKey
    <3>2. QED
      BY <1>1, <1>3, <3>1 DEF KeyPressed, Adds
  <2>2. CASE ProgramKey(k) /\ k >= Space
    <3>1. con' = PrintChar(con, k) /\ line' = Longer(k)
      BY <1>6, <2>2, Zenon DEF ProgramKey
    <3>2. QED
      BY <1>1, <1>3, <3>1 DEF KeyPressed, Adds
  <2>3. CASE ProgramKey(k) /\ ~(k >= Space)
    <3>1. UNCHANGED <<con, line>>
      BY <1>6, <2>3, Zenon DEF ProgramKey
    <3>2. QED
      BY <1>3, <3>1 DEF KeyPressed
  <2>4. QED
    BY <2>1, <2>2, <2>3
<1>7. QED
  BY <1>4, <1>5, <1>6

LEMMA AddsKeeps ==
  ASSUME LineInv, line.on, con \in Consoles, NEW k \in Int, Adds(k)
  PROVE  /\ LineType' /\ con' \in Consoles /\ line'.on = line.on
         /\ line'.flat => Shown'
<1> DEFINE n == Len(line.buf)
<1>1. /\ line.buf \in Seq(Int) /\ n \in Nat /\ line.most \in Nat /\ line.flat \in BOOLEAN
      /\ line.on \in BOOLEAN
  BY DEF LineInv, LineType
<1>2. con' = PrintChar(con, k) /\ con' \in Consoles
  BY PrintCharIs DEF Adds
<1>3. /\ line'.buf = Append(line.buf, k) /\ line'.x = line.x /\ line'.y = line.y
      /\ line'.most = (IF line.most > n THEN line.most ELSE line.most + 1)
      /\ line'.on = line.on
      /\ line'.flat = (line.flat /\ k >= Space /\ con.x + 1 < Cols)
  BY DEF Adds, Longer, LineInv, LineType
<1>4. line'.flat \in BOOLEAN /\ line'.most \in Nat /\ line'.buf \in Seq(Int)
  BY <1>1, <1>3
<1>5. LineType'
  BY <1>3, <1>4 DEF Adds, Longer, LineInv, LineType
<1>6. ASSUME line'.flat
      PROVE  Shown'
  <2>1. line.flat /\ k >= Space /\ con.x + 1 < Cols
    BY <1>3, <1>6
  <2>2. Shown
    BY <2>1 DEF LineInv
  <2>3. /\ con'.x = con.x + 1 /\ con'.y = con.y
        /\ Glyph(con', <<con.x, con.y>>) = k
        /\ \A cell \in Cells : cell # <<con.x, con.y>> => Glyph(con', cell) = Glyph(con, cell)
    BY <1>2, <2>1, PutIs
  <2>4. con.x = line.x + n /\ con.y = line.y /\ line.x \in Nat /\ n <= line.most
    BY <2>2 DEF Shown
  <2>5. Len(line'.buf) = n + 1 /\ line'.buf[n + 1] = k /\ \A i \in 1 .. n : line'.buf[i] = line.buf[i]
    BY <1>1, <1>3
  <2>6. line'.most >= n + 1 /\ line.x + line'.most <= Cols - 1
    BY <1>1, <1>3, <2>1, <2>2, <2>4, ScreenSize DEF Shown
  <2>7. ASSUME NEW i \in 1 .. line'.most
        PROVE  Glyph(con', <<line.x + i - 1, line.y>>) =
                 IF i \in 1 .. n + 1 THEN line'.buf[i] ELSE Space
    <3>1. line.x + i - 1 \in Columns /\ line.y \in Lines
      BY <1>4, <2>2, <2>4, <2>6, ScreenSize DEF Columns, Shown
    <3>2. <<line.x + i - 1, line.y>> \in Cells
      BY <3>1 DEF Cells
    <3>3. CASE i = n + 1
      <4>1. <<line.x + i - 1, line.y>> = <<con.x, con.y>>
        BY <1>1, <2>4, <3>3
      <4>2. QED
        BY <1>1, <2>3, <2>5, <3>3, <4>1
    <3>4. CASE i # n + 1
      <4>1. <<line.x + i - 1, line.y>> # <<con.x, con.y>>
        BY <1>1, <1>4, <2>4, <3>4
      <4>2. Glyph(con', <<line.x + i - 1, line.y>>) = Glyph(con, <<line.x + i - 1, line.y>>)
        BY <2>3, <3>2, <4>1
      <4>3. i \in 1 .. line.most
        BY <1>1, <1>3, <2>4, <3>4
      <4>4. Glyph(con, <<line.x + i - 1, line.y>>) = IF i \in 1 .. n THEN line.buf[i] ELSE Space
        BY <2>2, <4>3 DEF Shown
      <4>5. QED
        BY <1>1, <2>5, <3>4, <4>2, <4>4
    <3>5. QED
      BY <3>3, <3>4
  <2>8. \A i \in 1 .. line'.most :
          Glyph(con', <<line'.x + i - 1, line'.y>>) =
            IF i \in 1 .. Len(line'.buf) THEN line'.buf[i] ELSE Space
    <3> HIDE DEF n
    <3>1. QED
      BY <1>3, <2>5, <2>7
  <2>9. /\ line'.y \in Lines /\ line'.x \in Nat /\ line'.x + line'.most <= Cols - 1
        /\ con'.x = line'.x + Len(line'.buf) /\ con'.y = line'.y /\ Len(line'.buf) <= line'.most
    <3> HIDE DEF n
    <3>1. line.y \in Lines /\ n \in Nat
      BY <1>1, <2>2 DEF Shown
    <3>2. line'.y \in Lines /\ line'.x \in Nat /\ con'.y = line'.y
      BY <1>3, <2>3, <2>4, <3>1
    <3>3. line'.x + line'.most <= Cols - 1 /\ Len(line'.buf) <= line'.most
      BY <1>3, <2>5, <2>6
    <3>4. con'.x = line.x + n + 1
      BY <2>3, <2>4
    <3>5. con'.x = line'.x + Len(line'.buf)
      BY <1>3, <2>4, <2>5, <3>1, <3>4
    <3>6. QED
      BY <3>2, <3>3, <3>5
  <2>10. QED
    BY <2>8, <2>9 DEF Shown
<1>7. QED
  BY <1>2, <1>3, <1>5, <1>6

LEMMA ErasesKeeps ==
  ASSUME LineInv, line.on, con \in Consoles, Erases
  PROVE  /\ LineType' /\ con' \in Consoles /\ line'.on = line.on
         /\ line'.flat => Shown'
<1> DEFINE n == Len(line.buf)
<1>1. /\ line.buf \in Seq(Int) /\ n \in Nat /\ line.most \in Nat /\ line.flat \in BOOLEAN
      /\ line.on \in BOOLEAN
  BY DEF LineInv, LineType
<1>2. n > 0
  BY <1>1, EmptySeq DEF Erases
<1>3. con' = PrintChar(con, Backspace) /\ con' \in Consoles
  BY PrintCharIs DEF Erases, Backspace
<1>4. /\ line'.buf = Front(line.buf) /\ line'.x = line.x /\ line'.y = line.y
      /\ line'.most = line.most /\ line'.on = line.on /\ line'.flat = line.flat
  BY DEF Erases, LineInv, LineType
<1>5. /\ Front(line.buf) \in Seq(Int) /\ Len(Front(line.buf)) = n - 1
      /\ \A i \in 1 .. n - 1 : Front(line.buf)[i] = line.buf[i]
  BY <1>1, <1>2 DEF Front
<1>6. LineType'
  BY <1>5 DEF Erases, LineInv, LineType
<1>7. ASSUME line'.flat
      PROVE  Shown'
  <2>1. Shown
    BY <1>4, <1>7 DEF LineInv
  <2>2. con.x = line.x + n /\ con.y = line.y /\ line.x \in Nat /\ n <= line.most
    BY <2>1 DEF Shown
  <2>3. con.x > 0
    BY <1>1, <1>2, <2>2
  <2>4. con' = Erase(con)
    BY <1>3, <2>3, PrintCharIs DEF Backspace
  <2>5. /\ con'.x = con.x - 1 /\ con'.y = con.y
        /\ Glyph(con', <<con.x - 1, con.y>>) = Space
        /\ \A cell \in Cells : cell # <<con.x - 1, con.y>> => Glyph(con', cell) = Glyph(con, cell)
    BY <2>3, <2>4, EraseIs
  <2>6. ASSUME NEW i \in 1 .. line.most
        PROVE  Glyph(con', <<line.x + i - 1, line.y>>) =
                 IF i \in 1 .. n - 1 THEN Front(line.buf)[i] ELSE Space
    <3>1. line.x + i - 1 \in Columns /\ line.y \in Lines
      BY <1>1, <2>1, <2>2, ScreenSize DEF Columns, Shown
    <3>2. <<line.x + i - 1, line.y>> \in Cells
      BY <3>1 DEF Cells
    <3>3. CASE i = n
      <4> HIDE DEF n
      <4>1. line.x + i - 1 = con.x - 1 /\ line.y = con.y
        BY <1>1, <2>2, <3>3
      <4>2. i \notin 1 .. n - 1
        BY <1>1, <3>3
      <4>3. QED
        BY <2>5, <4>1, <4>2
    <3>4. CASE i # n
      <4>1. <<line.x + i - 1, line.y>> # <<con.x - 1, con.y>>
        BY <1>1, <2>2, <3>4
      <4>2. Glyph(con', <<line.x + i - 1, line.y>>) = Glyph(con, <<line.x + i - 1, line.y>>)
        BY <2>5, <3>2, <4>1
      <4>3. Glyph(con, <<line.x + i - 1, line.y>>) = IF i \in 1 .. n THEN line.buf[i] ELSE Space
        BY <2>1 DEF Shown
      <4>4. QED
        BY <1>1, <1>5, <3>4, <4>2, <4>3
    <3>5. QED
      BY <3>3, <3>4
  <2>7. \A i \in 1 .. line'.most :
          Glyph(con', <<line'.x + i - 1, line'.y>>) =
            IF i \in 1 .. Len(line'.buf) THEN line'.buf[i] ELSE Space
    <3> HIDE DEF n
    <3>1. QED
      BY <1>4, <1>5, <2>6
  <2>8. /\ line'.y \in Lines /\ line'.x \in Nat /\ line'.x + line'.most <= Cols - 1
        /\ con'.x = line'.x + Len(line'.buf) /\ con'.y = line'.y /\ Len(line'.buf) <= line'.most
    <3> HIDE DEF n
    <3>1. line.y \in Lines /\ line.x + line.most <= Cols - 1
      BY <2>1 DEF Shown
    <3>2. line'.y \in Lines /\ line'.x \in Nat /\ con'.y = line'.y /\ line'.x + line'.most <= Cols - 1
      BY <1>4, <2>2, <2>5, <3>1
    <3>3. con'.x = line.x + (n - 1)
      BY <1>1, <2>2, <2>5
    <3>4. Len(line'.buf) = n - 1 /\ line'.most = line.most /\ line'.x = line.x
      BY <1>4, <1>5
    <3>5. n - 1 <= line.most
      BY <1>1, <2>2
    <3>6. QED
      BY <3>2, <3>3, <3>4, <3>5
  <2>9. QED
    BY <2>7, <2>8 DEF Shown
<1>8. QED
  BY <1>3, <1>4, <1>6, <1>7

LEMMA KeyPressedKeeps ==
  ASSUME LineInv, con \in Consoles, KeyPressed, UNCHANGED drawn
  PROVE  LineInv'
<1>1. line.on /\ drawn = Nothing /\ drawn' = Nothing
  BY DEF KeyPressed, LineInv
<1>2. CASE Ends
  <2>1. line'.on = FALSE /\ LineType'
    BY <1>2 DEF Ends, LineInv, LineType
  <2>2. QED
    BY <1>1, <1>2, <2>1 DEF Ends, LineInv
<1>3. CASE \E k \in Int : Adds(k)
  BY <1>1, <1>3, AddsKeeps DEF LineInv
<1>4. CASE Erases
  BY <1>1, <1>4, ErasesKeeps DEF LineInv
<1>5. CASE UNCHANGED <<con, line>>
  BY <1>1, <1>5 DEF LineInv, LineType, Shown
<1>6. QED
  BY <1>2, <1>3, <1>4, <1>5 DEF KeyPressed

LEMMA BeginKeeps ==
  ASSUME con \in Consoles, drawn = Nothing, UNCHANGED drawn, NEW max \in Nat,
         NEW prompt \in Seq(Prints), Begin(max, prompt)
  PROVE  LineInv'
<1>1. con' \in Consoles
  BY DrawIs DEF Begin
<1>2. line' = [on |-> TRUE, buf |-> <<>>, max |-> max,
               x |-> con'.x, y |-> con'.y, most |-> 0, flat |-> TRUE]
  BY DEF Begin
<1>3. con'.x \in 0 .. Cols - 1 /\ con'.x \in Int /\ con'.y \in Lines /\ con'.y \in Int
  BY <1>1, ConsoleIs
<1>4. LineType'
  <2>1. <<>> \in Seq(Int)
    OBVIOUS
  <2>2. QED
    BY <1>2, <1>3, <2>1 DEF LineType
<1>5. Shown'
  BY <1>2, <1>3, ScreenSize DEF Shown
<1>6. QED
  BY <1>1, <1>4, <1>5 DEF LineInv

LEMMA TypingKeeps ==
  ASSUME LineInv, Typing
  PROVE  LineInv'
<1>1. drawn = Nothing /\ UNCHANGED drawn /\ ConsoleNext /\ con \in Consoles
  BY DEF Typing, LineInv
<1>2. CASE \E style \in Styles : Begin(0, Prompt(style))
  <2>1. 0 \in Nat
    OBVIOUS
  <2>2. QED
    BY <1>1, <1>2, <2>1, PromptIs, BeginKeeps, Zenon
<1>3. CASE \E max \in MaxLens \ {0} : Begin(max, <<>>)
  <2>1. <<>> \in Seq(Prints)
    OBVIOUS
  <2>2. PICK max \in MaxLens : Begin(max, <<>>)
    BY <1>3
  <2>3. max \in Nat
    BY ConsoleAssumption
  <2>4. QED
    BY <1>1, <2>1, <2>2, <2>3, BeginKeeps, Zenon
<1>4. CASE \E k \in Keys : ShellKey(k) \/ ProgramKey(k)
  BY <1>1, <1>4, KeysArePressed, KeyPressedKeeps
<1>5. CASE BufferFull
  <2>1. KeyPressed
    BY <1>1, <1>5 DEF BufferFull, EndLine, KeyPressed, Ends
  <2>2. QED
    BY <1>1, <2>1, KeyPressedKeeps
<1>6. QED
  BY <1>1, <1>2, <1>3, <1>4, <1>5 DEF ConsoleNext

(* A widget leaves the name of its call.                                   *)
LEMMA WidgetsDraw ==
  ASSUME WidgetNext
  PROVE  drawn' # Nothing \/ (con' = Full /\ drawn' = Nothing)
<1>1. CASE Rectangles
  BY <1>1 DEF Rectangles, Rectangle, Show, Nothing
<1>2. CASE Bars
  BY <1>2 DEF Bars, Rectangle, Show, Nothing
<1>3. CASE Labels
  BY <1>3 DEF Labels, Show, Nothing
<1>4. CASE Menubars
  BY <1>4 DEF Menubars, Show, Nothing
<1>5. CASE Fill
  BY <1>5 DEF Fill
<1>6. QED
  BY <1>1, <1>2, <1>3, <1>4, <1>5 DEF WidgetNext

LEMMA LineStart ==
  ASSUME VideoInit
  PROVE  LineInv
<1>1. con = Start /\ line = NoLine /\ drawn = Nothing
  BY DEF VideoInit, ConsoleInit, WidgetInit
<1>2. Picture(Space, Black, Black) \in Pictures
  BY PictureIs DEF Space, Black
<1>3. Start \in Consoles
  BY <1>2, ScreenSize DEF Start, BlankScreen, Consoles, White, Black
<1>4. LineType /\ ~line.on
  BY <1>1 DEF LineType, NoLine
<1>5. QED
  BY <1>1, <1>3, <1>4 DEF LineInv

LEMMA LineKeeps ==
  ASSUME LineInv, [VideoNext]_videoVars
  PROVE  LineInv'
<1>1. CASE Typing
  BY <1>1, TypingKeeps
<1>2. CASE Drawing
  <2>1. ~line.on /\ UNCHANGED line /\ WidgetNext
    BY <1>2 DEF Drawing
  <2>2. drawn' = Nothing => con' \in Consoles
    BY <2>1, WidgetsDraw, FullIs
  <2>3. QED
    BY <2>1, <2>2 DEF LineInv, LineType
<1>3. CASE Painting
  BY <1>3 DEF Painting, LineInv, LineType, Shown
<1>4. CASE UNCHANGED videoVars
  BY <1>4 DEF videoVars, LineInv, LineType, Shown
<1>5. QED
  BY <1>1, <1>2, <1>3, <1>4 DEF VideoNext

(* read_line and ap_read_line: whatever is typed, on a screen of any size, *)
(* what a user sees in a line that has not left its row is what is in the  *)
(* buffer.                                                                 *)
THEOREM LinesAreShown == VideoSpec => []LineIsShown
<1>1. VideoInit => LineInv
  BY LineStart
<1>2. LineInv /\ [VideoNext]_videoVars => LineInv'
  BY LineKeeps
<1>3. LineInv => LineIsShown
  BY LineInvHolds
<1>4. QED
  BY <1>1, <1>2, <1>3, PTL DEF VideoSpec

-----------------------------------------------------------------------------
(* The cursor.  A pixel is inverted an even or an odd number of times, the *)
(* second time as often as the first.                                      *)
Colours == 0 .. Brightest
Images == [Screen -> Colours]

LEMMA TrueColour ==
  ASSUME Depth \in {24, 32}, NEW rgb
  PROVE  ColorPack(rgb) = rgb
<1>1. Depth # 16 /\ Depth # 15 /\ Depth # 8
  OBVIOUS
<1>2. QED
  BY <1>1, SMT DEF ColorPack

LEMMA InvertIs ==
  ASSUME Depth \in {24, 32}, NEW v \in Colours
  PROVE  Invert(v) \in Colours /\ Invert(Invert(v)) = v
<1>1. Brightest \in Nat
  BY DEF Brightest
<1>2. Invert(v) = Brightest - v /\ Invert(Brightest - v) = Brightest - (Brightest - v)
  BY TrueColour DEF Invert
<1>3. Brightest - v \in Colours /\ Brightest - (Brightest - v) = v
  BY <1>1 DEF Colours
<1>4. QED
  BY <1>2, <1>3

LEMMA FlipIs ==
  ASSUME Depth \in {24, 32}, NEW f \in Images, NEW p
  PROVE  /\ Flip(f, p) \in Images
         /\ \A q \in Screen : Flip(f, p)[q] = IF q = p THEN Invert(f[q]) ELSE f[q]
<1>1. \A q \in Screen : Invert(f[q]) \in Colours
  BY InvertIs DEF Images
<1>2. QED
  BY <1>1 DEF Flip, Images

LEMMA ArrowIs == Len(Arrow) \in Nat
<1> DEFINE Places == Int \X Int
           Twice == [k \in 1 .. 24 |-> <<(k - 1) % 2, (k - 1) \div 2>>]
           Body == Row(1) \o Row(2) \o Row(3) \o Row(4) \o Row(5) \o Row(6) \o Row(7) \o Row(8)
                     \o Row(9) \o Row(10) \o Row(11) \o Row(12)
           Tail1 == <<<<2, 8>>, <<3, 9>>, <<2, 9>>, <<3, 10>>, <<4, 10>>, <<3, 11>>, <<4, 11>>,
                      <<5, 11>>, <<1, 8>>, <<2, 7>>, <<3, 8>>, <<2, 10>>, <<4, 9>>, <<5, 10>>, <<6, 11>>>>
<1>1. Twice \in Seq(Places)
  <2>1. Twice \in [1 .. 24 -> Places]
    OBVIOUS
  <2> HIDE DEF Twice
  <2>2. QED
    BY <2>1, SeqDef
<1>2. \A i \in 1 .. 12 : Row(i) \in Seq(Places)
  <2> SUFFICES ASSUME NEW i \in 1 .. 12
               PROVE  Row(i) \in Seq(Places)
    OBVIOUS
  <2> DEFINE n == (14 - i) \div 2
  <2>1. n \in Nat
    OBVIOUS
  <2> HIDE DEF n
  <2>2. [j \in 1 .. n |-> <<j - 1, i - 1>>] \in [1 .. n -> Places]
    OBVIOUS
  <2>3. Row(i) = [j \in 1 .. n |-> <<j - 1, i - 1>>]
    BY DEF Row, n
  <2>4. QED
    BY <2>1, <2>2, <2>3, SeqDef
<1> HIDE DEF Places, Twice
<1>3. Body \in Seq(Places)
  <2>1. /\ Row(1) \in Seq(Places) /\ Row(2) \in Seq(Places) /\ Row(3) \in Seq(Places)
        /\ Row(4) \in Seq(Places) /\ Row(5) \in Seq(Places) /\ Row(6) \in Seq(Places)
        /\ Row(7) \in Seq(Places) /\ Row(8) \in Seq(Places) /\ Row(9) \in Seq(Places)
        /\ Row(10) \in Seq(Places) /\ Row(11) \in Seq(Places) /\ Row(12) \in Seq(Places)
    BY <1>2
  <2>2. \A s, t \in Seq(Places) : s \o t \in Seq(Places)
    BY ConcatProperties
  <2>3. QED
    BY <2>1, <2>2
<1>4. Tail1 \in Seq(Places)
  BY DEF Places
<1> HIDE DEF Body, Tail1
<1>5. Arrow = Twice \o Body \o Tail1
  BY DEF Arrow, Twice, Body, Tail1
<1>6. Arrow \in Seq(Places)
  BY <1>1, <1>3, <1>4, <1>5, ConcatProperties
<1>7. QED
  BY <1>6

(* The images between the first and the last pixel of the arrow.           *)
Place(x, y, i) == <<x + Arrow[i][1], y + Arrow[i][2]>>

Drawings(f, x, y) ==
  {g \in [0 .. Len(Arrow) -> Images] :
     g[0] = f /\ \A i \in 1 .. Len(Arrow) : g[i] = Flip(g[i - 1], Place(x, y, i))}

LEMMA DrawArrowIs ==
  ASSUME Depth \in {24, 32}, NEW f \in Images, NEW x, NEW y
  PROVE  \E g \in Drawings(f, x, y) : DrawArrow(f, x, y) = g[Len(Arrow)]
<1> DEFINE N == Len(Arrow)
           E(g, i) == IF i = 0 THEN f ELSE Flip(g[i - 1], <<x + Arrow[i][1], y + Arrow[i][2]>>)
           T == [e \in Images \X (1 .. N) |-> Flip(e[1], Place(x, y, e[2]))]
<1>1. N \in Nat
  BY ArrowIs
<1>2. T \in [Images \X (1 .. N) -> Images]
  BY FlipIs
<1>3. PICK g \in [0 .. N -> Images] :
        g[0] = f /\ \A i \in 1 .. N : g[i] = T[<<g[i - 1], i>>]
  <2> HIDE DEF T, N, E
  <2>1. PICK g : g \in Runs(N, Images, f, T)
    BY <1>1, <1>2, Recursion, Zenon
  <2>2. QED
    BY <2>1 DEF Runs
<1>4. ASSUME NEW i \in 1 .. N
      PROVE  g[i] = Flip(g[i - 1], <<x + Arrow[i][1], y + Arrow[i][2]>>)
  <2>1. i - 1 \in 0 .. N /\ i \in 1 .. N
    BY <1>1
  <2>2. g[i - 1] \in Images
    BY <2>1
  <2>3. QED
    BY <1>3, <2>1, <2>2 DEF Place
<1>5. g = [i \in 0 .. N |-> E(g, i)]
  <2>1. ASSUME NEW i \in 0 .. N
        PROVE  g[i] = E(g, i)
    <3>1. CASE i = 0
      BY <1>3, <3>1
    <3>2. CASE i # 0
      <4>1. i \in 1 .. N
        BY <1>1, <3>2
      <4> HIDE DEF T, N
      <4>2. QED
        BY <1>4, <3>2, <4>1
    <3>3. QED
      BY <3>1, <3>2
  <2> HIDE DEF E, N
  <2>2. QED
    BY <1>3, <2>1
<1> DEFINE after == CHOOSE h : h = [i \in 0 .. N |-> E(h, i)]
<1>6. after = [i \in 0 .. N |-> E(after, i)]
  BY <1>5
<1>7. DrawArrow(f, x, y) = after[N]
  BY DEF DrawArrow
<1> HIDE DEF after
<1>8. ASSUME NEW i \in 1 .. N
      PROVE  after[i] = Flip(after[i - 1], Place(x, y, i))
  <2>1. i \in 0 .. N /\ i # 0
    BY <1>1
  <2>2. after[i] = E(after, i)
    BY <1>6, <2>1
  <2>3. QED
    BY <2>1, <2>2 DEF Place
<1>9. after[0] = f
  BY <1>1, <1>6
<1> DEFINE P == {i \in 0 .. N : after[i] \in Images}
<1>10. 0 \in P
  BY <1>1, <1>9
<1>11. ASSUME NEW i \in 0 .. N - 1, i \in P
       PROVE  i + 1 \in P
  <2>1. after[i + 1] = Flip(after[i], Place(x, y, i + 1))
    BY <1>1, <1>8
  <2>2. QED
    BY <1>1, <1>11, <2>1, FlipIs
<1>12. \A i \in 0 .. N : i \in P
  <2> HIDE DEF P, N
  <2>1. QED
    BY <1>1, <1>10, <1>11, Induction
<1>13. after \in [0 .. N -> Images]
  BY <1>6, <1>12
<1>14. after \in Drawings(f, x, y)
  BY <1>8, <1>9, <1>13 DEF Drawings
<1>15. QED
  BY <1>7, <1>14

(* One image, and another that differs from it where pixels are inverted.  *)
LEMMA DrawingsRunInStep ==
  ASSUME Depth \in {24, 32}, NEW x, NEW y, NEW f \in Images, NEW h \in Images,
         NEW g \in Drawings(f, x, y), NEW k \in Drawings(h, x, y), NEW p \in Screen
  PROVE  /\ g[Len(Arrow)][p] \in {f[p], Invert(f[p])}
         /\ h[p] = f[p] => k[Len(Arrow)][p] = g[Len(Arrow)][p]
         /\ h[p] = Invert(f[p]) => k[Len(Arrow)][p] = Invert(g[Len(Arrow)][p])
<1> DEFINE N == Len(Arrow)
           Even(i) == /\ g[i][p] \in {f[p], Invert(f[p])}
                      /\ h[p] = f[p] => k[i][p] = g[i][p]
                      /\ h[p] = Invert(f[p]) => k[i][p] = Invert(g[i][p])
           P == {i \in 0 .. N : Even(i)}
<1>1. N \in Nat /\ f[p] \in Colours
  BY ArrowIs DEF Images
<1>2. g \in [0 .. N -> Images] /\ k \in [0 .. N -> Images] /\ g[0] = f /\ k[0] = h
  BY DEF Drawings
<1>3. 0 \in P
  BY <1>1, <1>2
<1>4. ASSUME NEW i \in 0 .. N - 1, i \in P
      PROVE  i + 1 \in P
  <2>1. i + 1 \in 1 .. N /\ i \in 0 .. N /\ i + 1 - 1 = i
    BY <1>1
  <2>2. g[i + 1] = Flip(g[i], Place(x, y, i + 1)) /\ k[i + 1] = Flip(k[i], Place(x, y, i + 1))
    BY <2>1 DEF Drawings
  <2>3. g[i] \in Images /\ k[i] \in Images /\ g[i][p] \in Colours /\ k[i][p] \in Colours
    BY <1>2, <2>1 DEF Images
  <2>4. Even(i)
    BY <1>4
  <2>5. Invert(Invert(f[p])) = f[p]
    BY <1>1, InvertIs
  <2>6. CASE p = Place(x, y, i + 1)
    <3>1. g[i + 1][p] = Invert(g[i][p]) /\ k[i + 1][p] = Invert(k[i][p])
      BY <2>2, <2>3, <2>6, FlipIs
    <3>2. Even(i + 1)
      BY <2>4, <2>5, <3>1
    <3>3. QED
      BY <2>1, <3>2
  <2>7. CASE p # Place(x, y, i + 1)
    <3>1. g[i + 1][p] = g[i][p] /\ k[i + 1][p] = k[i][p]
      BY <2>2, <2>3, <2>7, FlipIs
    <3>2. Even(i + 1)
      BY <2>4, <3>1
    <3>3. QED
      BY <2>1, <3>2
  <2>8. QED
    BY <2>6, <2>7
<1>5. \A i \in 0 .. N : i \in P
  <2> HIDE DEF P, N
  <2>1. QED
    BY <1>1, <1>3, <1>4, Induction
<1>6. Even(N)
  BY <1>1, <1>5
<1>7. QED
  BY <1>6

LEMMA ArrowTwice ==
  ASSUME Depth \in {24, 32}, NEW f \in Images, NEW x, NEW y
  PROVE  /\ DrawArrow(f, x, y) \in Images
         /\ DrawArrow(DrawArrow(f, x, y), x, y) = f
<1> DEFINE h == DrawArrow(f, x, y)
           N == Len(Arrow)
<1>1. PICK g \in Drawings(f, x, y) : h = g[N]
  BY DrawArrowIs
<1>2. h \in Images
  BY <1>1, ArrowIs DEF Drawings
<1> HIDE DEF h
<1>3. PICK k \in Drawings(h, x, y) : DrawArrow(h, x, y) = k[N]
  BY <1>2, DrawArrowIs
<1>4. DrawArrow(h, x, y) \in Images
  BY <1>3, ArrowIs DEF Drawings
<1>5. ASSUME NEW p \in Screen
      PROVE  DrawArrow(h, x, y)[p] = f[p]
  <2>1. f[p] \in Colours /\ Invert(Invert(f[p])) = f[p]
    BY InvertIs DEF Images
  <2>2. /\ g[N][p] \in {f[p], Invert(f[p])}
        /\ h[p] = f[p] => k[N][p] = g[N][p]
        /\ h[p] = Invert(f[p]) => k[N][p] = Invert(g[N][p])
    BY <1>2, DrawingsRunInStep
  <2>3. QED
    BY <1>1, <1>3, <2>1, <2>2
<1>6. DrawArrow(h, x, y) = f
  BY <1>4, <1>5 DEF Images
<1>7. QED
  BY <1>2, <1>6 DEF h

CursorInv ==
  Depth \in {24, 32} =>
    /\ cursor.on => pixels = DrawArrow(Wallpaper, cursor.x, cursor.y)
    /\ ~cursor.on => pixels = Wallpaper

LEMMA WallpaperIs ==
  ASSUME Depth \in {24, 32}
  PROVE  Wallpaper \in Images
<1>1. Len(Background) \in Nat /\ Len(Background) # 0
  BY RasterAssumption, EmptySeq
<1>2. \A n \in Int : Background[1 + (n % Len(Background))] \in Colours
  <2> SUFFICES ASSUME NEW n \in Int
               PROVE  Background[1 + (n % Len(Background))] \in Colours
    OBVIOUS
  <2> DEFINE m == n % Len(Background)
  <2>1. m \in 0 .. Len(Background) - 1
    BY <1>1
  <2> HIDE DEF m
  <2>2. 1 + m \in 1 .. Len(Background)
    BY <1>1, <2>1
  <2>3. Background \in Seq(Colours)
    BY RasterAssumption DEF Colours
  <2>4. Background[1 + m] \in Colours
    BY <2>2, <2>3
  <2>5. QED
    BY <2>4 DEF m
<1>3. \A p \in Screen : ColorPack(Background[1 + ((p[1] + p[2]) % Len(Background))]) \in Colours
  <2> SUFFICES ASSUME NEW p \in Screen
               PROVE  ColorPack(Background[1 + ((p[1] + p[2]) % Len(Background))]) \in Colours
    OBVIOUS
  <2> DEFINE n == p[1] + p[2]
  <2>1. n \in Int
    BY DEF Screen
  <2> HIDE DEF n
  <2>2. Background[1 + (n % Len(Background))] \in Colours
    BY <1>2, <2>1
  <2>3. ColorPack(Background[1 + (n % Len(Background))]) \in Colours
    BY <2>2, TrueColour, Zenon
  <2>4. QED
    BY <2>3 DEF n
<1>4. QED
  BY <1>3 DEF Wallpaper, Images

LEMMA CursorKeeps ==
  ASSUME CursorInv, RasterNext
  PROVE  CursorInv'
<1> SUFFICES ASSUME Depth \in {24, 32}
             PROVE  /\ cursor'.on => pixels' = DrawArrow(Wallpaper, cursor'.x, cursor'.y)
                    /\ ~cursor'.on => pixels' = Wallpaper
  BY DEF CursorInv
<1>1. CASE ShowCursor
  BY <1>1 DEF ShowCursor, CursorInv
<1>2. CASE HideCursor
  <2>1. pixels = DrawArrow(Wallpaper, cursor.x, cursor.y)
    BY <1>2 DEF HideCursor, CursorInv
  <2>2. pixels' = Wallpaper
    BY <1>2, <2>1, WallpaperIs, ArrowTwice DEF HideCursor
  <2>3. ~cursor'.on
    BY <1>2 DEF HideCursor, NoCursor
  <2>4. QED
    BY <2>2, <2>3
<1>3. CASE UNCHANGED <<pixels, cursor>>
  BY <1>3 DEF CursorInv
<1>4. CASE Straight \/ Discs \/ TitleBars \/ BeginLine \/ LineStep \/ BeginCircle \/ CircleStep \/ ClearScreen
  <2>1. UNCHANGED <<pixels, cursor>>
    <3>1. CASE Straight
      BY <3>1 DEF Straight, Shape, Fresh
    <3>2. CASE Discs \/ TitleBars
      BY <3>2 DEF Discs, TitleBars, Shape, Fresh
    <3>3. CASE BeginLine \/ BeginCircle
      BY <3>3 DEF BeginLine, BeginCircle, Fresh
    <3>4. CASE LineStep \/ CircleStep \/ ClearScreen
      BY <3>4 DEF LineStep, CircleStep, ClearScreen
    <3>5. QED
      BY <1>4, <3>1, <3>2, <3>3, <3>4
  <2>2. QED
    BY <1>3, <2>1
<1>5. QED
  BY <1>1, <1>2, <1>4 DEF RasterNext

(* ap_gui_draw_cursor: for every place of the cursor, on a screen of any   *)
(* size and with anything on it, drawing it a second time takes it away.   *)
THEOREM CursorIsUndone == VideoSpec => []CursorLeavesNoTrace
<1>1. VideoInit => CursorInv
  BY DEF VideoInit, RasterInit, NoCursor, CursorInv
<1>2. CursorInv /\ [VideoNext]_videoVars => CursorInv'
  <2> SUFFICES ASSUME CursorInv, [VideoNext]_videoVars
               PROVE  CursorInv'
    OBVIOUS
  <2>1. CASE UNCHANGED <<pixels, cursor>>
    BY <2>1 DEF CursorInv
  <2>2. CASE Typing \/ Drawing \/ UNCHANGED videoVars
    <3>1. UNCHANGED <<pixels, cursor>>
      BY <2>2 DEF Typing, Drawing, videoVars, rvars
    <3>2. QED
      BY <2>1, <3>1
  <2>3. CASE Painting
    BY <2>3, CursorKeeps DEF Painting
  <2>4. QED
    BY <2>2, <2>3 DEF VideoNext
<1>3. CursorInv => CursorLeavesNoTrace
  BY DEF CursorInv, CursorLeavesNoTrace
<1>4. QED
  BY <1>1, <1>2, <1>3, PTL DEF VideoSpec

-----------------------------------------------------------------------------
(* Straight shapes: which pixels of the screen they have.                  *)
LEMMA ScreenIs ==
  /\ Width \in Nat /\ Height \in Nat
  /\ \A p \in Screen : /\ p[1] \in Int /\ p[2] \in Int /\ p = <<p[1], p[2]>>
                       /\ 0 <= p[1] /\ p[1] < Width /\ 0 <= p[2] /\ p[2] < Height
  /\ \A a, b \in Int : <<a, b>> \in Screen <=> 0 <= a /\ a < Width /\ 0 <= b /\ b < Height
BY RasterAssumption DEF Screen

LEMMA BoxIs ==
  ASSUME NEW x \in Int, NEW y \in Int, NEW w \in Int, NEW h \in Int, NEW p \in Screen
  PROVE  p \in Box(x, y, w, h) <=> x <= p[1] /\ p[1] < x + w /\ y <= p[2] /\ p[2] < y + h
BY ScreenIs DEF Box

LEMMA SameShape ==
  ASSUME NEW A, NEW B, A \subseteq Screen, \A p \in Screen : p \in A <=> p \in B
  PROVE  A = B \cap Screen
OBVIOUS

LEMMA HlineIs ==
  ASSUME NEW x \in Int, NEW y \in Int, NEW len \in Int
  PROVE  /\ Hline(x, y, len) \subseteq Screen
         /\ \A p \in Screen : p \in Hline(x, y, len) <=> p[2] = y /\ x <= p[1] /\ p[1] < x + len
<1>1. Width \in Nat /\ Height \in Nat
  BY ScreenIs
<1>2. CASE y \in 0 .. Height - 1
  <2> DEFINE I == Greatest(x, 0) .. Least(x + len, Width) - 1
  <2>1. Hline(x, y, len) = {<<i, y>> : i \in I}
    BY <1>2 DEF Hline
  <2>2. \A i : i \in I <=> i \in Int /\ 0 <= i /\ x <= i /\ i < Width /\ i < x + len
    BY <1>1 DEF Greatest, Least
  <2> HIDE DEF I
  <2>3. Hline(x, y, len) \subseteq Screen
    BY <1>1, <1>2, <2>1, <2>2, ScreenIs
  <2>4. ASSUME NEW p \in Screen
        PROVE  p \in Hline(x, y, len) <=> p[2] = y /\ x <= p[1] /\ p[1] < x + len
    <3>1. p[1] \in Int /\ p = <<p[1], p[2]>> /\ 0 <= p[1] /\ p[1] < Width
      BY ScreenIs
    <3>2. p \in Hline(x, y, len) <=> p[2] = y /\ p[1] \in I
      BY <2>1, <3>1
    <3>3. QED
      BY <2>2, <3>1, <3>2
  <2>5. QED
    BY <2>3, <2>4
<1>3. CASE y \notin 0 .. Height - 1
  <2>1. Hline(x, y, len) = {}
    BY <1>3 DEF Hline
  <2>2. \A p \in Screen : p[2] # y
    BY <1>1, <1>3, ScreenIs
  <2>3. QED
    BY <2>1, <2>2
<1>4. QED
  BY <1>2, <1>3

LEMMA VlineIs ==
  ASSUME NEW x \in Int, NEW y \in Int, NEW len \in Int
  PROVE  /\ Vline(x, y, len) \subseteq Screen
         /\ \A p \in Screen : p \in Vline(x, y, len) <=> p[1] = x /\ y <= p[2] /\ p[2] < y + len
<1>1. Width \in Nat /\ Height \in Nat
  BY ScreenIs
<1>2. CASE x \in 0 .. Width - 1
  <2> DEFINE I == Greatest(y, 0) .. Least(y + len, Height) - 1
  <2>1. Vline(x, y, len) = {<<x, i>> : i \in I}
    BY <1>2 DEF Vline
  <2>2. \A i : i \in I <=> i \in Int /\ 0 <= i /\ y <= i /\ i < Height /\ i < y + len
    BY <1>1 DEF Greatest, Least
  <2> HIDE DEF I
  <2>3. Vline(x, y, len) \subseteq Screen
    BY <1>1, <1>2, <2>1, <2>2, ScreenIs
  <2>4. ASSUME NEW p \in Screen
        PROVE  p \in Vline(x, y, len) <=> p[1] = x /\ y <= p[2] /\ p[2] < y + len
    <3>1. p[2] \in Int /\ p = <<p[1], p[2]>> /\ 0 <= p[2] /\ p[2] < Height
      BY ScreenIs
    <3>2. p \in Vline(x, y, len) <=> p[1] = x /\ p[2] \in I
      BY <2>1, <3>1
    <3>3. QED
      BY <2>2, <3>1, <3>2
  <2>5. QED
    BY <2>3, <2>4
<1>3. CASE x \notin 0 .. Width - 1
  <2>1. Vline(x, y, len) = {}
    BY <1>3 DEF Vline
  <2>2. \A p \in Screen : p[1] # x
    BY <1>1, <1>3, ScreenIs
  <2>3. QED
    BY <2>1, <2>2
<1>4. QED
  BY <1>2, <1>3

LEMMA FillrectIs ==
  ASSUME NEW x \in Int, NEW y \in Int, NEW w \in Int, NEW h \in Int
  PROVE  /\ Fillrect(x, y, w, h) \subseteq Screen
         /\ \A p \in Screen : p \in Fillrect(x, y, w, h) <=> p \in Box(x, y, w, h)
<1>1. \A i \in 0 .. h - 1 : Hline(x, y + i, w) \subseteq Screen
  BY HlineIs
<1>2. ASSUME NEW p \in Screen
      PROVE  p \in Fillrect(x, y, w, h) <=> p \in Box(x, y, w, h)
  <2>1. p[1] \in Int /\ p[2] \in Int
    BY ScreenIs
  <2>2. p \in Fillrect(x, y, w, h) <=> \E i \in 0 .. h - 1 : p \in Hline(x, y + i, w)
    BY DEF Fillrect
  <2>3. \A i \in 0 .. h - 1 :
          p \in Hline(x, y + i, w) <=> p[2] = y + i /\ x <= p[1] /\ p[1] < x + w
    BY HlineIs
  <2>4. (\E i \in 0 .. h - 1 : p[2] = y + i) <=> y <= p[2] /\ p[2] < y + h
    <3>1. ASSUME y <= p[2], p[2] < y + h
          PROVE  \E i \in 0 .. h - 1 : p[2] = y + i
      <4>1. p[2] - y \in 0 .. h - 1 /\ p[2] = y + (p[2] - y)
        BY <2>1, <3>1
      <4>2. QED
        BY <4>1
    <3>2. QED
      BY <2>1, <3>1
  <2>5. QED
    BY <2>2, <2>3, <2>4, BoxIs
<1>3. QED
  BY <1>1, <1>2 DEF Fillrect

LEMMA RectIs ==
  ASSUME NEW x \in Int, NEW y \in Int, NEW w \in Int, NEW h \in Int, w > 0, h > 0
  PROVE  /\ Rect(x, y, w, h) \subseteq Screen
         /\ \A p \in Screen :
              p \in Rect(x, y, w, h) <=> p \in Box(x, y, w, h) \ Box(x + 1, y + 1, w - 2, h - 2)
<1>1. Rect(x, y, w, h) \subseteq Screen
  BY HlineIs, VlineIs DEF Rect
<1>2. ASSUME NEW p \in Screen
      PROVE  p \in Rect(x, y, w, h) <=> p \in Box(x, y, w, h) \ Box(x + 1, y + 1, w - 2, h - 2)
  <2>1. p[1] \in Int /\ p[2] \in Int
    BY ScreenIs
  <2>2. p \in Rect(x, y, w, h) <=> \/ p \in Hline(x, y, w) \/ p \in Hline(x, y + h - 1, w)
                                   \/ p \in Vline(x, y, h) \/ p \in Vline(x + w - 1, y, h)
    BY DEF Rect
  <2>3. /\ p \in Hline(x, y, w) <=> p[2] = y /\ x <= p[1] /\ p[1] < x + w
        /\ p \in Hline(x, y + h - 1, w) <=> p[2] = y + h - 1 /\ x <= p[1] /\ p[1] < x + w
        /\ p \in Vline(x, y, h) <=> p[1] = x /\ y <= p[2] /\ p[2] < y + h
        /\ p \in Vline(x + w - 1, y, h) <=> p[1] = x + w - 1 /\ y <= p[2] /\ p[2] < y + h
    BY HlineIs, VlineIs
  <2>4. p \in Box(x, y, w, h) <=> x <= p[1] /\ p[1] < x + w /\ y <= p[2] /\ p[2] < y + h
    BY BoxIs
  <2>5. p \in Box(x + 1, y + 1, w - 2, h - 2) <=>
          x + 1 <= p[1] /\ p[1] < x + 1 + (w - 2) /\ y + 1 <= p[2] /\ p[2] < y + 1 + (h - 2)
    BY BoxIs
  <2>6. QED
    BY <2>1, <2>2, <2>3, <2>4, <2>5
<1>3. QED
  BY <1>1, <1>2

LEMMA BlitIs ==
  ASSUME NEW x \in Int, NEW y \in Int, NEW w \in Int, NEW h \in Int
  PROVE  /\ Blit(x, y, w, h) \subseteq Screen
         /\ \A p \in Screen : p \in Blit(x, y, w, h) <=> p \in Box(x, y, w, h)
<1>1. ASSUME NEW p \in Screen
      PROVE  p \in Blit(x, y, w, h) <=> p \in Box(x, y, w, h)
  <2>1. p[1] \in Int /\ p[2] \in Int /\ p = <<p[1], p[2]>>
    BY ScreenIs
  <2>2. p \in Blit(x, y, w, h) <=>
          \E col \in 0 .. w - 1, row \in 0 .. h - 1 : p = <<x + col, y + row>>
    BY DEF Blit
  <2>3. p \in Box(x, y, w, h) <=> x <= p[1] /\ p[1] < x + w /\ y <= p[2] /\ p[2] < y + h
    BY BoxIs
  <2>4. ASSUME p \in Box(x, y, w, h)
        PROVE  p \in Blit(x, y, w, h)
    <3>1. p[1] - x \in 0 .. w - 1 /\ p[2] - y \in 0 .. h - 1
      BY <2>1, <2>3, <2>4
    <3>2. p = <<x + (p[1] - x), y + (p[2] - y)>>
      BY <2>1
    <3>3. QED
      BY <2>2, <3>1, <3>2
  <2>5. ASSUME p \in Blit(x, y, w, h)
        PROVE  p \in Box(x, y, w, h)
    BY <2>1, <2>2, <2>3, <2>5
  <2>6. QED
    BY <2>4, <2>5
<1>2. QED
  BY <1>1 DEF Blit

-----------------------------------------------------------------------------
(* Title bars.  Text stands in cells; a place left of the screen is        *)
(* rounded towards it, not away from it.                                   *)
LEMMA CellIs ==
  ASSUME NEW n \in Int, NEW size \in {8, 16}
  PROVE  /\ Cell(n, size) \in Int
         /\ n >= 0 => n - size < Cell(n, size) * size /\ Cell(n, size) * size <= n
         /\ n < 0 => n <= Cell(n, size) * size /\ Cell(n, size) * size < n + size
<1>1. CASE size = 8
  <2>1. CASE n >= 0
    BY <1>1, <2>1 DEF Cell
  <2>2. CASE n < 0
    BY <1>1, <2>2 DEF Cell
  <2>3. QED
    BY <2>1, <2>2
<1>2. CASE size = 16
  <2>1. CASE n >= 0
    BY <1>2, <2>1 DEF Cell
  <2>2. CASE n < 0
    BY <1>2, <2>2 DEF Cell
  <2>3. QED
    BY <2>1, <2>2
<1>3. QED
  BY <1>1, <1>2

LEMMA PutcharIs ==
  ASSUME NEW col \in Int, NEW row \in Int
  PROVE  /\ Putchars(col, row, 1) \subseteq Screen
         /\ \A p \in Screen :
              p \in Putchars(col, row, 1) <=>
                /\ col * 8 <= p[1] /\ p[1] < col * 8 + 8
                /\ row * 16 <= p[2] /\ p[2] < row * 16 + 16
<1> SUFFICES ASSUME NEW p \in Screen
             PROVE  p \in Putchars(col, row, 1) <=>
                      /\ col * 8 <= p[1] /\ p[1] < col * 8 + 8
                      /\ row * 16 <= p[2] /\ p[2] < row * 16 + 16
  BY DEF Putchars
<1>1. p[1] \in Int /\ p[2] \in Int /\ p = <<p[1], p[2]>>
  BY ScreenIs
<1>2. p \in Putchars(col, row, 1) <=>
        /\ p[1] \in col * 8 .. (col + 1) * 8 - 1
        /\ p[2] \in row * 16 .. row * 16 + 15
  BY <1>1 DEF Putchars
<1>3. QED
  BY <1>1, <1>2

LEMMA TitlebarIs ==
  ASSUME NEW x \in Int, NEW y \in Int, NEW w \in Int, w >= 18
  PROVE  /\ Titlebar(x, y, w, 1) \subseteq Screen
         /\ x % 8 = 0 /\ y % 16 = 0 /\ y >= 0 =>
              \A p \in Screen : p \in Titlebar(x, y, w, 1) <=> p \in Box(x, y, w, 18)
<1> DEFINE bx == x + w - 18
           by == y + 2
           Top == Fillrect(x, y, w, 6)
           Middle == Fillrect(x, y + 6, w, 6)
           Bottom == Fillrect(x, y + 12, w, 18 - 12)
           Name == Putchars(Cell(x + 4, 8), Cell(y + 1, 16), 1)
           Button == Fillrect(bx, by, 14, 14)
           Frame == Rect(bx, by, 14, 14)
           Sign == Putchars(Cell(bx + 3, 8), Cell(by + 1, 16), 1)
<1>1. w \in Int /\ bx \in Int /\ by \in Int
  OBVIOUS
<1>2. Titlebar(x, y, w, 1) = UNION {Top, Middle, Bottom, Name, Button, Frame, Sign}
  BY DEF Titlebar
<1>3. /\ Cell(x + 4, 8) \in Int /\ Cell(y + 1, 16) \in Int
      /\ Cell(bx + 3, 8) \in Int /\ Cell(by + 1, 16) \in Int
  BY <1>1, CellIs
<1>4. /\ Top \subseteq Screen /\ Middle \subseteq Screen /\ Bottom \subseteq Screen
      /\ Button \subseteq Screen
  BY <1>1, FillrectIs
<1>5. Frame \subseteq Screen
  BY <1>1, RectIs
<1>6. Name \subseteq Screen /\ Sign \subseteq Screen
  BY <1>3, PutcharIs
<1>7. ASSUME x % 8 = 0, y % 16 = 0, y >= 0, NEW p \in Screen
      PROVE  p \in Titlebar(x, y, w, 1) <=> p \in Box(x, y, w, 18)
  <2>1. p[1] \in Int /\ p[2] \in Int
    BY ScreenIs
  <2>2. p \in Box(x, y, w, 18) <=> x <= p[1] /\ p[1] < x + w /\ y <= p[2] /\ p[2] < y + 18
    BY <1>1, BoxIs
  <2>3. /\ p \in Top <=> x <= p[1] /\ p[1] < x + w /\ y <= p[2] /\ p[2] < y + 6
        /\ p \in Middle <=> x <= p[1] /\ p[1] < x + w /\ y + 6 <= p[2] /\ p[2] < y + 6 + 6
        /\ p \in Bottom <=> x <= p[1] /\ p[1] < x + w /\ y + 12 <= p[2] /\ p[2] < y + 12 + (18 - 12)
        /\ p \in Button <=> bx <= p[1] /\ p[1] < bx + 14 /\ by <= p[2] /\ p[2] < by + 14
    <3>1. /\ p \in Top <=> p \in Box(x, y, w, 6)
          /\ p \in Middle <=> p \in Box(x, y + 6, w, 6)
          /\ p \in Bottom <=> p \in Box(x, y + 12, w, 18 - 12)
          /\ p \in Button <=> p \in Box(bx, by, 14, 14)
      <4>1. y + 6 \in Int /\ y + 12 \in Int /\ 18 - 12 \in Int
        OBVIOUS
      <4>2. QED
        BY <1>1, <4>1, FillrectIs
    <3>2. p \in Box(x, y, w, 6) <=> x <= p[1] /\ p[1] < x + w /\ y <= p[2] /\ p[2] < y + 6
      BY <1>1, BoxIs
    <3>3. p \in Box(x, y + 6, w, 6) <=>
            x <= p[1] /\ p[1] < x + w /\ y + 6 <= p[2] /\ p[2] < y + 6 + 6
      BY <1>1, BoxIs
    <3>4. p \in Box(x, y + 12, w, 18 - 12) <=>
            x <= p[1] /\ p[1] < x + w /\ y + 12 <= p[2] /\ p[2] < y + 12 + (18 - 12)
      BY <1>1, BoxIs
    <3>5. p \in Box(bx, by, 14, 14) <=>
            bx <= p[1] /\ p[1] < bx + 14 /\ by <= p[2] /\ p[2] < by + 14
      BY <1>1, BoxIs
    <3>6. QED
      BY <3>1, <3>2, <3>3, <3>4, <3>5
  <2>4. p \in Frame => p \in Box(x, y, w, 18)
    <3>1. p \in Frame => p \in Box(bx, by, 14, 14)
      BY <1>1, RectIs
    <3>2. p \in Box(bx, by, 14, 14) => bx <= p[1] /\ p[1] < bx + 14 /\ by <= p[2] /\ p[2] < by + 14
      BY <1>1, BoxIs
    <3>3. QED
      BY <1>1, <2>1, <2>2, <3>1, <3>2
  <2>5. Cell(y + 1, 16) * 16 = y /\ Cell(by + 1, 16) * 16 = y
    <3>1. /\ y + 1 - 16 < Cell(y + 1, 16) * 16 /\ Cell(y + 1, 16) * 16 <= y + 1
          /\ by + 1 - 16 < Cell(by + 1, 16) * 16 /\ Cell(by + 1, 16) * 16 <= by + 1
      BY <1>1, <1>7, CellIs
    <3>2. QED
      BY <1>3, <1>7, <3>1
  <2>6. ASSUME NEW n \in Int
        PROVE  n - 8 < Cell(n, 8) * 8 /\ Cell(n, 8) * 8 < n + 8
    <3>1. Cell(n, 8) \in Int /\ (n >= 0 \/ n < 0)
      BY CellIs
    <3>2. /\ n >= 0 => n - 8 < Cell(n, 8) * 8 /\ Cell(n, 8) * 8 <= n
          /\ n < 0 => n <= Cell(n, 8) * 8 /\ Cell(n, 8) * 8 < n + 8
      BY CellIs
    <3>3. QED
      BY <3>1, <3>2
  <2>7. x = 8 * (x \div 8) /\ x \div 8 \in Int
    BY <1>7
  <2>8. x <= Cell(x + 4, 8) * 8 /\ Cell(x + 4, 8) * 8 + 8 <= x + w
    <3>1. x + 4 - 8 < Cell(x + 4, 8) * 8 /\ Cell(x + 4, 8) * 8 < x + 4 + 8
      BY <1>1, <2>6
    <3>2. QED
      BY <1>1, <1>3, <2>7, <3>1
  <2>9. x <= Cell(bx + 3, 8) * 8 /\ Cell(bx + 3, 8) * 8 + 8 <= x + w
    <3>1. bx + 3 - 8 < Cell(bx + 3, 8) * 8 /\ Cell(bx + 3, 8) * 8 < bx + 3 + 8
      BY <1>1, <2>6
    <3>2. QED
      BY <1>1, <1>3, <2>7, <3>1
  <2>10. p \in Name => p \in Box(x, y, w, 18)
    <3>1. p \in Name => /\ Cell(x + 4, 8) * 8 <= p[1] /\ p[1] < Cell(x + 4, 8) * 8 + 8
                        /\ Cell(y + 1, 16) * 16 <= p[2] /\ p[2] < Cell(y + 1, 16) * 16 + 16
      BY <1>3, PutcharIs
    <3>2. QED
      BY <1>1, <1>3, <2>1, <2>2, <2>5, <2>8, <3>1
  <2>11. p \in Sign => p \in Box(x, y, w, 18)
    <3>1. p \in Sign => /\ Cell(bx + 3, 8) * 8 <= p[1] /\ p[1] < Cell(bx + 3, 8) * 8 + 8
                        /\ Cell(by + 1, 16) * 16 <= p[2] /\ p[2] < Cell(by + 1, 16) * 16 + 16
      BY <1>3, PutcharIs
    <3>2. QED
      BY <1>1, <1>3, <2>1, <2>2, <2>5, <2>9, <3>1
  <2>12. p \in Box(x, y, w, 18) <=> p \in Top \/ p \in Middle \/ p \in Bottom
    BY <2>1, <2>2, <2>3
  <2>13. p \in Button => p \in Box(x, y, w, 18)
    BY <1>1, <2>1, <2>2, <2>3
  <2>14. p \in Titlebar(x, y, w, 1) <=>
           \/ p \in Top \/ p \in Middle \/ p \in Bottom \/ p \in Name \/ p \in Button
           \/ p \in Frame \/ p \in Sign
    <3> HIDE DEF Top, Middle, Bottom, Name, Button, Frame, Sign
    <3>1. QED
      BY <1>2
  <2>15. QED
    BY <2>4, <2>10, <2>11, <2>12, <2>13, <2>14
<1>8. Titlebar(x, y, w, 1) \subseteq Screen
  <2> HIDE DEF Top, Middle, Bottom, Name, Button, Frame, Sign
  <2>1. QED
    BY <1>2, <1>4, <1>5, <1>6
<1>9. QED
  BY <1>7, <1>8

-----------------------------------------------------------------------------
(* Lines.  How far a coordinate is from the start, towards the end, and    *)
(* how far a pixel is off the line.                                        *)
Gone(j, i, n) == IF j.from[i] < j.to[i] THEN n - j.from[i] ELSE j.from[i] - n
Off(j, p) == j.dx * Gone(j, 2, p[2]) - j.dy * Gone(j, 1, p[1])
Steps(j, p) == IF j.dx >= j.dy THEN Gone(j, 1, p[1]) ELSE Gone(j, 2, p[2])

Strokes ==
  {j \in [op : {"line", "line drawn"}, from : Int \X Int, to : Int \X Int, x : Int, y : Int,
          dx : Nat, dy : Nat, err : Int] :
     j.dx = Abs(j.to[1] - j.from[1]) /\ j.dy = Abs(j.to[2] - j.from[2])}

(* The error term is how far the next pixel is off, and that is at most    *)
(* half a pixel: so the step along the longer side is never left out.      *)
Within(dx, dy, off) ==
  /\ dx = dy => off = 0
  /\ dx > dy => -dx <= 2 * off /\ 2 * off < dx
  /\ dx < dy => -dy < 2 * off /\ 2 * off <= dy

OnTheLine(j) ==
  LET here == <<j.x, j.y>>
  IN  /\ Gone(j, 1, j.x) \in 0 .. j.dx /\ Gone(j, 2, j.y) \in 0 .. j.dy
      /\ j.err = j.dx - j.dy + Off(j, here)
      /\ Within(j.dx, j.dy, Off(j, here))

AllNear(j, set) == \A p \in set : 2 * Abs(Off(j, p)) <= Greatest(j.dx, j.dy)

OnePerStep(j, set, n) ==
  {j.from, j.to} \subseteq Screen =>
    IsFiniteSet(set) /\ Cardinality(set) = n /\ \A p \in set : Steps(j, p) < n

StrokeInv ==
  job.op \in {"line", "line drawn"} =>
    /\ job \in Strokes /\ AllNear(job, ink)
    /\ job.op = "line" => OnTheLine(job) /\ OnePerStep(job, ink, Steps(job, <<job.x, job.y>>))
    /\ job.op = "line drawn" => OnePerStep(job, ink, Greatest(job.dx, job.dy) + 1)

LEMMA NoMultiple ==
  ASSUME NEW n \in Nat, NEW a \in Int, n > 0, -n <= 2 * (n * a), 2 * (n * a) <= n
  PROVE  a = 0
<1>1. CASE a > 0
  <2>1. n * (a - 1) >= 0 /\ n * (a - 1) = n * a - n
    BY <1>1
  <2>2. QED
    BY <2>1
<1>2. CASE a < 0
  <2>1. n * (-1 - a) >= 0 /\ n * (-1 - a) = -n - n * a
    BY <1>2
  <2>2. QED
    BY <2>1
<1>3. QED
  BY <1>1, <1>2

LEMMA PairIs ==
  ASSUME NEW p \in Int \X Int
  PROVE  p[1] \in Int /\ p[2] \in Int /\ p = <<p[1], p[2]>>
OBVIOUS

LEMMA StrokeIs ==
  ASSUME NEW j \in Strokes
  PROVE  /\ j.op \in {"line", "line drawn"}
         /\ j.from[1] \in Int /\ j.from[2] \in Int /\ j.to[1] \in Int /\ j.to[2] \in Int
         /\ j.from = <<j.from[1], j.from[2]>> /\ j.to = <<j.to[1], j.to[2]>>
         /\ j.x \in Int /\ j.y \in Int /\ j.dx \in Nat /\ j.dy \in Nat /\ j.err \in Int
         /\ j.dx = Abs(j.to[1] - j.from[1]) /\ j.dy = Abs(j.to[2] - j.from[2])
<1>1. j \in [op : {"line", "line drawn"}, from : Int \X Int, to : Int \X Int, x : Int, y : Int,
             dx : Nat, dy : Nat, err : Int]
      /\ j.dx = Abs(j.to[1] - j.from[1]) /\ j.dy = Abs(j.to[2] - j.from[2])
  BY DEF Strokes
<1>2. /\ j.x \in Int /\ j.y \in Int /\ j.dx \in Nat /\ j.dy \in Nat /\ j.err \in Int
      /\ j.op \in {"line", "line drawn"} /\ j.from \in Int \X Int /\ j.to \in Int \X Int
  BY <1>1
<1>3. QED
  BY <1>1, <1>2, PairIs

LEMMA GoneIs ==
  ASSUME NEW j \in Strokes
  PROVE  /\ j.dx = Gone(j, 1, j.to[1]) /\ j.dy = Gone(j, 2, j.to[2])
         /\ \A n \in Int : Gone(j, 1, n) \in Int /\ Gone(j, 2, n) \in Int
         /\ \A p \in Int \X Int : Off(j, p) \in Int /\ Steps(j, p) \in Int
<1>1. j.from[1] \in Int /\ j.from[2] \in Int /\ j.to[1] \in Int /\ j.to[2] \in Int
      /\ j.dx = Abs(j.to[1] - j.from[1]) /\ j.dy = Abs(j.to[2] - j.from[2])
      /\ j.dx \in Nat /\ j.dy \in Nat
  BY StrokeIs
<1>2. j.dx = Gone(j, 1, j.to[1]) /\ j.dy = Gone(j, 2, j.to[2])
  BY <1>1 DEF Gone, Abs
<1>3. \A n \in Int : Gone(j, 1, n) \in Int /\ Gone(j, 2, n) \in Int
  BY <1>1 DEF Gone
<1>4. ASSUME NEW p \in Int \X Int
      PROVE  Off(j, p) \in Int /\ Steps(j, p) \in Int
  <2>1. Gone(j, 1, p[1]) \in Int /\ Gone(j, 2, p[2]) \in Int
    BY <1>3, PairIs
  <2>2. QED
    BY <1>1, <2>1 DEF Off, Steps
<1>5. QED
  BY <1>2, <1>3, <1>4

(* NearLine multiplies by the signed sides of the line.                    *)
LEMMA NearIsOff ==
  ASSUME job \in Strokes, NEW p \in Int \X Int
  PROVE  NearLine(p) <=> 2 * Abs(Off(job, p)) <= Greatest(job.dx, job.dy)
<1> DEFINE a == job.to[1] - job.from[1]
           b == job.to[2] - job.from[2]
           u == p[1] - job.from[1]
           v == p[2] - job.from[2]
           cross == a * v - b * u
<1>0. /\ job.from[1] \in Int /\ job.from[2] \in Int /\ job.to[1] \in Int /\ job.to[2] \in Int
      /\ job.dx = Abs(job.to[1] - job.from[1]) /\ job.dy = Abs(job.to[2] - job.from[2])
      /\ p[1] \in Int /\ p[2] \in Int
  BY StrokeIs, PairIs
<1>1. a \in Int /\ b \in Int /\ u \in Int /\ v \in Int
  BY <1>0
<1>2. /\ a > 0 => job.dx = a /\ Gone(job, 1, p[1]) = u
      /\ ~(a > 0) => job.dx = -a /\ Gone(job, 1, p[1]) = -u
  BY <1>0 DEF Gone, Abs
<1>3. /\ b > 0 => job.dy = b /\ Gone(job, 2, p[2]) = v
      /\ ~(b > 0) => job.dy = -b /\ Gone(job, 2, p[2]) = -v
  BY <1>0 DEF Gone, Abs
<1>4. NearLine(p) <=> 2 * Abs(cross) <= Greatest(job.dx, job.dy)
  BY DEF NearLine
<1> HIDE DEF a, b, u, v
<1>5. Off(job, p) = cross \/ Off(job, p) = -cross
  <2>1. Off(job, p) = job.dx * Gone(job, 2, p[2]) - job.dy * Gone(job, 1, p[1])
    BY DEF Off
  <2>2. CASE a > 0 /\ b > 0
    BY <1>1, <1>2, <1>3, <2>1, <2>2
  <2>3. CASE a > 0 /\ ~(b > 0)
    <3>1. Off(job, p) = a * (-v) - (-b) * u
      BY <1>2, <1>3, <2>1, <2>3
    <3>2. QED
      BY <1>1, <3>1
  <2>4. CASE ~(a > 0) /\ b > 0
    <3>1. Off(job, p) = (-a) * v - b * (-u)
      BY <1>2, <1>3, <2>1, <2>4
    <3>2. QED
      BY <1>1, <3>1
  <2>5. CASE ~(a > 0) /\ ~(b > 0)
    <3>1. Off(job, p) = (-a) * (-v) - (-b) * (-u)
      BY <1>2, <1>3, <2>1, <2>5
    <3>2. QED
      BY <1>1, <3>1
  <2>6. QED
    BY <2>2, <2>3, <2>4, <2>5
<1>6. cross \in Int
  BY <1>1
<1> HIDE DEF cross
<1>7. Abs(Off(job, p)) = Abs(cross)
  BY <1>5, <1>6 DEF Abs
<1>8. QED
  BY <1>4, <1>7

LEMMA LineBegins ==
  ASSUME NEW x0 \in Int, NEW y0 \in Int, NEW x1 \in Int, NEW y1 \in Int
  PROVE  LET j == StartLine(x0, y0, x1, y1)
         IN  /\ j \in Strokes /\ j.op = "line" /\ OnTheLine(j)
             /\ OnePerStep(j, {}, Steps(j, <<j.x, j.y>>))
<1> DEFINE j == StartLine(x0, y0, x1, y1)
<1>1. /\ j.op = "line" /\ j.from = <<x0, y0>> /\ j.to = <<x1, y1>> /\ j.x = x0 /\ j.y = y0
      /\ j.dx = Abs(x1 - x0) /\ j.dy = Abs(y1 - y0) /\ j.err = j.dx - j.dy
  BY DEF StartLine
<1>2. Abs(x1 - x0) \in Nat /\ Abs(y1 - y0) \in Nat
  BY DEF Abs
<1>3. j \in Strokes
  BY <1>2 DEF StartLine, Strokes
<1> HIDE DEF j
<1>4. Gone(j, 1, j.x) = 0 /\ Gone(j, 2, j.y) = 0
  BY <1>1 DEF Gone
<1>5. Off(j, <<j.x, j.y>>) = 0 /\ Steps(j, <<j.x, j.y>>) = 0
  BY <1>1, <1>2, <1>4 DEF Off, Steps
<1>6. OnTheLine(j)
  BY <1>1, <1>2, <1>4, <1>5 DEF OnTheLine, Within
<1>7. OnePerStep(j, {}, Steps(j, <<j.x, j.y>>))
  BY <1>5, FS_EmptySet DEF OnePerStep
<1>8. QED
  BY <1>1, <1>3, <1>6, <1>7 DEF j

(* The choice of the next pixel.  The loop has not reached the end point.  *)
LEMMA Midpoint ==
  ASSUME NEW dx \in Nat, NEW dy \in Nat, NEW a \in 0 .. dx, NEW b \in 0 .. dy, ~(a = dx /\ b = dy),
         NEW err, err = dx - dy + (dx * b - dy * a), Within(dx, dy, dx * b - dy * a)
  PROVE  LET right == 2 * err > -dy
             down  == 2 * err < dx
             off   == dx * b - dy * a - (IF right THEN dy ELSE 0) + (IF down THEN dx ELSE 0)
         IN  /\ right => a < dx
             /\ down => b < dy
             /\ IF dx >= dy THEN right ELSE down
             /\ Within(dx, dy, off)
<1> DEFINE D == dx * b - dy * a
           right == 2 * err > -dy
           down == 2 * err < dx
           off == D - (IF right THEN dy ELSE 0) + (IF down THEN dx ELSE 0)
<1>1. dx * b \in Int /\ dy * a \in Int /\ D \in Int /\ a \in Int /\ b \in Int
  OBVIOUS
<1>2. a = dx => D = dx * (b - dy)
  BY <1>1
<1>3. b = dy => D = dy * (dx - a)
  BY <1>1
<1>4. b < dy => dx * (b - dy) <= -dx
  <2> SUFFICES ASSUME b < dy PROVE dx * (b - dy) <= -dx
    OBVIOUS
  <2>1. dx * (dy - b - 1) >= 0 /\ dx * (dy - b - 1) = -(dx * (b - dy)) - dx
    OBVIOUS
  <2>2. QED
    BY <2>1
<1>5. a < dx => dy * (dx - a) >= dy
  <2> SUFFICES ASSUME a < dx PROVE dy * (dx - a) >= dy
    OBVIOUS
  <2>1. dy * (dx - a - 1) >= 0 /\ dy * (dx - a - 1) = dy * (dx - a) - dy
    OBVIOUS
  <2>2. QED
    BY <2>1
<1>6. err = dx - dy + D /\ Within(dx, dy, D)
  OBVIOUS
<1>7. dx * (b - dy) \in Int /\ dy * (dx - a) \in Int
  BY <1>1
<1>8. ASSUME dx >= dy
      PROVE  a < dx
  <2> SUFFICES ASSUME a = dx PROVE FALSE
    BY <1>1
  <2>1. b < dy
    BY <1>1
  <2>2. QED
    BY <1>1, <1>2, <1>4, <1>6, <1>7, <1>8, <2>1 DEF Within
<1>9. ASSUME dx < dy
      PROVE  b < dy
  <2> SUFFICES ASSUME b = dy PROVE FALSE
    BY <1>1
  <2>1. a < dx
    BY <1>1
  <2>2. QED
    BY <1>1, <1>3, <1>5, <1>6, <1>7, <1>9, <2>1 DEF Within
<1> HIDE DEF D
<1>10. IF dx >= dy THEN right ELSE down
  BY <1>1, <1>6, <1>8 DEF Within
<1>11. Within(dx, dy, off)
  BY <1>1, <1>6, <1>8, <1>10 DEF Within
<1>12. right => a < dx
  <2> SUFFICES ASSUME right, dx < dy, a = dx PROVE FALSE
    BY <1>1, <1>8
  <2>1. b < dy
    BY <1>9
  <2>2. QED
    BY <1>1, <1>2, <1>4, <1>6, <1>7, <2>1
<1>13. down => b < dy
  <2> SUFFICES ASSUME down, dx >= dy, b = dy PROVE FALSE
    BY <1>1, <1>9
  <2>1. a < dx
    BY <1>8
  <2>2. QED
    BY <1>1, <1>3, <1>5, <1>6, <1>7, <2>1
<1>14. QED
  BY <1>10, <1>11, <1>12, <1>13 DEF D

LEMMA NextPointIs ==
  ASSUME NEW j \in Strokes, j.op = "line", OnTheLine(j), <<j.x, j.y>> # j.to
  PROVE  LET k == NextPoint(j)
         IN  /\ k \in Strokes /\ k.op = "line"
             /\ k.from = j.from /\ k.to = j.to /\ k.dx = j.dx /\ k.dy = j.dy
             /\ OnTheLine(k)
             /\ Steps(k, <<k.x, k.y>>) = Steps(j, <<j.x, j.y>>) + 1
<1> DEFINE k == NextPoint(j)
           X == Gone(j, 1, j.x)
           Y == Gone(j, 2, j.y)
           right == 2 * j.err > -j.dy
           down == 2 * j.err < j.dx
           off == j.dx * Y - j.dy * X - (IF right THEN j.dy ELSE 0) + (IF down THEN j.dx ELSE 0)
<1>1. /\ j.from[1] \in Int /\ j.from[2] \in Int /\ j.to[1] \in Int /\ j.to[2] \in Int
      /\ j.from = <<j.from[1], j.from[2]>> /\ j.to = <<j.to[1], j.to[2]>>
      /\ j.x \in Int /\ j.y \in Int /\ j.dx \in Nat /\ j.dy \in Nat /\ j.err \in Int
  BY StrokeIs
<1>2. k \in Strokes /\ k.op = "line" /\ k.from = j.from /\ k.to = j.to /\ k.dx = j.dx /\ k.dy = j.dy
  <2>1. k \in [op : {"line", "line drawn"}, from : Int \X Int, to : Int \X Int, x : Int, y : Int,
               dx : Nat, dy : Nat, err : Int]
    <3> DEFINE e == j.err - (IF right THEN j.dy ELSE 0) + (IF down THEN j.dx ELSE 0)
               x == IF ~right THEN j.x ELSE IF j.from[1] < j.to[1] THEN j.x + 1 ELSE j.x - 1
               y == IF ~down THEN j.y ELSE IF j.from[2] < j.to[2] THEN j.y + 1 ELSE j.y - 1
    <3>1. e \in Int /\ x \in Int /\ y \in Int
      BY <1>1
    <3>2. k = [j EXCEPT !.err = e, !.x = x, !.y = y]
      BY DEF NextPoint
    <3> HIDE DEF e, x, y, k
    <3>3. QED
      BY <3>1, <3>2 DEF Strokes
  <2>2. k.op = "line" /\ k.from = j.from /\ k.to = j.to /\ k.dx = j.dx /\ k.dy = j.dy
    BY DEF NextPoint, Strokes
  <2> HIDE DEF k
  <2>3. QED
    BY <2>1, <2>2 DEF Strokes
<1>3. /\ k.err = j.err - (IF right THEN j.dy ELSE 0) + (IF down THEN j.dx ELSE 0)
      /\ k.x = IF ~right THEN j.x ELSE IF j.from[1] < j.to[1] THEN j.x + 1 ELSE j.x - 1
      /\ k.y = IF ~down THEN j.y ELSE IF j.from[2] < j.to[2] THEN j.y + 1 ELSE j.y - 1
  BY DEF NextPoint, Strokes
<1> HIDE DEF k
<1>4. X \in 0 .. j.dx /\ Y \in 0 .. j.dy /\ j.err = j.dx - j.dy + (j.dx * Y - j.dy * X)
      /\ Within(j.dx, j.dy, j.dx * Y - j.dy * X)
  BY DEF OnTheLine, Off
<1>5. ~(X = j.dx /\ Y = j.dy)
  <2> SUFFICES ASSUME X = j.dx, Y = j.dy PROVE FALSE
    OBVIOUS
  <2>1. j.dx = Gone(j, 1, j.to[1]) /\ j.dy = Gone(j, 2, j.to[2])
    BY GoneIs
  <2>2. j.x = j.to[1] /\ j.y = j.to[2]
    BY <1>1, <2>1 DEF Gone
  <2>3. QED
    BY <1>1, <2>2
<1>6. /\ right => X < j.dx
      /\ down => Y < j.dy
      /\ IF j.dx >= j.dy THEN right ELSE down
      /\ Within(j.dx, j.dy, off)
  <2> HIDE DEF X, Y
  <2>1. j.dx \in Nat /\ j.dy \in Nat
    BY <1>1
  <2>2. QED
    BY <1>4, <1>5, <2>1, Midpoint
<1>7. /\ Gone(k, 1, k.x) = X + (IF right THEN 1 ELSE 0)
      /\ Gone(k, 2, k.y) = Y + (IF down THEN 1 ELSE 0)
  BY <1>1, <1>2, <1>3 DEF Gone
<1>8. X \in Int /\ Y \in Int
  BY <1>4
<1>9. Off(k, <<k.x, k.y>>) = off
  <2>1. Off(k, <<k.x, k.y>>) = j.dx * Gone(k, 2, k.y) - j.dy * Gone(k, 1, k.x)
    BY <1>2 DEF Off
  <2> HIDE DEF X, Y, right, down
  <2>2. \A m, n \in Int : m * (n + 1) = m * n + m
    OBVIOUS
  <2>3. j.dx \in Int /\ j.dy \in Int /\ X \in Int /\ Y \in Int
    BY <1>1, <1>8
  <2>4. j.dx * (Y + (IF down THEN 1 ELSE 0)) = j.dx * Y + (IF down THEN j.dx ELSE 0)
    <3>1. CASE down
      <4>1. j.dx * (Y + 1) = j.dx * Y + j.dx
        BY <2>2, <2>3, Zenon
      <4>2. QED
        BY <3>1, <4>1
    <3>2. CASE ~down
      BY <1>1, <1>8, <3>2
    <3>3. QED
      BY <3>1, <3>2
  <2>5. j.dy * (X + (IF right THEN 1 ELSE 0)) = j.dy * X + (IF right THEN j.dy ELSE 0)
    <3>1. CASE right
      <4>1. j.dy * (X + 1) = j.dy * X + j.dy
        BY <2>2, <2>3, Zenon
      <4>2. QED
        BY <3>1, <4>1
    <3>2. CASE ~right
      BY <1>1, <1>8, <3>2
    <3>3. QED
      BY <3>1, <3>2
  <2>6. j.dx * Y \in Int /\ j.dy * X \in Int
    BY <1>1, <1>8
  <2>7. QED
    BY <1>1, <1>7, <2>1, <2>4, <2>5, <2>6
<1>10. OnTheLine(k)
  <2> HIDE DEF X, Y
  <2>1. Gone(k, 1, k.x) \in 0 .. k.dx /\ Gone(k, 2, k.y) \in 0 .. k.dy
    BY <1>1, <1>2, <1>4, <1>6, <1>7
  <2>2. j.dx * Y \in Int /\ j.dy * X \in Int
    BY <1>1, <1>8
  <2>3. k.err = k.dx - k.dy + off
    BY <1>1, <1>2, <1>3, <1>4, <2>2
  <2> HIDE DEF off
  <2>4. QED
    BY <1>2, <1>6, <1>9, <2>1, <2>3 DEF OnTheLine
<1>11. Steps(k, <<k.x, k.y>>) = Steps(j, <<j.x, j.y>>) + 1
  BY <1>1, <1>2, <1>6, <1>7, <1>8 DEF Steps
<1>12. QED
  BY <1>2, <1>10, <1>11 DEF k

(* The pixel of a step is new: the others are fewer steps from the start.  *)
LEMMA OneMore ==
  ASSUME NEW j \in Strokes, OnTheLine(j), NEW set \in SUBSET Screen,
         OnePerStep(j, set, Steps(j, <<j.x, j.y>>))
  PROVE  OnePerStep(j, set \cup ({<<j.x, j.y>>} \cap Screen), Steps(j, <<j.x, j.y>>) + 1)
<1> DEFINE here == <<j.x, j.y>>
           n == Steps(j, here)
<1> SUFFICES ASSUME {j.from, j.to} \subseteq Screen
             PROVE  LET all == set \cup ({here} \cap Screen)
                    IN  IsFiniteSet(all) /\ Cardinality(all) = n + 1 /\ \A p \in all : Steps(j, p) < n + 1
  BY DEF OnePerStep
<1>1. /\ j.from[1] \in Int /\ j.from[2] \in Int /\ j.to[1] \in Int /\ j.to[2] \in Int
      /\ j.dx = Abs(j.to[1] - j.from[1]) /\ j.dy = Abs(j.to[2] - j.from[2])
      /\ j.x \in Int /\ j.y \in Int /\ j.dx \in Nat /\ j.dy \in Nat
  BY StrokeIs
<1>2. /\ 0 <= j.from[1] /\ j.from[1] < Width /\ 0 <= j.from[2] /\ j.from[2] < Height
      /\ 0 <= j.to[1] /\ j.to[1] < Width /\ 0 <= j.to[2] /\ j.to[2] < Height
      /\ Width \in Nat /\ Height \in Nat
  BY ScreenIs
<1>3. Gone(j, 1, j.x) \in 0 .. j.dx /\ Gone(j, 2, j.y) \in 0 .. j.dy
  BY DEF OnTheLine
<1>4. 0 <= j.x /\ j.x < Width /\ 0 <= j.y /\ j.y < Height
  BY <1>1, <1>2, <1>3 DEF Gone, Abs
<1>5. {here} \cap Screen = {here}
  BY <1>1, <1>4, ScreenIs
<1>6. n \in Int
  BY <1>1, GoneIs
<1> HIDE DEF here, n
<1>7. IsFiniteSet(set) /\ Cardinality(set) = n /\ \A p \in set : Steps(j, p) < n
  BY DEF OnePerStep, here, n
<1>8. here \notin set
  BY <1>6, <1>7 DEF n
<1>9. IsFiniteSet(set \cup {here}) /\ Cardinality(set \cup {here}) = n + 1
  BY <1>7, <1>8, FS_AddElement
<1>10. ASSUME NEW p \in set \cup {here}
       PROVE  Steps(j, p) < n + 1
  <2>1. CASE p \in set
    <3>1. Steps(j, p) < n
      BY <1>7, <2>1
    <3>2. Steps(j, p) \in Int
      <4>1. p \in Screen
        BY <2>1
      <4>2. p \in Int \X Int
        BY <4>1 DEF Screen
      <4>3. QED
        BY <4>2, GoneIs
    <3>3. QED
      BY <1>6, <3>1, <3>2
  <2>2. CASE p = here
    BY <1>6, <2>2 DEF n
  <2>3. QED
    BY <2>1, <2>2
<1>11. QED
  BY <1>5, <1>9, <1>10

LEMMA LineStepKeeps ==
  ASSUME StrokeInv, ink \in SUBSET Screen, LineStep
  PROVE  StrokeInv'
<1> DEFINE here == <<job.x, job.y>>
           all == ink \cup ({here} \cap Screen)
           n == Steps(job, here)
<1>1. /\ job \in Strokes /\ job.op = "line" /\ AllNear(job, ink)
      /\ OnTheLine(job) /\ OnePerStep(job, ink, n)
  BY DEF LineStep, StrokeInv
<1>2. ink' = all /\ job' = IF here = job.to THEN [job EXCEPT !.op = "line drawn"] ELSE NextPoint(job)
  BY DEF LineStep
<1>3. /\ job.x \in Int /\ job.y \in Int /\ job.dx \in Nat /\ job.dy \in Nat
      /\ Off(job, here) \in Int
  BY <1>1, StrokeIs, GoneIs
<1>4. AllNear(job, all)
  <2>1. 2 * Abs(Off(job, here)) <= Greatest(job.dx, job.dy)
    <3> HIDE DEF here
    <3>1. Within(job.dx, job.dy, Off(job, here))
      BY <1>1 DEF OnTheLine, here
    <3>2. QED
      BY <1>3, <3>1 DEF Within, Abs, Greatest
  <2>2. QED
    BY <1>1, <2>1 DEF AllNear
<1>5. OnePerStep(job, all, n + 1)
  BY <1>1, OneMore
<1>6. CASE here = job.to
  <2>1. job' = [job EXCEPT !.op = "line drawn"]
    BY <1>2, <1>6
  <2>2. /\ job' \in Strokes /\ job'.op = "line drawn" /\ job'.from = job.from /\ job'.to = job.to
        /\ job'.dx = job.dx /\ job'.dy = job.dy
    BY <1>1, <2>1 DEF Strokes
  <2>3. n = Greatest(job.dx, job.dy)
    <3>1. job.dx = Gone(job, 1, job.to[1]) /\ job.dy = Gone(job, 2, job.to[2])
      BY <1>1, GoneIs
    <3>2. QED
      BY <1>3, <1>6, <3>1 DEF Steps, Greatest
  <2>4. AllNear(job', all) /\ OnePerStep(job', all, Greatest(job'.dx, job'.dy) + 1)
    BY <1>4, <1>5, <2>2, <2>3 DEF AllNear, OnePerStep, Off, Steps, Gone
  <2>5. QED
    BY <1>2, <2>2, <2>4 DEF StrokeInv
<1>7. CASE here # job.to
  <2>1. job' = NextPoint(job)
    BY <1>2, <1>7
  <2>2. /\ job' \in Strokes /\ job'.op = "line" /\ job'.from = job.from /\ job'.to = job.to
        /\ job'.dx = job.dx /\ job'.dy = job.dy /\ OnTheLine(job')
        /\ Steps(job', <<job'.x, job'.y>>) = n + 1
    BY <1>1, <1>7, <2>1, NextPointIs
  <2>3. AllNear(job', all) /\ OnePerStep(job', all, n + 1)
    BY <1>4, <1>5, <2>2 DEF AllNear, OnePerStep, Off, Steps, Gone
  <2>4. QED
    BY <1>2, <2>2, <2>3 DEF StrokeInv
<1>8. QED
  BY <1>6, <1>7

LEMMA BeginLineKeeps ==
  ASSUME BeginLine
  PROVE  StrokeInv' /\ ink' = {} /\ job'.op = "line"
<1>1. PICK x0, y0, x1, y1 \in Points : job' = StartLine(x0, y0, x1, y1)
  BY DEF BeginLine
<1>2. ink' = {}
  BY DEF BeginLine, Fresh
<1>3. x0 \in Int /\ y0 \in Int /\ x1 \in Int /\ y1 \in Int
  BY RasterAssumption
<1>4. /\ job' \in Strokes /\ job'.op = "line" /\ OnTheLine(job')
      /\ OnePerStep(job', {}, Steps(job', <<job'.x, job'.y>>))
  BY <1>1, <1>3, LineBegins
<1>5. AllNear(job', {})
  BY DEF AllNear
<1>6. QED
  BY <1>2, <1>4, <1>5 DEF StrokeInv

-----------------------------------------------------------------------------
(* Circles.  The decision variable follows the midpoint, and its bounds    *)
(* keep the pixel within one of the circle; the columns of the octants     *)
(* close up from both ends.                                                *)
Circles ==
  [op : {"circle", "circle drawn"}, cx : Int, cy : Int, r : Nat, px : Nat, py : Int, d : Int]

OnTheCircle(j) ==
  /\ j.py <= j.r /\ j.r <= j.px + j.py
  /\ j.d = 2 * (j.px * j.px) + 8 * j.px + 3 + 2 * (j.py * j.py) - 2 * j.py - 2 * (j.r * j.r)
  /\ j.d >= 4 * j.px - 4 * j.py + 3
  /\ j.py >= j.px => j.d <= 4 * j.px + 5 \/ (j.py = j.px /\ j.d <= 4 * j.px + 7)

NearTo(j, p) ==
  LET a == Abs(p[1] - j.cx)
      b == Abs(p[2] - j.cy)
  IN  a * a + b * b < (j.r + 1) * (j.r + 1) /\ j.r * j.r <= (a + 1) * (a + 1) + (b + 1) * (b + 1)

(* There is a pixel in the columns at this distance from the center.       *)
Column(j, set, a) == (\E p \in set : p[1] = j.cx - a) /\ (\E p \in set : p[1] = j.cx + a)

Whole(j) == Box(j.cx - j.r, j.cy - j.r, 2 * j.r + 1, 2 * j.r + 1) \subseteq Screen

CircleInv ==
  job.op \in {"circle", "circle drawn"} =>
    /\ job \in Circles
    /\ \A p \in ink : NearTo(job, p)
    /\ job.op = "circle" =>
         /\ OnTheCircle(job)
         /\ Whole(job) =>
              \A a \in 0 .. job.r : a < job.px \/ a > job.py => Column(job, ink, a)
    /\ job.op = "circle drawn" => (Whole(job) => \A a \in 0 .. job.r : Column(job, ink, a))

LEMMA CircleIs ==
  ASSUME NEW j \in Circles
  PROVE  /\ j.cx \in Int /\ j.cy \in Int /\ j.r \in Nat /\ j.px \in Nat /\ j.py \in Int /\ j.d \in Int
         /\ j.op \in {"circle", "circle drawn"}
BY DEF Circles

(* The squares as numbers of their own: what is left is linear.            *)
LEMMA Decision ==
  ASSUME NEW x \in Nat, NEW y \in Int, NEW r \in Nat, NEW d, x <= y, y <= r, r <= x + y,
         d = 2 * (x * x) + 8 * x + 3 + 2 * (y * y) - 2 * y - 2 * (r * r),
         d >= 4 * x - 4 * y + 3, d <= 4 * x + 5 \/ (y = x /\ d <= 4 * x + 7)
  PROVE  /\ x * x + y * y < (r + 1) * (r + 1)
         /\ r * r <= (x + 1) * (x + 1) + (y + 1) * (y + 1)
         /\ d # 0
<1>1. x * x \in Int /\ y * y \in Int /\ r * r \in Int /\ d \in Int
  OBVIOUS
<1>2. /\ (r + 1) * (r + 1) = r * r + 2 * r + 1
      /\ (x + 1) * (x + 1) = x * x + 2 * x + 1 /\ (y + 1) * (y + 1) = y * y + 2 * y + 1
  OBVIOUS
<1> DEFINE xx == x * x
           yy == y * y
           rr == r * r
<1>3. /\ xx \in Int /\ yy \in Int /\ rr \in Int
      /\ d = 2 * xx + 8 * x + 3 + 2 * yy - 2 * y - 2 * rr
  BY <1>1
<1>4. /\ (r + 1) * (r + 1) = rr + 2 * r + 1
      /\ (x + 1) * (x + 1) = xx + 2 * x + 1 /\ (y + 1) * (y + 1) = yy + 2 * y + 1
  BY <1>2
<1> HIDE DEF xx, yy, rr
<1>5. xx + yy < rr + 2 * r + 1
  BY <1>1, <1>3
<1>6. rr <= (xx + 2 * x + 1) + (yy + 2 * y + 1)
  BY <1>1, <1>3
<1>7. d # 0
  <2>1. d = 2 * (xx + 4 * x + 1 + yy - y - rr) + 1
    BY <1>3
  <2>2. QED
    BY <1>3, <2>1
<1>8. QED
  BY <1>4, <1>5, <1>6, <1>7 DEF xx, yy

LEMMA NextOctantIs ==
  ASSUME NEW j \in Circles, j.op = "circle", OnTheCircle(j), j.py >= j.px
  PROVE  LET k == NextOctant(j)
         IN  /\ k \in Circles /\ k.op = "circle" /\ k.cx = j.cx /\ k.cy = j.cy /\ k.r = j.r
             /\ k.px = j.px + 1 /\ k.py \in {j.py, j.py - 1}
             /\ OnTheCircle(k)
<1> DEFINE k == NextOctant(j)
<1>1. j.cx \in Int /\ j.cy \in Int /\ j.r \in Nat /\ j.px \in Nat /\ j.py \in Int /\ j.d \in Int
  BY CircleIs
<1>2. j.d # 0
  BY <1>1, Decision DEF OnTheCircle
<1>3. j.px * j.px \in Int /\ j.py * j.py \in Int /\ j.r * j.r \in Int
  BY <1>1
<1>4. /\ (j.px + 1) * (j.px + 1) = j.px * j.px + 2 * j.px + 1
      /\ (j.py - 1) * (j.py - 1) = j.py * j.py - 2 * j.py + 1
  BY <1>1
<1>5. j.d = 2 * (j.px * j.px) + 8 * j.px + 3 + 2 * (j.py * j.py) - 2 * j.py - 2 * (j.r * j.r)
  BY DEF OnTheCircle
<1>6. CASE j.d > 0
  <2> DEFINE e == j.d + 4 * (j.px + 1 - j.py) + 10
             x == j.px + 1
             y == j.py - 1
  <2>1. e \in Int /\ x \in Nat /\ y \in Int
    BY <1>1
  <2>2. k = [j EXCEPT !.px = x, !.py = y, !.d = e]
    BY <1>6 DEF NextOctant
  <2>3. e = 2 * (x * x) + 8 * x + 3 + 2 * (y * y) - 2 * y - 2 * (j.r * j.r)
    <3> DEFINE xx == j.px * j.px
               yy == j.py * j.py
               rr == j.r * j.r
    <3>1. xx \in Int /\ yy \in Int /\ rr \in Int
      BY <1>3
    <3>2. x * x = xx + 2 * j.px + 1 /\ y * y = yy - 2 * j.py + 1
      BY <1>4
    <3>3. j.d = 2 * xx + 8 * j.px + 3 + 2 * yy - 2 * j.py - 2 * rr
      BY <1>5
    <3> HIDE DEF xx, yy, rr
    <3>4. e = 2 * (xx + 2 * j.px + 1) + 8 * x + 3 + 2 * (yy - 2 * j.py + 1) - 2 * y - 2 * rr
      BY <1>1, <3>1, <3>3
    <3>5. QED
      BY <3>2, <3>4 DEF rr
  <2>4. /\ y <= j.r /\ j.r <= x + y /\ e >= 4 * x - 4 * y + 3
        /\ y >= x => e <= 4 * x + 5 \/ (y = x /\ e <= 4 * x + 7)
    <3>1. /\ j.py <= j.r /\ j.r <= j.px + j.py /\ j.d >= 4 * j.px - 4 * j.py + 3
          /\ j.d <= 4 * j.px + 5 \/ (j.py = j.px /\ j.d <= 4 * j.px + 7)
      BY DEF OnTheCircle
    <3>2. QED
      BY <1>1, <1>6, <3>1
  <2> HIDE DEF e, x, y, k
  <2>5. /\ k \in Circles /\ k.op = "circle" /\ k.cx = j.cx /\ k.cy = j.cy /\ k.r = j.r
        /\ k.px = x /\ k.py = y /\ k.d = e
    BY <2>1, <2>2 DEF Circles
  <2>6. OnTheCircle(k)
    BY <2>3, <2>4, <2>5 DEF OnTheCircle
  <2>7. QED
    BY <2>5, <2>6 DEF k, x, y
<1>7. CASE ~(j.d > 0)
  <2> DEFINE e == j.d + 4 * (j.px + 1) + 6
             x == j.px + 1
  <2>1. e \in Int /\ x \in Nat /\ j.d < 0
    BY <1>1, <1>2, <1>7
  <2>2. k = [j EXCEPT !.px = x, !.d = e]
    BY <1>7 DEF NextOctant
  <2>3. e = 2 * (x * x) + 8 * x + 3 + 2 * (j.py * j.py) - 2 * j.py - 2 * (j.r * j.r)
    BY <1>1, <1>3, <1>4, <1>5
  <2>4. /\ j.py <= j.r /\ j.r <= x + j.py /\ e >= 4 * x - 4 * j.py + 3
        /\ e <= 4 * x + 5
    BY <1>1, <2>1 DEF OnTheCircle
  <2> HIDE DEF e, x, k
  <2>5. /\ k \in Circles /\ k.op = "circle" /\ k.cx = j.cx /\ k.cy = j.cy /\ k.r = j.r
        /\ k.px = x /\ k.py = j.py /\ k.d = e
    BY <2>1, <2>2 DEF Circles
  <2>6. OnTheCircle(k)
    BY <2>3, <2>4, <2>5 DEF OnTheCircle
  <2>7. QED
    BY <2>5, <2>6 DEF k, x
<1>8. QED
  BY <1>6, <1>7

LEMMA OctantsAre ==
  ASSUME NEW j \in Circles, j.py >= j.px, NEW p \in Octants(j)
  PROVE  \/ Abs(p[1] - j.cx) = j.px /\ Abs(p[2] - j.cy) = j.py
         \/ Abs(p[1] - j.cx) = j.py /\ Abs(p[2] - j.cy) = j.px
<1>1. j.cx \in Int /\ j.cy \in Int /\ j.px \in Nat /\ j.py \in Nat
  <2>1. j.cx \in Int /\ j.cy \in Int /\ j.px \in Nat /\ j.py \in Int
    BY CircleIs
  <2>2. QED
    BY <2>1
<1>2. PICK s \in {-1, 1}, t \in {-1, 1}, q \in {<<j.px, j.py>>, <<j.py, j.px>>} :
        p = <<j.cx + s * q[1], j.cy + t * q[2]>>
  BY DEF Octants
<1>3. p[1] = j.cx + s * q[1] /\ p[2] = j.cy + t * q[2]
  BY <1>2
<1>4. q[1] \in Nat /\ q[2] \in Nat
  BY <1>1
<1>5. Abs(p[1] - j.cx) = q[1]
  <2>1. p[1] = j.cx + q[1] \/ p[1] = j.cx - q[1]
    <3>1. CASE s = 1
      BY <1>1, <1>3, <1>4, <3>1
    <3>2. CASE s = -1
      BY <1>1, <1>3, <1>4, <3>2
    <3>3. QED
      BY <3>1, <3>2
  <2>2. QED
    BY <1>1, <1>4, <2>1 DEF Abs
<1>6. Abs(p[2] - j.cy) = q[2]
  <2>1. p[2] = j.cy + q[2] \/ p[2] = j.cy - q[2]
    <3>1. CASE t = 1
      BY <1>1, <1>3, <1>4, <3>1
    <3>2. CASE t = -1
      BY <1>1, <1>3, <1>4, <3>2
    <3>3. QED
      BY <3>1, <3>2
  <2>2. QED
    BY <1>1, <1>4, <2>1 DEF Abs
<1>7. (q[1] = j.px /\ q[2] = j.py) \/ (q[1] = j.py /\ q[2] = j.px)
  OBVIOUS
<1>8. QED
  BY <1>5, <1>6, <1>7

LEMMA OctantColumns ==
  ASSUME NEW j \in Circles, j.py >= j.px, j.py <= j.r, Whole(j), NEW a \in {j.px, j.py}
  PROVE  Column(j, Octants(j), a)
<1>1. j.cx \in Int /\ j.cy \in Int /\ j.r \in Nat /\ j.px \in Nat /\ j.py \in Nat
  <2>1. j.cx \in Int /\ j.cy \in Int /\ j.r \in Nat /\ j.px \in Nat /\ j.py \in Int
    BY CircleIs
  <2>2. QED
    BY <2>1
<1>2. ASSUME NEW m \in Int, NEW n \in Int, -j.r <= m, m <= j.r, -j.r <= n, n <= j.r
      PROVE  <<j.cx + m, j.cy + n>> \in Screen
  <2>1. /\ j.cx + m \in j.cx - j.r .. j.cx - j.r + (2 * j.r + 1) - 1
        /\ j.cy + n \in j.cy - j.r .. j.cy - j.r + (2 * j.r + 1) - 1
    BY <1>1, <1>2
  <2>2. QED
    BY <2>1 DEF Whole, Box
<1> DEFINE b == IF a = j.px THEN j.py ELSE j.px
           Spot(s) == <<j.cx + s * a, j.cy + 1 * b>>
<1>3. a \in Int /\ b \in Int /\ a <= j.r /\ b <= j.r /\ a >= 0 /\ b >= 0
  BY <1>1
<1>4. <<a, b>> \in {<<j.px, j.py>>, <<j.py, j.px>>}
  OBVIOUS
<1> HIDE DEF b
<1>5. ASSUME NEW s \in {-1, 1}
      PROVE  Spot(s) \in Octants(j)
  <2>1. s * a \in Int /\ -j.r <= s * a /\ s * a <= j.r /\ 1 * b = b
    BY <1>1, <1>3
  <2>2. Spot(s) \in Screen
    BY <1>1, <1>2, <1>3, <2>1
  <2> DEFINE q == <<a, b>>
  <2>3. Spot(s) = <<j.cx + s * q[1], j.cy + 1 * q[2]>> /\ 1 \in {-1, 1}
    OBVIOUS
  <2>4. q \in {<<j.px, j.py>>, <<j.py, j.px>>}
    BY <1>4
  <2> HIDE DEF q, Spot
  <2>5. QED
    BY <2>2, <2>3, <2>4 DEF Octants
<1>6. Spot(-1)[1] = j.cx - a /\ Spot(1)[1] = j.cx + a
  BY <1>1, <1>3
<1>7. QED
  BY <1>5, <1>6 DEF Column

LEMMA CircleStepKeeps ==
  ASSUME CircleInv, CircleStep
  PROVE  CircleInv'
<1>1. /\ job \in Circles /\ job.op = "circle" /\ OnTheCircle(job)
      /\ \A p \in ink : NearTo(job, p)
      /\ Whole(job) => \A a \in 0 .. job.r : a < job.px \/ a > job.py => Column(job, ink, a)
  BY DEF CircleStep, CircleInv
<1>2. /\ job.cx \in Int /\ job.cy \in Int /\ job.r \in Nat /\ job.px \in Nat /\ job.py \in Int
      /\ job.d \in Int
  BY <1>1, CircleIs
<1>3. CASE job.py >= job.px
  <2>1. ink' = ink \cup Octants(job) /\ job' = NextOctant(job)
    BY <1>3 DEF CircleStep
  <2>2. /\ job' \in Circles /\ job'.op = "circle" /\ job'.cx = job.cx /\ job'.cy = job.cy
        /\ job'.r = job.r /\ job'.px = job.px + 1 /\ job'.py \in {job.py, job.py - 1}
        /\ OnTheCircle(job')
    BY <1>1, <1>3, <2>1, NextOctantIs
  <2>3. ASSUME NEW p \in Octants(job)
        PROVE  NearTo(job, p)
    <3>1. /\ job.px * job.px + job.py * job.py < (job.r + 1) * (job.r + 1)
          /\ job.r * job.r <= (job.px + 1) * (job.px + 1) + (job.py + 1) * (job.py + 1)
      BY <1>1, <1>2, <1>3, Decision DEF OnTheCircle
    <3>2. \/ Abs(p[1] - job.cx) = job.px /\ Abs(p[2] - job.cy) = job.py
          \/ Abs(p[1] - job.cx) = job.py /\ Abs(p[2] - job.cy) = job.px
      BY <1>1, <1>3, OctantsAre
    <3>3. /\ job.px * job.px \in Int /\ job.py * job.py \in Int
          /\ (job.px + 1) * (job.px + 1) \in Int /\ (job.py + 1) * (job.py + 1) \in Int
      BY <1>2
    <3>4. /\ job.py * job.py + job.px * job.px < (job.r + 1) * (job.r + 1)
          /\ job.r * job.r <= (job.py + 1) * (job.py + 1) + (job.px + 1) * (job.px + 1)
      BY <3>1, <3>3
    <3>5. QED
      BY <3>1, <3>2, <3>4 DEF NearTo
  <2>4. \A p \in ink' : NearTo(job', p)
    BY <1>1, <2>1, <2>2, <2>3 DEF NearTo
  <2>5. ASSUME Whole(job'), NEW a \in 0 .. job'.r, a < job'.px \/ a > job'.py
        PROVE  Column(job', ink', a)
    <3>1. Whole(job)
      BY <2>2, <2>5 DEF Whole
    <3>2. job.py <= job.r
      BY <1>1 DEF OnTheCircle
    <3>3. a < job.px \/ a > job.py \/ a \in {job.px, job.py}
      BY <1>2, <2>2, <2>5
    <3>4. Column(job, ink, a) \/ Column(job, Octants(job), a)
      BY <1>1, <1>3, <2>2, <3>1, <3>2, <3>3, OctantColumns
    <3>5. QED
      BY <2>1, <2>2, <3>4 DEF Column
  <2>6. QED
    BY <2>2, <2>4, <2>5 DEF CircleInv
<1>4. CASE ~(job.py >= job.px)
  <2>1. ink' = ink /\ job' = [job EXCEPT !.op = "circle drawn"]
    BY <1>4 DEF CircleStep
  <2>2. /\ job' \in Circles /\ job'.op = "circle drawn" /\ job'.cx = job.cx /\ job'.cy = job.cy
        /\ job'.r = job.r
    BY <1>1, <2>1 DEF Circles
  <2>3. \A p \in ink' : NearTo(job', p)
    BY <1>1, <2>1, <2>2 DEF NearTo
  <2>4. ASSUME Whole(job'), NEW a \in 0 .. job'.r
        PROVE  Column(job', ink', a)
    <3>1. Whole(job)
      BY <2>2, <2>4 DEF Whole
    <3>2. a < job.px \/ a > job.py
      <4>1. a \in 0 .. job.r
        BY <2>2, <2>4
      <4>2. QED
        BY <1>2, <1>4, <4>1
    <3>3. Column(job, ink, a)
      BY <1>1, <2>2, <3>1, <3>2
    <3>4. QED
      BY <2>1, <2>2, <3>3 DEF Column
  <2>5. QED
    BY <2>2, <2>3, <2>4 DEF CircleInv
<1>5. QED
  BY <1>3, <1>4

LEMMA BeginCircleKeeps ==
  ASSUME BeginCircle
  PROVE  CircleInv' /\ ink' = {} /\ job'.op = "circle"
<1>1. PICK cx \in Points, cy \in Points, r \in Radii :
        job' = [op |-> "circle", cx |-> cx, cy |-> cy, r |-> r, px |-> 0, py |-> r, d |-> 3 - 2 * r]
  BY DEF BeginCircle
<1>2. ink' = {}
  BY DEF BeginCircle, Fresh
<1>3. cx \in Int /\ cy \in Int /\ r \in Nat
  BY RasterAssumption
<1>4. /\ job' \in Circles /\ job'.op = "circle" /\ job'.r = r /\ job'.px = 0 /\ job'.py = r
      /\ job'.d = 3 - 2 * r
  BY <1>1, <1>3 DEF Circles
<1>5. OnTheCircle(job')
  BY <1>3, <1>4 DEF OnTheCircle
<1>6. \A a \in 0 .. job'.r : ~(a < job'.px \/ a > job'.py)
  BY <1>3, <1>4
<1>7. QED
  BY <1>2, <1>4, <1>5, <1>6 DEF CircleInv

-----------------------------------------------------------------------------
(* All shapes: first those of one call, which are there at once.           *)
PlainInv ==
  /\ job.op \in {"hline", "vline", "fillrect", "blit"} =>
       ink = Box(job.x, job.y, job.w, job.h) \cap Screen
  /\ job.op = "rect" /\ job.w > 0 /\ job.h > 0 =>
       ink = (Box(job.x, job.y, job.w, job.h)
               \ Box(job.x + 1, job.y + 1, job.w - 2, job.h - 2)) \cap Screen
  /\ job.op = "bar" /\ job.x % 8 = 0 /\ job.y % 16 = 0 /\ job.y >= 0 =>
       ink = Box(job.x, job.y, job.w, job.h) \cap Screen

DrawnInv ==
  /\ ink \subseteq Screen
  /\ PlainInv
  /\ StrokeInv
  /\ CircleInv

OneCall == {"hline", "vline", "rect", "fillrect", "blit", "disc", "bar"}

LEMMA ShapeKeeps ==
  ASSUME NEW op \in OneCall, NEW x, NEW y, NEW w, NEW h, NEW set \in SUBSET Screen,
         Shape(op, x, y, w, h, set),
         op \in {"hline", "vline", "fillrect", "blit"} => set = Box(x, y, w, h) \cap Screen,
         op = "rect" /\ w > 0 /\ h > 0 =>
           set = (Box(x, y, w, h) \ Box(x + 1, y + 1, w - 2, h - 2)) \cap Screen,
         op = "bar" /\ x % 8 = 0 /\ y % 16 = 0 /\ y >= 0 => set = Box(x, y, w, h) \cap Screen
  PROVE  DrawnInv'
<1>1. ink' = set /\ job' = [op |-> op, x |-> x, y |-> y, w |-> w, h |-> h]
  BY DEF Shape
<1>2. job'.op = op /\ job'.x = x /\ job'.y = y /\ job'.w = w /\ job'.h = h
  BY <1>1
<1>3. ink' \subseteq Screen
  BY <1>1
<1>4. PlainInv'
  BY <1>1, <1>2 DEF PlainInv
<1>5. StrokeInv'
  BY <1>2 DEF StrokeInv, OneCall
<1>6. CircleInv'
  BY <1>2 DEF CircleInv, OneCall
<1>7. QED
  BY <1>3, <1>4, <1>5, <1>6 DEF DrawnInv

LEMMA StraightKeeps ==
  ASSUME Straight
  PROVE  DrawnInv'
<1>1. PICK x \in Points, y \in Points, w \in Sizes, h \in Sizes :
        \/ h = 1 /\ Shape("hline", x, y, w, 1, Hline(x, y, w))
        \/ w = 1 /\ Shape("vline", x, y, 1, h, Vline(x, y, h))
        \/ Shape("rect", x, y, w, h, Rect(x, y, w, h))
        \/ Shape("fillrect", x, y, w, h, Fillrect(x, y, w, h))
        \/ Shape("blit", x, y, w, h, Blit(x, y, w, h))
  BY DEF Straight
<1>2. x \in Int /\ y \in Int /\ w \in Int /\ h \in Int /\ w >= 0 /\ h >= 0
  BY RasterAssumption
<1>3. CASE Shape("hline", x, y, w, 1, Hline(x, y, w))
  <2>1. Hline(x, y, w) \subseteq Screen
    BY <1>2, HlineIs
  <2>2. ASSUME NEW p \in Screen
        PROVE  p \in Hline(x, y, w) <=> p \in Box(x, y, w, 1)
    <3>1. p \in Hline(x, y, w) <=> p[2] = y /\ x <= p[1] /\ p[1] < x + w
      BY <1>2, HlineIs
    <3>2. p \in Box(x, y, w, 1) <=> x <= p[1] /\ p[1] < x + w /\ y <= p[2] /\ p[2] < y + 1
      BY <1>2, BoxIs
    <3>3. QED
      BY <1>2, <3>1, <3>2, ScreenIs
  <2>3. Hline(x, y, w) = Box(x, y, w, 1) \cap Screen
    BY <2>1, <2>2, SameShape
  <2>4. QED
    BY <1>3, <2>1, <2>3, ShapeKeeps DEF OneCall
<1>4. CASE Shape("vline", x, y, 1, h, Vline(x, y, h))
  <2>1. Vline(x, y, h) \subseteq Screen
    BY <1>2, VlineIs
  <2>2. ASSUME NEW p \in Screen
        PROVE  p \in Vline(x, y, h) <=> p \in Box(x, y, 1, h)
    <3>1. p \in Vline(x, y, h) <=> p[1] = x /\ y <= p[2] /\ p[2] < y + h
      BY <1>2, VlineIs
    <3>2. p \in Box(x, y, 1, h) <=> x <= p[1] /\ p[1] < x + 1 /\ y <= p[2] /\ p[2] < y + h
      BY <1>2, BoxIs
    <3>3. QED
      BY <1>2, <3>1, <3>2, ScreenIs
  <2>3. Vline(x, y, h) = Box(x, y, 1, h) \cap Screen
    BY <2>1, <2>2, SameShape
  <2>4. QED
    BY <1>4, <2>1, <2>3, ShapeKeeps DEF OneCall
<1>5. CASE Shape("rect", x, y, w, h, Rect(x, y, w, h))
  <2>1. Rect(x, y, w, h) \subseteq Screen
    BY <1>2, HlineIs, VlineIs DEF Rect
  <2>2. ASSUME w > 0, h > 0
        PROVE  Rect(x, y, w, h) = (Box(x, y, w, h) \ Box(x + 1, y + 1, w - 2, h - 2)) \cap Screen
    <3>1. \A p \in Screen :
            p \in Rect(x, y, w, h) <=> p \in Box(x, y, w, h) \ Box(x + 1, y + 1, w - 2, h - 2)
      BY <1>2, <2>2, RectIs
    <3>2. QED
      BY <2>1, <3>1, SameShape
  <2>3. QED
    BY <1>5, <2>1, <2>2, ShapeKeeps DEF OneCall
<1>6. CASE Shape("fillrect", x, y, w, h, Fillrect(x, y, w, h))
  <2>1. Fillrect(x, y, w, h) = Box(x, y, w, h) \cap Screen
    BY <1>2, FillrectIs, SameShape
  <2>2. QED
    BY <1>6, <2>1, ShapeKeeps DEF OneCall
<1>7. CASE Shape("blit", x, y, w, h, Blit(x, y, w, h))
  <2>1. Blit(x, y, w, h) = Box(x, y, w, h) \cap Screen
    BY <1>2, BlitIs, SameShape
  <2>2. QED
    BY <1>7, <2>1, ShapeKeeps DEF OneCall
<1>8. QED
  BY <1>1, <1>3, <1>4, <1>5, <1>6, <1>7

LEMMA DrawnKeeps ==
  ASSUME DrawnInv, RasterNext
  PROVE  DrawnInv'
<1>1. CASE Straight
  BY <1>1, StraightKeeps
<1>2. CASE Discs
  <2>1. PICK x \in Points, y \in Points, r \in Radii : Shape("disc", x, y, r, r, Fillcircle(x, y, r))
    BY <1>2 DEF Discs
  <2>2. Fillcircle(x, y, r) \subseteq Screen
    BY DEF Fillcircle
  <2>3. QED
    BY <2>1, <2>2, ShapeKeeps DEF OneCall
<1>3. CASE TitleBars
  <2>1. PICK x \in BarXs, y \in BarYs, w \in {24, 30} :
          Shape("bar", x, y, w, 18, Titlebar(x, y, w, 1))
    BY <1>3 DEF TitleBars
  <2>2. x \in Int /\ y \in Int /\ w \in Int /\ w >= 18
    BY RasterAssumption
  <2>3. Titlebar(x, y, w, 1) \subseteq Screen
    BY <2>2, TitlebarIs
  <2>4. ASSUME x % 8 = 0, y % 16 = 0, y >= 0
        PROVE  Titlebar(x, y, w, 1) = Box(x, y, w, 18) \cap Screen
    <3>1. \A p \in Screen : p \in Titlebar(x, y, w, 1) <=> p \in Box(x, y, w, 18)
      BY <2>2, <2>4, TitlebarIs
    <3>2. QED
      BY <2>3, <3>1, SameShape
  <2>5. QED
    BY <2>1, <2>3, <2>4, ShapeKeeps DEF OneCall
<1>4. CASE BeginLine
  <2>1. StrokeInv' /\ ink' = {} /\ job'.op = "line"
    BY <1>4, BeginLineKeeps
  <2>2. QED
    BY <2>1 DEF DrawnInv, PlainInv, CircleInv
<1>5. CASE LineStep
  <2>1. StrokeInv'
    BY <1>5, LineStepKeeps DEF DrawnInv
  <2>2. ink' \subseteq Screen
    BY <1>5 DEF LineStep, DrawnInv
  <2>3. job'.op \in {"line", "line drawn"}
    <3>1. job.op = "line" /\ job \in Strokes /\ OnTheLine(job)
      BY <1>5 DEF LineStep, DrawnInv, StrokeInv
    <3>2. CASE <<job.x, job.y>> = job.to
      BY <1>5, <3>1, <3>2 DEF LineStep, Strokes
    <3>3. CASE <<job.x, job.y>> # job.to
      <4>1. job' = NextPoint(job)
        BY <1>5, <3>3 DEF LineStep
      <4>2. QED
        BY <3>1, <3>3, <4>1, NextPointIs
    <3>4. QED
      BY <3>2, <3>3
  <2>4. QED
    BY <2>1, <2>2, <2>3 DEF DrawnInv, PlainInv, CircleInv
<1>6. CASE BeginCircle
  <2>1. CircleInv' /\ ink' = {} /\ job'.op = "circle"
    BY <1>6, BeginCircleKeeps
  <2>2. QED
    BY <2>1 DEF DrawnInv, PlainInv, StrokeInv
<1>7. CASE CircleStep
  <2>1. CircleInv'
    BY <1>7, CircleStepKeeps DEF DrawnInv
  <2>2. ink' \subseteq Screen
    <3>1. Octants(job) \subseteq Screen
      BY DEF Octants
    <3>2. ink' = ink \cup Octants(job) \/ ink' = ink
      BY <1>7 DEF CircleStep
    <3>3. QED
      BY <3>1, <3>2 DEF DrawnInv
  <2>3. job'.op \in {"circle", "circle drawn"}
    <3>1. job.op = "circle" /\ job \in Circles /\ OnTheCircle(job)
      BY <1>7 DEF CircleStep, DrawnInv, CircleInv
    <3>2. CASE job.py >= job.px
      <4>1. job' = NextOctant(job)
        BY <1>7, <3>2 DEF CircleStep
      <4>2. QED
        BY <3>1, <3>2, <4>1, NextOctantIs
    <3>3. CASE ~(job.py >= job.px)
      BY <1>7, <3>1, <3>3 DEF CircleStep, Circles
    <3>4. QED
      BY <3>2, <3>3
  <2>4. QED
    BY <2>1, <2>2, <2>3 DEF DrawnInv, PlainInv, StrokeInv
<1>8. CASE ClearScreen
  <2>1. ink' = {} /\ job'.op = "idle"
    BY <1>8 DEF ClearScreen, Idle
  <2>2. QED
    BY <2>1 DEF DrawnInv, PlainInv, StrokeInv, CircleInv
<1>9. CASE ShowCursor \/ HideCursor
  <2>1. UNCHANGED <<job, ink>>
    BY <1>9 DEF ShowCursor, HideCursor
  <2>2. QED
    BY <2>1 DEF DrawnInv, PlainInv, StrokeInv, CircleInv, AllNear, OnePerStep, OnTheLine
<1>10. QED
  BY <1>1, <1>2, <1>3, <1>4, <1>5, <1>6, <1>7, <1>8, <1>9 DEF RasterNext

LEMMA DrawnHolds ==
  ASSUME DrawnInv
  PROVE  ShapeIsDrawn
<1>1. ASSUME job.op = "line drawn"
      PROVE  /\ \A p \in ink : NearLine(p)
             /\ {job.from, job.to} \subseteq Screen =>
                  Cardinality(ink) = Greatest(job.dx, job.dy) + 1
  <2>1. job \in Strokes /\ AllNear(job, ink) /\ OnePerStep(job, ink, Greatest(job.dx, job.dy) + 1)
    BY <1>1 DEF DrawnInv, StrokeInv
  <2>2. ASSUME NEW p \in ink
        PROVE  NearLine(p)
    <3>1. p \in Int \X Int
      BY DEF DrawnInv, Screen
    <3>2. QED
      BY <2>1, <3>1, NearIsOff DEF AllNear
  <2>3. QED
    BY <2>1, <2>2 DEF OnePerStep
<1>2. ASSUME job.op = "circle drawn"
      PROVE  /\ \A p \in ink : NearCircle(p)
             /\ Whole(job) => \A x \in job.cx - job.r .. job.cx + job.r : \E p \in ink : p[1] = x
  <2>1. /\ job \in Circles /\ \A p \in ink : NearTo(job, p)
        /\ Whole(job) => \A a \in 0 .. job.r : Column(job, ink, a)
    BY <1>2 DEF DrawnInv, CircleInv
  <2>2. job.cx \in Int /\ job.r \in Nat
    BY <2>1, CircleIs
  <2>3. ASSUME Whole(job), NEW x \in job.cx - job.r .. job.cx + job.r
        PROVE  \E p \in ink : p[1] = x
    <3>1. CASE x <= job.cx
      <4>1. job.cx - x \in 0 .. job.r /\ job.cx - (job.cx - x) = x
        BY <2>2, <3>1
      <4>2. QED
        BY <2>1, <2>3, <4>1 DEF Column
    <3>2. CASE x > job.cx
      <4>1. x - job.cx \in 0 .. job.r /\ job.cx + (x - job.cx) = x
        BY <2>2, <3>2
      <4>2. QED
        BY <2>1, <2>3, <4>1 DEF Column
    <3>3. QED
      BY <2>2, <3>1, <3>2
  <2>4. QED
    BY <2>1, <2>3 DEF NearTo, NearCircle
<1>3. QED
  BY <1>1, <1>2 DEF DrawnInv, PlainInv, ShapeIsDrawn, Whole

(* The drawing calls of video.c and the title bar of api.c: for every size *)
(* of the screen, every shape and every place, what is on the screen is    *)
(* the visible part of the shape.                                          *)
THEOREM ShapesAreDrawn == VideoSpec => []ShapeIsDrawn
<1>1. VideoInit => DrawnInv
  BY DEF VideoInit, RasterInit, Idle, DrawnInv, PlainInv, StrokeInv, CircleInv
<1>2. DrawnInv /\ [VideoNext]_videoVars => DrawnInv'
  <2> SUFFICES ASSUME DrawnInv, [VideoNext]_videoVars
               PROVE  DrawnInv'
    OBVIOUS
  <2>1. CASE Typing \/ Drawing \/ UNCHANGED videoVars
    <3>1. UNCHANGED <<job, ink>>
      BY <2>1 DEF Typing, Drawing, videoVars, rvars
    <3>2. QED
      BY <3>1 DEF DrawnInv, PlainInv, StrokeInv, CircleInv, AllNear, OnePerStep, OnTheLine
  <2>2. CASE Painting
    BY <2>2, DrawnKeeps DEF Painting
  <2>3. QED
    BY <2>1, <2>2 DEF VideoNext
<1>3. DrawnInv => ShapeIsDrawn
  BY DrawnHolds
<1>4. QED
  BY <1>1, <1>2, <1>3, PTL DEF VideoSpec
=============================================================================
