-------------------------------- MODULE Text --------------------------------
(***************************************************************************)
(* The functions of libc/string.c and libc/stdlib.c and the formatting of  *)
(* libc/stdio.c.  A string is the sequence of its characters without the   *)
(* NUL, a buffer a sequence of cells, a character its code; a pointer into *)
(* a string is an index, and 0 stands for NULL.  cmp compares numbers.     *)
(***************************************************************************)
EXTENDS Integers, Sequences, FiniteSets, FiniteSetsExt, SequencesExt

CONSTANT Width    \* bits of int and long: 32

ASSUME TextAssumption == Width \in Nat \ {0}

Nul   == 0
Blank == 32
Plus  == 43
Minus == 45
Slash == 47

IsSpace(c) == c \in 9 .. 13 \cup {Blank}
Lower(c) == IF c \in 65 .. 90 THEN c + 32 ELSE c
DigitOf(c) == IF c \in 48 .. 57 THEN c - 48
              ELSE IF Lower(c) \in 97 .. 102 THEN Lower(c) - 87 ELSE 99
DigitChar(d) == IF d < 10 THEN 48 + d ELSE 87 + d

At(s, k) == IF k \in DOMAIN s THEN s[k] ELSE Nul
From(s, k) == SubSeq(s, k, Len(s))
First(k, n, Test(_)) == LET hits == {j \in k .. n : Test(j)}
                        IN  IF hits = {} THEN n + 1 ELSE Min(hits)

-----------------------------------------------------------------------------
(* Comparing and searching.                                                *)
Strncmp(s, t, n) ==
  LET k == First(1, n, LAMBDA j : At(s, j) = Nul \/ At(s, j) # At(t, j))
  IN  IF k > n THEN 0 ELSE At(s, k) - At(t, k)

Strcmp(s, t) == Strncmp(s, t, Len(s) + 1)

Folded(s) == [k \in DOMAIN s |-> Lower(s[k])]
Strcasecmp(s, t) == Strcmp(Folded(s), Folded(t))

Strchr(s, c) == IF c = Nul THEN Len(s) + 1 ELSE SelectInSeq(s, LAMBDA x : x = c)
Strrchr(s, c) == IF c = Nul THEN Len(s) + 1 ELSE SelectLastInSeq(s, LAMBDA x : x = c)
Among(c, set) == Strchr(set, c) # 0

Strspn(s, accept) == First(1, Len(s), LAMBDA k : ~Among(s[k], accept)) - 1
Strcspn(s, reject) == First(1, Len(s), LAMBDA k : Among(s[k], reject)) - 1

Strstr(h, n) ==
  IF n = <<>> THEN 1
  ELSE First(1, Len(h), LAMBDA k : Strncmp(From(h, k), n, Len(n)) = 0) % (Len(h) + 1)

(* strtok_r on a buffer whose last cell is NUL.                            *)
Strtok(b, save, delim) ==
  LET start == First(save, Len(b) - 1, LAMBDA k : b[k] = Nul \/ ~Among(b[k], delim))
      stop  == First(start, Len(b) - 1, LAMBDA k : b[k] = Nul \/ Among(b[k], delim))
  IN  IF save = 0 \/ b[start] = Nul THEN [buf |-> b, start |-> 0, save |-> 0]
      ELSE IF b[stop] = Nul THEN [buf |-> b, start |-> start, save |-> 0]
      ELSE [buf |-> [b EXCEPT ![stop] = Nul], start |-> start, save |-> stop + 1]

StringAt(b, k) == SubSeq(b, k, First(k, Len(b), LAMBDA j : b[j] = Nul) - 1)

-----------------------------------------------------------------------------
(* Copying.  Strncpy and Strncat are what is stored at dst, and behind it. *)
Zeros(n) == [k \in 1 .. n |-> Nul]

Strncpy(src, n) ==
  IF n <= Len(src) THEN SubSeq(src, 1, n) ELSE src \o Zeros(n - Len(src) + 1)

Strncat(src, n) ==
  IF n <= Len(src) THEN SubSeq(src, 1, n) \o Zeros(1) ELSE src \o Zeros(2)

Strndup(s, n) == SubSeq(s, 1, Min({Len(s), n}))

Upwards(from, to) == [k \in 1 .. to - from + 1 |-> from + k - 1]

FaultyMemmove(m, d, s, n) ==
  FoldLeft(LAMBDA x, k : [x EXCEPT ![d + k] = x[s + k]], m, Upwards(0, n - 1))

(* Backwards when the source is overtaken.                                 *)
Memmove(m, d, s, n) ==
  FoldLeft(LAMBDA x, k : [x EXCEPT ![d + k] = x[s + k]], m,
           IF d < s THEN Upwards(0, n - 1) ELSE Reverse(Upwards(0, n - 1)))

Strtrim(s) ==
  LET cut == SubSeq(s, 1, SelectLastInSeq(s, LAMBDA c : ~IsSpace(c))) \o <<Nul>>
      p   == First(1, Len(cut), LAMBDA k : ~IsSpace(cut[k]))
  IN  StringAt(Memmove(cut, 1, p, Len(cut) - p + 1), 1)

Swap(a, i, j) == [a EXCEPT ![i] = a[j], ![j] = a[i]]

Strrev(s) == FoldLeft(LAMBDA x, k : Swap(x, k, Len(s) + 1 - k), s, Upwards(1, Len(s) \div 2))

-----------------------------------------------------------------------------
(* Numbers.                                                                *)
Signed(x) == ((x + 2 ^ (Width - 1)) % 2 ^ Width) - 2 ^ (Width - 1)

HexPrefix(s, k) == At(s, k) = 48 /\ Lower(At(s, k + 1)) = 120

(* The digits of s from k on, in a base or, for 0, the one they tell.      *)
Digits(s, k, base) ==
  LET hex   == HexPrefix(s, k) /\ base \in {0, 16}
      octal == base = 0 /\ At(s, k) = 48
      radix == IF base # 0 THEN base ELSE IF hex THEN 16 ELSE IF octal THEN 8 ELSE 10
      start == IF hex THEN k + 2 ELSE IF octal THEN k + 1 ELSE k
      end   == First(start, Len(s), LAMBDA j : DigitOf(s[j]) >= radix)
  IN  FoldLeft(LAMBDA x, c : (x * radix + DigitOf(c)) % 2 ^ Width, 0, SubSeq(s, start, end - 1))

Text0(s) == First(1, Len(s), LAMBDA k : ~IsSpace(s[k]))

Strtol(s, base) ==
  LET k == Text0(s)
      x == Digits(s, IF At(s, k) \in {Plus, Minus} THEN k + 1 ELSE k, base)
  IN  Signed(IF At(s, k) = Minus THEN -x ELSE x)

Strtoul(s, base) ==
  LET k == Text0(s) IN Digits(s, IF At(s, k) = Plus THEN k + 1 ELSE k, base)

Atoi(s) == Strtol(s, 10)

Numeral(x, base) ==
  LET digits[n \in Nat] ==
        IF n = 0 THEN <<>> ELSE Append(digits[n \div base], DigitChar(n % base))
  IN  digits[x]

Utoa(x, base) == IF x = 0 THEN <<48>> ELSE Numeral(x, base)

(* Defined for base 10, except for the least number, and for the others    *)
(* from 0 up: digits of a negative remainder are read before the table.    *)
Itoa(x, base) == IF x < 0 THEN <<Minus>> \o Utoa(-x, base) ELSE Utoa(x, base)

-----------------------------------------------------------------------------
(* vsnprintf, one directive after the other.  A directive stands for the   *)
(* text it asks for, and for whether it is %p, whose prefix is cut whole.  *)
Padded(text, width, with) ==
  IF width > Len(text) THEN [k \in 1 .. width - Len(text) |-> with] \o text ELSE text

FmtUint(x, base, width, zero) == Padded(Utoa(x, base), width, IF zero THEN 48 ELSE Blank)

FmtInt(x, width, zero) ==
  IF x < 0 THEN <<Minus>> \o FmtUint(-x, 10, width, zero) ELSE FmtUint(x, 10, width, zero)

FmtString(s, width, left) == IF left THEN s ELSE Padded(s, width, Blank)

Put(out, n, text) == out \o SubSeq(text, 1, Min({Len(text), n - 1 - Len(out)}))

Vsnprintf(n, texts) ==
  FoldLeft(LAMBDA out, text : IF n - Len(out) > 1 THEN Put(out, n, text) ELSE out, <<>>, texts)

(* normalize_path, into a buffer of size bytes.                            *)
SkipRoot(p) ==
  LET start[k \in 1 .. Len(p) + 1] ==
        IF At(p, k) = Slash THEN start[k + 1]
        ELSE IF At(p, k) = 46 /\ At(p, k + 1) = Slash THEN start[k + 2] ELSE k
  IN  From(p, start[1])

NormalizePath(path, size) ==
  FoldLeft(LAMBDA out, c :
             IF Len(out) >= size - 1 \/ (c = Slash /\ out # <<>> /\ Last(out) = Slash) THEN out
             ELSE Append(out, c),
           <<>>, SkipRoot(path))

=============================================================================
