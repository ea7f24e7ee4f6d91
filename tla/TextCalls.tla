----------------------------- MODULE TextCalls -----------------------------
(***************************************************************************)
(* Calls of the functions of Text and Sorting, with what their callers     *)
(* rely on.  All calls are over when they return, but for strtok, which    *)
(* keeps its place in the caller's buffer from call to call.               *)
(***************************************************************************)
EXTENDS Sorting

CONSTANTS
  Words,       \* bound: the strings compared
  Strings,     \* bound: the strings searched, copied, trimmed and cut into tokens
  Needles,     \* bound: delimiters and strings looked for
  Numbers,     \* bound: the integers converted
  Formats,     \* bound: width, zero padding and room of a formatted number
  Paths,       \* bound: the paths opened
  Arrays       \* bound: the arrays sorted and searched

VARIABLE call    \* the function, its arguments and what it returned so far

Idle == [fn |-> "none"]

Compare == \E s, t \in Words :
  call' = [fn |-> "strcmp", s |-> s, t |-> t, there |-> Strcmp(s, t), back |-> Strcmp(t, s),
           folded |-> Strcasecmp(s, t)]

Search == \E s \in Strings, n \in Needles :
  call' = [fn |-> "strstr", s |-> s, n |-> n, found |-> Strstr(s, n),
           first |-> Strchr(s, n[1]), last |-> Strrchr(s, n[1]),
           spn |-> Strspn(s, n), cspn |-> Strcspn(s, n)]

Copy == \E s \in Strings, n \in 1 .. 4 :
  call' = [fn |-> "strncpy", s |-> s, n |-> n, stored |-> Strncpy(s, n), added |-> Strncat(s, n)]

Move == \E s \in Strings : \E d, p \in DOMAIN s : \E n \in 0 .. Len(s) - Max({d, p}) + 1 :
  call' = [fn |-> "memmove", s |-> s, d |-> d, p |-> p, n |-> n, moved |-> Memmove(s, d, p, n)]

Trim == \E s \in Strings :
  call' = [fn |-> "strtrim", s |-> s, trimmed |-> Strtrim(s), reversed |-> Strrev(s)]

Convert == \E x \in Numbers, base \in {8, 10, 16} :
  call' = [fn |-> "itoa", x |-> x, base |-> base,
           signed |-> Strtol(Itoa(x, 10), 10),
           unsigned |-> Strtoul(Utoa(x % 2 ^ Width, base), base)]

Format == \E x \in Numbers, f \in Formats :
  LET text == FmtInt(x, f.width, f.zero)
  IN  call' = [fn |-> "snprintf", x |-> x, f |-> f, whole |-> text,
               out |-> Vsnprintf(f.room, <<text, <<Blank>>>>)]

Normalize == \E p \in Paths, size \in {4, 9} :
  call' = [fn |-> "normalize", size |-> size, out |-> NormalizePath(p, size)]

Sort == \E a \in Arrays :
  call' = [fn |-> "qsort", a |-> a, sorted |-> Qsort(a)]

Find == \E a \in Arrays, key \in 0 .. 4 :
  LET b == SortSeq(a, LAMBDA x, y : x < y)
  IN  call' = [fn |-> "bsearch", a |-> b, key |-> key, at |-> Bsearch(key, b)]

StrtokFirst == \E s \in Strings, n \in Needles :
  LET r == Strtok(s \o <<Nul>>, 1, n)
  IN  call' = [fn |-> "strtok", s |-> s, n |-> n, buf |-> r.buf, save |-> r.save,
               start |-> r.start,
               got |-> IF r.start = 0 THEN <<>> ELSE <<StringAt(r.buf, r.start)>>]

StrtokNext ==
  LET r == Strtok(call.buf, call.save, call.n)
  IN  call' = [call EXCEPT !.buf = r.buf, !.save = r.save, !.start = r.start,
                 !.got = IF r.start = 0 THEN @ ELSE Append(@, StringAt(r.buf, r.start))]

TextInit == call = Idle

TextNext ==
  \/ /\ call = Idle
     /\ \/ Compare \/ Search \/ Copy \/ Move \/ Trim \/ Convert \/ Format \/ Normalize
        \/ Sort \/ Find \/ StrtokFirst
  \/ /\ call.fn = "strtok" /\ call.start # 0
     /\ StrtokNext

-----------------------------------------------------------------------------
(* What the calls are to mean, without the way they find it.               *)
Before(s, t) ==
  \E k \in 1 .. Min({Len(s) + 1, Len(t)}) :
                         /\ SubSeq(s, 1, k - 1) = SubSeq(t, 1, k - 1)
                         /\ k > Len(s) \/ s[k] < t[k]

Sign(x) == IF x < 0 THEN -1 ELSE IF x > 0 THEN 1 ELSE 0

ComparedRight ==
  /\ Sign(call.there) = IF call.s = call.t THEN 0 ELSE IF Before(call.s, call.t) THEN -1 ELSE 1
  /\ Sign(call.back) = -Sign(call.there)
  /\ call.folded = 0 <=> Folded(call.s) = Folded(call.t)

Occurs(s, n, k) == k + Len(n) - 1 <= Len(s) /\ SubSeq(s, k, k + Len(n) - 1) = n

FoundRight ==
  LET places == {k \in 1 .. Len(call.s) : Occurs(call.s, call.n, k)}
      ones   == {k \in 1 .. Len(call.s) : call.s[k] = call.n[1]}
  IN  /\ call.found = IF places = {} THEN 0 ELSE Min(places)
      /\ call.first = IF ones = {} THEN 0 ELSE Min(ones)
      /\ call.last = IF ones = {} THEN 0 ELSE Max(ones)
      /\ ToSet(SubSeq(call.s, 1, call.spn)) \subseteq ToSet(call.n)
      /\ ToSet(SubSeq(call.s, 1, call.cspn)) \cap ToSet(call.n) = {}
      /\ call.spn = Len(call.s) \/ call.s[call.spn + 1] \notin ToSet(call.n)
      /\ call.cspn = Len(call.s) \/ call.s[call.cspn + 1] \in ToSet(call.n)

(* strncpy stores one cell more than n when the string is shorter, strncat *)
(* one more than the string and its NUL: callers pass the size less one.   *)
CopiedRight ==
  LET part == SubSeq(call.s, 1, Min({call.n, Len(call.s)}))
  IN  /\ Len(call.stored) <= call.n + 1
      /\ IsPrefix(part, call.stored) /\ ToSet(From(call.stored, Len(part) + 1)) \subseteq {Nul}
      /\ StringAt(call.added, 1) = part /\ Len(call.added) <= call.n + 2

MovedRight ==
  \A k \in DOMAIN call.s :
    call.moved[k] = IF k - call.d \in 0 .. call.n - 1 THEN call.s[call.p + k - call.d]
                    ELSE call.s[k]

TrimmedRight ==
  /\ \E a, b \in 0 .. Len(call.s) :
       /\ call.trimmed = SubSeq(call.s, a + 1, Len(call.s) - b)
       /\ \A k \in 1 .. a \cup Len(call.s) - b + 1 .. Len(call.s) : IsSpace(call.s[k])
  /\ call.trimmed # <<>> => ~IsSpace(call.trimmed[1]) /\ ~IsSpace(Last(call.trimmed))
  /\ call.reversed = Reverse(call.s)

(* A negative number gets its blanks between the sign and the digits, and  *)
(* cannot be read back.                                                    *)
FormattedRight ==
  /\ Len(call.out) <= call.f.room - 1
  /\ IsPrefix(call.out, Append(call.whole, Blank))
  /\ Len(call.whole) >= call.f.width
  /\ call.x >= 0 \/ call.f.zero \/ call.f.width = 0 => Atoi(call.whole) = call.x

NormalizedRight ==
  LET p == call.out
  IN  /\ Len(p) < call.size
      /\ p # <<>> => p[1] # Slash
      /\ \A k \in 1 .. Len(p) - 1 : ~(p[k] = Slash /\ p[k + 1] = Slash)
      /\ NormalizePath(p, call.size) = p

SortedRight ==
  /\ \A k \in 1 .. Len(call.a) - 1 : call.sorted[k] <= call.sorted[k + 1]
  /\ \A x \in ToSet(call.a) \cup ToSet(call.sorted) :
       Cardinality({k \in DOMAIN call.a : call.a[k] = x})
         = Cardinality({k \in DOMAIN call.sorted : call.sorted[k] = x})

(* The tokens are the longest stretches without a delimiter, from left to  *)
(* right, and all of them once strtok returned NULL.                       *)
Stretches(s, n) ==
  {<<a, b>> \in (1 .. Len(s)) \X (1 .. Len(s)) :
     /\ a <= b /\ \A k \in a .. b : ~Among(s[k], n)
     /\ a > 1 => Among(s[a - 1], n)
     /\ b < Len(s) => Among(s[b + 1], n)}

TokensRight ==
  LET all == SetToSortSeq(Stretches(call.s, call.n), LAMBDA p, q : p[1] < q[1])
      m   == Len(call.got)
  IN  /\ m <= Len(all)
      /\ call.start = 0 => m = Len(all)
      /\ \A k \in 1 .. m : call.got[k] = SubSeq(call.s, all[k][1], all[k][2])

(* Every call of the library returned what it is to return.                *)
CallsKeepTheirWord ==
  CASE call.fn = "strcmp"    -> ComparedRight
    [] call.fn = "strstr"    -> FoundRight
    [] call.fn = "strncpy"   -> CopiedRight
    [] call.fn = "memmove"   -> MovedRight
    [] call.fn = "strtrim"   -> TrimmedRight
    [] call.fn = "itoa"      -> /\ call.signed = call.x
                                /\ call.unsigned = call.x % 2 ^ Width
    [] call.fn = "snprintf"  -> FormattedRight
    [] call.fn = "normalize" -> NormalizedRight
    [] call.fn = "qsort"     -> SortedRight
    [] call.fn = "bsearch"   -> IF call.at = 0 THEN call.key \notin ToSet(call.a)
                                ELSE call.a[call.at] = call.key
    [] call.fn = "strtok"    -> TokensRight
    [] OTHER                 -> TRUE
=============================================================================
