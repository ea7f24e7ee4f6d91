------------------------------ MODULE Sorting -------------------------------
(***************************************************************************)
(* qsort and bsearch of libc/stdlib.c, as they go over an array.           *)
(***************************************************************************)
EXTENDS Text

(* qsort and bsearch, on the elements lo .. lo + n - 1 of a.               *)
RECURSIVE Sink(_, _, _)
Sink(a, j, lo) == IF j > lo /\ a[j - 1] > a[j] THEN Sink(Swap(a, j - 1, j), j - 1, lo) ELSE a

InsertionSort(a, lo, n) ==
  FoldLeft(LAMBDA x, j : Sink(x, j, lo), a, Upwards(lo + 1, lo + n - 1))

RECURSIVE Partition(_, _, _, _)
Partition(a, left, right, pivot) ==
  LET l == Min({k \in left .. Len(a) : a[k] >= a[pivot]})
      r == Max({k \in 1 .. right : a[k] <= a[pivot]})
      p == IF pivot = l THEN r ELSE IF pivot = r THEN l ELSE pivot
  IN  IF left > right THEN [a |-> a, left |-> left, right |-> right]
      ELSE IF l > r THEN [a |-> a, left |-> l, right |-> r]
      ELSE Partition(Swap(a, l, r), l + 1, r - 1, p)

RECURSIVE Quicksort(_, _, _)
Quicksort(a, lo, n) ==
  IF n < 8 THEN InsertionSort(a, lo, n)
  ELSE LET cut   == Partition(a, lo, lo + n - 1, lo + n \div 2)
           ln    == cut.right - lo + 1
           rn    == n - (cut.left - lo)
           lower == IF ln > 1 THEN Quicksort(cut.a, lo, ln) ELSE cut.a
       IN  IF rn > 1 THEN Quicksort(lower, cut.left, rn) ELSE lower

Qsort(a) == IF Len(a) < 2 THEN a ELSE Quicksort(a, 1, Len(a))

RECURSIVE Between(_, _, _, _)
Between(key, a, lo, hi) ==
  LET mid == lo + (hi - lo) \div 2
  IN  IF lo > hi THEN 0
      ELSE IF key < a[mid] THEN Between(key, a, lo, mid - 1)
      ELSE IF key > a[mid] THEN Between(key, a, mid + 1, hi)
      ELSE mid

Bsearch(key, a) == Between(key, a, 1, Len(a))
=============================================================================
