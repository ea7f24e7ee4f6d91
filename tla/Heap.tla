-------------------------------- MODULE Heap --------------------------------
(***************************************************************************)
(* The heap, libc/memory.c: a list of blocks in address order, each a      *)
(* header and its bytes, searched first fit, split on allocation and       *)
(* coalesced on free.  Only the kernel thread allocates.                   *)
(***************************************************************************)
EXTENDS Integers, Sequences, FiniteSets, SequencesExt

CONSTANTS
  HeapStart, HeapEnd, \* _heap_start, HEAP_END
  Hdr,        \* BLOCK_HDR
  MinSplit,   \* MIN_SPLIT
  Wrap,       \* size_t is arithmetic modulo Wrap
  Requests,   \* bound: the sizes asked for
  MaxLive     \* bound: blocks a program holds

ASSUME HeapAssumption ==
  /\ {HeapStart, HeapEnd, Hdr, MinSplit, Wrap} \subseteq Nat
  /\ Hdr > 0 /\ HeapStart + Hdr < HeapEnd
  /\ HeapEnd + Hdr + MinSplit < Wrap
  /\ Requests \subseteq 0 .. Wrap - 1

VARIABLES
  blocks, \* the list from heap_head: [at, size, free]
  wants,  \* history: the size each live pointer was asked for
  result  \* what the last call returned

vars == <<blocks, wants, result>>

NULL == 0

-----------------------------------------------------------------------------
Block(at, size, free) == [at |-> at, size |-> size, free |-> free]

Ptr(b) == b.at + Hdr

(* Definitions marked "Faulty" are wrong on purpose: a run that uses one in *)
(* place of the definition after it must fail, or the property is idle.    *)
FaultyAlign4(n) == (n \div 4) * 4

(* (size + 3) & ~3u                                                        *)
Align4(n) == (((n + 3) % Wrap) \div 4) * 4

(* The block that is taken, and the rest of it when that is large enough.  *)
Split(b, n) ==
  IF b.size >= (n + Hdr + MinSplit) % Wrap
  THEN <<Block(b.at, n, FALSE), Block(b.at + Hdr + n, b.size - n - Hdr, TRUE)>>
  ELSE <<Block(b.at, b.size, FALSE)>>

FirstFit(bs, n) ==
  LET fits == {i \in DOMAIN bs : bs[i].free /\ bs[i].size >= n}
  IN  IF fits = {} THEN 0 ELSE CHOOSE i \in fits : \A j \in fits : i <= j

(* malloc on a list: the new list and the pointer.                         *)
Malloc(bs, size) ==
  LET n == Align4(size)
      i == FirstFit(bs, n)
  IN  IF size = 0 \/ i = 0 THEN [list |-> bs, ptr |-> NULL]
      ELSE [list |-> SubSeq(bs, 1, i - 1) \o Split(bs[i], n)
                       \o SubSeq(bs, i + 1, Len(bs)),
            ptr  |-> Ptr(bs[i])]

(* coalesce: a free block takes in the free block that follows.            *)
Join(b, rest) ==
  IF rest # <<>> /\ b.free /\ rest[1].free
  THEN <<Block(b.at, b.size + Hdr + rest[1].size, TRUE)>> \o Tail(rest)
  ELSE <<b>> \o rest

(* The last k blocks of the list, coalesced.                               *)
Coalesce(bs) ==
  LET last[k \in 0 .. Len(bs)] ==
        IF k = 0 THEN <<>> ELSE Join(bs[Len(bs) - k + 1], last[k - 1])
  IN  last[Len(bs)]

IndexOf(bs, p) == CHOOSE i \in DOMAIN bs : Ptr(bs[i]) = p

FaultyRelease(bs, p) == [bs EXCEPT ![IndexOf(bs, p)].free = TRUE]

(* free on a list.                                                         *)
Release(bs, p) == Coalesce([bs EXCEPT ![IndexOf(bs, p)].free = TRUE])

-----------------------------------------------------------------------------
(* memory_init.                                                            *)
Init ==
  /\ blocks = <<Block(HeapStart, HeapEnd - HeapStart - Hdr, TRUE)>>
  /\ wants = <<>>
  /\ result = NULL

Live == DOMAIN wants

With(p, n) == [x \in Live \union {p} |-> IF x = p THEN n ELSE wants[x]]

Without(f, p) == [x \in DOMAIN f \ {p} |-> f[x]]

malloc(size) ==
  /\ Cardinality(Live) < MaxLive
  /\ LET r == Malloc(blocks, size)
     IN  /\ blocks' = r.list /\ result' = r.ptr
         /\ wants' = IF r.ptr = NULL THEN wants ELSE With(r.ptr, size)

(* calloc also clears the block, whose bytes are not modelled.             *)
calloc(count, size) == malloc((count * size) % Wrap)

(* A program frees what it holds.                                          *)
free(p) ==
  /\ blocks' = Release(blocks, p) /\ wants' = Without(wants, p)
  /\ UNCHANGED result

(* realloc of a pointer the program holds: in place when the block is      *)
(* large enough, else by a new block, and NULL with the old one kept.      *)
FaultyMoved(r, p) == r.list
Moved(r, p) == Release(r.list, p)

realloc(p, size) ==
  LET b == blocks[IndexOf(blocks, p)]
      r == Malloc(blocks, size)
  IN  IF size = 0
      THEN blocks' = Release(blocks, p) /\ wants' = Without(wants, p)
             /\ result' = NULL
      ELSE IF b.size >= size
      THEN wants' = With(p, size) /\ result' = p /\ UNCHANGED blocks
      ELSE IF r.ptr = NULL
      THEN result' = NULL /\ UNCHANGED <<blocks, wants>>
      ELSE /\ blocks' = Moved(r, p)
           /\ wants' = Without(With(r.ptr, size), p)
           /\ result' = r.ptr

Next ==
  \/ \E n \in Requests : malloc(n)
  \/ \E k \in 1 .. 2, n \in Requests : calloc(k, n)
  \/ \E p \in Live : free(p)
  \/ \E p \in Live, n \in Requests : realloc(p, n)

Spec == Init /\ [][Next]_vars

-----------------------------------------------------------------------------
TypeOK ==
  /\ blocks \in Seq([at : HeapStart .. HeapEnd, size : 0 .. HeapEnd - HeapStart,
                      free : BOOLEAN])
  /\ result \in {NULL} \union HeapStart .. HeapEnd

(* The address behind a block.                                             *)
End(b) == Ptr(b) + b.size

(* The blocks tile the heap: each begins where the one before ends, so no  *)
(* header lies in the bytes of a block and no byte is lost to the list.    *)
(* However blocks are allocated, resized and freed, no two free blocks     *)
(* stand side by side: freed memory is usable as a whole.                  *)
Tiled ==
  /\ TypeOK
  /\ LET n == Len(blocks)
     IN  /\ n > 0 /\ blocks[1].at = HeapStart /\ End(blocks[n]) = HeapEnd
         /\ \A i \in 1 .. n - 1 :
              /\ blocks[i + 1].at = End(blocks[i])
              /\ ~(blocks[i].free /\ blocks[i + 1].free)

(* A block is in use exactly when a program holds its pointer, so nothing  *)
(* leaks and nothing held is handed out again; realloc keeps to this too.  *)
UsedIsHeld == {Ptr(b) : b \in {x \in ToSet(blocks) : ~x.free}} = Live

(* The live blocks as the abstract allocator sees them.                    *)
LiveBlocks ==
  {[at |-> Ptr(b), len |-> b.size, want |-> wants[Ptr(b)]] :
     b \in {x \in ToSet(blocks) : Ptr(x) \in Live}}

A == INSTANCE Allocator WITH Lo <- HeapStart, Hi <- HeapEnd, live <- LiveBlocks

(* malloc, free and realloc implement the abstract allocator.              *)
ImplementsAllocator == A!ASpec
=============================================================================
