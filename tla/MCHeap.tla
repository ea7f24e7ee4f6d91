------------------------------- MODULE MCHeap -------------------------------
(***************************************************************************)
(* Heap for TLC.  A small arena with the header and split sizes of the     *)
(* code and requests that split, fill a block exactly or fail.             *)
(***************************************************************************)
EXTENDS Heap

MCRequests == {0, 1, 12, 30}
=============================================================================
