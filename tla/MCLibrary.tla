------------------------------ MODULE MCLibrary ------------------------------
(* Constants for checking Library.                                         *)
EXTENDS Library

MCBytes == {"n"}
MCChunks == {<<"n">>}
MCLengths == {1, 2}
MCOffsets == {-1, 0, 1}

(* blank, a, A, b                                                          *)
MCStrings == BoundedSeq({32, 97, 65}, 3) \cup TupleOf({32, 97, 98}, 5)
MCWords == BoundedSeq({32, 97, 65}, 3)
MCNeedles == {<<32>>, <<97>>, <<97, 32>>, <<97, 97>>, <<32, 98>>}
MCNumbers == -127 .. 127
MCFormats == [width : {0, 4, 6}, zero : BOOLEAN, room : {2, 4, 9}]
(* slash, dot, a                                                           *)
MCPaths == BoundedSeq({47, 46, 97}, 5)
MCArrays == BoundedSeq(1 .. 3, 4) \cup TupleOf(1 .. 3, 8) \cup TupleOf(1 .. 2, 11)

MCSymmetry == Permutations(Blocks) \cup Permutations(Names)
=============================================================================
