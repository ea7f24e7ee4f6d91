------------------------------- MODULE Library -------------------------------
(***************************************************************************)
(* libc as one library: the FILE layer, and the functions on text.  These  *)
(* keep nothing of their own (but strtok's place) and touch nothing of the *)
(* FILE layer, so that calling them while no file was opened is enough.    *)
(***************************************************************************)
EXTENDS Stdio, TextCalls

LibraryVars == <<vars, call>>

LibraryInit == Init /\ TextInit

LibraryNext ==
  \/ Next /\ call = Idle /\ UNCHANGED call
  \/ Init /\ TextNext /\ UNCHANGED vars

LibrarySpec == LibraryInit /\ [][LibraryNext]_LibraryVars
=============================================================================
