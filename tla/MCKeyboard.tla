----------------------------- MODULE MCKeyboard -----------------------------
(***************************************************************************)
(* Keyboard for TLC: a character ring of three slots and a raw ring of     *)
(* two, so that both wrap and overflow, and one scan code of each class    *)
(* that behaves differently.                                               *)
(***************************************************************************)
EXTENDS Keyboard

MCCodes == {"lshift", "capslock", "a"}
=============================================================================
