----------------------------- MODULE MCBlockDev -----------------------------
(***************************************************************************)
(* BlockDev for TLC: a boot sector, a window of three sectors the bitmap   *)
(* just covers, one sector of the partition beyond it, and two contents.   *)
(***************************************************************************)
EXTENDS BlockDev

MCPartStart == 1
MCFatSectors == 3
MCDiskSectors == MCPartStart + MCFatSectors + 1
=============================================================================
