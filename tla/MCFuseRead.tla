----------------------------- MODULE MCFuseRead -----------------------------
(***************************************************************************)
(* Every legal file of up to five bytes in pages of two, read by two      *)
(* readers.                                                                *)
(***************************************************************************)
EXTENDS FuseRead, TLC

CONSTANTS r1, r2

MCSymmetry == Permutations(Readers)
=============================================================================
