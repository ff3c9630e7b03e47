---------------------------- MODULE MCFuseAdapter ----------------------------
(***************************************************************************)
(* A root with a file and a directory, whose names are not in the order of *)
(* their inodes, and a file in the directory.                              *)
(***************************************************************************)
EXTENDS FuseAdapter, TLC

CONSTANTS fd1, fd2

MCInode     == 1 .. 4
MCDirectory == {1, 2}
MCListing   == 1 :> <<3, 2>> @@ 2 :> <<4>>
MCSymmetry  == Permutations(Fd)
=============================================================================
