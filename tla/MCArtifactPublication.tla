------------------------ MODULE MCArtifactPublication ------------------------
(***************************************************************************)
(* Two writers: every race for one destination is a race of two.           *)
(***************************************************************************)
EXTENDS ArtifactPublication

CONSTANTS w1, w2
=============================================================================
