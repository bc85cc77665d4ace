--------------------------- MODULE MCPodMaterial ----------------------------
(***************************************************************************)
(* Instances of PodMaterial for TLC.                                       *)
(***************************************************************************)
EXTENDS PodMaterial, TLC

CONSTANTS p1, p2  \* two pods

PodSymmetry == Permutations(Pods)
=============================================================================
