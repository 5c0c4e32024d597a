------------------------------- MODULE MCMesh -------------------------------
(***************************************************************************)
(* Instances of Mesh for TLC: the names of the nodes.                      *)
(***************************************************************************)
EXTENDS Mesh

CONSTANTS a, b, c
=============================================================================
