------------------------------ MODULE MCRouter ------------------------------
(***************************************************************************)
(* Instances of Router for TLC.                                            *)
(***************************************************************************)
EXTENDS Router

CONSTANTS a, b, c, d

Links == {l \in SUBSET Nodes : Cardinality(l) = 2}

\* Matrices as the prober fills them: the same value in both directions.
SymmetricMatrices ==
  {[e \in Nodes \X Nodes |->
      IF e[1] = e[2] THEN NoEdge ELSE f[{e[1], e[2]}]] :
     f \in [Links -> Rtts \cup {NoEdge}]}

\* Those a node has: a prober only measures the links of its own node.
OwnLinks ==
  {m \in SymmetricMatrices :
     \A e \in Nodes \X Nodes : LocalNode \notin {e[1], e[2]} => m[e] = NoEdge}
=============================================================================
