------------------------------- MODULE Paths -------------------------------
(***************************************************************************)
(* Reference definitions of paths in a latency matrix.  A matrix maps each *)
(* pair of nodes to a round-trip time, or to NoEdge where                  *)
(* LatencyMatrix.entries has no entry.                                     *)
(***************************************************************************)
EXTENDS Integers, Sequences, FiniteSets, FiniteSetsExt

CONSTANT Nodes

NoEdge == -1

Matrix(Rtts) == [Nodes \X Nodes -> Rtts \cup {NoEdge}]

\* The cost of walking along p.
Cost(m, p) == MapThenSumSet(LAMBDA i : m[<<p[i], p[i + 1]>>], 1 .. Len(p) - 1)

\* The paths from a to b that visit no node twice.
SimplePaths(m, a, b) ==
  {p \in UNION {[1 .. k -> Nodes] : k \in 1 .. Cardinality(Nodes)} :
     /\ p[1] = a /\ p[Len(p)] = b
     /\ \A i, j \in 1 .. Len(p) : p[i] = p[j] => i = j
     /\ \A i \in 1 .. Len(p) - 1 : m[<<p[i], p[i + 1]>>] # NoEdge}

\* The costs of the ways from a to b.
Costs(m, a, b) == {Cost(m, p) : p \in SimplePaths(m, a, b)}

\* The cheapest paths.
Shortest(m, a, b) ==
  {p \in SimplePaths(m, a, b) : \A c \in Costs(m, a, b) : Cost(m, p) <= c}

\* The first hops of the cheapest paths.
FirstHops(m, a, b) == {p[2] : p \in Shortest(m, a, b)}
=============================================================================
