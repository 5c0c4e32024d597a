---------------------------- MODULE MCEdgeFlows ----------------------------
(***************************************************************************)
(* Instances of EdgeFlows for TLC.                                         *)
(***************************************************************************)
EXTENDS EdgeFlows

CONSTANTS A, B, a1, a2, a3, b1, b2, b3

MCHome == [c \in Clients |-> IF c \in {a1, a2, a3} THEN A ELSE B]

\* The first client of each node is a QUIC stream.
MCKind == [c \in Clients |-> IF c \in {a1, b1} THEN "quic" ELSE "tcp"]

\* The TCP connections a2 and a3 compete for flow ids; the one that gets the id
\* of b2 hears from it and b2 from a2: two clients whose reads are independent.
MCMaxChunks == [c \in Clients |-> IF c \in {a2, b1, b2} THEN 1 ELSE 0]
=============================================================================
