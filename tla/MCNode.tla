------------------------------- MODULE MCNode -------------------------------
(***************************************************************************)
(* Instances of Node for TLC: two peers at two addresses and a stranger.   *)
(***************************************************************************)
EXTENDS Node

CONSTANTS a, b, c, x, y, z

Key32 == [base64 |-> TRUE, len |-> 32]
PeerB == [node_id |-> b, addr |-> x, shared_key |-> Key32]
PeerC == [node_id |-> c, addr |-> y, shared_key |-> Key32]

Good == [named |-> TRUE, peers |-> <<PeerB, PeerC>>, tls |-> {},
         fec |-> TRUE, interval |-> TRUE]

\* A configuration that works, three that validate rejects, and two that make a
\* task panic, in one of which the peers share an address.
MCConfigs ==
  {Good,
   [Good EXCEPT !.named = FALSE],
   [Good EXCEPT !.tls = {"cert"}],
   [Good EXCEPT !.peers[2].shared_key.len = 16],
   [Good EXCEPT !.fec = FALSE],
   [Good EXCEPT !.interval = FALSE, !.peers[2].addr = x]}

MCFrames ==
  {[from |-> z, kind |-> "other", dests |-> <<>>],
   [from |-> x, kind |-> "junk", dests |-> <<>>],
   [from |-> x, kind |-> "other", dests |-> <<>>],
   [from |-> x, kind |-> "pong", dests |-> <<>>],
   [from |-> x, kind |-> "data", dests |-> <<a, b>>],
   [from |-> x, kind |-> "bad", dests |-> <<>>],
   [from |-> y, kind |-> "data", dests |-> <<a>>]}
=============================================================================
