---------------------------- MODULE LossyChannel ----------------------------
(***************************************************************************)
(* What the FEC codec promises to the two forwarders at the ends of a link: *)
(* payloads are grouped into blocks in the order in which they are          *)
(* accepted; a block is handed on at most once, whole or not at all, and    *)
(* blocks may overtake each other.  Nothing is said of why a block is lost. *)
(***************************************************************************)
EXTENDS Integers, Sequences

VARIABLES
  accepted,  \* number of payloads accepted; a payload is its number
  waiting,   \* payloads accepted that are in no block yet
  blocks,    \* the blocks, in the order in which they were closed
  handed,    \* the payloads handed on, in order
  done       \* the blocks that were handed on

vars == <<accepted, waiting, blocks, handed, done>>

Init ==
  /\ accepted = 0
  /\ waiting = <<>>
  /\ blocks = <<>>
  /\ handed = <<>>
  /\ done = {}

\* A payload is accepted and waits.
Accept ==
  /\ accepted' = accepted + 1
  /\ waiting' = Append(waiting, accepted + 1)
  /\ UNCHANGED <<blocks, handed, done>>

\* A payload is accepted and completes a block.
AcceptAndClose ==
  /\ accepted' = accepted + 1
  /\ blocks' = Append(blocks, Append(waiting, accepted + 1))
  /\ waiting' = <<>>
  /\ UNCHANGED <<handed, done>>

\* The payloads that wait are closed into a block.
Close ==
  /\ waiting # <<>>
  /\ blocks' = Append(blocks, waiting)
  /\ waiting' = <<>>
  /\ UNCHANGED <<accepted, handed, done>>

\* The payloads that wait are lost with the node that holds them.
Forget ==
  /\ waiting # <<>>
  /\ waiting' = <<>>
  /\ UNCHANGED <<accepted, blocks, handed, done>>

\* A block is handed on.
HandOn(g) ==
  /\ g \notin done
  /\ handed' = handed \o blocks[g]
  /\ done' = done \cup {g}
  /\ UNCHANGED <<accepted, waiting, blocks>>

Next ==
  \/ Accept
  \/ AcceptAndClose
  \/ Close
  \/ Forget
  \/ \E g \in 1 .. Len(blocks) : HandOn(g)

Spec == Init /\ [][Next]_vars

\* What a user of the channel may rely on: no payload is handed on twice.
HandedOnce ==
  \A m, n \in 1 .. Len(handed) : m # n => handed[m] # handed[n]
=============================================================================
