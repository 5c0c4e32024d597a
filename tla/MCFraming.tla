----------------------------- MODULE MCFraming -----------------------------
(***************************************************************************)
(* Instances of Framing for TLC.                                           *)
(***************************************************************************)
EXTENDS Framing

CONSTANTS t, q

MCKind == [f \in Flows |-> IF f = t THEN "tcp" ELSE "quic"]
=============================================================================
