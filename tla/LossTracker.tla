---------------------------- MODULE LossTracker ----------------------------
(***************************************************************************)
(* The measurement of loss: LossTracker (src/relay/fec.rs) and receive_loop *)
(* (src/relay/tunnel.rs), which feeds it from the sequence numbers of the   *)
(* frames that arrive.                                                      *)
(*                                                                         *)
(* The loop over a gap is modelled one iteration at a time.  Damage says    *)
(* what the network may do to the frames besides losing them.               *)
(***************************************************************************)
EXTENDS Integers, Sequences, FiniteSets

CONSTANTS
  WindowSize,  \* length of LossTracker.window
  SeqSpace,    \* number of sequence numbers: 2^64 in the code
  MaxSent,     \* bound: frames sent
  MaxInFlight, \* bound: frames in the network
  Damage       \* a subset of {"runt", "truncate", "corrupt", "duplicate", "reorder"}

ASSUME LossAssumption ==
  /\ WindowSize \in Nat \ {0}
  /\ SeqSpace \in Nat \ {0}
  /\ MaxSent \in Nat
  /\ MaxSent < SeqSpace
  /\ MaxInFlight \in Nat
  /\ Damage \subseteq {"runt", "truncate", "corrupt", "duplicate", "reorder"}

VARIABLES
  tx_seq,        \* Tunnel.tx_seq of the sender
  net,           \* frames in flight, in the order in which they will arrive
  pc,            \* where receive_loop is
  packet,        \* the frame that it handles
  expected_seq,
  window,        \* LossTracker.window: TRUE is received
  pos,           \* LossTracker.pos
  count,         \* LossTracker.count
  forwarded,     \* the sequence numbers of the packets handed on
  damaged        \* history: the network has done more than to lose frames

tracker == <<window, pos, count>>
vars == <<tx_seq, net, pc, packet, expected_seq, window, pos, count, forwarded,
          damaged>>

Seqs  == 0 .. SeqSpace - 1
Slots == 0 .. WindowSize - 1
Frames == [seq : Seqs, state : {"good", "runt", "truncate", "corrupt"}]

\* Seeded fault: the sequence number does not wrap.
NextSeq_NoWrap(s) == s + 1

\* u64::wrapping_add(1), AtomicU64::fetch_add(1)
NextSeq(s) == (s + 1) % SeqSpace

----------------------------------------------------------------------------
(* LossTracker *)

\* Seeded fault: the loss that leaves the window stays in the count.
Record_NoDecrement(received) ==
  /\ count' = IF received THEN count ELSE count + 1
  /\ window' = [window EXCEPT ![pos] = received]
  /\ pos' = (pos + 1) % WindowSize

\* LossTracker::record, with its saturating_sub.
Record(received) ==
  /\ LET kept == IF window[pos] THEN count
                 ELSE IF count > 0 THEN count - 1 ELSE 0
     IN count' = IF received THEN kept ELSE kept + 1
  /\ window' = [window EXCEPT ![pos] = received]
  /\ pos' = (pos + 1) % WindowSize

----------------------------------------------------------------------------
(* receive_loop *)

\* recv_from returns a frame.  One without a header is skipped, one that is
\* shorter than its header says counts as lost.
Recv ==
  /\ pc = "recv"
  /\ net # <<>>
  /\ net' = Tail(net)
  /\ \/ /\ Head(net).state = "runt"
        /\ UNCHANGED <<pc, packet, tracker>>
     \/ /\ Head(net).state = "truncate"
        /\ Record(FALSE)
        /\ UNCHANGED <<pc, packet>>
     \/ /\ Head(net).state \in {"good", "corrupt"}
        /\ packet' = Head(net)
        /\ pc' = "gap"
        /\ UNCHANGED tracker
  /\ UNCHANGED <<tx_seq, expected_seq, forwarded, damaged>>

\* An iteration of while expected_seq != seq.
Gap ==
  /\ pc = "gap"
  /\ expected_seq # packet.seq
  /\ Record(FALSE)
  /\ expected_seq' = NextSeq(expected_seq)
  /\ UNCHANGED <<tx_seq, net, pc, packet, forwarded, damaged>>

\* Seeded fault: a frame in its place does not advance expected_seq.
Arrive_NoAdvance ==
  /\ pc = "gap"
  /\ expected_seq = packet.seq
  /\ Record(TRUE)
  /\ pc' = "decrypt"
  /\ UNCHANGED <<tx_seq, net, packet, expected_seq, forwarded, damaged>>

\* The frame is the expected one.
Arrive ==
  /\ pc = "gap"
  /\ expected_seq = packet.seq
  /\ Record(TRUE)
  /\ expected_seq' = NextSeq(expected_seq)
  /\ pc' = "decrypt"
  /\ UNCHANGED <<tx_seq, net, packet, forwarded, damaged>>

\* Decryption succeeds and the packet goes to the channel, or the channel is
\* closed and the loop ends; or decryption fails, which counts as a loss.
Decrypt ==
  /\ pc = "decrypt"
  /\ \/ /\ packet.state = "good"
        /\ forwarded' = forwarded \cup {packet.seq}
        /\ pc' = "recv"
        /\ UNCHANGED tracker
     \/ /\ packet.state = "good"
        /\ pc' = "stopped"
        /\ UNCHANGED <<forwarded, tracker>>
     \/ /\ packet.state = "corrupt"
        /\ Record(FALSE)
        /\ pc' = "recv"
        /\ UNCHANGED forwarded
  /\ UNCHANGED <<tx_seq, net, packet, expected_seq, damaged>>

----------------------------------------------------------------------------
(* The sender and the network *)

\* Tunnel::send
Send ==
  /\ tx_seq < MaxSent
  /\ Len(net) < MaxInFlight
  /\ tx_seq' = NextSeq(tx_seq)
  /\ net' = Append(net, [seq |-> tx_seq, state |-> "good"])
  /\ UNCHANGED <<pc, packet, expected_seq, tracker, forwarded, damaged>>

\* The frames without the i-th.
Without(i) == [j \in 1 .. Len(net) - 1 |-> IF j < i THEN net[j] ELSE net[j + 1]]

\* What the network does: it loses a frame, and as far as Damage allows changes
\* one, delivers it twice or swaps two.  The sequence number is read before the
\* frame is authenticated, so a frame that is corrupt may carry any.
Network(i) ==
  /\ \/ /\ net' = Without(i)
        /\ UNCHANGED damaged
     \/ \E d \in Damage \cap {"runt", "truncate"} :
          /\ net' = [net EXCEPT ![i].state = d]
          /\ damaged' = (damaged \/ d # "runt")
     \/ \E s \in Seqs :
          /\ "corrupt" \in Damage
          /\ net' = [net EXCEPT ![i] = [seq |-> s, state |-> "corrupt"]]
          /\ damaged' = TRUE
     \/ /\ "duplicate" \in Damage
        /\ Len(net) < MaxInFlight
        /\ net' = Append(net, net[i])
        /\ damaged' = TRUE
     \/ /\ "reorder" \in Damage
        /\ i < Len(net)
        /\ net' = [net EXCEPT ![i] = net[i + 1], ![i + 1] = net[i]]
        /\ damaged' = TRUE
  /\ UNCHANGED <<tx_seq, pc, packet, expected_seq, tracker, forwarded>>

Init ==
  /\ tx_seq = 0
  /\ net = <<>>
  /\ pc = "recv"
  /\ packet = [seq |-> 0, state |-> "good"]
  /\ expected_seq = 0
  /\ window = [i \in Slots |-> TRUE]
  /\ pos = 0
  /\ count = 0
  /\ forwarded = {}
  /\ damaged = FALSE

Next ==
  \/ Recv \/ Gap \/ Arrive \/ Decrypt
  \/ Send
  \/ \E i \in 1 .. Len(net) : Network(i)

Spec == Init /\ [][Next]_vars

----------------------------------------------------------------------------
(* What has to hold *)

\* Every variable has its type.
TypeOK ==
  /\ tx_seq \in Seqs
  /\ net \in Seq(Frames)
  /\ pc \in {"recv", "gap", "decrypt", "stopped"}
  /\ packet \in Frames
  /\ expected_seq \in Seqs
  /\ window \in [Slots -> BOOLEAN]
  /\ pos \in Slots
  /\ count \in Nat
  /\ forwarded \subseteq Seqs
  /\ damaged \in BOOLEAN

Losses == {i \in Slots : ~window[i]}

\* The count that record keeps up to date by one decrement and one increment
\* is the number of losses in the window, however often the window wraps and
\* whatever the network does: loss_rate is exact and never above 1, and
\* saturating_sub never saturates.
CountIsLosses == count = Cardinality(Losses)

\* As long as the network only loses frames (a frame without a header is as
\* good as lost) the window describes the last WindowSize frames: the entry of
\* a frame says whether it arrived, also while the loop over a gap is under
\* way, and the loop never counts a frame that was not sent.
WindowIsExact ==
  ~damaged =>
    /\ expected_seq <= tx_seq
    /\ \A s \in Seqs :
         s < expected_seq /\ s >= expected_seq - WindowSize =>
           window[s % WindowSize] <=>
             (s \in forwarded \/ (pc \in {"decrypt", "stopped"} /\ s = packet.seq))
=============================================================================
