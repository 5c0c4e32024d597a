------------------------- MODULE LossTrackerProofs -------------------------
(***************************************************************************)
(* Proofs about LossTracker, for any window, sequence space and damage.     *)
(***************************************************************************)
EXTENDS LossTracker, FiniteSetTheorems, TLAPS

\* The part of the state that LossTracker owns.
TrackerOK ==
  /\ window \in [Slots -> BOOLEAN]
  /\ pos \in Slots
  /\ count \in Nat

\* The next position in a ring stays within it.
LEMMA Ring ==
  ASSUME NEW n \in Nat \ {0}, NEW i \in 0 .. n - 1
  PROVE  (i + 1) % n \in 0 .. n - 1
<1>1. i + 1 \in Int /\ n \in Int /\ n > 0
  OBVIOUS
<1>. QED BY <1>1, SMTT(30)

\* A window has finitely many losses, and no more than slots.
LEMMA LossesFinite == IsFiniteSet(Losses) /\ Cardinality(Losses) \in Nat
<1>1. IsFiniteSet(Slots)
  BY LossAssumption, FS_Interval DEF Slots
<1>2. Losses \subseteq Slots
  BY DEF Losses
<1>3. IsFiniteSet(Losses)
  BY <1>1, <1>2, FS_Subset
<1>. QED BY <1>3, FS_CardinalityType

\* LossTracker::record keeps the count equal to the number of losses.
LEMMA RecordStep ==
  ASSUME TrackerOK, CountIsLosses, NEW received \in BOOLEAN, Record(received)
  PROVE  TrackerOK' /\ CountIsLosses'
<1>. DEFINE kept == Losses \ {pos}
<1>1. pos \in Slots /\ window \in [Slots -> BOOLEAN] /\ count \in Nat
  BY DEF TrackerOK
<1>2. window' = [window EXCEPT ![pos] = received]
  BY DEF Record
<1>3. Losses' = IF received THEN kept ELSE kept \cup {pos}
  BY <1>1, <1>2 DEF Losses
<1>4. IsFiniteSet(kept) /\ Cardinality(kept) \in Nat
  BY LossesFinite, FS_Subset, FS_CardinalityType
<1>5. Cardinality(kept) = IF window[pos] THEN count ELSE count - 1
  <2>1. CASE window[pos]
    <3>1. kept = Losses
      BY <2>1 DEF Losses
    <3>. QED BY <2>1, <3>1 DEF CountIsLosses
  <2>2. CASE ~window[pos]
    <3>1. pos \in Losses
      BY <1>1, <2>2 DEF Losses
    <3>2. Cardinality(kept) = Cardinality(Losses) - 1
      BY <3>1, LossesFinite, FS_RemoveElement
    <3>. QED BY <2>2, <3>2 DEF CountIsLosses
  <2>. QED BY <2>1, <2>2
<1>6. ~window[pos] => count > 0
  BY <1>1, <1>4, <1>5
<1>7. count' = IF received THEN Cardinality(kept) ELSE Cardinality(kept) + 1
  BY <1>1, <1>5, <1>6 DEF Record
<1>8. CountIsLosses'
  <2>1. Cardinality(kept \cup {pos}) = Cardinality(kept) + 1
    BY <1>4, FS_AddElement
  <2>. QED BY <1>3, <1>7, <2>1 DEF CountIsLosses
<1>9. pos' \in Slots
  <2>1. pos' = (pos + 1) % WindowSize
    BY DEF Record
  <2>. QED BY <1>1, <2>1, Ring, LossAssumption DEF Slots
<1>10. window' \in [Slots -> BOOLEAN]
  BY <1>1, <1>2
<1>11. count' \in Nat
  BY <1>4, <1>7
<1>. QED BY <1>8, <1>9, <1>10, <1>11 DEF TrackerOK

\* The conjunction that every step preserves: the type is needed because the
\* slot that record overwrites has to be one of the window's.
IInv == TypeOK /\ CountIsLosses

\* A step that leaves the tracker alone leaves the count right.
LEMMA TrackerUnchanged ==
  ASSUME CountIsLosses, TrackerOK, UNCHANGED tracker
  PROVE  CountIsLosses' /\ TrackerOK'
BY DEF CountIsLosses, TrackerOK, Losses, tracker

\* Each step of receive_loop, of the sender and of the network either records
\* one frame or leaves the tracker alone.
LEMMA TrackerStep ==
  ASSUME CountIsLosses, TrackerOK, [Next]_vars
  PROVE  CountIsLosses' /\ TrackerOK'
<1>1. CASE Recv
  BY <1>1, RecordStep, TrackerUnchanged DEF Recv
<1>2. CASE Gap
  BY <1>2, RecordStep DEF Gap
<1>3. CASE Arrive
  BY <1>3, RecordStep DEF Arrive
<1>4. CASE Decrypt
  BY <1>4, RecordStep, TrackerUnchanged DEF Decrypt
<1>5. CASE Send
  BY <1>5, TrackerUnchanged DEF Send
<1>6. CASE \E i \in 1 .. Len(net) : Network(i)
  BY <1>6, TrackerUnchanged DEF Network
<1>7. CASE UNCHANGED vars
  BY <1>7, TrackerUnchanged DEF vars, tracker
<1>. QED BY <1>1, <1>2, <1>3, <1>4, <1>5, <1>6, <1>7 DEF Next

\* The rest of the state.
LoopOK ==
  /\ tx_seq \in Seqs
  /\ net \in Seq(Frames)
  /\ pc \in {"recv", "gap", "decrypt", "stopped"}
  /\ packet \in Frames
  /\ expected_seq \in Seqs
  /\ forwarded \subseteq Seqs
  /\ damaged \in BOOLEAN

\* receive_loop, the sender and the network preserve the types of the rest.
LEMMA LoopStep ==
  ASSUME LoopOK, [Next]_vars
  PROVE  LoopOK'
<1>0. \A s \in Seqs : NextSeq(s) \in Seqs
  BY Ring, LossAssumption DEF Seqs, NextSeq
<1>1. CASE Recv
  <2>1. Tail(net) \in Seq(Frames) /\ Head(net) \in Frames
    BY <1>1 DEF Recv, LoopOK
  <2>. QED BY <1>1, <2>1 DEF Recv, LoopOK
<1>2. CASE Gap
  BY <1>0, <1>2 DEF Gap, LoopOK
<1>3. CASE Arrive
  BY <1>0, <1>3 DEF Arrive, LoopOK
<1>4. CASE Decrypt
  <2>1. packet.seq \in Seqs
    BY DEF LoopOK, Frames
  <2>. QED BY <1>4, <2>1 DEF Decrypt, LoopOK
<1>5. CASE Send
  <2>1. [seq |-> tx_seq, state |-> "good"] \in Frames
    BY DEF LoopOK, Frames
  <2>2. net' \in Seq(Frames)
    BY <1>5, <2>1 DEF Send, LoopOK
  <2>. QED BY <1>0, <1>5, <2>2 DEF Send, LoopOK
<1>6. ASSUME NEW i \in 1 .. Len(net), Network(i)
      PROVE  LoopOK'
  <2>1. net \in Seq(Frames) /\ Len(net) \in Nat /\ \A j \in 1 .. Len(net) : net[j] \in Frames
    BY DEF LoopOK
  <2>2. CASE net' = Without(i)
    <3>1. \A j \in 1 .. Len(net) - 1 :
            (IF j < i THEN net[j] ELSE net[j + 1]) \in Frames
      BY <2>1
    <3>2. Without(i) \in Seq(Frames)
      BY <2>1, <3>1 DEF Without
    <3>. QED BY <1>6, <2>2, <3>2 DEF Network, LoopOK
  <2>6. ASSUME NEW s \in Seqs,
               net' = [net EXCEPT ![i] = [seq |-> s, state |-> "corrupt"]],
               damaged' = TRUE
        PROVE  LoopOK'
    <3>1. [seq |-> s, state |-> "corrupt"] \in Frames
      BY DEF Frames
    <3>2. net' \in Seq(Frames)
      BY <2>1, <2>6, <3>1
    <3>. QED BY <1>6, <2>6, <3>2 DEF Network, LoopOK
  <2>3. ASSUME NEW d \in Damage \cap {"runt", "truncate"},
               net' = [net EXCEPT ![i].state = d],
               damaged' = (damaged \/ d # "runt")
        PROVE  LoopOK'
    <3>1. d \in {"runt", "truncate"}
      OBVIOUS
    <3>2. [net[i] EXCEPT !.state = d] \in Frames
      BY <2>1, <3>1 DEF Frames
    <3>3. net' \in Seq(Frames)
      BY <2>1, <2>3, <3>2
    <3>. QED BY <1>6, <2>3, <3>3 DEF Network, LoopOK
  <2>4. CASE net' = Append(net, net[i])
    <3>1. net' \in Seq(Frames)
      BY <2>1, <2>4
    <3>2. damaged' \in BOOLEAN
      BY <1>6 DEF Network, LoopOK
    <3>. QED BY <1>6, <3>1, <3>2 DEF Network, LoopOK
  <2>5. CASE i < Len(net) /\ net' = [net EXCEPT ![i] = net[i + 1], ![i + 1] = net[i]]
    <3>1. i + 1 \in 1 .. Len(net)
      BY <2>1, <2>5
    <3>2. net' \in Seq(Frames)
      BY <2>1, <2>5, <3>1
    <3>. QED BY <1>6, <3>2 DEF Network, LoopOK
  <2>. QED BY <1>6, <2>2, <2>3, <2>4, <2>5, <2>6 DEF Network
<1>7. CASE UNCHANGED vars
  BY <1>7 DEF vars, LoopOK
<1>. QED BY <1>1, <1>2, <1>3, <1>4, <1>5, <1>6, <1>7 DEF Next

\* The count of LossTracker is the number of losses in its window, for every
\* window and whatever frames arrive.
THEOREM CountIsExact == Spec => [](TypeOK /\ CountIsLosses)
<1>1. Init => IInv
  <2>. SUFFICES ASSUME Init PROVE IInv
    OBVIOUS
  <2>1. Losses = {}
    BY DEF Init, Losses
  <2>2. CountIsLosses
    BY <2>1, FS_EmptySet DEF Init, CountIsLosses
  <2>3. damaged \in BOOLEAN
    BY DEF Init
  <2>4. TypeOK
    BY <2>3, LossAssumption DEF Init, TypeOK, Seqs, Slots, Frames
  <2>. QED BY <2>2, <2>4 DEF IInv
<1>2. IInv /\ [Next]_vars => IInv'
  <2>. SUFFICES ASSUME IInv, [Next]_vars PROVE IInv'
    OBVIOUS
  <2>1. TrackerOK /\ LoopOK /\ CountIsLosses
    BY DEF IInv, TypeOK, TrackerOK, LoopOK
  <2>2. CountIsLosses' /\ TrackerOK'
    BY <2>1, TrackerStep
  <2>3. LoopOK'
    BY <2>1, LoopStep
  <2>. QED BY <2>2, <2>3 DEF IInv, TypeOK, TrackerOK, LoopOK
<1>3. IInv => TypeOK /\ CountIsLosses
  BY DEF IInv
<1>. QED BY <1>1, <1>2, <1>3, PTL DEF Spec

\* Every variable of the measurement keeps its type, whatever the network does:
\* the position stays within the window and expected_seq within 64 bits.
THEOREM TypeCorrect == Spec => []TypeOK
<1>1. TypeOK /\ CountIsLosses => TypeOK
  OBVIOUS
<1>. QED BY <1>1, CountIsExact, PTL

----------------------------------------------------------------------------
(* The window is exact as long as the network only loses frames *)

\* The frames under way are good or without a header, in the order in which
\* they were sent, and none of them is before the frame that is awaited or,
\* while the loop closes a gap, the frame that it handles.
NetInv ==
  \A j \in 1 .. Len(net) :
    /\ net[j].state \in {"good", "runt"}
    /\ net[j].seq < tx_seq
    /\ \A k \in 1 .. Len(net) : j < k => net[j].seq < net[k].seq
    /\ IF pc = "gap" THEN packet.seq < net[j].seq ELSE expected_seq <= net[j].seq

\* The loop never runs ahead of the sender, a frame is handed on after the loop
\* has passed it, and record is called once for every number that it passes.
PassedInv ==
  /\ tx_seq <= MaxSent /\ expected_seq <= tx_seq
  /\ pc = "gap" => expected_seq <= packet.seq /\ packet.seq < tx_seq
  /\ pc \in {"decrypt", "stopped"} => packet.seq < expected_seq
  /\ pc \in {"gap", "decrypt"} => packet.state = "good"
  /\ \A s \in forwarded : s < expected_seq
  /\ pos = expected_seq % WindowSize

\* The frame with number s has arrived.
Arrived(s) == s \in forwarded \/ (pc \in {"decrypt", "stopped"} /\ s = packet.seq)

\* The window says of the last WindowSize frames whether they have arrived.
WindowInv ==
  \A s \in Seqs :
    s < expected_seq /\ s >= expected_seq - WindowSize =>
      (window[s % WindowSize] <=> Arrived(s))

\* The inductive invariant.
OrderInv == ~damaged => NetInv /\ PassedInv /\ WindowInv

\* Division with remainder.
LEMMA DivisionFacts ==
  ASSUME NEW a \in Nat, NEW b \in Nat \ {0}
  PROVE  a \div b \in Int /\ a % b \in 0 .. b - 1 /\ a = b * (a \div b) + (a % b)
<1>. DEFINE q == a \div b
            r == a % b
<1>1. q \in Int /\ r \in 0 .. b - 1 /\ a = b * q + r
  BY Z3
<1>. QED BY <1>1

\* The remainder of a division is the only number below the divisor that a
\* multiple of the divisor separates from the dividend.
LEMMA RemainderIsUnique ==
  ASSUME NEW a \in Nat, NEW b \in Nat \ {0}, NEW q \in Int,
         NEW r \in 0 .. b - 1, a = b * q + r
  PROVE  a % b = r
<1>. DEFINE x == a \div b
            y == a % b
<1>1. x \in Int /\ y \in 0 .. b - 1 /\ a = b * x + y
  BY DivisionFacts
<1>. HIDE DEF x, y
<1>2. ASSUME x >= q + 1 PROVE FALSE
  <2>1. PICK z \in Nat : x = (q + 1) + z
    <3>1. x - (q + 1) \in Nat /\ x = (q + 1) + (x - (q + 1))
      BY <1>1, <1>2
    <3>. QED BY <3>1
  <2>2. b * x = b * q + b + b * z
    BY <1>1, <2>1
  <2>3. b * z \in Nat /\ b * q \in Int
    BY <2>1
  <2>. QED BY <1>1, <2>2, <2>3
<1>3. ASSUME q >= x + 1 PROVE FALSE
  <2>1. PICK z \in Nat : q = (x + 1) + z
    <3>1. q - (x + 1) \in Nat /\ q = (x + 1) + (q - (x + 1))
      BY <1>1, <1>3
    <3>. QED BY <3>1
  <2>2. b * q = b * x + b + b * z
    BY <1>1, <2>1
  <2>3. b * z \in Nat /\ b * x \in Int
    BY <1>1, <2>1
  <2>. QED BY <1>1, <2>2, <2>3
<1>4. x = q
  BY <1>1, <1>2, <1>3
<1>5. y = r
  <2>1. b * q \in Int
    OBVIOUS
  <2>. QED BY <1>1, <1>4, <2>1
<1>. QED BY <1>5 DEF y

\* The position of the next number is the next position of the ring, and no
\* other of the last n numbers has the position of this one.
LEMMA RingPositions ==
  ASSUME NEW n \in Nat \ {0}, NEW e \in Nat
  PROVE  /\ e % n \in 0 .. n - 1
         /\ (e + 1) % n = ((e % n) + 1) % n
         /\ \A s \in Nat : (s < e /\ s >= e + 1 - n) => s % n # e % n
<1>. DEFINE q == e \div n
            r == e % n
<1>1. q \in Int /\ r \in 0 .. n - 1 /\ e = n * q + r
  BY DivisionFacts
<1>. HIDE DEF q, r
<1>2. n * q \in Int /\ n * (q + 1) = n * q + n
  BY <1>1
<1>3. (e + 1) % n = (r + 1) % n
  <2>1. CASE r + 1 < n
    <3>1. r + 1 \in 0 .. n - 1 /\ e + 1 = n * q + (r + 1)
      BY <1>1, <1>2, <2>1
    <3>2. (e + 1) % n = r + 1
      BY <1>1, <3>1, RemainderIsUnique
    <3>3. r + 1 = n * 0 + (r + 1)
      BY <1>1
    <3>4. (r + 1) % n = r + 1
      BY <1>1, <3>1, <3>3, RemainderIsUnique
    <3>. QED BY <3>2, <3>4
  <2>2. CASE r + 1 = n
    <3>1. e + 1 = n * (q + 1) + 0
      BY <1>1, <1>2, <2>2
    <3>2. (e + 1) % n = 0
      BY <1>1, <3>1, RemainderIsUnique
    <3>3. r + 1 = n * 1 + 0
      BY <2>2
    <3>4. (r + 1) % n = 0
      BY <1>1, <3>3, RemainderIsUnique
    <3>. QED BY <3>2, <3>4
  <2>. QED BY <1>1, <2>1, <2>2
<1>4. ASSUME NEW s \in Nat, s < e, s >= e + 1 - n, s % n = r
      PROVE  FALSE
  <2>. DEFINE x == s \div n
  <2>1. x \in Int /\ s = n * x + (s % n)
    BY DivisionFacts
  <2>2. s = n * x + r
    BY <1>4, <2>1
  <2>. HIDE DEF x
  <2>3. x < q
    <3>1. ASSUME x >= q PROVE FALSE
      <4>1. PICK z \in Nat : x = q + z
        <5>1. x - q \in Nat /\ x = q + (x - q)
          BY <1>1, <2>1, <3>1
        <5>. QED BY <5>1
      <4>2. n * x = n * q + n * z /\ n * z \in Nat
        BY <1>1, <4>1
      <4>. QED BY <1>1, <1>2, <1>4, <2>2, <4>2
    <3>. QED BY <1>1, <2>1, <3>1
  <2>4. PICK z \in Nat : q = (x + 1) + z
    <3>1. q - (x + 1) \in Nat /\ q = (x + 1) + (q - (x + 1))
      BY <1>1, <2>1, <2>3
    <3>. QED BY <3>1
  <2>5. n * q = n * x + n + n * z /\ n * z \in Nat /\ n * x \in Int
    BY <2>1, <2>4
  <2>. QED BY <1>1, <1>4, <2>2, <2>5
<1>5. r \in 0 .. n - 1 /\ \A s \in Nat : (s < e /\ s >= e + 1 - n) => s % n # r
  BY <1>1, <1>4
<1>. QED BY <1>3, <1>5 DEF r

\* The first frame and the ones after it.
LEMMA TailFacts ==
  ASSUME NEW S, NEW q \in Seq(S), q # <<>>
  PROVE  /\ Len(q) \in Nat /\ Len(q) >= 1 /\ Head(q) = q[1]
         /\ Len(Tail(q)) = Len(q) - 1
         /\ \A j \in 1 .. Len(q) - 1 : j + 1 \in 1 .. Len(q) /\ Tail(q)[j] = q[j + 1]
OBVIOUS

\* The numbers of the frames under way.
LEMMA SeqsAreNumbers ==
  ASSUME TypeOK
  PROVE  \A j \in 1 .. Len(net) : net[j].seq \in Nat
<1>1. \A j \in 1 .. Len(net) : net[j] \in Frames
  BY DEF TypeOK
<1>. QED BY <1>1, LossAssumption DEF Frames, Seqs

\* Handing the loop past the number expected_seq: record writes its slot.
LEMMA Pass ==
  ASSUME TypeOK, PassedInv, WindowInv, NEW received \in BOOLEAN,
         Record(received), expected_seq' = NextSeq(expected_seq),
         expected_seq < tx_seq, UNCHANGED <<tx_seq, forwarded>>,
         \A s \in Seqs : s < expected_seq => (Arrived(s)' <=> Arrived(s)),
         \A s \in Seqs : s = expected_seq => (Arrived(s)' <=> received)
  PROVE  /\ expected_seq' = expected_seq + 1
         /\ pos' = expected_seq' % WindowSize
         /\ WindowInv'
<1>. DEFINE e == expected_seq
            n == WindowSize
<1>1. e \in Nat /\ n \in Nat \ {0} /\ e + 1 < SeqSpace /\ tx_seq \in Nat
      /\ SeqSpace \in Nat /\ e \in Seqs
  BY LossAssumption DEF TypeOK, Seqs, PassedInv
<1>2. expected_seq' = e + 1
  <2>1. (e + 1) % SeqSpace = e + 1
    <3>1. e + 1 \in 0 .. SeqSpace - 1 /\ e + 1 \in Nat /\ e + 1 = SeqSpace * 0 + (e + 1)
          /\ SeqSpace \in Nat \ {0}
      BY <1>1
    <3>. QED BY <3>1, RemainderIsUnique
  <2>. QED BY <2>1 DEF NextSeq
<1>3. /\ pos = e % n /\ pos \in Slots /\ window \in [Slots -> BOOLEAN]
      /\ pos' = (pos + 1) % n /\ window' = [window EXCEPT ![pos] = received]
  BY DEF PassedInv, TypeOK, Record
<1>4. /\ (e + 1) % n = ((e % n) + 1) % n
      /\ \A s \in Nat : (s < e /\ s >= e + 1 - n) => s % n # e % n
  BY <1>1, RingPositions
<1>5. pos' = expected_seq' % n
  BY <1>2, <1>3, <1>4
<1>6. ASSUME NEW s \in Seqs, s < e + 1, s >= e + 1 - n
      PROVE  window'[s % n] <=> Arrived(s)'
  <2>1. s \in Nat
    BY <1>1 DEF Seqs
  <2>2. CASE s = e
    <3>1. Arrived(s)' <=> received
      BY <2>2
    <3>2. window'[s % n] = received
      BY <1>3, <2>2
    <3>. QED BY <3>1, <3>2
  <2>3. CASE s < e
    <3>1. s % n # pos
      BY <1>3, <1>4, <1>6, <2>1, <2>3
    <3>2. s % n \in Slots
      BY <1>1, <2>1, RingPositions DEF Slots
    <3>3. window'[s % n] = window[s % n]
      BY <1>3, <3>1, <3>2
    <3>4. s >= e - n
      BY <1>1, <1>6, <2>1
    <3>5. window[s % n] <=> Arrived(s)
      BY <2>3, <3>4 DEF WindowInv
    <3>. QED BY <2>3, <3>3, <3>5
  <2>. QED BY <1>1, <1>6, <2>1, <2>2, <2>3
<1>7. WindowInv'
  <2>. SUFFICES ASSUME NEW s \in Seqs, s < expected_seq',
                       s >= expected_seq' - WindowSize
       PROVE  window'[s % WindowSize] <=> Arrived(s)'
    BY DEF WindowInv, Seqs
  <2>1. s < e + 1 /\ s >= e + 1 - n
    BY <1>1, <1>2 DEF Seqs
  <2>. QED BY <1>6, <2>1
<1>. QED BY <1>2, <1>5, <1>7

\* recv_from takes the first frame; one that is good starts the loop over the
\* gap before it.
LEMMA RecvOrder ==
  ASSUME TypeOK, OrderInv, Recv
  PROVE  OrderInv'
<1>. SUFFICES ASSUME ~damaged
     PROVE  NetInv' /\ PassedInv' /\ WindowInv'
  BY DEF OrderInv, Recv
<1>0. NetInv /\ PassedInv /\ WindowInv
  BY DEF OrderInv
<1>1. /\ pc = "recv" /\ net' = Tail(net)
      /\ UNCHANGED <<tx_seq, expected_seq, forwarded>>
      /\ net \in Seq(Frames) /\ net # <<>>
      /\ expected_seq \in Nat /\ tx_seq \in Nat
  BY LossAssumption DEF Recv, TypeOK, Seqs
<1>2. /\ Len(net) \in Nat /\ Len(net) >= 1 /\ Head(net) = net[1]
      /\ Len(net') = Len(net) - 1
      /\ \A j \in 1 .. Len(net') : j + 1 \in 1 .. Len(net) /\ net'[j] = net[j + 1]
  BY <1>1, TailFacts
<1>3. /\ net[1].state \in {"good", "runt"} /\ net[1].seq < tx_seq
      /\ expected_seq <= net[1].seq
  BY <1>0, <1>1, <1>2 DEF NetInv
<1>4. \A j \in 1 .. Len(net') :
        /\ net'[j].state \in {"good", "runt"} /\ net'[j].seq < tx_seq
        /\ \A k \in 1 .. Len(net') : j < k => net'[j].seq < net'[k].seq
        /\ expected_seq <= net'[j].seq
        /\ net[1].seq < net'[j].seq
  <2>. SUFFICES ASSUME NEW j \in 1 .. Len(net')
       PROVE  /\ net'[j].state \in {"good", "runt"} /\ net'[j].seq < tx_seq
              /\ \A k \in 1 .. Len(net') : j < k => net'[j].seq < net'[k].seq
              /\ expected_seq <= net'[j].seq
              /\ net[1].seq < net'[j].seq
    OBVIOUS
  <2>1. /\ j + 1 \in 1 .. Len(net) /\ net'[j] = net[j + 1]
        /\ 1 \in 1 .. Len(net) /\ 1 < j + 1
    BY <1>2
  <2>2. /\ net[j + 1].state \in {"good", "runt"} /\ net[j + 1].seq < tx_seq
        /\ expected_seq <= net[j + 1].seq
        /\ net[1].seq < net[j + 1].seq
    BY <1>0, <1>1, <2>1 DEF NetInv
  <2>3. ASSUME NEW k \in 1 .. Len(net'), j < k
        PROVE  net'[j].seq < net'[k].seq
    <3>1. k + 1 \in 1 .. Len(net) /\ net'[k] = net[k + 1] /\ j + 1 < k + 1
      BY <1>2, <2>3
    <3>. QED BY <1>0, <2>1, <3>1 DEF NetInv
  <2>. QED BY <2>1, <2>2, <2>3
<1>5. CASE net[1].state = "runt"
  <2>1. UNCHANGED <<pc, packet, tracker>>
    BY <1>2, <1>5 DEF Recv
  <2>2. NetInv'
    BY <1>1, <1>4, <2>1 DEF NetInv
  <2>3. PassedInv'
    BY <1>0, <1>1, <2>1 DEF PassedInv, tracker
  <2>4. WindowInv'
    BY <1>0, <1>1, <2>1 DEF WindowInv, Arrived, Seqs, tracker
  <2>. QED BY <2>2, <2>3, <2>4
<1>6. CASE net[1].state = "good"
  <2>1. packet' = net[1] /\ pc' = "gap" /\ UNCHANGED tracker
    BY <1>2, <1>6 DEF Recv
  <2>2. NetInv'
    BY <1>1, <1>4, <2>1 DEF NetInv
  <2>3. PassedInv'
    BY <1>0, <1>1, <1>3, <1>6, <2>1 DEF PassedInv, tracker
  <2>4. WindowInv'
    BY <1>0, <1>1, <2>1 DEF WindowInv, Arrived, Seqs, tracker
  <2>. QED BY <2>2, <2>3, <2>4
<1>. QED BY <1>3, <1>5, <1>6

\* An iteration of the loop over the gap passes a number that has not arrived.
LEMMA GapOrder ==
  ASSUME TypeOK, OrderInv, Gap
  PROVE  OrderInv'
<1>. SUFFICES ASSUME ~damaged
     PROVE  NetInv' /\ PassedInv' /\ WindowInv'
  BY DEF OrderInv, Gap
<1>0. NetInv /\ PassedInv /\ WindowInv
  BY DEF OrderInv
<1>1. /\ pc = "gap" /\ expected_seq # packet.seq /\ Record(FALSE)
      /\ expected_seq' = NextSeq(expected_seq)
      /\ UNCHANGED <<tx_seq, net, pc, packet, forwarded>>
  BY DEF Gap
<1>2. /\ expected_seq \in Nat /\ tx_seq \in Nat /\ packet.seq \in Nat
      /\ forwarded \subseteq Nat
  BY LossAssumption DEF TypeOK, Seqs, Frames
<1>3. expected_seq < packet.seq /\ packet.seq < tx_seq /\ expected_seq < tx_seq
  BY <1>0, <1>1, <1>2 DEF PassedInv
<1>4. \A s : Arrived(s)' <=> Arrived(s)
  BY <1>1 DEF Arrived
<1>6. /\ expected_seq' = expected_seq + 1
      /\ pos' = expected_seq' % WindowSize
      /\ WindowInv'
  <2>1. \A s \in Seqs : s = expected_seq => (Arrived(s)' <=> FALSE)
    BY <1>0, <1>1, <1>2 DEF Arrived, PassedInv
  <2>. QED BY <1>0, <1>1, <1>3, <1>4, <2>1, Pass
<1>7. NetInv'
  <2>1. pc = "gap" /\ pc' = "gap" /\ UNCHANGED <<tx_seq, net, packet>>
    BY <1>1
  <2>. QED BY <1>0, <2>1 DEF NetInv
<1>8. PassedInv'
  BY <1>0, <1>1, <1>2, <1>3, <1>6 DEF PassedInv
<1>. QED BY <1>6, <1>7, <1>8

\* The frame that closes the gap arrives.
LEMMA ArriveOrder ==
  ASSUME TypeOK, OrderInv, Arrive
  PROVE  OrderInv'
<1>. SUFFICES ASSUME ~damaged
     PROVE  NetInv' /\ PassedInv' /\ WindowInv'
  BY DEF OrderInv, Arrive
<1>0. NetInv /\ PassedInv /\ WindowInv
  BY DEF OrderInv
<1>1. /\ pc = "gap" /\ expected_seq = packet.seq /\ Record(TRUE)
      /\ expected_seq' = NextSeq(expected_seq) /\ pc' = "decrypt"
      /\ UNCHANGED <<tx_seq, net, packet, forwarded>>
  BY DEF Arrive
<1>2. /\ expected_seq \in Nat /\ tx_seq \in Nat /\ packet.seq \in Nat
      /\ forwarded \subseteq Nat
  BY LossAssumption DEF TypeOK, Seqs, Frames
<1>3. packet.seq < tx_seq /\ expected_seq < tx_seq
  BY <1>0, <1>1, <1>2 DEF PassedInv
<1>4. \A s \in Seqs : s < expected_seq => (Arrived(s)' <=> Arrived(s))
  BY <1>1, <1>2, LossAssumption DEF Arrived, Seqs
<1>6. /\ expected_seq' = expected_seq + 1
      /\ pos' = expected_seq' % WindowSize
      /\ WindowInv'
  <2>1. \A s \in Seqs : s = expected_seq => (Arrived(s)' <=> TRUE)
    BY <1>1 DEF Arrived
  <2>. QED BY <1>0, <1>1, <1>3, <1>4, <2>1, Pass
<1>7. NetInv'
  <2>1. \A j \in 1 .. Len(net) : net[j].seq \in Nat
    BY SeqsAreNumbers
  <2>2. /\ pc = "gap" /\ pc' = "decrypt" /\ UNCHANGED <<tx_seq, net>>
        /\ expected_seq' = packet.seq + 1
    BY <1>1, <1>6
  <2>3. \A j \in 1 .. Len(net) :
          packet.seq < net[j].seq => expected_seq' <= net[j].seq
    BY <1>2, <2>1, <2>2
  <2>. QED BY <1>0, <2>2, <2>3 DEF NetInv
<1>8. PassedInv'
  BY <1>0, <1>1, <1>2, <1>3, <1>6 DEF PassedInv
<1>. QED BY <1>6, <1>7, <1>8

\* The frame that has arrived is handed on, or the loop ends.
LEMMA DecryptOrder ==
  ASSUME TypeOK, OrderInv, Decrypt
  PROVE  OrderInv'
<1>. SUFFICES ASSUME ~damaged
     PROVE  NetInv' /\ PassedInv' /\ WindowInv'
  BY DEF OrderInv, Decrypt
<1>0. NetInv /\ PassedInv /\ WindowInv
  BY DEF OrderInv
<1>1. /\ pc = "decrypt" /\ packet.state = "good" /\ pc' \in {"recv", "stopped"}
      /\ UNCHANGED <<tx_seq, net, packet, expected_seq, tracker>>
      /\ \/ pc' = "recv" /\ forwarded' = forwarded \cup {packet.seq}
         \/ pc' = "stopped" /\ forwarded' = forwarded
  BY <1>0 DEF Decrypt, PassedInv
<1>2. NetInv'
  BY <1>0, <1>1 DEF NetInv
<1>3. PassedInv'
  BY <1>0, <1>1 DEF PassedInv, tracker
<1>4. \A s : Arrived(s)' <=> Arrived(s)
  BY <1>1 DEF Arrived
<1>5. WindowInv'
  BY <1>0, <1>1, <1>4 DEF WindowInv, Seqs, tracker
<1>. QED BY <1>2, <1>3, <1>5

\* What Append does to length and elements.
LEMMA AppendFacts ==
  ASSUME NEW S, NEW q \in Seq(S), NEW f \in S
  PROVE  /\ Len(q) \in Nat /\ Len(Append(q, f)) = Len(q) + 1
         /\ Append(q, f)[Len(q) + 1] = f
         /\ \A j \in 1 .. Len(q) : Append(q, f)[j] = q[j]
OBVIOUS

\* The sender sends the next number.
LEMMA SendOrder ==
  ASSUME TypeOK, OrderInv, Send
  PROVE  OrderInv'
<1>. SUFFICES ASSUME ~damaged
     PROVE  NetInv' /\ PassedInv' /\ WindowInv'
  BY DEF OrderInv, Send
<1>. DEFINE f == [seq |-> tx_seq, state |-> "good"]
            n == Len(net)
<1>0. NetInv /\ PassedInv /\ WindowInv
  BY DEF OrderInv
<1>1. /\ tx_seq < MaxSent /\ net' = Append(net, f)
      /\ tx_seq' = NextSeq(tx_seq)
      /\ UNCHANGED <<pc, packet, expected_seq, tracker, forwarded>>
  BY DEF Send
<1>2. /\ expected_seq \in Nat /\ tx_seq \in Nat /\ packet.seq \in Nat
      /\ net \in Seq(Frames) /\ f \in Frames
      /\ \A j \in 1 .. n : net[j].seq \in Nat
  BY SeqsAreNumbers, LossAssumption DEF TypeOK, Seqs, Frames
<1>3. /\ n \in Nat /\ Len(net') = n + 1 /\ net'[n + 1] = f
      /\ \A j \in 1 .. n : net'[j] = net[j]
  BY <1>1, <1>2, AppendFacts
<1>4. tx_seq' = tx_seq + 1
  <2>1. /\ tx_seq + 1 \in 0 .. SeqSpace - 1 /\ tx_seq + 1 \in Nat
        /\ tx_seq + 1 = SeqSpace * 0 + (tx_seq + 1) /\ SeqSpace \in Nat \ {0}
    BY <1>1, <1>2, LossAssumption
  <2>2. (tx_seq + 1) % SeqSpace = tx_seq + 1
    BY <2>1, RemainderIsUnique
  <2>. QED BY <1>1, <2>2 DEF NextSeq
<1>5. f.seq = tx_seq /\ f.state = "good"
  OBVIOUS
<1>. HIDE DEF f, n
<1>6. ASSUME NEW j \in 1 .. n + 1
      PROVE  /\ net'[j].state \in {"good", "runt"}
             /\ net'[j].seq < tx_seq'
             /\ \A k \in 1 .. n + 1 : j < k => net'[j].seq < net'[k].seq
             /\ IF pc = "gap" THEN packet.seq < net'[j].seq
                ELSE expected_seq <= net'[j].seq
  <2>1. CASE j = n + 1
    BY <1>0, <1>2, <1>3, <1>4, <1>5, <2>1 DEF PassedInv
  <2>2. CASE j \in 1 .. n
    <3>1. /\ net[j].state \in {"good", "runt"} /\ net[j].seq < tx_seq
          /\ \A k \in 1 .. n : j < k => net[j].seq < net[k].seq
          /\ IF pc = "gap" THEN packet.seq < net[j].seq ELSE expected_seq <= net[j].seq
      BY <1>0, <2>2 DEF NetInv, n
    <3>2. net'[j] = net[j] /\ net[j].seq \in Nat
      BY <1>2, <1>3, <2>2 DEF n
    <3>3. ASSUME NEW k \in 1 .. n + 1, j < k PROVE net'[j].seq < net'[k].seq
      <4>1. CASE k = n + 1
        BY <1>3, <1>5, <3>1, <3>2, <4>1
      <4>2. CASE k \in 1 .. n
        BY <1>3, <3>1, <3>2, <3>3, <4>2
      <4>. QED BY <1>3, <4>1, <4>2
    <3>. QED BY <1>2, <1>4, <3>1, <3>2, <3>3
  <2>. QED BY <1>3, <2>1, <2>2
<1>7. NetInv'
  BY <1>1, <1>3, <1>6 DEF NetInv
<1>8. PassedInv'
  BY <1>0, <1>1, <1>2, <1>4, LossAssumption DEF PassedInv, tracker
<1>9. WindowInv'
  BY <1>0, <1>1 DEF WindowInv, Arrived, Seqs, tracker
<1>. QED BY <1>7, <1>8, <1>9

\* The network loses a frame, or damages it so that it has no header.
LEMMA NetworkOrder ==
  ASSUME TypeOK, OrderInv, NEW i \in 1 .. Len(net), Network(i)
  PROVE  OrderInv'
<1>. SUFFICES ASSUME ~damaged'
     PROVE  NetInv' /\ PassedInv' /\ WindowInv'
  BY DEF OrderInv
<1>. DEFINE n == Len(net)
<1>1. /\ ~damaged
      /\ \/ net' = Without(i)
         \/ net' = [net EXCEPT ![i].state = "runt"]
  BY DEF Network, TypeOK
<1>2. /\ UNCHANGED <<tx_seq, pc, packet, expected_seq, tracker, forwarded>>
      /\ net \in Seq(Frames) /\ n \in Nat /\ i \in 1 .. n
  BY DEF Network, TypeOK
<1>0. NetInv /\ PassedInv /\ WindowInv
  BY <1>1 DEF OrderInv
<1>3. PassedInv' /\ WindowInv'
  BY <1>0, <1>2 DEF PassedInv, WindowInv, Arrived, Seqs, tracker
<1>4. CASE net' = Without(i)
  <2>1. /\ Len(net') = n - 1
        /\ \A j \in 1 .. n - 1 : net'[j] = IF j < i THEN net[j] ELSE net[j + 1]
    BY <1>2, <1>4 DEF Without
  <2>. DEFINE at(j) == IF j < i THEN j ELSE j + 1
  <2>2. /\ \A j \in 1 .. n - 1 : at(j) \in 1 .. n /\ net'[j] = net[at(j)]
        /\ \A j, k \in 1 .. n - 1 : j < k => at(j) < at(k)
    BY <1>2, <2>1
  <2>. HIDE DEF at, n
  <2>. SUFFICES ASSUME NEW j \in 1 .. n - 1
       PROVE  /\ net'[j].state \in {"good", "runt"}
              /\ net'[j].seq < tx_seq
              /\ \A k \in 1 .. n - 1 : j < k => net'[j].seq < net'[k].seq
              /\ IF pc = "gap" THEN packet.seq < net'[j].seq
                 ELSE expected_seq <= net'[j].seq
    BY <1>2, <1>3, <2>1 DEF NetInv
  <2>3. /\ net[at(j)].state \in {"good", "runt"} /\ net[at(j)].seq < tx_seq
        /\ \A k \in 1 .. n : at(j) < k => net[at(j)].seq < net[k].seq
        /\ IF pc = "gap" THEN packet.seq < net[at(j)].seq
           ELSE expected_seq <= net[at(j)].seq
    BY <1>0, <2>2 DEF NetInv, n
  <2>. QED BY <2>2, <2>3
<1>5. CASE net' = [net EXCEPT ![i].state = "runt"]
  <2>1. /\ Len(net') = n
        /\ \A j \in 1 .. n : /\ net'[j].seq = net[j].seq
                             /\ net'[j].state \in {net[j].state, "runt"}
    <3>1. \A j \in 1 .. n : net[j] \in Frames
      BY <1>2
    <3>2. /\ Len(net') = n
          /\ \A j \in 1 .. n : net'[j] = net[j] \/ net'[j] = [net[j] EXCEPT !.state = "runt"]
      BY <1>2, <1>5
    <3>. QED BY <3>1, <3>2 DEF Frames
  <2>2. NetInv'
    BY <1>0, <1>2, <2>1 DEF NetInv
  <2>. QED BY <1>3, <2>2
<1>. QED BY <1>1, <1>4, <1>5

\* However long frames are lost for and however often the window wraps: while
\* nothing but losses happens, the window tells of each of the last frames
\* whether it arrived, and the loop over a gap counts only frames that were
\* sent.
THEOREM WindowTellsTheTruth == Spec => []WindowIsExact
<1>1. Init => OrderInv
  <2>. SUFFICES ASSUME Init PROVE NetInv /\ PassedInv /\ WindowInv
    BY DEF OrderInv
  <2>1. NetInv /\ WindowInv
    BY LossAssumption DEF Init, NetInv, WindowInv, Seqs
  <2>2. 0 % WindowSize = 0
    BY RemainderIsUnique, LossAssumption
  <2>. QED BY <2>1, <2>2, LossAssumption DEF Init, PassedInv
<1>2. TypeOK /\ OrderInv /\ [Next]_vars => OrderInv'
  <2>. SUFFICES ASSUME TypeOK, OrderInv, [Next]_vars PROVE OrderInv'
    OBVIOUS
  <2>1. CASE UNCHANGED vars
    BY <2>1 DEF vars, OrderInv, NetInv, PassedInv, WindowInv, Arrived, Seqs
  <2>. QED
    BY <2>1, RecvOrder, GapOrder, ArriveOrder, DecryptOrder, SendOrder, NetworkOrder
       DEF Next
<1>3. OrderInv => WindowIsExact
  BY DEF OrderInv, WindowIsExact, PassedInv, WindowInv, Arrived
<1>. QED BY <1>1, <1>2, <1>3, TypeCorrect, PTL DEF Spec
=============================================================================
