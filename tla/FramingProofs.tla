--------------------------- MODULE FramingProofs ---------------------------
(***************************************************************************)
(* Proofs about Framing, for any flows, block size, length of the node's    *)
(* name and lengths of the reads.                                           *)
(***************************************************************************)
EXTENDS Framing, TLAPS

\* The bound on the length of a node's name.
LEMMA DestLenType == DestLen \in Nat /\ DestLen <= 255
BY FramingAssumption

\* A chunk is between one byte and one read buffer long.
LEMMA ChunkLen ==
  ASSUME NEW buf \in Seq(Chunk), NEW i \in 1 .. Len(buf)
  PROVE  buf[i] \in Chunk /\ buf[i].len \in 1 .. BUF_SIZE /\ buf[i].flow \in Flows
<1>1. buf[i] \in Chunk
  OBVIOUS
<1>. QED BY <1>1 DEF Chunk

\* Cutting a read into chunks yields chunks that are not empty and not longer
\* than the read (the loop of read_task over buf[..n].chunks).
LEMMA ChunksType ==
  ASSUME NEW f \in Flows, NEW n \in 1 .. BUF_SIZE
  PROVE  Chunks(f, n) \in Seq(Chunk)
<1>1. CASE Kind[f] = "quic"
  <2>1. [flow |-> f, len |-> n] \in Chunk
    BY DEF Chunk
  <2>. QED BY <1>1, <2>1 DEF Chunks
<1>2. CASE Kind[f] # "quic"
  <2>1. n \in Nat
    BY DEF BUF_SIZE
  <2>2. ChunkCount(n) \in Nat /\ ChunkCount(n) * 1400 <= n + 1399
    BY <2>1 DEF ChunkCount, MAX_RELAY_DATA
  <2>. DEFINE l(i) == IF i * MAX_RELAY_DATA <= n THEN MAX_RELAY_DATA
                      ELSE n - (i - 1) * MAX_RELAY_DATA
  <2>3. ASSUME NEW i \in 1 .. ChunkCount(n)
        PROVE  [flow |-> f, len |-> l(i)] \in Chunk
    <3>1. i \in Nat /\ i >= 1 /\ i * 1400 <= n + 1399
      BY <2>1, <2>2
    <3>2. l(i) \in 1 .. BUF_SIZE
      BY <3>1 DEF BUF_SIZE, MAX_RELAY_DATA
    <3>. QED BY <3>2 DEF Chunk
  <2>. HIDE DEF l
  <2>4. [i \in 1 .. ChunkCount(n) |-> [flow |-> f, len |-> l(i)]] \in Seq(Chunk)
    BY <2>2, <2>3
  <2>. QED BY <1>2, <2>4 DEF Chunks, l
<1>. QED BY <1>1, <1>2

\* The lengths of a payload without and with its prefix.
LEMMA Lengths ==
  ASSUME NEW n \in 1 .. BUF_SIZE
  PROVE  /\ RelayLen(n) = 5 + DestLen + n
         /\ Prefixed(n) = 7 + DestLen + n
         /\ n \in Nat
         /\ n <= 16384
<1>1. n \in Nat /\ n <= 16384
  BY DEF BUF_SIZE
<1>2. RelayLen(n) = 5 + DestLen + n
  BY <1>1, DestLenType DEF RelayLen
<1>3. Prefixed(n) = 7 + DestLen + n
  BY <1>1, <1>2, DestLenType DEF Prefixed
<1>. QED BY <1>1, <1>2, <1>3

\* The length fields of 16 bits lose nothing: a relay payload and a ciphertext
\* that hold one read are shorter than 2^16 bytes.
LEMMA LengthsFit ==
  ASSUME NEW n \in 1 .. BUF_SIZE
  PROVE  /\ U16(RelayLen(n)) = 5 + DestLen + n
         /\ U16(SHARD_HEADER_SIZE + Prefixed(n) + AUTH_TAG_SIZE) = 30 + DestLen + n
<1>1. ASSUME NEW m \in Nat, m < 65536
      PROVE  U16(m) = m
  BY <1>1 DEF U16
<1>2. /\ 5 + DestLen + n \in Nat
      /\ 30 + DestLen + n \in Nat
      /\ 30 + DestLen + n < 65536
  BY Lengths, DestLenType
<1>3. RelayLen(n) = 5 + DestLen + n
  BY Lengths
<1>4. SHARD_HEADER_SIZE + Prefixed(n) + AUTH_TAG_SIZE = 30 + DestLen + n
  BY Lengths, DestLenType DEF SHARD_HEADER_SIZE, AUTH_TAG_SIZE
<1>5. U16(5 + DestLen + n) = 5 + DestLen + n
  BY <1>1, <1>2, Lengths, DestLenType
<1>6. U16(30 + DestLen + n) = 30 + DestLen + n
  BY <1>1, <1>2
<1>. QED BY <1>3, <1>4, <1>5, <1>6

\* Room in bytes.
LEMMA RoomIs == Room = 1386 - DestLen
<1>1. MAX_PACKET = 1427
  BY DEF MAX_PACKET, HEADER_SIZE, MAX_PAYLOAD, AUTH_TAG_SIZE
<1>. QED BY <1>1, DestLenType DEF Room, HEADER_SIZE, AUTH_TAG_SIZE, SHARD_HEADER_SIZE

\* The receiver takes the frames of a block whose longest chunk has n bytes
\* exactly if n does not exceed Room.
LEMMA AcceptsUpToRoom ==
  ASSUME NEW n \in 1 .. BUF_SIZE
  PROVE  Accepts(Frame(Prefixed(n))) <=> n <= Room
<1>1. MAX_PACKET = 1427
  BY DEF MAX_PACKET, HEADER_SIZE, MAX_PAYLOAD, AUTH_TAG_SIZE
<1>2. Prefixed(n) = 7 + DestLen + n /\ n \in Nat
  BY Lengths
<1>3. Frame(Prefixed(n)).len = 41 + DestLen + n
  BY <1>2, DestLenType DEF Frame, HEADER_SIZE, SHARD_HEADER_SIZE, AUTH_TAG_SIZE
<1>4. Frame(Prefixed(n)).ct_len = 30 + DestLen + n
  BY LengthsFit DEF Frame
<1>5. Accepts(Frame(Prefixed(n))) <=> 41 + DestLen + n <= 1427
  BY <1>1, <1>2, <1>3, <1>4, DestLenType DEF Accepts, HEADER_SIZE
<1>. QED BY <1>2, <1>5, RoomIs, DestLenType

\* In a shard that is long enough the payload is decoded to the data that was
\* encoded (PendingBlock::reconstruct, decode_relay_header).
LEMMA DecodesWhatWasEncoded ==
  ASSUME NEW n \in 1 .. BUF_SIZE, NEW m \in 1 .. BUF_SIZE, n <= m
  PROVE  Valid(Prefixed(m), n) /\ DataLen(n) = n
<1>1. U16(RelayLen(n)) = 5 + DestLen + n /\ n \in Nat /\ n >= 1
  BY LengthsFit, Lengths
<1>2. Prefixed(m) = 7 + DestLen + m /\ m \in Nat
  BY Lengths
<1>3. Valid(Prefixed(m), n)
  BY <1>1, <1>2, DestLenType DEF Valid
<1>4. DataLen(n) = n
  BY <1>1, DestLenType DEF DataLen
<1>. QED BY <1>3, <1>4

\* The conjunction that every step preserves.
IInv == TypeOK /\ Sized /\ WholeOrNothing

\* What has been said of a block stays true as long as the block is the same.
LEMMA SameBlock ==
  ASSUME NEW g, sent'[g] = sent[g]
  PROVE  (Fits(g)' <=> Fits(g)) /\ Whole(g)' = Whole(g)
<1>1. Fits(g)' <=> Fits(g)
  BY DEF Fits, Room
<1>2. Whole(g)' = Whole(g)
  BY DEF Whole
<1>. QED BY <1>1, <1>2

\* A step that leaves the blocks alone preserves the invariant.
LEMMA SameBlocks ==
  ASSUME IInv, UNCHANGED <<sent, arrived, routed>>, buffer' \in Seq(Chunk),
         reads' \in Nat, chunks' \in [Flows -> Seq(Chunk)]
  PROVE  IInv'
<1>1. TypeOK'
  BY DEF IInv, TypeOK, Blocks
<1>2. Sized'
  BY DEF IInv, Sized, Blocks, Prefixed, RelayLen
<1>3. WholeOrNothing'
  <2>1. \A g : (Fits(g)' <=> Fits(g)) /\ Whole(g)' = Whole(g)
    BY SameBlock
  <2>. QED BY <2>1 DEF IInv, WholeOrNothing
<1>. QED BY <1>1, <1>2, <1>3 DEF IInv

\* Closing a block of chunks preserves the invariant (FecSender::flush).
LEMMA FlushStep ==
  ASSUME IInv, NEW buf \in Seq(Chunk), Flush(buf), arrived' = arrived,
         reads' \in Nat, chunks' \in [Flows -> Seq(Chunk)]
  PROVE  IInv'
<1>1. PICK i \in 1 .. Len(buf) :
        /\ \A j \in 1 .. Len(buf) : buf[j].len <= buf[i].len
        /\ sent' = Append(sent, [data |-> buf, size |-> Prefixed(buf[i].len)])
  BY DEF Flush
<1>. DEFINE b == [data |-> buf, size |-> Prefixed(buf[i].len)]
<1>2. buf[i].len \in 1 .. BUF_SIZE
  BY ChunkLen
<1>3. b \in [data : Seq(Chunk), size : Nat]
  <2>1. Prefixed(buf[i].len) \in Nat
    BY <1>2, Lengths, DestLenType
  <2>. QED BY <2>1
<1>4. /\ sent' = Append(sent, b)
      /\ routed' = Append(routed, {})
      /\ buffer' = <<>>
  BY <1>1 DEF Flush
<1>. HIDE DEF b
<1>5. TypeOK'
  <2>1. sent' \in Seq([data : Seq(Chunk), size : Nat])
    BY <1>3, <1>4 DEF IInv, TypeOK
  <2>2. routed' \in Seq(SUBSET [slot : Nat, flow : Flows, len : Int])
    BY <1>4 DEF IInv, TypeOK
  <2>3. Len(sent') = Len(sent) + 1 /\ Len(routed') = Len(routed) + 1
    BY <1>4 DEF IInv, TypeOK
  <2>4. Len(sent) \in Nat /\ Len(routed) = Len(sent) /\ arrived \subseteq 1 .. Len(sent)
    BY DEF IInv, TypeOK, Blocks
  <2>5. arrived' \subseteq Blocks'
    BY <2>3, <2>4 DEF Blocks
  <2>6. buffer' \in Seq(Chunk)
    BY <1>4
  <2>. QED BY <2>1, <2>2, <2>3, <2>4, <2>5, <2>6 DEF TypeOK
<1>6. \A g \in Blocks : sent'[g] = sent[g] /\ routed'[g] = routed[g]
  BY <1>4 DEF IInv, TypeOK, Blocks
<1>7. sent'[Len(sent) + 1] = b /\ Blocks' = Blocks \cup {Len(sent) + 1}
  BY <1>4 DEF IInv, TypeOK, Blocks
<1>8. Sized'
  <2>. SUFFICES ASSUME NEW g \in Blocks'
       PROVE  \E k \in 1 .. Len(sent'[g].data) :
                /\ \A j \in 1 .. Len(sent'[g].data) :
                     sent'[g].data[j].len <= sent'[g].data[k].len
                /\ sent'[g].size = Prefixed(sent'[g].data[k].len)
    BY DEF Sized, Prefixed, RelayLen
  <2>1. CASE g \in Blocks
    BY <1>6, <2>1 DEF IInv, Sized
  <2>2. CASE g = Len(sent) + 1
    <3>1. sent'[g].data = buf /\ sent'[g].size = Prefixed(buf[i].len)
      BY <1>7, <2>2 DEF b
    <3>. QED BY <1>1, <3>1
  <2>. QED BY <1>7, <2>1, <2>2
<1>9. WholeOrNothing'
  <2>1. arrived \subseteq Blocks
    BY DEF IInv, TypeOK
  <2>2. \A g \in arrived : sent'[g] = sent[g] /\ routed'[g] = routed[g]
    BY <1>6, <2>1
  <2>3. \A g \in arrived : (Fits(g)' <=> Fits(g)) /\ Whole(g)' = Whole(g)
    BY <2>2, SameBlock
  <2>. QED BY <2>2, <2>3 DEF IInv, WholeOrNothing
<1>. QED BY <1>5, <1>8, <1>9 DEF IInv

\* Handling the frames of a block preserves the invariant.
LEMMA ReceiveStep ==
  ASSUME IInv, NEW g \in Blocks, Receive(g)
  PROVE  IInv'
<1>. DEFINE data == sent[g].data
            size == sent[g].size
            out == {[slot |-> k, flow |-> data[k].flow, len |-> DataLen(data[k].len)] :
                      k \in {j \in 1 .. Len(data) :
                              /\ Accepts(Frame(size))
                              /\ Valid(size, data[j].len)}}
<1>1. data \in Seq(Chunk)
  <2>. DEFINE R == [data : Seq(Chunk), size : Nat]
  <2>1. sent \in Seq(R) /\ g \in 1 .. Len(sent)
    BY DEF IInv, TypeOK, Blocks
  <2>. HIDE DEF R
  <2>2. sent[g] \in R
    BY <2>1
  <2>. QED BY <2>2 DEF R
<1>2. \A k \in 1 .. Len(data) : /\ data[k].len \in 1 .. BUF_SIZE
                                 /\ data[k].len \in Nat
                                 /\ data[k].flow \in Flows
  BY <1>1, ChunkLen, Lengths
<1>3. PICK i \in 1 .. Len(data) :
        /\ \A j \in 1 .. Len(data) : data[j].len <= data[i].len
        /\ size = Prefixed(data[i].len)
  BY DEF IInv, Sized
<1>4. \A k \in 1 .. Len(data) : Valid(size, data[k].len) /\ DataLen(data[k].len) = data[k].len
  BY <1>2, <1>3, DecodesWhatWasEncoded
<1>5. Accepts(Frame(size)) <=> Fits(g)
  <2>1. Accepts(Frame(size)) <=> data[i].len <= Room
    BY <1>2, <1>3, AcceptsUpToRoom
  <2>2. Room \in Int
    BY RoomIs, DestLenType
  <2>3. data[i].len <= Room <=> \A k \in 1 .. Len(data) : data[k].len <= Room
    BY <1>2, <1>3, <2>2
  <2>. QED BY <2>1, <2>3 DEF Fits
<1>6. out = IF Fits(g) THEN Whole(g) ELSE {}
  <2>1. CASE Accepts(Frame(size))
    <3>1. out = Whole(g)
      BY <1>4, <2>1 DEF Whole
    <3>. QED BY <1>5, <2>1, <3>1
  <2>2. CASE ~Accepts(Frame(size))
    <3>1. out = {}
      BY <2>2
    <3>. QED BY <1>5, <2>2, <3>1
  <2>. QED BY <2>1, <2>2
<1>7. Whole(g) \in SUBSET [slot : Nat, flow : Flows, len : Int]
  BY <1>2 DEF Whole, Chunk
<1>8. /\ routed' = [routed EXCEPT ![g] = out]
      /\ arrived' = arrived \cup {g}
      /\ UNCHANGED <<reads, chunks, buffer, sent>>
  BY DEF Receive
<1>9. out \in SUBSET [slot : Nat, flow : Flows, len : Int]
  BY <1>6, <1>7
<1>. HIDE DEF out
<1>10. /\ routed' \in Seq(SUBSET [slot : Nat, flow : Flows, len : Int])
       /\ Len(routed') = Len(routed)
       /\ routed'[g] = out
       /\ \A h \in Blocks : h # g => routed'[h] = routed[h]
  BY <1>8, <1>9 DEF IInv, TypeOK, Blocks
<1>11. TypeOK'
  BY <1>8, <1>10 DEF IInv, TypeOK, Blocks
<1>12. Sized'
  BY <1>8 DEF IInv, Sized, Blocks, Prefixed, RelayLen
<1>13. WholeOrNothing'
  <2>. SUFFICES ASSUME NEW h \in arrived'
       PROVE  routed'[h] = IF Fits(h) THEN Whole(h) ELSE {}
    <3>1. \A h \in arrived' : (Fits(h)' <=> Fits(h)) /\ Whole(h)' = Whole(h)
      BY <1>8, SameBlock
    <3>. QED BY <3>1 DEF WholeOrNothing
  <2>1. CASE h = g
    BY <1>6, <1>10, <2>1
  <2>2. CASE h # g
    <3>1. h \in arrived /\ h \in Blocks
      BY <1>8, <2>2 DEF IInv, TypeOK
    <3>. QED BY <1>10, <2>2, <3>1 DEF IInv, WholeOrNothing
  <2>. QED BY <2>1, <2>2
<1>. QED BY <1>11, <1>12, <1>13 DEF IInv

\* Every step of the specification preserves the invariant.
LEMMA Step ==
  ASSUME IInv, [Next]_vars
  PROVE  IInv'
<1>1. ASSUME NEW f \in Flows, Send(f)
      PROVE  IInv'
  <2>. DEFINE buf == Append(buffer, Head(chunks[f]))
  <2>1. chunks[f] \in Seq(Chunk) /\ chunks[f] # <<>>
    BY <1>1 DEF IInv, TypeOK, Send
  <2>2. buf \in Seq(Chunk) /\ Tail(chunks[f]) \in Seq(Chunk)
    BY <2>1 DEF IInv, TypeOK
  <2>3. chunks' \in [Flows -> Seq(Chunk)] /\ reads' \in Nat /\ arrived' = arrived
    BY <1>1, <2>2 DEF IInv, TypeOK, Send
  <2>4. CASE Flush(buf)
    BY <2>2, <2>3, <2>4, FlushStep
  <2>5. CASE buffer' = buf /\ UNCHANGED <<sent, routed>>
    BY <2>2, <2>3, <2>5, SameBlocks
  <2>. QED BY <1>1, <2>4, <2>5 DEF Send
<1>2. ASSUME NEW f \in Flows, NEW n \in ReadSizes, Read(f, n)
      PROVE  IInv'
  <2>1. Chunks(f, n) \in Seq(Chunk)
    BY ChunksType, FramingAssumption
  <2>2. chunks' \in [Flows -> Seq(Chunk)] /\ reads' \in Nat
    BY <1>2, <2>1 DEF IInv, TypeOK, Read
  <2>. QED BY <1>2, <2>2, SameBlocks DEF IInv, TypeOK, Read
<1>3. ASSUME FlushPartial
      PROVE  IInv'
  BY <1>3, FlushStep DEF FlushPartial, IInv, TypeOK
<1>4. ASSUME NEW g \in Blocks, Receive(g)
      PROVE  IInv'
  BY <1>4, ReceiveStep
<1>5. ASSUME UNCHANGED vars
      PROVE  IInv'
  BY <1>5, SameBlocks DEF vars, IInv, TypeOK
<1>. QED BY <1>1, <1>2, <1>3, <1>4, <1>5 DEF Next

\* Sizes survive the five layers: whatever lengths the clients' reads have, in
\* whatever order chunks of different flows meet in the blocks of FecSender
\* and however long the name of the destination is, a delivered block comes
\* out whole if its longest chunk has at most Room bytes, and not at all
\* otherwise.
THEOREM Sizes == Spec => [](TypeOK /\ WholeOrNothing)
<1>1. Init => IInv
  BY DEF Init, IInv, TypeOK, Blocks, Sized, WholeOrNothing
<1>2. IInv /\ [Next]_vars => IInv'
  BY Step
<1>3. IInv => TypeOK /\ WholeOrNothing
  BY DEF IInv
<1>. QED BY <1>1, <1>2, <1>3, PTL DEF Spec

\* Every variable keeps its type: no chunk is empty or longer than a read, no
\* block is handed on that was not closed.
THEOREM TypeCorrect == Spec => []TypeOK
<1>1. TypeOK /\ WholeOrNothing => TypeOK
  OBVIOUS
<1>. QED BY <1>1, Sizes, PTL
=============================================================================
