------------------------------ MODULE Framing ------------------------------
(***************************************************************************)
(* The sizes of what is sent, from the read of an edge (src/edge) through   *)
(* the relay header (src/relay/forwarder.rs), the FEC block                 *)
(* (src/relay/fec_codec.rs), the encrypted frame (src/relay/tunnel.rs,      *)
(* src/relay/wire.rs) and back.  The flows of a node share the FecSender of *)
(* a peer, so that chunks of different flows meet in one block.  All shards *)
(* of a block have the same size: the model follows a block, not a shard,   *)
(* over a network that loses nothing, to see what the code itself drops.    *)
(*                                                                         *)
(* A chunk is the flow it belongs to and its length in bytes.               *)
(***************************************************************************)
EXTENDS Integers, Sequences

CONSTANTS
  Flows,       \* the flows relayed to one peer
  Kind,        \* "tcp" or "quic", for each flow
  DataShards,  \* FecConfig.data_shards
  DestLen,     \* length of the name of the destination node
  ReadSizes,   \* what a read from a client may return
  MaxReads     \* bound: reads from clients

BUF_SIZE          == 16384   \* read buffer of both edges
MAX_RELAY_DATA    == 1400
SHARD_HEADER_SIZE == 7
HEADER_SIZE       == 11
AUTH_TAG_SIZE     == 16
MAX_PAYLOAD       == 1400
MAX_PACKET        == HEADER_SIZE + MAX_PAYLOAD + AUTH_TAG_SIZE

ASSUME FramingAssumption ==
  /\ Kind \in [Flows -> {"tcp", "quic"}]
  /\ DataShards \in Nat \ {0}
  /\ DestLen \in 0 .. 255
  /\ ReadSizes \subseteq 1 .. BUF_SIZE
  /\ MaxReads \in Nat

VARIABLES
  reads,    \* number of reads so far
  chunks,   \* for each flow, the chunks that its read task still has to send
  buffer,   \* FecSender.buffer
  sent,     \* the blocks closed so far: their chunks and their shard size
  arrived,  \* the blocks that the receiver has handled
  routed    \* for each block, the data handed on by route_data

vars == <<reads, chunks, buffer, sent, arrived, routed>>

Chunk == [flow : Flows, len : 1 .. BUF_SIZE]
Blocks == 1 .. Len(sent)

----------------------------------------------------------------------------
(* Sizes *)

\* n as u16
U16(n) == n % 65536

\* Seeded fault: a chunk too many when the length is a multiple of the limit.
ChunkCount_Extra(n) == n \div MAX_RELAY_DATA + 1

\* The number of chunks of n bytes.
ChunkCount(n) == (n + MAX_RELAY_DATA - 1) \div MAX_RELAY_DATA

\* buf[..n].chunks(MAX_RELAY_DATA) at the TCP edge; QUIC sends what it read.
Chunks(f, n) ==
  IF Kind[f] = "quic" THEN <<[flow |-> f, len |-> n]>>
  ELSE [i \in 1 .. ChunkCount(n) |->
          [flow |-> f,
           len  |-> IF i * MAX_RELAY_DATA <= n THEN MAX_RELAY_DATA
                    ELSE n - (i - 1) * MAX_RELAY_DATA]]

\* encode_relay_header: flow id, length of the name, name, data.
RelayLen(n) == 4 + 1 + DestLen + n

\* FecSender::flush: a payload with its two-byte length.
Prefixed(n) == 2 + RelayLen(n)

\* Tunnel::send of a framed shard of the given size: what send_to is given,
\* and the length that the header states.
Frame(size) ==
  LET ct_len == SHARD_HEADER_SIZE + size + AUTH_TAG_SIZE
  IN [len |-> HEADER_SIZE + ct_len, ct_len |-> U16(ct_len)]

\* Seeded fault: the receive buffer has no room for the authentication tag.
Accepts_NoTag(frame) ==
  LET len == IF frame.len <= MAX_PACKET - AUTH_TAG_SIZE THEN frame.len
             ELSE MAX_PACKET - AUTH_TAG_SIZE
  IN /\ len >= HEADER_SIZE
     /\ HEADER_SIZE + frame.ct_len <= len
     /\ HEADER_SIZE + frame.ct_len = frame.len

\* receive_loop_multi: recv_from cuts the datagram to the buffer, a frame that
\* is shorter than its header says is dropped, and decryption needs the whole
\* ciphertext.
Accepts(frame) ==
  LET len == IF frame.len <= MAX_PACKET THEN frame.len ELSE MAX_PACKET
  IN /\ len >= HEADER_SIZE
     /\ HEADER_SIZE + frame.ct_len <= len
     /\ HEADER_SIZE + frame.ct_len = frame.len

\* PendingBlock::reconstruct and decode_relay_header accept the payload that
\* holds a chunk of n bytes in a shard of the given size.
Valid(size, n) ==
  LET len == U16(RelayLen(n))
  IN len # 0 /\ 2 + len <= size /\ len >= 5 + DestLen

\* The data that they return.
DataLen(n) == U16(RelayLen(n)) - (5 + DestLen)

----------------------------------------------------------------------------
(* The sending node *)

\* read_task: a read from the client returns n bytes.
Read(f, n) ==
  /\ reads < MaxReads
  /\ chunks[f] = <<>>
  /\ reads' = reads + 1
  /\ chunks' = [chunks EXCEPT ![f] = Chunks(f, n)]
  /\ UNCHANGED <<buffer, sent, arrived, routed>>

\* FecSender::flush: the longest payload gives the size of every shard.
Flush(buf) ==
  /\ \E i \in 1 .. Len(buf) :
       /\ \A j \in 1 .. Len(buf) : buf[j].len <= buf[i].len
       /\ sent' = Append(sent, [data |-> buf, size |-> Prefixed(buf[i].len)])
  /\ routed' = Append(routed, {})
  /\ buffer' = <<>>

\* send_to_node, forward_to, FecSender::submit for the next chunk of a flow.
Send(f) ==
  /\ chunks[f] # <<>>
  /\ chunks' = [chunks EXCEPT ![f] = Tail(@)]
  /\ LET buf == Append(buffer, Head(chunks[f]))
     IN \/ Len(buf) >= DataShards /\ Flush(buf)
        \/ /\ Len(buf) < DataShards
           /\ buffer' = buf
           /\ UNCHANGED <<sent, routed>>
  /\ UNCHANGED <<reads, arrived>>

\* flush_fec: FecSender::flush_partial.
FlushPartial ==
  /\ buffer # <<>>
  /\ Flush(buffer)
  /\ UNCHANGED <<reads, chunks, arrived>>

----------------------------------------------------------------------------
(* The receiving node *)

\* receive_loop_multi, receive_shard and route_data for the frames of a block.
Receive(g) ==
  /\ g \notin arrived
  /\ arrived' = arrived \cup {g}
  /\ routed' = [routed EXCEPT ![g] =
       {[slot |-> i, flow |-> sent[g].data[i].flow,
         len |-> DataLen(sent[g].data[i].len)] :
          i \in {j \in 1 .. Len(sent[g].data) :
                   /\ Accepts(Frame(sent[g].size))
                   /\ Valid(sent[g].size, sent[g].data[j].len)}}]
  /\ UNCHANGED <<reads, chunks, buffer, sent>>

Init ==
  /\ reads = 0
  /\ chunks = [f \in Flows |-> <<>>]
  /\ buffer = <<>>
  /\ sent = <<>>
  /\ arrived = {}
  /\ routed = <<>>

Next ==
  \/ \E f \in Flows : Send(f) \/ \E n \in ReadSizes : Read(f, n)
  \/ FlushPartial
  \/ \E g \in Blocks : Receive(g)

Spec == Init /\ [][Next]_vars

----------------------------------------------------------------------------
(* What has to hold *)

\* Every variable has its type; no chunk is longer than a read.
TypeOK ==
  /\ reads \in Nat
  /\ chunks \in [Flows -> Seq(Chunk)]
  /\ buffer \in Seq(Chunk)
  /\ sent \in Seq([data : Seq(Chunk), size : Nat])
  /\ arrived \subseteq Blocks
  /\ routed \in Seq(SUBSET [slot : Nat, flow : Flows, len : Int])
  /\ Len(routed) = Len(sent)

\* The longest chunk that a receiver takes.
Room ==
  MAX_PACKET - (HEADER_SIZE + AUTH_TAG_SIZE + SHARD_HEADER_SIZE + 2 + 5 + DestLen)

\* The data of a block, as the receiving node should hand it on.
Whole(g) ==
  {[slot |-> i, flow |-> sent[g].data[i].flow, len |-> sent[g].data[i].len] :
     i \in 1 .. Len(sent[g].data)}

\* The shards of every block are as long as its longest payload requires.
Sized ==
  \A g \in Blocks : \E i \in 1 .. Len(sent[g].data) :
    /\ \A j \in 1 .. Len(sent[g].data) : sent[g].data[j].len <= sent[g].data[i].len
    /\ sent[g].size = Prefixed(sent[g].data[i].len)

\* All chunks of a block have room.
Fits(g) == \A i \in 1 .. Len(sent[g].data) : sent[g].data[i].len <= Room

\* A block that the network delivers comes out as it went in, with the right
\* lengths after five layers of headers and two 16-bit length fields, if all
\* its chunks have room in the receive buffer; and otherwise nothing of it
\* comes out, not even the small chunks of other flows.
WholeOrNothing ==
  \A g \in arrived : routed[g] = IF Fits(g) THEN Whole(g) ELSE {}

\* Whatever the clients send is relayed: a block that the network delivers is
\* handed on by the receiving node.
RelaysWhatIsRead == \A g \in arrived : routed[g] = Whole(g)
=============================================================================
