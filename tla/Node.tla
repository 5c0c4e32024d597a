-------------------------------- MODULE Node --------------------------------
(***************************************************************************)
(* One node as a pipeline of tasks: the socket, receive_loop_multi           *)
(* (src/relay/tunnel.rs), the inbound channel, Forwarder::run with its       *)
(* flush ticks (src/relay/forwarder.rs), the local channel, the delivery     *)
(* task of main.rs, and the channel of a client of an edge, while run        *)
(* (module Startup) is still starting the later ones.                        *)
(*                                                                         *)
(* Payloads are numbered in the order in which receive_loop_multi accepts    *)
(* them; dests keeps where each is going.  What FecReceiver makes of a shard *)
(* (a block of payloads, or nothing yet) is FecCodec's subject: here a data  *)
(* frame simply carries the destinations of the block that it completes.     *)
(***************************************************************************)
EXTENDS Startup

CONSTANTS
  Self,         \* node_id
  DefaultDest,  \* relay.default_dest
  Frames,       \* the frames that may come
  DataShards,   \* FecConfig.data_shards
  InboundCap,   \* of the channel to the forwarder: 8192 in the code
  LocalCap,     \* of the channel to the delivery task: 4096 in the code
  ClientCap,    \* of a client's response channel: 2048 (TCP), 256 (QUIC)
  MaxPayloads   \* bound: payloads accepted

\* Kinds of frames: "junk" is short, truncated or fails decryption; "other" is
\* a ping, which is answered, or a control or unknown packet, which is not; a
\* shard is "bad" if it makes a block ready whose shard counts, which come with
\* the shards, Reed-Solomon does not accept.
Frame == [from : Addrs, kind : {"junk", "other", "pong", "bad"}, dests : {<<>>}]
           \cup [from : Addrs, kind : {"data"}, dests : Seq(Peers \cup {Self})]

ASSUME NodeAssumption ==
  /\ Self \notin Peers
  /\ Frames \subseteq Frame
  /\ DataShards \in Nat \ {0}
  /\ InboundCap \in Nat \ {0}
  /\ LocalCap \in Nat \ {0}
  /\ ClientCap \in Nat \ {0}
  /\ MaxPayloads \in Nat

VARIABLES
  holding,    \* the packet receive_loop_multi has accepted and not yet sent on
  inbound,    \* the channel to the forwarder
  dests,      \* history: destination of every payload accepted
  fwd,        \* where Forwarder::run is
  next, last, \* the payloads of the block in hand that are still to be routed
  flushing,   \* the FEC senders that flush_fec has not visited yet
  routes,     \* the peers with an RTT in the matrix, each its own next hop
  buffer,     \* number of payloads in each FecSender
  local,      \* the channel to the delivery task
  client,     \* number of payloads in the channel of the client
  delivered,  \* the payloads put into it, in order
  lost        \* the payloads dropped because it was full

fwdVars   == <<fwd, next, last, flushing, routes, buffer>>
edgeVars  == <<client, delivered, lost>>
nodeVars  == <<holding, inbound, dests, fwdVars, local, edgeVars>>
vars      == <<startVars, nodeVars>>

\* A task can only run while the process does.
Running == ~Ended /\ UNCHANGED startVars

\* FecEncoder::new panics: the process aborts.
Panic == GoTo("failed")

NoPacket == [peer |-> NoPeer, kind |-> "none", first |-> 0, count |-> 0]

----------------------------------------------------------------------------
(* receive_loop_multi *)

\* recv_from, then the checks: junk and unknown senders are dropped.  (Frames
\* wait in the socket's buffer, from which the kernel may drop them; what was
\* sent before the loop runs is not different from what comes later.)
Recv(f) ==
  /\ ReceiveLoopRuns
  /\ Running
  /\ holding = NoPacket
  /\ Len(dests) + Len(f.dests) <= MaxPayloads
  /\ f.kind # "junk" /\ peer_crypto_map[f.from] # NoPeer
  /\ holding' = [peer |-> peer_crypto_map[f.from], kind |-> f.kind,
                  first |-> Len(dests) + 1, count |-> Len(f.dests)]
  /\ dests' = dests \o f.dests
  /\ UNCHANGED <<inbound, fwdVars, local, edgeVars>>

\* tx.send waits for room in the channel.
Enqueue ==
  /\ Running
  /\ holding # NoPacket
  /\ Len(inbound) < InboundCap
  /\ inbound' = Append(inbound, holding)
  /\ holding' = NoPacket
  /\ UNCHANGED <<dests, fwdVars, local, edgeVars>>

----------------------------------------------------------------------------
(* Forwarder::run *)

\* handle_pong: the first pong of a peer gives it a route, unless it answers no
\* probe that is pending.
HandlePong(p) ==
  /\ routes' \in {routes, routes \cup (probing \cap {p})}
  /\ fwd' = "drain"
  /\ UNCHANGED <<next, last, startVars>>

\* The FEC receiver of a peer completes a block; without one the shard itself
\* is routed, and dropped, its header being no relay header.
HandleData(packet) ==
  /\ next' = IF packet.peer \in fec_receivers THEN packet.first
                                               ELSE packet.first + packet.count
  /\ last' = packet.first + packet.count - 1
  /\ fwd' = IF next' <= last' THEN "route" ELSE "drain"
  /\ UNCHANGED <<routes, startVars>>

\* PendingBlock::reconstruct builds an encoder for the shard counts of the peer,
\* which panics if they are bad; without a FEC receiver the shard is dropped.
HandleBad(packet) ==
  /\ IF packet.peer \in fec_receivers THEN Panic ELSE UNCHANGED startVars
  /\ fwd' = "drain"
  /\ UNCHANGED <<next, last, routes>>

\* rx.recv in select!, and rx.try_recv in the loop that drains the channel:
\* handle_inbound up to the first payload.
HandleInbound ==
  /\ ForwarderRuns
  /\ fwd \in {"select", "drain"}
  /\ inbound # <<>>
  /\ inbound' = Tail(inbound)
  /\ LET packet == Head(inbound)
     IN \/ /\ packet.kind = "other"
           /\ fwd' = "drain"
           /\ UNCHANGED <<next, last, routes, startVars>>
        \/ packet.kind = "pong" /\ HandlePong(packet.peer)
        \/ packet.kind = "data" /\ HandleData(packet)
        \/ packet.kind = "bad" /\ HandleBad(packet)
  /\ UNCHANGED <<holding, dests, flushing, buffer, local, edgeVars>>

\* try_recv finds the channel empty.
EndDrain ==
  /\ Running
  /\ fwd = "drain"
  /\ inbound = <<>>
  /\ fwd' = "select"
  /\ UNCHANGED <<holding, inbound, dests, next, last, flushing,
                 routes, buffer, local, edgeVars>>

\* The payload in hand is done with.
NextPayload ==
  /\ next' = next + 1
  /\ fwd' = IF next = last THEN "drain" ELSE "route"
  /\ UNCHANGED last

\* Seeded fault: try_send, so that a payload is dropped if the channel is full.
RouteLocal_Drops ==
  /\ Running
  /\ fwd = "route"
  /\ dests[next] = Self
  /\ local' = IF Len(local) < LocalCap THEN Append(local, next) ELSE local
  /\ NextPayload
  /\ UNCHANGED <<holding, inbound, dests, flushing, routes, buffer,
                 edgeVars>>

\* route_data for this node: local_tx.send waits for room.
RouteLocal ==
  /\ Running
  /\ fwd = "route"
  /\ dests[next] = Self
  /\ Len(local) < LocalCap
  /\ local' = Append(local, next)
  /\ NextPayload
  /\ UNCHANGED <<holding, inbound, dests, flushing, routes, buffer,
                 edgeVars>>

\* Seeded fault: the block is flushed one payload late.
Submit_Late(p) ==
  IF buffer[p] < DataShards
  THEN buffer' = [buffer EXCEPT ![p] = @ + 1] /\ UNCHANGED startVars
  ELSE buffer' = [buffer EXCEPT ![p] = 0]
       /\ IF config.fec THEN UNCHANGED startVars ELSE Panic

\* FecSender::submit: a full block is flushed.
Submit(p) ==
  IF buffer[p] + 1 < DataShards
  THEN buffer' = [buffer EXCEPT ![p] = @ + 1] /\ UNCHANGED startVars
  ELSE buffer' = [buffer EXCEPT ![p] = 0]
       /\ IF config.fec THEN UNCHANGED startVars ELSE Panic

\* forward_to: without a route or a tunnel the payload is dropped, without a FEC
\* sender it is sent as it is.
ForwardTo(d) ==
  IF d \in routes \cap tunnels \cap fec_senders
  THEN Submit(d)
  ELSE UNCHANGED buffer /\ UNCHANGED startVars

\* route_data for another node.
RouteOn ==
  /\ ~Ended
  /\ fwd = "route"
  /\ dests[next] # Self
  /\ ForwardTo(dests[next])
  /\ NextPayload
  /\ UNCHANGED <<holding, inbound, dests, flushing, routes, local,
                 edgeVars>>

\* flush_interval.tick in select!: five milliseconds may have passed.
StartFlush ==
  /\ ForwarderRuns
  /\ Running
  /\ fwd = "select"
  /\ fwd' = "flush"
  /\ flushing' = fec_senders
  /\ UNCHANGED <<holding, inbound, dests, next, last, routes, buffer,
                 local, edgeVars>>

\* Seeded fault: a block of a single payload is left for later.
Pending_ManyOnly(p) == buffer[p] > 1

\* FecSender::flush_partial has something to flush.
Pending(p) == buffer[p] > 0

\* flush_fec visits the sender of peer p; without a tunnel the shards are dropped.
FlushPeer(p) ==
  /\ ~Ended
  /\ fwd = "flush"
  /\ flushing' = flushing \ {p}
  /\ IF Pending(p)
     THEN /\ buffer' = [buffer EXCEPT ![p] = 0]
          /\ IF config.fec THEN UNCHANGED startVars ELSE Panic
     ELSE UNCHANGED buffer /\ UNCHANGED startVars
  /\ UNCHANGED <<holding, inbound, dests, fwd, next, last, routes,
                 local, edgeVars>>

\* The end of flush_fec, with expire_old.
EndFlush ==
  /\ Running
  /\ fwd = "flush"
  /\ flushing = {}
  /\ fwd' = "select"
  /\ UNCHANGED <<holding, inbound, dests, next, last, flushing,
                 routes, buffer, local, edgeVars>>

----------------------------------------------------------------------------
(* The edges *)

\* send_to_node, called by a client's read task.
SendToNode ==
  /\ TcpEdgeRuns
  /\ ForwardTo(DefaultDest)
  /\ UNCHANGED <<holding, inbound, dests, fwd, next, last, flushing,
                 routes, local, edgeVars>>

\* Seeded fault: the delivery task waits for a client that does not read.
Deliver_Waits ==
  /\ DeliveryTaskRuns
  /\ Running
  /\ local # <<>>
  /\ client < ClientCap
  /\ client' = client + 1
  /\ delivered' = Append(delivered, Head(local))
  /\ local' = Tail(local)
  /\ UNCHANGED <<holding, inbound, dests, fwdVars, lost>>

\* Seeded fault: payloads are taken from the wrong end of the channel.
Deliver_Newest ==
  /\ DeliveryTaskRuns
  /\ Running
  /\ local # <<>>
  /\ client < ClientCap
  /\ client' = client + 1
  /\ delivered' = Append(delivered, local[Len(local)])
  /\ local' = SubSeq(local, 1, Len(local) - 1)
  /\ UNCHANGED <<holding, inbound, dests, fwdVars, lost>>

\* The delivery task: deliver drops what the client's channel has no room for.
Deliver ==
  /\ DeliveryTaskRuns
  /\ Running
  /\ local # <<>>
  /\ local' = Tail(local)
  /\ \/ /\ client < ClientCap
        /\ client' = client + 1
        /\ delivered' = Append(delivered, Head(local))
        /\ UNCHANGED lost
     \/ /\ client = ClientCap
        /\ lost' = lost \cup {Head(local)}
        /\ UNCHANGED <<client, delivered>>
  /\ UNCHANGED <<holding, inbound, dests, fwdVars>>

\* A client's write task.  A client may stop reading for good.
Write ==
  /\ Running
  /\ client > 0
  /\ client' = client - 1
  /\ UNCHANGED <<holding, inbound, dests, fwdVars, local, delivered, lost>>

Init ==
  /\ StartInit
  /\ holding = NoPacket
  /\ inbound = <<>>
  /\ dests = <<>>
  /\ fwd = "select"
  /\ next = 1
  /\ last = 0
  /\ flushing = {}
  /\ routes = {}
  /\ buffer = [p \in Peers |-> 0]
  /\ local = <<>>
  /\ client = 0
  /\ delivered = <<>>
  /\ lost = {}

Main == (StartStep \/ CtrlC) /\ UNCHANGED nodeVars

Flush == StartFlush \/ (\E p \in flushing : FlushPeer(p)) \/ EndFlush

Next ==
  \/ Main
  \/ \E f \in Frames : Recv(f)
  \/ Enqueue
  \/ HandleInbound \/ EndDrain \/ RouteLocal \/ RouteOn
  \/ Flush
  \/ SendToNode \/ Deliver \/ Write

Spec == Init /\ [][Next]_vars

\* The runtime polls every task that can go on; select! chooses at random, so
\* neither the channel nor the tick is passed over for ever.  Clients need not
\* read, and nothing need arrive.
Fairness ==
  /\ WF_vars(StartStep /\ UNCHANGED nodeVars)
  /\ WF_vars(Enqueue)
  /\ SF_vars(HandleInbound)
  /\ SF_vars(StartFlush)
  /\ WF_vars(EndDrain \/ RouteLocal \/ RouteOn)
  /\ WF_vars((\E p \in flushing : FlushPeer(p)) \/ EndFlush)
  /\ WF_vars(Deliver)

FairSpec == Spec /\ Fairness

----------------------------------------------------------------------------
(* What has to hold *)

Packet == [peer : Peers, kind : {"other", "pong", "bad", "data"}, first : Nat \ {0},
           count : Nat]

\* Every variable has its type; no channel exceeds its capacity and no FEC
\* sender holds a full block.
TypeOK ==
  /\ StartTypeOK
  /\ holding \in Packet \cup {NoPacket}
  /\ inbound \in Seq(Packet)
  /\ Len(inbound) <= InboundCap
  /\ dests \in Seq(Peers \cup {Self})
  /\ fwd \in {"select", "drain", "route", "flush"}
  /\ next \in Nat \ {0}
  /\ last \in Nat
  /\ flushing \subseteq Peers
  /\ routes \subseteq Peers
  /\ buffer \in [Peers -> 0 .. DataShards - 1]
  /\ local \in Seq(Nat \ {0})
  /\ Len(local) <= LocalCap
  /\ client \in 0 .. ClientCap
  /\ delivered \in Seq(Nat \ {0})
  /\ lost \subseteq Nat \ {0}

Elements(s) == {s[i] : i \in 1 .. Len(s)}

Increasing(s) == \A i, j \in 1 .. Len(s) : i < j => s[i] < s[j]

\* Payloads reach the client's channel in the order in which they were accepted
\* from the peers, and no two of them are the same.
InOrder ==
  /\ Increasing(delivered)
  /\ Increasing(local)
  /\ \A m \in Elements(delivered) \cup lost, n \in Elements(local) : m < n

\* Of the payloads the forwarder is done with, those for this node are on their
\* way to the client, with the client or were dropped because it did not read;
\* and nothing else gets there.  A full channel between two tasks costs nothing.
NothingMissing ==
  /\ \A n \in 1 .. next - 1 :
       dests[n] = Self <=> n \in Elements(delivered) \cup lost \cup Elements(local)
  /\ lost \cap Elements(delivered) = {}

\* Each packet that was accepted comes from a peer with a FEC receiver, each next
\* hop has a tunnel and a FEC sender, and each payload in a FEC sender has a tunnel
\* to leave by: handle_inbound never routes a raw shard, forward_to never fails
\* with NoTunnel or sends past the FEC sender, and flush_fec drops no block.
FecEverywhere ==
  /\ holding # NoPacket => holding.peer \in fec_receivers
  /\ \A i \in 1 .. Len(inbound) : inbound[i].peer \in fec_receivers
  /\ routes \subseteq tunnels \cap fec_senders
  /\ \A p \in Peers : buffer[p] > 0 => p \in tunnels

\* The channels never wait for each other in a circle: although the only loop
\* that empties the inbound channel waits for room in the local channel, each
\* payload for this node that was accepted is delivered or dropped, even if the
\* client has stopped reading.
Drains ==
  \A n \in 1 .. MaxPayloads :
    (Len(dests) >= n /\ dests[n] = Self)
      ~> (n \in Elements(delivered) \cup lost \/ Ended)

\* A partial block is flushed, provided that run gets back to select! now and
\* then.  (While frames arrive as fast as they are handled the loop around
\* try_recv does not end, and no tick is taken.)
FlushesWhenQuiet ==
  []<>(fwd = "select") =>
    \A p \in Peers : buffer[p] > 0 ~> (buffer[p] = 0 \/ Ended)
=============================================================================
