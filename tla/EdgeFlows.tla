----------------------------- MODULE EdgeFlows -----------------------------
(***************************************************************************)
(* The edges of two nodes that relay to each other: TcpSplitter             *)
(* (src/edge/tcp_split.rs), QuicAcceptor (src/edge/quic_acceptor.rs) and the *)
(* task of main.rs that hands local deliveries to one of the two.           *)
(*                                                                         *)
(* Each accepted TCP connection or QUIC stream (a client) gets a flow id    *)
(* from its acceptor's counter.  What a client sends is relayed with that   *)
(* id and comes out at the other node at the client of the same id: ids are *)
(* all that connects the two ends.  The relay in between may lose and       *)
(* reorder payloads.                                                        *)
(***************************************************************************)
EXTENDS Integers, Sequences, FiniteSets

CONSTANTS
  Nodes,       \* the two nodes
  Clients,     \* the connections and streams that may arrive
  Home,        \* the node each client connects to
  Kind,        \* "tcp" or "quic"
  NoClient,    \* no entry in active_flows
  Boundary,    \* flow ids below it are TCP's: 1000000 in the code
  FlowSpace,   \* number of flow ids: 2^32 in the code
  Capacity,    \* of a client's response channel: 2048 (TCP), 256 (QUIC)
  MaxChunks    \* bound: chunks each client sends

ASSUME EdgeAssumption ==
  /\ \A n \in Nodes : Nodes # {n}
  /\ Home \in [Clients -> Nodes]
  /\ Kind \in [Clients -> {"tcp", "quic"}]
  /\ NoClient \notin Clients
  /\ Boundary \in Nat \ {0}
  /\ FlowSpace \in Nat \ {0}
  /\ Boundary < FlowSpace
  /\ Capacity \in Nat \ {0}
  /\ MaxChunks \in [Clients -> Nat]

VARIABLES
  next_flow_id,  \* per node and kind
  active_flows,  \* per node, kind and flow id: the client
  flow,          \* the flow id of each client that was accepted
  reader,        \* state of each client's read task
  writer,        \* state of each client's write task
  handler,       \* state of each client's handle_connection / handle_stream
  chunks,        \* number of chunks each client has sent
  relay,         \* payloads on their way between the nodes
  channel,       \* the response channel of each client
  writing,       \* what each client's write_all is at work on
  written        \* what was written to each client

vars == <<next_flow_id, active_flows, flow, reader, writer, handler, chunks,
          relay, channel, writing, written>>

Kinds == {"tcp", "quic"}
Flows == 0 .. FlowSpace - 1
Other(n) == CHOOSE m \in Nodes : m # n

\* Seeded fault: both counters start at the same value.
FirstFlow_NoOffset(k) == 1

\* TcpSplitter::new, QuicAcceptor::new
FirstFlow(k) == IF k = "tcp" THEN 1 ELSE Boundary

\* Seeded fault: the counter does not wrap.
NextFlow_NoWrap(id) == id + 1

\* AtomicU32::fetch_add wraps around.
NextFlow(id) == (id + 1) % FlowSpace

\* listen: each connection is handled once.  One whose TLS handshake fails is
\* one that never comes.
Waiting(c) == handler[c] = "idle"

\* handle_connection, handle_stream: up to the spawning of the two tasks.
Accept(c) ==
  LET id == next_flow_id[Home[c]][Kind[c]]
  IN /\ Waiting(c)
     /\ next_flow_id' = [next_flow_id EXCEPT ![Home[c]][Kind[c]] = NextFlow(@)]
     /\ active_flows' = [active_flows EXCEPT ![Home[c]][Kind[c]][id] = c]
     /\ flow' = [flow EXCEPT ![c] = id]
     /\ reader' = [reader EXCEPT ![c] = "open"]
     /\ writer' = [writer EXCEPT ![c] = "open"]
     /\ handler' = [handler EXCEPT ![c] = "open"]
     /\ UNCHANGED <<chunks, relay, channel, writing, written>>

\* read_task: a chunk read from the client is given to send_to_node.
Read(c) ==
  /\ reader[c] = "open"
  /\ chunks[c] < MaxChunks[c]
  /\ chunks' = [chunks EXCEPT ![c] = @ + 1]
  /\ relay' = relay \cup {[to |-> Other(Home[c]), flow_id |-> flow[c],
                           from |-> c, n |-> chunks[c] + 1]}
  /\ UNCHANGED <<next_flow_id, active_flows, flow, reader, writer, handler,
                 channel, writing, written>>

\* read_task ends: end of stream, read error, or send_to_node fails.
ReaderEnds(c) ==
  /\ reader[c] = "open"
  /\ reader' = [reader EXCEPT ![c] = "done"]
  /\ UNCHANGED <<next_flow_id, active_flows, flow, writer, handler, chunks,
                 relay, channel, writing, written>>

\* The relay loses a payload.
Lose(x) ==
  /\ relay' = relay \ {x}
  /\ UNCHANGED <<next_flow_id, active_flows, flow, reader, writer, handler,
                 chunks, channel, writing, written>>

\* main.rs: flow_id < 1_000_000 is TCP, the rest is QUIC.
EdgeOf(id) == IF id < Boundary THEN "tcp" ELSE "quic"

\* Whether try_send succeeds: the flow is known, its channel neither closed nor
\* full.
HasRoom(c) == c # NoClient /\ writer[c] = "open" /\ Len(channel[c]) < Capacity

\* The delivery task: deliver looks the flow up and tries to send to its
\* channel; if that fails the payload is dropped.
Deliver(x) ==
  LET c == active_flows[x.to][EdgeOf(x.flow_id)][x.flow_id]
  IN /\ relay' = relay \ {x}
     /\ channel' =
          IF HasRoom(c)
          THEN [channel EXCEPT ![c] = Append(@, [from |-> x.from, n |-> x.n])]
          ELSE channel
     /\ UNCHANGED <<next_flow_id, active_flows, flow, reader, writer, handler,
                    chunks, writing, written>>

\* No payload is in the hands of a write task.
Nothing == [from |-> NoClient, n |-> 0]

\* write_task: recv returns a response and write_all starts on it.
Take(c) ==
  /\ writer[c] = "open"
  /\ writing[c] = Nothing
  /\ channel[c] # <<>>
  /\ writing' = [writing EXCEPT ![c] = Head(channel[c])]
  /\ channel' = [channel EXCEPT ![c] = Tail(@)]
  /\ UNCHANGED <<next_flow_id, active_flows, flow, reader, writer, handler,
                 chunks, relay, written>>

\* write_task: write_all returns.  It waits for as long as a connected client
\* does not read: it has no timeout.
Write(c) ==
  /\ writer[c] = "open"
  /\ writing[c] # Nothing
  /\ written' = [written EXCEPT ![c] = Append(@, writing[c])]
  /\ writing' = [writing EXCEPT ![c] = Nothing]
  /\ UNCHANGED <<next_flow_id, active_flows, flow, reader, writer, handler,
                 chunks, relay, channel>>

\* write_task: write_all fails, the client is gone; the channel is dropped.
WriteFails(c) ==
  /\ writer[c] = "open"
  /\ writing[c] # Nothing
  /\ writer' = [writer EXCEPT ![c] = "failed"]
  /\ writing' = [writing EXCEPT ![c] = Nothing]
  /\ channel' = [channel EXCEPT ![c] = <<>>]
  /\ UNCHANGED <<next_flow_id, active_flows, flow, reader, handler, chunks,
                 relay, written>>

\* The channel's only sender is the one in active_flows.
SenderDropped(c) == active_flows[Home[c]][Kind[c]][flow[c]] # c

\* write_task: recv returns None once the sender is dropped and all is read.
WriterEnds(c) ==
  /\ writer[c] = "open"
  /\ writing[c] = Nothing
  /\ channel[c] = <<>>
  /\ SenderDropped(c)
  /\ writer' = [writer EXCEPT ![c] = "done"]
  /\ UNCHANGED <<next_flow_id, active_flows, flow, reader, handler, chunks,
                 relay, channel, writing, written>>

\* select! returns once one of the two tasks has ended.
TaskEnded(c) == reader[c] = "done" \/ writer[c] \in {"done", "failed"}

\* Seeded fault: the end of the flow aborts the write task.
Close_AbortsWriter(c) ==
  /\ handler[c] = "open"
  /\ TaskEnded(c)
  /\ active_flows' = [active_flows EXCEPT ![Home[c]][Kind[c]][flow[c]] = NoClient]
  /\ handler' = [handler EXCEPT ![c] = "done"]
  /\ writer' = [writer EXCEPT ![c] = IF @ = "open" THEN "done" ELSE @]
  /\ UNCHANGED <<next_flow_id, flow, reader, chunks, relay, channel, writing,
                 written>>

\* Seeded fault: the flow stays in the map.
Close_KeepsFlow(c) ==
  /\ handler[c] = "open"
  /\ TaskEnded(c)
  /\ handler' = [handler EXCEPT ![c] = "done"]
  /\ UNCHANGED <<next_flow_id, active_flows, flow, reader, writer, chunks,
                 relay, channel, writing, written>>

\* After select! the flow is removed.  The other task is not cancelled.
Close(c) ==
  /\ handler[c] = "open"
  /\ TaskEnded(c)
  /\ active_flows' = [active_flows EXCEPT ![Home[c]][Kind[c]][flow[c]] = NoClient]
  /\ handler' = [handler EXCEPT ![c] = "done"]
  /\ UNCHANGED <<next_flow_id, flow, reader, writer, chunks, relay, channel,
                 writing, written>>

Init ==
  /\ next_flow_id = [n \in Nodes |-> [k \in Kinds |-> FirstFlow(k)]]
  /\ active_flows = [n \in Nodes |-> [k \in Kinds |-> [id \in Flows |-> NoClient]]]
  /\ flow = [c \in Clients |-> 0]
  /\ reader = [c \in Clients |-> "idle"]
  /\ writer = [c \in Clients |-> "idle"]
  /\ handler = [c \in Clients |-> "idle"]
  /\ chunks = [c \in Clients |-> 0]
  /\ relay = {}
  /\ channel = [c \in Clients |-> <<>>]
  /\ writing = [c \in Clients |-> Nothing]
  /\ written = [c \in Clients |-> <<>>]

Next ==
  \/ \E c \in Clients :
       \/ Accept(c) \/ Read(c) \/ ReaderEnds(c)
       \/ Take(c) \/ Write(c) \/ WriteFails(c) \/ WriterEnds(c)
       \/ Close(c)
  \/ \E x \in relay : Lose(x) \/ Deliver(x)

Spec == Init /\ [][Next]_vars

\* Tasks that can run are run.  Clients need do nothing: they may neither send
\* nor read nor close, so reads and writes need never return.
Fairness ==
  \A c \in Clients : /\ WF_vars(Take(c))
                     /\ WF_vars(WriterEnds(c))
                     /\ WF_vars(Close(c))

FairSpec == Spec /\ Fairness

----------------------------------------------------------------------------
(* What has to hold *)

Data == [from : Clients, n : Nat \ {0}]

\* Every variable has its type; a response channel never exceeds its capacity.
TypeOK ==
  /\ next_flow_id \in [Nodes -> [Kinds -> Flows]]
  /\ active_flows \in [Nodes -> [Kinds -> [Flows -> Clients \cup {NoClient}]]]
  /\ flow \in [Clients -> Flows]
  /\ reader \in [Clients -> {"idle", "open", "done"}]
  /\ writer \in [Clients -> {"idle", "open", "done", "failed"}]
  /\ handler \in [Clients -> {"idle", "open", "done"}]
  /\ chunks \in [Clients -> Nat]
  /\ relay \subseteq [to : Nodes, flow_id : Flows, from : Clients,
                      n : Nat \ {0}]
  /\ channel \in [Clients -> Seq(Data)]
  /\ \A c \in Clients : Len(channel[c]) <= Capacity
  /\ writing \in [Clients -> Data \cup {Nothing}]
  /\ written \in [Clients -> Seq(Data)]

\* The clients that get their ids from the same counter.
ClientsOf(n, k) == {c \in Clients : Home[c] = n /\ Kind[c] = k}

\* No counter of an edge comes round: fewer than 2^32 connections.
FlowsAreUnique ==
  /\ IsFiniteSet(Clients)
  /\ \A n \in Nodes, k \in Kinds : Cardinality(ClientsOf(n, k)) <= FlowSpace

\* No counter reaches the ids of the other edge: fewer than 1000000 TCP
\* connections and fewer than 2^32 - 1000000 QUIC streams at each node.
FlowsStayApart ==
  /\ IsFiniteSet(Clients)
  /\ \A n \in Nodes :
       /\ Cardinality(ClientsOf(n, "tcp")) < Boundary
       /\ Cardinality(ClientsOf(n, "quic")) <= FlowSpace - Boundary

\* What a client is sent comes from its counterpart: the client of the same
\* kind and the same flow id at the other node.
RightClient ==
  \A c \in Clients : \A i \in 1 .. Len(written[c]) :
    LET d == written[c][i].from
    IN Home[d] # Home[c] /\ Kind[d] = Kind[c] /\ flow[d] = flow[c]

\* As long as its handler runs a client is found in active_flows under its id,
\* whatever other connections come and go; and nothing else is found there.
ConnectedIsRegistered ==
  /\ \A c \in Clients :
       handler[c] = "open" => active_flows[Home[c]][Kind[c]][flow[c]] = c
  /\ \A n \in Nodes, k \in Kinds, id \in Flows :
       LET c == active_flows[n][k][id]
       IN c # NoClient => handler[c] = "open" /\ flow[c] = id

\* Every write_all to a client returns, in whichever way: the client reads, or
\* its connection breaks.
WritesReturn(c) == []<>(writing[c] = Nothing)

\* A response that was put into the channel of a client is written, even if the
\* flow is closed meanwhile (the client has stopped sending), unless a write to
\* the client fails: it takes nothing but that the writes to this client
\* return, other clients may leave theirs waiting for ever.
AcceptedIsWritten ==
  \A c \in Clients :
    WritesReturn(c) =>
      (channel[c] # <<>> \/ writing[c] # Nothing)
        ~> \/ channel[c] = <<>> /\ writing[c] = Nothing /\ writer[c] # "done"
           \/ writer[c] = "failed"

\* When a client stops sending or a write to it fails, its flow is removed, even
\* while a write to it never returns; and if the writes return, the write task
\* of a client that stopped sending ends.  After a failed write the read task
\* is detached, not cancelled: it goes on until the client closes.
FlowsEnd ==
  \A c \in Clients :
    /\ (reader[c] = "done" \/ writer[c] = "failed")
         ~> (handler[c] = "done" /\ SenderDropped(c))
    /\ WritesReturn(c) =>
         (reader[c] = "done" ~> writer[c] \in {"done", "failed"})
=============================================================================
