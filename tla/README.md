# Entrouter Line in TLA+

Entrouter Line relays TCP connections and QUIC streams between points of
presence (PoPs). A node accepts clients at its edge, cuts what they send into
relay payloads, protects the payloads against loss with Reed-Solomon blocks,
encrypts the shards and sends them over UDP to the next hop; probes between the
nodes measure latencies, from which a router picks the next hop.

This directory holds TLA+ specifications of the parts of a node, the TLC
configurations that check them on small instances, and TLAPS proofs of the
results that matter most, for all values of the parameters. `PROJECT.json`
relates definitions to source lines and lists the runs, the seeded faults that
show each property to have teeth, the hazards of the code and the theorems.
Paths below are relative to the repository (`src/` is its crate).

To check: `tlc -workers 2 -config FecWrap.cfg FecCodec` (the module of each
configuration is listed under Runs), `tlapm FecCodecProofs.tla` (and the
other modules whose names end in `Proofs`).

## 1. The system

| Part | State | Operations | Talks to |
|---|---|---|---|
| FEC codec (`relay/fec_codec.rs`) | sender: buffer, 16-bit block id; receiver: pending blocks by block id, with their age | `submit`, `flush_partial`, `receive_shard`, `expire_old` | called by the forwarder under one lock per peer and direction |
| Loss tracker (`relay/fec.rs`, `tunnel.rs` `receive_loop`) | ring of received/lost, count, expected sequence number | `record` | fed by frames |
| Tunnel and wire format (`relay/tunnel.rs`, `wire.rs`, `crypto.rs`) | sequence number | `send`, `receive_loop_multi` | UDP; channel to the forwarder |
| Forwarder (`relay/forwarder.rs`) | tunnels, FEC senders and receivers by peer | `handle_inbound`, `send_to_node`, `flush_fec` on a 5 ms tick | everything |
| Prober (`mesh/probe.rs`) | pending probes by 32-bit id | `create_ping`, `handle_pong` | tunnel, matrix |
| Latency matrix (`mesh/latency_matrix.rs`) | smoothed RTT and jitter of each directed link | `update`, reads | prober writes, router reads, concurrently |
| Router (`mesh/router.rs`) | none | `next_hop`, `top_paths` | reads the matrix |
| TCP and QUIC edge (`edge/*.rs`) | flow counter, active flows with a bounded response channel each | accept, read task, write task, `deliver` | forwarder; the delivery task of `main.rs` |
| Configuration (`config.rs`) | none | `load`, `validate`, `decode_key` | called by `run` |
| Node assembly (`main.rs`) | sockets, channels, peer map | `run`: builds the parts, starts a task for each, waits for ctrl-c | everything |

What is hard to test:

* blocks are known by a wrapping id, and leftovers of a reconstructed block stay
  until a tick that a busy forwarder delays;
* shards, pings and pongs are lost, late, repeated and overtake each other;
* the router reads a matrix that the prober is changing, link by link and
  direction by direction;
* each connection is two tasks and a handler that waits for either, while the
  delivery task and other connections use the same maps; a write to a client that
  does not read never returns;
* sizes grow through five layers, each with its own limit;
* a node is a pipeline of tasks with bounded channels in between, one of which
  waits inside the loop that empties another, and it works while it is starting;
* a node that restarts numbers its blocks from 0 again, under the eyes of a peer
  that still holds shards of the old ones.

The full list, with lines and the properties that watch each item, is under
`hazards` in `PROJECT.json`.

What makes each part correct: a link hands on whole blocks, at most once, and
recovers every block that loses no more shards than it has parity; a pong is
booked to the probe that it answers and averages stay within what was measured;
the router returns shortest paths and always returns; data reaches the client it
is meant for, responses that were accepted are written to whoever reads them,
and a flow whose client has stopped is removed; what fits arrives with its
length intact; within a node payloads keep their order and none is lost but at a
client that does not read, which holds up nobody else.

## 2. Modules

| Module | Models | Composes |
|---|---|---|
| `FecCodec` | one directed link: FEC sender, UDP path, FEC receiver, the two forwarders' flush ticks | refines `LossyChannel` |
| `LossyChannel` | what the link promises | |
| `LossyChannelProofs` | proofs about `LossyChannel` | |
| `FecCodecProofs` | proofs about `FecCodec` | |
| `Framing`, `MCFraming` | sizes from the read at the edge to `route_data` at the other node | edge, relay header, FEC block, frame, receive buffer |
| `FramingProofs` | proofs about `Framing` | |
| `LossTracker` | `receive_loop` and the loss window | |
| `LossTrackerProofs` | proofs about `LossTracker` | |
| `Paths` | reference definitions of shortest paths | |
| `Router`, `MCRouter` | one call of `next_hop` or `top_paths` while the matrix changes | uses `Paths` |
| `RouterProofs` | proofs about `Router` | |
| `Mesh`, `MCMesh` | prober, matrix, and what the router makes of it | prober, forwarder's PING/PONG branches, matrix; routes by `Paths` |
| `MeshProofs` | proofs about `Mesh` | |
| `EdgeFlows`, `MCEdgeFlows` | the edges of two nodes that relay to each other | TCP and QUIC edge, delivery task |
| `EdgeFlowsProofs` | proofs about `EdgeFlows` | |
| `Startup` | configuration, `run` up to ctrl-c, `add_tunnel` | |
| `Node`, `MCNode` | one node as a pipeline of tasks | extends `Startup`; receive loop, forwarder, FEC senders, delivery task, a client |
| `NodeProofs` | proofs about `Startup` and `Node` | |

Definitions whose names end in a suffix such as `_OffByOne` are seeded faults:
variants of the definition below them. No specification uses them; replacing the
definition by the variant makes the property named in `PROJECT.json` fail.

### FecCodec

A payload is its submission number. A shard is the *generation* of its block (1,
2, 3, ... without wrapping) and its index; the receiver's entry for a block id
remembers the generation of each shard, which the code cannot see, so that
mixing of blocks is visible to properties. `Submit` is `forward_to` with
`FecSender::submit` (which flushes a full block), `FlushPartial` and `ExpireOld`
are the two halves of `flush_fec`, `ReceiveShard` is `handle_inbound` for DATA and
PARITY: insertion, reconstruction, removal of the block, `route_data` of every
payload. The network loses (also for `tunnel.send` errors, which the code
drops), duplicates and reorders. Reed-Solomon is external: N shards of one
generation give back its data shards, shards of two give arbitrary bytes or, if
their sizes differ, an error.

`RestartSender` is a stop of the sending node for whatever reason and its next
start: the buffer is gone and the new `FecSender` begins with block id 0. What it
sent before is still under way, and the peer's receiver, which is not told, still
holds its blocks. The node is up again after `Downtime` at the earliest. A restart
of the *receiving* node needs no action of its own: the shards it held are as good
as lost on the way.

Time counts in ticks. A tick is the shortest time in which a sender closes one
block (`Paced`), so that a turn of the id space takes `IdSpace` ticks; `MaxAge`
is the 500 ms of `expire_old`, `FlushLag` the longest time between two flush
ticks (5 ms when the forwarder is idle, longer when its drain loop is busy),
`MaxTransit` the longest life of a datagram. `ledger` is a history variable: for
each generation, how many shards were used, lost, expired, ignored, duplicated.

### Framing

The model follows a block, since all its shards have one size, over a network
that loses nothing. `Read`, `Send`, `FlushPartial` and `Receive` keep only
lengths; the constants are those of the code. Several flows feed one sender.
Conversions to 16 bits are kept (`U16`).

### LossTracker

`receive_loop` is a program counter with one step per iteration of the loop over
a gap. `Damage` names what the network may do besides losing frames. (The node
uses `receive_loop_multi`, which does not measure loss; `receive_loop` is part
of the library's interface. Its loop over a gap only ends by reaching the number
that arrived, so a frame that is late or repeated sends it through the whole
sequence space, and so does one whose number was corrupted on the way, since the
number is used before the frame is authenticated; both are in the model.
`WindowIsExact` is stated for frames that are only lost, which the history
variable `damaged` tells, and `CountIsLosses` for all. No part of
the node changes the FEC configuration at run time, although the repository's
README calls FEC adaptive.)

### Router and Paths

One step per turn of each loop: popping the heap, walking back along `prev`,
reading one hop in `path_cost`; between any two the prober may update the
matrix. Ties in the heap and in the sort are broken in every way. `all_edges`
copies the map entry by entry; an update writes one entry, so with one update
during the copy the result is the matrix before it or after it, and copying is
one step here. (With several, a copy may show a later update without an earlier
one; it is still a matrix, and the run starts from every symmetric one.) The two
searches of the code are the same
loop with a different start, and are one set of actions here. `Paths` enumerates
simple paths and takes the cheapest.

`TopPathsRanked` looks at the paths of `top_paths` as well as at their costs: each
is the hop to its neighbour and a way on that visits no node twice (`IsWay`). The way
on may lead back through the local node, as the search does not exclude it;
`PathsAreDiverse`, which the comment on `top_paths` promises, does, and is refuted.
`TotalMatchesPath` is about `path_cost`, which reads the matrix again after the
search: with at most one update during the call the total is the cost of the path
before it or after it.

### Mesh

One node and its peers. Send times are ages, so that the state space is finite
although time never ends. `handle_pong` is two steps, since the router may read
the matrix between its two updates. The prober's payload (4 bytes) is the id. A link
may break for good (`Break`), which nothing in the code takes notice of.

### EdgeFlows

Two nodes whose clients are paired by equal flow ids. `Accept`, `Read`,
`ReaderEnds`, `Take`, `Write`, `WriteFails`, `WriterEnds` and `Close` are the handler,
its two tasks and its `select!`; `Deliver` is the delivery task of `main.rs` with the
`deliver` of the edge it chooses. TCP and QUIC differ in where their ids start.
The relay in between loses and reorders. `Take` is the `recv` of the write task,
`Write` and `WriteFails` are the two ways in which its `write_all` returns: in
between, a client that does not read keeps the task waiting, possibly for ever. When
one of the two tasks ends the other is detached, not cancelled: the write task goes on
until its channel is empty, the read task until its client closes.

### Startup and Node

`Startup` is `run` of `main.rs`: `main` says which step comes next, and the
definitions `ReceiveLoopRuns`, `ForwarderRuns` and so on say which tasks exist by
then. Steps that return an error end the process, and so does a panic in any task,
since the release profile has `panic = "abort"`. A configuration is what the
checks of the code tell apart: whether there is a node id, peers with good, short
or garbled keys, none, one or both TLS paths, shard counts that Reed-Solomon
accepts, a positive probe interval. `validate` does not look at the last two. The code
decodes keys twice, in `validate` and in `decode_key`, and so does the model
(`ValidKey`, `DecodeKey`); a garbled key that got past the first would end the node in
the loop over the peers. `AddTunnel` fills the three maps of the forwarder (`tunnels`,
`fec_senders`, `fec_receivers`), which are looked up separately.

`Node` puts the tasks to work, also while `run` is still starting the later
ones. `Recv` and `Enqueue` are `receive_loop_multi` on both sides of its
`tx.send().await`; `HandleInbound`, `EndDrain`, `RouteLocal`, `RouteOn` are
`Forwarder::run` with its drain loop, one step for each wait for a channel;
`StartFlush`, `FlushPeer`, `EndFlush` are the branch of the tick, one step for
each lock, so that `SendToNode`, which the read tasks of clients call, comes in
between; `Deliver` and `Write` are the delivery task and one client. Payloads
are numbered as they are accepted, and the block that a data frame completes is
given by the destinations of its payloads. A frame of kind `bad` completes a
block whose header has shard counts that Reed-Solomon does not accept:
`FecEncoder::new` panics on the receiving side and the node ends (`HandleBad`).
Which shards complete a block is the subject of `FecCodec`, which peers get a
route that of `Mesh`.

Several nodes are not composed. The reason is what the second finding of `MeshReroute`
says: a node only knows its own links, so its next hop to a destination is the
destination itself (theorem `RoutesUseOwnTunnels`), and a payload that is not for a
node goes on from there to its destination or nowhere.

## 3. Runs

Passing runs:

| Configuration (module) | Properties | Shows |
|---|---|---|
| `FecWrap` (`FecCodec`) | `TypeOK`, `BlocksDoNotMix`, `IInv`, `RecoversUpToParity`, `WholeBlocks`, `RefinesChannel` | ids wrap (3 ids, up to 4 blocks) with loss, delay, expiry and a restart of the sender: blocks never mix, link implements `LossyChannel`; the invariant of the proofs holds |
| `FecDups` (`FecCodec`) | `DeliveredOnce`, `LedgerInv`, `RecoversUpToParity`, `EveryPayloadSettles`, `PendingIsTemporary` | 3+1 shards, partial blocks, loss, one shard repeated; liveness |
| `Router` (`MCRouter`) | `TypeOK`, `NextHopIsShortest`, `TotalMatchesPath`, `TopPathsRanked`, `Returns` | every symmetric matrix over 4 nodes with RTTs 0 and 2 and costs that saturate at 3; the prober updates a link of the local node at any point of the call |
| `MeshLinks` (`MCMesh`) | `TypeOK`, `PongsMatch`, `Symmetric`, `WithinSamples`, `ProbesAgeOut`, `PeersBecomeRoutable` | 2 peers, 3 probe ids, lost, late and repeated pongs, RTTs of 0 and 3 microseconds in any order; liveness |
| `EdgeFlows` (`MCEdgeFlows`) | `TypeOK`, `RightClient`, `ConnectedIsRegistered`, `AcceptedIsWritten`, `FlowsEnd` | two TCP connections against a TCP connection and a QUIC stream; clients that close, break or never read, with the liveness of the rest |
| `FramingSizes` (`MCFraming`) | `TypeOK`, `WholeOrNothing` | reads of 1, 1379, 1380 and 2800 bytes, where the limit is 1379 |
| `LossDamage` (`LossTracker`) | `TypeOK`, `CountIsLosses`, `WindowIsExact` | frames lost, cut, corrupted in any part, their numbers included, repeated, reordered; the window wraps several times |
| `Node` (`MCNode`) | `TypeOK`, `PeersComplete`, `InOrder`, `NothingMissing`, `FecEverywhere`, `Drains`, `FlushesWhenQuiet` | six configurations, of which three are rejected and two make a task panic; frames of two peers and a stranger, one with bad shard counts; every channel gets full; the client may stop reading |

Runs in which TLC refutes what a document or comment of the repository says
(details and quotations under `findings` in `PROJECT.json`):

| Configuration | Property | Shows |
|---|---|---|
| `MeshReroute` | `ReroutesOnDegradation` | a dead link keeps its route, for two reasons, each a finding: entries never expire, and links between other nodes are never measured, so that no route has several hops |
| `RouterDiverse` | `PathsAreDiverse` | a path of `top_paths` through one neighbour comes back and takes the link of another |
| `EdgeBoundary` | `RightClient` | TCP flow ids grow into QUIC's |
| `FramingFullChunk` | `RelaysWhatIsRead` | a 1400-byte chunk never arrives |

### Bounds

They are named in the modules' `CONSTANTS` and commented there. `FecWrap` has
one id more than the blocks that can be alive at once, exactly the limit of
`IdsReturnLate`, so one tick more of anything breaks it (the fault
`Stale_OffByOne`), and so does a `Downtime` of one tick less. The horizon lets
ids wrap, or come back after a restart, while the first block of an id is still
held. `FecDups` has parity and duplicates one short of the data shards
(`LeftoversAreFew`), and shards that travel for less than a tick, since delay is
the subject of `FecWrap`. Four router nodes allow a detour of two hops to beat a
direct link; `MaxCost` lets saturation happen; the nodes other than the local
one are interchangeable in the set of matrices, so one destination stands for
all. `RouterDiverse` needs only the matrices that a prober can fill. `ProbeSpace
= 3` makes ids wrap after one and a half rounds of pings, so that an id goes to
either peer in turn. In `Node` the inbound channel holds one packet, the local
channel two payloads, the client one, against blocks of two payloads and three
in all, so each of the channels is full at some time with a task waiting for it;
two data shards allow partial and full blocks. The framing run has reads on both
sides of the limit that the proof finds. In `EdgeFlows` the clients send a chunk
each and channels do not overflow; a full channel is met in `Node`, and that
none exceeds its capacity is proved. In `LossDamage` corruption turns a number
into any of the five. `CHECK_DEADLOCK FALSE` stands where the bounded behaviour
ends: a call that has returned, clients that have sent all they will, a process
that has ended.

### Fairness

`FecDups`: weak fairness of the flush ticks (the interval timer is polled by
`select!`, which chooses at random among what is ready), of delivery of what the
network does not lose, and of time; nothing forces a submission. `MeshLinks`:
tickers run and time passes; a link that works does not lose *every* probe
(strong fairness of an undisturbed ping and of the handling of its pong), the
least under which a measurement can be expected. `EdgeFlows`: spawned tasks that
can run are run; clients need not send, read or close, so no fairness of `Read`,
`Write` or `WriteFails`: a `write_all` may never return. `AcceptedIsWritten` is
conditional on the writes to the client in question returning (`WritesReturn`);
`FlowsEnd` removes a flow without that condition and needs it only for the end of the
write task. For the read task that is left over after a failed write nothing is
claimed. `Router`: the call is a loop
without awaits, so its steps go on. `Node`: a task that can go on is polled again
(weak fairness), and `select!` chooses at random between the channel and the tick,
so neither is passed over for ever (strong fairness of both); nothing need arrive
and clients need not read. `FlushesWhenQuiet` is conditional on the forwarder
coming back to `select!`, since the code does not guarantee that: while frames
arrive as fast as they are handled the drain loop goes on, and without the
condition TLC finds a partial block that is never flushed.

## 4. Proofs

Every safety property that a passing run checks, `TotalMatchesPath` excepted, is also a
theorem. All theorems
hold for every value of the constants that satisfies the named `ASSUME`s of the
module (`FecAssumption`, `FramingAssumption`, `LossAssumption`,
`RouterAssumption`, `MeshAssumption`, `EdgeAssumption`, `StartupAssumption`,
`NodeAssumption`). They ask for types, and beyond that:

* `LossAssumption`: fewer frames are sent than there are sequence numbers (64 bits);
* `RouterAssumption`, `MeshAssumption`: there are finitely many nodes, and what the
  router finds in a matrix fits into its `u64`;
* `EdgeAssumption`: each node has another to relay to, and the first flow id of QUIC
  is a flow id, and not the first.

What a theorem needs in addition is a condition that is named, defined beside the
property and written as the theorem's hypothesis:

| Condition | Says | In the code |
|---|---|---|
| `IdsReturnLate` | in the time that a shard travels, its block ages and a flush tick is awaited, fewer blocks are closed than there are ids, and no stopped node is up again | 65536 ids, 500 ms; see below |
| `LeftoversAreFew` | parity and duplicates are fewer than the data shards | 4 and 10; `Config::validate` also accepts others |
| `IdsSuffice` | the probes sent while a ping or pong is under way are no more than there are ids | 32-bit ids |
| `FlowsAreUnique` | no more connections of one kind come than there are flow ids | 2^32 |
| `FlowsStayApart` | no counter reaches the ids of the other edge | 999999 TCP connections; nothing stops the next one |
| `RttsAreShort` | no RTT is `u64::MAX` microseconds | |

The properties themselves are seldom inductive. For each proof the following says
what has to be added to them and why that holds.

**`FecCodecProofs`**

* `TypeCorrect`: `Spec => []TypeOK`. The type is inductive only together with
  facts on the sender's buffer and the receiver's counts (`BaseInv`).
* `NoMix`: under `IdsReturnLate` (transit + age + flush lag fit into the id
  space and, if there are restarts, into the time a restart takes),
  `[]BlocksDoNotMix`. The property is not inductive. `IInv` adds that blocks are
  closed at different ticks (`SentInv`), how far the id counter is from the id
  of each recent block, whence equal ids are at least `IdSpace` blocks and so
  `IdSpace` ticks apart unless there was a restart in between (`IdInv`), that
  blocks from before a restart are `Downtime` older than any since (`BootInv`),
  that no datagram and no pending block is older than the clock allows
  (`ClockInv`, `PendingInv`), and that a pending block's shards all come from
  one block, closed at most `MaxTransit` before the first of them arrived
  (`OriginInv`). A shard of another block with the same id would be too old to
  be under way, or the pending block too old to have survived.
* `OnlyWholeBlocks`: under `IdsReturnLate`, every step that hands on payloads
  hands on exactly those of one block (an action property, from `IInv`).
* `Accounted`: under `IdsReturnLate` and `LeftoversAreFew` (parity + duplicates
  < data shards), every shard and copy is under way, held, used, lost, expired
  or ignored, and a block is used at most once: after a reconstruction fewer
  than `DataShards` copies are left. The finite-set counting is done in lemmas.
* `Refinement`: under the same two conditions the link implements
  `LossyChannel`, with the reconstructed generations as the blocks handed on and
  a restart as its `Forget` of what was not yet in a block.

* `IInvSpec`: the strengthening that the run `FecWrap` checks, as a result of its own.
* `PayloadsArriveOnce` (`DeliveredOnce`): under the two conditions no payload is
  handed on twice. This is not proved about the codec at all: `LossyChannelProofs`
  proves it of the channel (`ChannelHandsOnOnce`; `ChannelInv` adds that payloads, in
  the blocks and then in the buffer, ascend in the order of acceptance, so that no two
  blocks share one, and that what was handed on comes from blocks handed on), and the
  refinement carries it over.
* `ParityRecovers` (`RecoversUpToParity`): under `IdsReturnLate`, a block of which
  nothing is under way and that was never reconstructed has had more shards lost or
  expired than it has parity shards. The ledger counts copies, which does not suffice:
  `RepairInv` counts the slots of a block of which no copy is under way or held, and
  says that they are no more than the shards lost or expired.

Neither condition can be dropped. With two data and two parity shards, which
`Config::validate` accepts, the two shards left over after a reconstruction
complete the block again and every payload is delivered twice, on a perfect
network (`DeliveredOnce` fails with `ParityShards = DataShards`). With a flush
tick that is late by a turn of the id space (`FlushLag` above `IdSpace`), shards
of two blocks are decoded together (`WholeBlocks` fails). At the code's values
(10 data and 4 parity shards, 65536 ids) a turn of the id space within 500 ms
would take 1.3 million payloads a second. A restart that takes less than the
500 ms, the flush lag and the transit time, with data before and after it, is the
case to watch: the condition on `Downtime` is one on how nodes are operated, which
no code enforces.

**`FramingProofs`**: `Sizes` proves `TypeOK` and `WholeOrNothing` for every
length of reads and of the destination's name, by the lemmas that chunking yields
legal chunks, that no 16-bit field overflows, that a frame is accepted exactly up
to `Room` = 1386 - `DestLen` bytes of data, and that decoding undoes encoding. The
strengthening is `Sized`: the shard size of a block is that of its longest chunk.

**`LossTrackerProofs`**: `CountIsExact` proves `TypeOK` and `CountIsLosses`: each
step records one frame or leaves the tracker alone, and recording removes at most
one element from the set of losses and adds at most one. `WindowTellsTheTruth`
proves `WindowIsExact`: as long as frames are only lost, the ring tells of each of the
last frames whether it arrived. `OrderInv` relates the position in the ring,
`expected_seq` and the loop counter, also in the middle of the loop over a gap, and
says that the frames under way are in order and not behind `expected_seq`.

**`NodeProofs`**: for all sets of configurations and frames and all capacities,
`TypeCorrect` (`TypeOK`), `StartsComplete` (`PeersComplete`), `FecIsThere`
(`FecEverywhere`), `Ordered` (`InOrder`) and `Lossless` (`NothingMissing`). None
but the type is inductive. `NodeInv` adds that the peers counted so far are set
up (`AddedInv`), that whoever is probed or known by address is in each of the
forwarder's three maps (`KnownInv`), that the block in hand, the packets in the
inbound channel and the one that waits for room in it are consecutive intervals
of the payloads accepted (`ChainInv`, `CarriesInv`), and that what has left the
forwarder has smaller numbers than what it routes next (`PastInv`).
`NothingMissing` needs `FecEverywhere`: a packet that took the branch for peers
without FEC state would be lost.

**`MeshProofs`**: `TypeCorrect`; `MatrixIsSymmetric` (`Symmetric`),
`SmoothingStaysInRange` (`WithinSamples`), `ProbesAreBounded` (`ProbesAgeOut`),
`RoutesUseOwnTunnels` (a node routes to a peer directly or not at all, the reason for
the second finding of `MeshReroute`) and, under `IdsSuffice`,
`PongsFindTheirProbe` (`PongsMatch`). The lemma behind the averages is that a mean cut
off to a whole number stays between the bounds of what it is the mean of. `MatrixInv`
adds that between the two updates of `handle_pong` one direction is ahead by exactly
the sample that the other is yet to get (`SymInv`), that a link has an entry just if it
was measured (`SampleInv`), that only the links of the own node have one (`EdgeInv`,
whence paths have one hop), and that the next ping comes early enough to drop a stale
probe (`ProbeInv`). `PongsMatch` needs `LagInv`: since a message was sent, no more ids
have been given out than probes were sent, and in that time all peers together are
sent fewer than there are ids.

**`EdgeFlowsProofs`**: `TypeCorrect`; `ConnectionsAreRegistered`
(`ConnectedIsRegistered`) under `FlowsAreUnique`; `ResponsesReachTheRightClient`
(`RightClient`) under `FlowsStayApart`, the condition that the run `EdgeBoundary`
breaks. `FlowInv` adds that a counter is ahead of each id it gave out by no more than
the connections it has served, so that no two clients of an edge share an id, and that
an entry belongs to a client of that edge. `SideInv` adds that each counter and its ids
stay on their side of the boundary. `DataInv` follows the data: payloads under way
carry the id of their sender, and what waits in a channel comes from the counterpart.

**`RouterProofs`**: for every finite set of nodes, every matrix, and a prober that
changes it between any two steps of the call: `TypeCorrect`; `NextHopFindsShortest`
(`NextHopIsShortest`), the correctness of Dijkstra's algorithm as the code has it, with
stale heap entries, links that take no time and sums that saturate; and
`TopPathsRanks` (`TopPathsRanked`) under `RttsAreShort`.

* A node is *settled* if its distance is below `MaxCost` and not in the heap.
  `SearchInv` says that settled nodes are no farther than anything in the heap, that
  no edge out of one improves a distance, and that `prev` leads from each node to a
  settled one, by an edge that accounts for the distance. With links that take no time
  distances do not exclude that `prev` runs in a circle; so `SettledInOrder` says that
  the nodes were settled in some order and `prev` goes back in it.
* When the destination is popped, or the heap is empty, no path costs less than the
  distance (`NoShorterWay`). The walk along `prev` visits no node twice
  (`PathInOrder`); it yields a simple path of that cost (`PathFacts`), or ends where
  there is none (`OutOfReach`).
* `Cost` is a sum defined by recursion over a set, and paths have any length. In place
  of induction the lemmas argue by a least counterexample: the recursion has a solution
  on every finite set (`SumExists`), its value is the running sum along the path
  (`RunningCost`), and what grows by no more than each hop's cost grows by no more than
  the path's (`Climb`). The rest needs nothing else about sums.
* `top_paths`: while the matrix stays the same, the routes are one cheapest route for
  each neighbour that was searched and leads to the destination (`TopInv`,
  `Collected`). Sorting and cutting such a set gives what is promised
  (`SortedIsRanking`, by counting). That the first route costs what a cheapest path from
  the node itself does (`BestRoute`) is less obvious, since the search through a
  neighbour may come back through the node: from there on, such a path is one of the
  node's own, and costs no more (`RestOfPath`). `IsWay` makes no claim that a path avoids the node
  itself: it need not.

`RttsAreShort` is needed: `top_paths` would return a direct link of `u64::MAX`, and
`next_hop` would not.

Only model-checked: `TotalMatchesPath`, and, since the prover has neither fairness nor
`ENABLED`, the liveness properties `EveryPayloadSettles`, `PendingIsTemporary`, `Returns`,
`PeersBecomeRoutable`, `AcceptedIsWritten`, `FlowsEnd`, `Drains` and
`FlushesWhenQuiet`.

## 5. Not modelled

Encryption and Reed-Solomon, TOML, base64 and the TLS and QUIC handshakes
(external crates, used by what they promise); the admin HTTP service, which only
reads; logging; test programs and benchmarks; `Tunnel::send_with_fec`, which has
no caller; `FecConfig::for_loss_rate`, whose result is only logged. Several
nodes as one system, for the reason given under Startup and Node.

## 6. Plan

The system is modelled as far as section 5 says, and the safety properties are
proved. What is left:

1. `TotalMatchesPath` for every mesh: that the running sum of `path_cost` is that of a
   matrix with one update or without.
2. Of the liveness properties, their safety part: for `Returns`, that a measure of
   what a call has left to do decreases with every step; the same for `Drains`.
3. That several nodes keep what one promises: the pipelines of two nodes (`Node`)
   with a `LossyChannel` in between.
