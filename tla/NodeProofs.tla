----------------------------- MODULE NodeProofs -----------------------------
(***************************************************************************)
(* Proofs about Startup and Node, for every set of configurations, peers     *)
(* and frames and all capacities: peers are complete before a frame is read  *)
(* (StartsComplete), FEC state is never missing (FecIsThere), and payloads   *)
(* go through the node in order and without loss (Ordered, Lossless).        *)
(***************************************************************************)
EXTENDS Node, TLAPS

----------------------------------------------------------------------------
(* The inductive invariant *)

\* The peers that are in all three maps of the forwarder.
Equipped == tunnels \cap fec_senders \cap fec_receivers

\* No peer is ever removed from a map.
MapsGrow ==
  /\ tunnels \subseteq tunnels'
  /\ fec_senders \subseteq fec_senders'
  /\ fec_receivers \subseteq fec_receivers'

\* Only a sender with a tunnel is given payloads.
OnlyTunnelsFill ==
  \A p \in Peers : buffer'[p] > 0 => buffer[p] > 0 \/ p \in tunnels

\* Whoever is known to the receive loop or probed is in all maps.
KnownInv ==
  /\ \A a \in Addrs : peer_crypto_map[a] # NoPeer => peer_crypto_map[a] \in Equipped
  /\ probing \subseteq Equipped

\* Peer i is set up.
SetUp(i) ==
  LET peer == config.peers[i]
  IN /\ peer.node_id \in Equipped \cap probing
     /\ DistinctAddrs => peer_crypto_map[peer.addr] = peer.node_id

\* The peers counted are set up, and none is left when frames can come.
AddedInv ==
  /\ \A i \in 1 .. added : SetUp(i)
  /\ ReceiveLoopRuns => added = Len(config.peers)

StartInv == StartTypeOK /\ KnownInv /\ AddedInv

\* The number that follows the payloads of packet x.
After(x) == x.first + x.count

\* The number of the first payload that is not in the inbound channel yet.
End == IF inbound = <<>> THEN last + 1 ELSE After(inbound[Len(inbound)])

\* Only data packets carry payloads.
CarriesInv ==
  /\ holding.kind # "data" => holding.count = 0
  /\ \A i \in 1 .. Len(inbound) : inbound[i].kind # "data" => inbound[i].count = 0

\* The packets on their way to the forwarder are consecutive intervals of the
\* payloads accepted, from the block in hand to the end.
ChainInv ==
  /\ IF fwd = "route" THEN next <= last ELSE next = last + 1
  /\ last <= Len(dests)
  /\ inbound # <<>> => inbound[1].first = last + 1
  /\ \A i \in 1 .. Len(inbound) : After(inbound[i]) <= Len(dests) + 1
  /\ \A i \in 1 .. Len(inbound) - 1 : inbound[i + 1].first = After(inbound[i])
  /\ holding # NoPacket => holding.first = End /\ After(holding) = Len(dests) + 1
  /\ holding = NoPacket => End = Len(dests) + 1

\* Everything that has left the forwarder comes before what it routes next.
PastInv == \A n \in Elements(delivered) \cup lost \cup Elements(local) : n < next

NodeInv ==
  /\ TypeOK /\ KnownInv /\ AddedInv
  /\ FecEverywhere
  /\ CarriesInv
  /\ ChainInv
  /\ PastInv
  /\ InOrder
  /\ NothingMissing

USE DEF forwarderMaps, Equipped

----------------------------------------------------------------------------
(* Sequences of payloads *)

\* What a sequence holds has the type of its elements.
LEMMA Element ==
  ASSUME NEW S, NEW s \in Seq(S), NEW i \in 1 .. Len(s)
  PROVE  s[i] \in S
OBVIOUS

\* A channel after its first element was taken.
LEMMA TailIs ==
  ASSUME NEW S, NEW s \in Seq(S), s # <<>>
  PROVE  /\ Len(s) \in Nat \ {0} /\ Head(s) = s[1] /\ Head(s) \in S
         /\ Tail(s) \in Seq(S) /\ Len(Tail(s)) = Len(s) - 1
         /\ \A i \in 1 .. Len(Tail(s)) : Tail(s)[i] = s[i + 1]
         /\ Tail(s) = <<>> <=> Len(s) = 1
<1>1. Len(s) \in Nat \ {0} /\ Head(s) = s[1] /\ Head(s) \in S
  OBVIOUS
<1>2. Tail(s) \in Seq(S) /\ Len(Tail(s)) = Len(s) - 1
  OBVIOUS
<1>3. \A i \in 1 .. Len(Tail(s)) : Tail(s)[i] = s[i + 1]
  OBVIOUS
<1>4. Tail(s) = <<>> <=> Len(s) = 1
  <2>1. \A t \in Seq(S) : t = <<>> <=> Len(t) = 0
    OBVIOUS
  <2>2. Tail(s) = <<>> <=> Len(Tail(s)) = 0
    BY <1>2, <2>1, Zenon
  <2>3. Len(s) - 1 = 0 <=> Len(s) = 1
    BY <1>1
  <2> QED BY <1>2, <2>2, <2>3, Zenon
<1> QED BY <1>1, <1>2, <1>3, <1>4

\* Sending adds an element to a channel, taking removes one.
LEMMA ElementsAppend ==
  ASSUME NEW S, NEW s \in Seq(S), NEW e \in S
  PROVE  Elements(Append(s, e)) = Elements(s) \cup {e}
BY DEF Elements

LEMMA ElementsTail ==
  ASSUME NEW S, NEW s \in Seq(S), s # <<>>
  PROVE  Elements(s) = Elements(Tail(s)) \cup {Head(s)}
<1>1. Elements(Tail(s)) \cup {Head(s)} \subseteq Elements(s)
  BY DEF Elements
<1>2. ASSUME NEW i \in 1 .. Len(s)
      PROVE  s[i] \in Elements(Tail(s)) \cup {Head(s)}
  <2>1. CASE i = 1
    BY <2>1
  <2>2. CASE i # 1
    <3>1. i - 1 \in 1 .. Len(Tail(s)) /\ Tail(s)[i - 1] = s[i]
      BY <2>2
    <3> QED BY <3>1 DEF Elements
  <2> QED BY <2>1, <2>2
<1> QED BY <1>1, <1>2 DEF Elements

\* Sending a later payload keeps the order, and so does taking the first.
LEMMA IncreasingAppend ==
  ASSUME NEW s \in Seq(Nat), NEW e \in Nat, Increasing(s),
         \A n \in Elements(s) : n < e
  PROVE  Increasing(Append(s, e))
<1> DEFINE t == Append(s, e)
<1> SUFFICES ASSUME NEW i \in 1 .. Len(t), NEW j \in 1 .. Len(t), i < j
             PROVE  t[i] < t[j]
  BY DEF Increasing
<1>1. i \in 1 .. Len(s) /\ t[i] = s[i] /\ s[i] \in Elements(s)
  BY DEF Elements
<1>2. CASE j = Len(s) + 1
  <2>1. t[j] = e
    BY <1>2
  <2> QED BY <1>1, <2>1
<1>3. CASE j \in 1 .. Len(s)
  <2>1. t[j] = s[j]
    BY <1>3
  <2> QED BY <1>1, <1>3, <2>1 DEF Increasing
<1> QED BY <1>2, <1>3

LEMMA IncreasingTail ==
  ASSUME NEW s \in Seq(Nat), s # <<>>, Increasing(s)
  PROVE  /\ Increasing(Tail(s))
         /\ \A n \in Elements(Tail(s)) : Head(s) < n
<1> DEFINE t == Tail(s)
<1>1. /\ Len(s) \in Nat \ {0} /\ Head(s) = s[1] /\ Len(t) = Len(s) - 1
      /\ \A i \in 1 .. Len(t) : t[i] = s[i + 1]
  BY TailIs
<1> HIDE DEF t
<1>2. \A i \in 1 .. Len(t) : i + 1 \in 1 .. Len(s) /\ s[1] < s[i + 1]
  BY <1>1 DEF Increasing
<1>3. Increasing(t)
  <2> SUFFICES ASSUME NEW i \in 1 .. Len(t), NEW j \in 1 .. Len(t), i < j
               PROVE  t[i] < t[j]
    BY DEF Increasing
  <2>1. i + 1 \in 1 .. Len(s) /\ j + 1 \in 1 .. Len(s) /\ i + 1 < j + 1
    BY <1>1
  <2> QED BY <1>1, <2>1 DEF Increasing
<1>4. \A n \in Elements(t) : Head(s) < n
  BY <1>1, <1>2 DEF Elements
<1> QED BY <1>3, <1>4 DEF t

----------------------------------------------------------------------------
(* Start-up *)

\* run has done nothing yet.
LEMMA StartInitial == StartInit => StartInv
<1> SUFFICES ASSUME StartInit PROVE StartInv
  OBVIOUS
<1> USE StartupAssumption DEF StartInit
<1>1. config \in Config
  OBVIOUS
<1>2. Len(config.peers) \in Nat
  BY <1>1 DEF Config
<1>3. StartTypeOK
  BY <1>2 DEF StartTypeOK
<1>4. KnownInv
  BY DEF KnownInv
<1>5. AddedInv
  BY DEF AddedInv, ReceiveLoopRuns
<1> QED BY <1>3, <1>4, <1>5 DEF StartInv

\* A step of run that only goes on to another one; the process may end at any.
LEMMA StartGoes ==
  ASSUME StartInv,
         UNCHANGED <<config, added, forwarderMaps, peer_crypto_map, probing>>,
         \/ main' \in {"udp", "peers", "failed", "stopped"}
         \/ (PeersDone \/ ReceiveLoopRuns) /\ ReceiveLoopRuns'
  PROVE  StartInv'
<1>1. StartTypeOK'
  BY DEF StartInv, StartTypeOK, ReceiveLoopRuns
<1>2. KnownInv'
  BY DEF StartInv, KnownInv
<1>3. \A i \in 1 .. added' : SetUp(i)'
  BY DEF StartInv, AddedInv, SetUp, DistinctAddrs
<1>4. ReceiveLoopRuns' => added' = Len(config'.peers)
  BY DEF StartInv, AddedInv, ReceiveLoopRuns, PeersDone
<1> QED BY <1>1, <1>2, <1>3, <1>4 DEF StartInv, AddedInv

\* run does nothing.
LEMMA StartStutters ==
  ASSUME StartInv, UNCHANGED startVars
  PROVE  StartInv'
BY DEF StartInv, StartTypeOK, KnownInv, AddedInv, SetUp, DistinctAddrs,
       ReceiveLoopRuns, startVars

\* One turn of the loop over the peers.
LEMMA StartAddsPeer ==
  ASSUME StartInv, AddPeer
  PROVE  StartInv' /\ MapsGrow
<1> DEFINE peer == config.peers[added + 1]
      PeerConfig == [node_id : Peers, addr : Addrs,
                     shared_key : Key]
<1>1. /\ config.peers \in Seq(PeerConfig)
      /\ added \in Nat /\ added < Len(config.peers)
      /\ peer \in PeerConfig
  <2>1. config \in Config
    BY StartupAssumption DEF StartInv, StartTypeOK
  <2>2. config.peers \in Seq(PeerConfig)
    BY <2>1 DEF Config
  <2>3. added \in Nat /\ added < Len(config.peers) /\ added + 1 \in 1 .. Len(config.peers)
    BY <2>2 DEF StartInv, StartTypeOK, AddPeer
  <2>4. peer \in PeerConfig
    <3> HIDE DEF PeerConfig
    <3> QED BY <2>2, <2>3, Element
  <2> QED BY <2>2, <2>3, <2>4
<1>2. CASE ~DecodeKey(peer.shared_key) /\ GoTo("failed")
  <2>1. StartInv'
    BY <1>2, StartGoes DEF GoTo
  <2> QED BY <2>1, <1>2 DEF GoTo, MapsGrow
<1>3. CASE /\ AddTunnel(peer.node_id)
           /\ peer_crypto_map' = [peer_crypto_map EXCEPT ![peer.addr] = peer.node_id]
           /\ probing' = probing \cup {peer.node_id}
           /\ added' = added + 1
           /\ UNCHANGED <<config, main>>
  <2> USE <1>3 DEF AddTunnel
  <2> HIDE DEF peer
  <2>1. StartTypeOK'
    BY <1>1 DEF StartInv, StartTypeOK
  <2>2. KnownInv'
    BY <1>1 DEF StartInv, StartTypeOK, KnownInv
  <2>3. ASSUME NEW i \in 1 .. added'
        PROVE  SetUp(i)'
    <3>1. CASE i = added + 1
      BY <3>1, <1>1 DEF SetUp, peer, StartInv, StartTypeOK
    <3>2. CASE i # added + 1
      <4>1. SetUp(i) /\ i \in 1 .. Len(config.peers)
        BY <3>2, <1>1 DEF StartInv, AddedInv
      <4>2. DistinctAddrs => config.peers[i].addr # peer.addr
        BY <3>2, <4>1, <1>1 DEF DistinctAddrs, peer
      <4>3. config.peers[i].addr \in Addrs
        <5>1. config.peers[i] \in PeerConfig
          <6> HIDE DEF PeerConfig
          <6> QED BY <4>1, <1>1, Element
        <5> QED BY <5>1
      <4> QED BY <4>1, <4>2, <4>3, <1>1 DEF SetUp, DistinctAddrs, StartInv, StartTypeOK
    <3> QED BY <3>1, <3>2
  <2>4. ~ReceiveLoopRuns'
    BY DEF AddPeer, ReceiveLoopRuns
  <2>5. MapsGrow
    BY DEF MapsGrow
  <2> QED BY <2>1, <2>2, <2>3, <2>4, <2>5 DEF StartInv, AddedInv
<1> QED BY <1>2, <1>3 DEF AddPeer

\* Every step of run, and its end.
LEMMA StartSteps ==
  ASSUME StartInv, StartStep \/ CtrlC
  PROVE  StartInv' /\ MapsGrow
<1>1. CASE AddPeer
  BY <1>1, StartAddsPeer
<1>2. CASE ~AddPeer
  <2>1. /\ UNCHANGED <<config, added, forwarderMaps, peer_crypto_map, probing>>
        /\ \/ main' \in {"udp", "peers", "failed", "stopped"}
           \/ (PeersDone \/ ReceiveLoopRuns) /\ ReceiveLoopRuns'
    BY <1>2 DEF GoTo, StartStep, Load, BindUdp, ProbePanics, StartReceiveLoop, StartForwarder,
                BindTcp, BindQuic, StartDelivery, BindAdmin, CtrlC, ReceiveLoopRuns
  <2>2. StartInv'
    BY <2>1, StartGoes
  <2> QED BY <2>1, <2>2 DEF MapsGrow
<1> QED BY <1>1, <1>2

----------------------------------------------------------------------------
(* The pipeline *)

\* What the tasks of a node do to the state of run: nothing, or end the process.
LEMMA TasksRun ==
  ASSUME StartInv, UNCHANGED startVars \/ GoTo("failed")
  PROVE  StartInv' /\ UNCHANGED <<forwarderMaps, peer_crypto_map, probing>>
<1>1. CASE UNCHANGED startVars
  BY <1>1, StartStutters DEF startVars
<1>2. CASE GoTo("failed")
  <2>1. StartInv'
    BY <1>2, StartGoes DEF GoTo
  <2> QED BY <1>2, <2>1 DEF GoTo
<1> QED BY <1>1, <1>2

\* What has left the forwarder are numbers of payloads.
LEMMA Numbers ==
  ASSUME TypeOK
  PROVE  Elements(delivered) \cup lost \cup Elements(local) \subseteq Nat \ {0}
<1>1. ASSUME NEW s \in Seq(Nat \ {0})
      PROVE  Elements(s) \subseteq Nat \ {0}
  BY <1>1, Element DEF Elements
<1> QED BY <1>1 DEF TypeOK

\* Nothing leaves the forwarder.
LEMMA PastStutters ==
  ASSUME PastInv, InOrder, NothingMissing,
         UNCHANGED <<dests, next, local, delivered, lost>>
  PROVE  PastInv' /\ InOrder' /\ NothingMissing'
BY DEF PastInv, InOrder, NothingMissing, Increasing, Elements

\* Nothing enters it.
LEMMA ChainStutters ==
  ASSUME ChainInv, CarriesInv, fwd = "route" <=> fwd' = "route",
         UNCHANGED <<holding, inbound, dests, next, last>>
  PROVE  ChainInv' /\ CarriesInv'
BY DEF ChainInv, CarriesInv, End, After

\* Packets stay where they are, and there is no new route.
LEMMA FecStutters ==
  ASSUME FecEverywhere, MapsGrow, OnlyTunnelsFill,
         UNCHANGED <<holding, inbound, routes>>
  PROVE  FecEverywhere'
BY DEF FecEverywhere, MapsGrow, OnlyTunnelsFill

\* A node that has not done anything satisfies the invariant.
LEMMA Initially == Init => NodeInv
<1> SUFFICES ASSUME Init PROVE NodeInv
  OBVIOUS
<1> USE NodeAssumption DEF Init
<1>1. StartInv
  BY StartInitial
<1>2. TypeOK
  BY <1>1 DEF TypeOK, StartInv
<1>3. FecEverywhere
  BY DEF FecEverywhere, NoPacket
<1>4. CarriesInv /\ ChainInv
  BY DEF CarriesInv, ChainInv, End, NoPacket
<1>5. Elements(<<>>) = {} /\ Increasing(<<>>)
  BY DEF Elements, Increasing
<1>6. PastInv /\ InOrder /\ NothingMissing
  BY <1>5 DEF PastInv, InOrder, NothingMissing
<1> QED BY <1>1, <1>2, <1>3, <1>4, <1>6 DEF NodeInv, StartInv

\* run goes on, or nothing happens.
LEMMA MainKeeps ==
  ASSUME NodeInv, Main \/ UNCHANGED vars
  PROVE  NodeInv'
<1>1. StartInv' /\ MapsGrow /\ UNCHANGED nodeVars
  <2>1. StartInv
    BY DEF NodeInv, TypeOK, StartInv
  <2>2. CASE Main
    BY <2>1, <2>2, StartSteps DEF Main
  <2>3. CASE UNCHANGED vars
    BY <2>1, <2>3, StartStutters DEF vars, startVars, MapsGrow
  <2> QED BY <2>2, <2>3
<1> USE <1>1 DEF nodeVars, fwdVars, edgeVars
<1>2. TypeOK'
  BY DEF NodeInv, TypeOK, StartInv
<1>3. FecEverywhere'
  BY FecStutters DEF NodeInv, OnlyTunnelsFill
<1>4. ChainInv' /\ CarriesInv'
  BY ChainStutters DEF NodeInv
<1>5. PastInv' /\ InOrder' /\ NothingMissing'
  BY PastStutters DEF NodeInv
<1> QED BY <1>2, <1>3, <1>4, <1>5 DEF NodeInv, StartInv

\* receive_loop_multi accepts a frame.
LEMMA RecvKeeps ==
  ASSUME NodeInv, NEW f \in Frames, Recv(f)
  PROVE  NodeInv'
<1> DEFINE p == peer_crypto_map[f.from]
<1> USE DEF Recv, Running, fwdVars, edgeVars
<1>1. StartInv' /\ UNCHANGED <<forwarderMaps, peer_crypto_map, probing>>
  BY TasksRun DEF NodeInv, TypeOK, StartInv
<1>2. /\ f.kind \in {"other", "pong", "bad", "data"}
      /\ f.dests \in Seq(Peers \cup {Self})
      /\ f.kind # "data" => f.dests = <<>>
      /\ f.from \in Addrs
  <2>1. CASE f \in [from : Addrs, kind : {"junk", "other", "pong", "bad"}, dests : {<<>>}]
    <3>1. <<>> \in Seq(Peers \cup {Self})
      OBVIOUS
    <3> QED BY <2>1, <3>1
  <2>2. CASE f \in [from : Addrs, kind : {"data"}, dests : Seq(Peers \cup {Self})]
    BY <2>2
  <2> QED BY <2>1, <2>2, NodeAssumption DEF Frame
<1>3. p \in Peers /\ p \in Equipped
  <2>1. peer_crypto_map \in [Addrs -> Peers \cup {NoPeer}] /\ KnownInv /\ p # NoPeer
    BY DEF NodeInv, TypeOK, StartTypeOK
  <2> QED BY <1>2, <2>1 DEF KnownInv
<1>4. dests \in Seq(Peers \cup {Self}) /\ Len(dests) \in Nat /\ Len(f.dests) \in Nat
  BY <1>2 DEF NodeInv, TypeOK
<1>5. /\ dests' \in Seq(Peers \cup {Self})
      /\ Len(dests') = Len(dests) + Len(f.dests)
      /\ \A n \in 1 .. Len(dests) : dests'[n] = dests[n]
  BY <1>2, <1>4
<1>6. /\ holding' \in Packet
      /\ holding' # NoPacket
      /\ holding'.first = Len(dests) + 1 /\ holding'.count = Len(f.dests)
      /\ holding'.peer = p /\ holding'.kind = f.kind
  BY <1>2, <1>3, <1>4 DEF Packet, NoPacket
<1>7. TypeOK'
  BY <1>1, <1>5, <1>6 DEF NodeInv, TypeOK, StartInv
<1>8. FecEverywhere'
  BY <1>1, <1>3, <1>6 DEF NodeInv, FecEverywhere
<1>9. CarriesInv'
  BY <1>2, <1>6 DEF NodeInv, CarriesInv
<1>10. ChainInv'
  <2>1. End' = End /\ End = Len(dests) + 1
    BY DEF NodeInv, ChainInv, End, After
  <2>2. \A i \in 1 .. Len(inbound) : After(inbound[i]) \in Nat
    <3>1. \A i \in 1 .. Len(inbound) : inbound[i] \in Packet
      BY Element DEF NodeInv, TypeOK
    <3> QED BY <3>1 DEF Packet, After
  <2>3. /\ IF fwd = "route" THEN next <= last ELSE next = last + 1
        /\ inbound # <<>> => inbound[1].first = last + 1
        /\ \A i \in 1 .. Len(inbound) - 1 : inbound[i + 1].first = After(inbound[i])
    BY DEF NodeInv, ChainInv
  <2>4. last <= Len(dests')
    BY <1>4, <1>5 DEF NodeInv, TypeOK, ChainInv
  <2>5. \A i \in 1 .. Len(inbound) : After(inbound[i]) <= Len(dests') + 1
    BY <1>4, <1>5, <2>2 DEF NodeInv, ChainInv
  <2>6. UNCHANGED <<inbound, fwd, next, last>>
    OBVIOUS
  <2> HIDE DEF Recv
  <2>7. holding'.first = End' /\ After(holding') = Len(dests') + 1
    <3>1. holding'.first = End'
      BY <1>6, <2>1
    <3>2. holding'.first + holding'.count = Len(dests') + 1
      <4>1. \A a, b \in Nat : (a + 1) + b = (a + b) + 1
        OBVIOUS
      <4>2. (Len(dests) + 1) + Len(f.dests) = (Len(dests) + Len(f.dests)) + 1
        BY <4>1, <1>4, Zenon
      <4>3. /\ holding'.first = Len(dests) + 1 /\ holding'.count = Len(f.dests)
            /\ Len(dests') = Len(dests) + Len(f.dests)
        BY <1>5, <1>6
      <4> QED BY <4>2, <4>3, Zenon
    <3> QED BY <3>1, <3>2 DEF After
  <2> QED BY <1>6, <2>3, <2>4, <2>5, <2>6, <2>7 DEF ChainInv, After
<1>11. PastInv' /\ InOrder'
  <2>1. UNCHANGED <<next, local, delivered, lost>> /\ PastInv /\ InOrder
    BY DEF NodeInv
  <2> QED BY <2>1 DEF PastInv, InOrder, Increasing, Elements
<1>12. NothingMissing'
  <2>1. \A n \in 1 .. next - 1 : n \in 1 .. Len(dests)
    BY <1>4 DEF NodeInv, TypeOK, ChainInv
  <2> QED BY <2>1, <1>5 DEF NodeInv, NothingMissing, Elements
<1> QED BY <1>1, <1>7, <1>8, <1>9, <1>10, <1>11, <1>12 DEF NodeInv, StartInv

\* receive_loop_multi sends it on.
LEMMA EnqueueKeeps ==
  ASSUME NodeInv, Enqueue
  PROVE  NodeInv'
<1> USE DEF Enqueue, Running, fwdVars, edgeVars
<1>1. StartInv' /\ UNCHANGED <<forwarderMaps, peer_crypto_map, probing>>
  BY TasksRun DEF NodeInv, TypeOK, StartInv
<1>2. /\ holding \in Packet /\ inbound \in Seq(Packet)
      /\ inbound' \in Seq(Packet) /\ Len(inbound') = Len(inbound) + 1
      /\ \A i \in 1 .. Len(inbound) : inbound'[i] = inbound[i]
      /\ inbound'[Len(inbound')] = holding
      /\ inbound' # <<>>
  BY DEF NodeInv, TypeOK
<1>3. Len(inbound) \in Nat
  BY <1>2
<1>4. TypeOK'
  BY <1>1, <1>2, <1>3, NodeAssumption DEF NodeInv, TypeOK, StartInv
<1>5. FecEverywhere'
  BY <1>1, <1>2, <1>3 DEF NodeInv, FecEverywhere
<1>6. CarriesInv'
  BY <1>2, <1>3 DEF NodeInv, CarriesInv, NoPacket
<1>7. ChainInv'
  <2>1. End' = After(holding)
    BY <1>2 DEF End, After
  <2>2. CASE inbound = <<>>
    BY <1>2, <2>1, <2>2 DEF NodeInv, ChainInv, End, After
  <2>3. CASE inbound # <<>>
    <3>1. inbound'[1] = inbound[1]
      BY <1>2, <1>3, <2>3
    <3>2. \A i \in 1 .. Len(inbound') : After(inbound'[i]) <= Len(dests) + 1
      <4>1. After(holding) = Len(dests) + 1 /\ Len(dests) \in Nat
        BY DEF NodeInv, TypeOK, ChainInv
      <4>2. \A i \in 1 .. Len(inbound) : After(inbound[i]) <= Len(dests) + 1
        BY DEF NodeInv, ChainInv
      <4> QED BY <1>2, <1>3, <4>1, <4>2 DEF After
    <3>3. ASSUME NEW i \in 1 .. Len(inbound') - 1
          PROVE  inbound'[i + 1].first = After(inbound'[i])
      <4>1. CASE i = Len(inbound)
        BY <4>1, <1>2, <1>3, <2>3 DEF NodeInv, ChainInv, End, After
      <4>2. CASE i \in 1 .. Len(inbound) - 1
        BY <4>2, <1>2, <1>3 DEF NodeInv, ChainInv, After
      <4> QED BY <4>1, <4>2, <1>2, <1>3
    <3> QED BY <1>2, <2>1, <2>3, <3>1, <3>2, <3>3 DEF NodeInv, ChainInv, After
  <2> QED BY <2>2, <2>3
<1>8. PastInv' /\ InOrder' /\ NothingMissing'
  BY PastStutters DEF NodeInv
<1> QED BY <1>1, <1>4, <1>5, <1>6, <1>7, <1>8 DEF NodeInv, StartInv

\* The forwarder takes a packet out of the channel.
LEMMA HandleInboundKeeps ==
  ASSUME NodeInv, HandleInbound
  PROVE  NodeInv'
<1> DEFINE packet == Head(inbound)
<1> USE DEF HandleInbound, fwdVars, edgeVars
<1>1. StartInv' /\ UNCHANGED <<forwarderMaps, peer_crypto_map, probing>>
  <2>1. UNCHANGED startVars \/ GoTo("failed")
    BY DEF HandlePong, HandleData, HandleBad, Panic
  <2>2. StartInv
    BY DEF NodeInv, TypeOK, StartInv
  <2> QED BY <2>1, <2>2, TasksRun
<1>2. /\ inbound \in Seq(Packet) /\ inbound # <<>> /\ Len(inbound) \in Nat \ {0}
      /\ inbound' \in Seq(Packet) /\ Len(inbound') = Len(inbound) - 1
      /\ \A i \in 1 .. Len(inbound') : inbound'[i] = inbound[i + 1]
      /\ inbound' = <<>> <=> Len(inbound) = 1
      /\ packet = inbound[1] /\ packet \in Packet
  <2>1. inbound \in Seq(Packet) /\ inbound # <<>> /\ inbound' = Tail(inbound)
    BY DEF NodeInv, TypeOK
  <2> QED BY <2>1, TailIs
<1>3. packet = inbound[1] /\ packet \in Packet
  BY <1>2
<1>4. /\ packet.first = last + 1 /\ next = last + 1 /\ last \in Nat
      /\ After(packet) <= Len(dests) + 1
      /\ packet.peer \in fec_receivers
      /\ packet.kind # "data" => packet.count = 0
  BY <1>2, <1>3 DEF NodeInv, TypeOK, ChainInv, FecEverywhere, CarriesInv
<1>5. packet.count \in Nat /\ packet.peer \in Peers
  BY <1>3 DEF Packet
<1>6. /\ next' = next
      /\ last' = last + packet.count
      /\ IF fwd' = "route" THEN next <= last' ELSE next = last' + 1
      /\ fwd' \in {"drain", "route"}
      /\ routes' \in {routes, routes \cup (probing \cap {packet.peer})}
  <2>1. CASE packet.kind = "other" /\ fwd' = "drain" /\ UNCHANGED <<next, last, routes>>
    BY <2>1, <1>4, <1>5
  <2>4. CASE packet.kind = "bad" /\ HandleBad(packet)
    BY <2>4, <1>4, <1>5 DEF HandleBad
  <2>2. CASE packet.kind = "pong" /\ HandlePong(packet.peer)
    BY <2>2, <1>4, <1>5 DEF HandlePong
  <2>3. CASE packet.kind = "data" /\ HandleData(packet)
    BY <2>3, <1>4, <1>5 DEF HandleData
  <2> QED BY <2>1, <2>2, <2>3, <2>4
<1> HIDE DEF packet
<1>7. TypeOK'
  <2>1. Len(inbound') <= InboundCap
    BY <1>2, NodeAssumption DEF NodeInv, TypeOK
  <2>2. last' \in Nat
    BY <1>4, <1>5, <1>6
  <2>3. routes' \subseteq Peers
    BY <1>5, <1>6 DEF NodeInv, TypeOK
  <2> QED BY <1>1, <1>2, <1>6, <2>1, <2>2, <2>3 DEF NodeInv, TypeOK, StartInv
<1>8. FecEverywhere'
  BY <1>1, <1>2, <1>5, <1>6 DEF NodeInv, FecEverywhere, KnownInv
<1>9. CarriesInv'
  BY <1>2 DEF NodeInv, CarriesInv
<1>10. ChainInv'
  <2>1. last' + 1 = After(packet) /\ last' <= Len(dests)
    <3>1. dests \in Seq(Peers \cup {Self}) /\ Len(dests) \in Nat
      BY DEF NodeInv, TypeOK
    <3>2. last' + 1 = After(packet)
      BY <1>4, <1>5, <1>6 DEF After
    <3>3. last' \in Nat
      BY <1>4, <1>5, <1>6
    <3> HIDE DEF HandleInbound
    <3> QED BY <1>4, <3>1, <3>2, <3>3
  <2>2. inbound' # <<>> => inbound'[1].first = After(packet)
    BY <1>2, <1>3 DEF NodeInv, ChainInv
  <2>3. \A i \in 1 .. Len(inbound') : After(inbound'[i]) <= Len(dests) + 1
    BY <1>2 DEF NodeInv, ChainInv, After
  <2>4. \A i \in 1 .. Len(inbound') - 1 : inbound'[i + 1].first = After(inbound'[i])
    BY <1>2 DEF NodeInv, ChainInv, After
  <2>5. End' = End
    BY <1>2, <1>3, <2>1 DEF End, After
  <2>6. UNCHANGED <<holding, dests>>
    OBVIOUS
  <2> HIDE DEF HandleInbound
  <2> QED BY <1>6, <2>1, <2>2, <2>3, <2>4, <2>5, <2>6 DEF NodeInv, ChainInv, After
<1>11. PastInv' /\ InOrder' /\ NothingMissing'
  BY <1>6, PastStutters DEF NodeInv
<1> QED BY <1>1, <1>7, <1>8, <1>9, <1>10, <1>11 DEF NodeInv, StartInv

\* The payload in hand is routed, to this node or to another one.
LEMMA NextPayloadKeeps ==
  ASSUME NodeInv, fwd = "route", NextPayload,
         UNCHANGED <<holding, inbound, dests>>
  PROVE  /\ ChainInv' /\ CarriesInv'
         /\ next' = next + 1 /\ UNCHANGED last /\ fwd' \in {"drain", "route"}
         /\ next \in 1 .. Len(dests)
<1>1. /\ next \in Nat \ {0} /\ last \in Nat /\ next <= last /\ last <= Len(dests)
      /\ Len(dests) \in Nat
  BY DEF NodeInv, TypeOK, ChainInv
<1>2. /\ next' = next + 1 /\ UNCHANGED last /\ fwd' \in {"drain", "route"}
      /\ IF fwd' = "route" THEN next' <= last' ELSE next' = last' + 1
  BY <1>1 DEF NextPayload
<1>3. ChainInv' /\ CarriesInv'
  BY <1>2 DEF NodeInv, ChainInv, CarriesInv, End, After
<1> QED BY <1>1, <1>2, <1>3

\* route_data for this node.
LEMMA RouteLocalKeeps ==
  ASSUME NodeInv, RouteLocal
  PROVE  NodeInv'
<1> USE DEF RouteLocal, Running, edgeVars
<1>1. StartInv' /\ UNCHANGED <<forwarderMaps, peer_crypto_map, probing>>
  BY TasksRun DEF NodeInv, TypeOK, StartInv
<1>2. /\ ChainInv' /\ CarriesInv'
      /\ next' = next + 1 /\ UNCHANGED last /\ fwd' \in {"drain", "route"}
      /\ next \in 1 .. Len(dests)
  BY NextPayloadKeeps
<1>3. next \in Nat \ {0} /\ local \in Seq(Nat \ {0})
  BY DEF NodeInv, TypeOK
<1>4. TypeOK'
  BY <1>1, <1>2, <1>3, NodeAssumption DEF NodeInv, TypeOK, StartInv
<1>5. FecEverywhere'
  BY <1>1, FecStutters DEF NodeInv, MapsGrow, OnlyTunnelsFill
<1>6. Elements(local') = Elements(local) \cup {next} /\ Elements(delivered') = Elements(delivered)
  BY <1>3, ElementsAppend
<1>7. \A n \in Elements(delivered) \cup lost \cup Elements(local) : n \in Nat /\ n < next
  BY Numbers DEF NodeInv, PastInv
<1>8. PastInv'
  BY <1>2, <1>3, <1>6, <1>7 DEF PastInv
<1>9. InOrder'
  <2>1. local \in Seq(Nat) /\ Increasing(local)
    BY <1>3 DEF NodeInv, InOrder
  <2>2. Increasing(local')
    BY <2>1, <1>3, <1>7, IncreasingAppend
  <2>3. Increasing(delivered')
    BY DEF NodeInv, InOrder
  <2>4. \A m \in Elements(delivered) \cup lost, n \in Elements(local') : m < n
    BY <1>6, <1>7 DEF NodeInv, InOrder
  <2> QED BY <2>2, <2>3, <2>4, <1>6 DEF InOrder
<1>10. NothingMissing'
  <2>1. \A n \in 1 .. next' - 1 : n = next \/ n \in 1 .. next - 1
    BY <1>2, <1>3
  <2>2. dests[next] = Self
    OBVIOUS
  <2> HIDE DEF RouteLocal
  <2>3. UNCHANGED <<dests, lost, delivered>>
    BY DEF RouteLocal
  <2> QED BY <1>6, <2>1, <2>2, <2>3, <1>3, <1>7 DEF NodeInv, NothingMissing
<1> QED BY <1>1, <1>2, <1>4, <1>5, <1>8, <1>9, <1>10 DEF NodeInv, StartInv

\* FecSender::submit and forward_to, by what they change.
LEMMA ForwardToKeeps ==
  ASSUME TypeOK, NEW d, ForwardTo(d)
  PROVE  /\ buffer' \in [Peers -> 0 .. DataShards - 1]
         /\ OnlyTunnelsFill
         /\ UNCHANGED startVars \/ GoTo("failed")
<1> USE DEF OnlyTunnelsFill
<1>1. CASE d \in routes \cap tunnels \cap fec_senders
  <2>1. d \in Peers /\ buffer \in [Peers -> 0 .. DataShards - 1] /\ DataShards \in Nat \ {0}
    BY <1>1, NodeAssumption DEF TypeOK
  <2>2. buffer[d] \in 0 .. DataShards - 1
    BY <2>1
  <2>3. CASE buffer[d] + 1 < DataShards
    <3>1. buffer' = [buffer EXCEPT ![d] = @ + 1] /\ UNCHANGED startVars
      BY <1>1, <2>3 DEF ForwardTo, Submit
    <3>2. buffer[d] + 1 \in 0 .. DataShards - 1
      BY <2>1, <2>2, <2>3
    <3>3. buffer' \in [Peers -> 0 .. DataShards - 1]
      BY <2>1, <3>1, <3>2
    <3>4. d \in tunnels /\ \A p \in Peers : p = d \/ buffer'[p] = buffer[p]
      BY <1>1, <2>1, <3>1
    <3>5. OnlyTunnelsFill
      BY <3>4
    <3> QED BY <3>1, <3>3, <3>5
  <2>4. CASE ~(buffer[d] + 1 < DataShards)
    <3>1. /\ buffer' = [buffer EXCEPT ![d] = 0]
          /\ UNCHANGED startVars \/ GoTo("failed")
      BY <1>1, <2>4 DEF ForwardTo, Submit, Panic
    <3>2. 0 \in 0 .. DataShards - 1
      BY <2>1
    <3>3. buffer' \in [Peers -> 0 .. DataShards - 1]
      BY <2>1, <3>1, <3>2
    <3>4. d \in tunnels /\ \A p \in Peers : p = d \/ buffer'[p] = buffer[p]
      BY <1>1, <2>1, <3>1
    <3>5. OnlyTunnelsFill
      BY <3>4
    <3> QED BY <3>1, <3>3, <3>5
  <2> QED BY <2>3, <2>4
<1>2. CASE d \notin routes \cap tunnels \cap fec_senders
  BY <1>2 DEF ForwardTo, TypeOK
<1> QED BY <1>1, <1>2

\* route_data for another node.
LEMMA RouteOnKeeps ==
  ASSUME NodeInv, RouteOn
  PROVE  NodeInv'
<1> USE DEF RouteOn, edgeVars
<1>1. /\ buffer' \in [Peers -> 0 .. DataShards - 1]
      /\ OnlyTunnelsFill
      /\ StartInv' /\ UNCHANGED <<forwarderMaps, peer_crypto_map, probing>>
  <2>1. TypeOK /\ StartInv
    BY DEF NodeInv, TypeOK, StartInv
  <2> QED BY <2>1, ForwardToKeeps, TasksRun
<1>2. /\ ChainInv' /\ CarriesInv'
      /\ next' = next + 1 /\ UNCHANGED last /\ fwd' \in {"drain", "route"}
      /\ next \in 1 .. Len(dests)
  BY NextPayloadKeeps
<1>3. UNCHANGED <<dests, local, delivered, lost>> /\ dests[next] # Self
  OBVIOUS
<1>4. TypeOK'
  BY <1>1, <1>2 DEF NodeInv, TypeOK, StartInv
<1>5. FecEverywhere'
  BY <1>1, FecStutters DEF NodeInv, MapsGrow
<1> HIDE DEF RouteOn
<1>6. \A n \in Elements(delivered) \cup lost \cup Elements(local) : n \in Nat /\ n < next
  BY Numbers DEF NodeInv, PastInv
<1>7. Elements(local') = Elements(local) /\ Elements(delivered') = Elements(delivered)
  BY <1>3
<1>8. next \in Nat \ {0}
  BY DEF NodeInv, TypeOK
<1>9. PastInv'
  BY <1>2, <1>3, <1>6, <1>7, <1>8 DEF PastInv
<1>10. InOrder'
  BY <1>3, <1>7 DEF NodeInv, InOrder
<1>11. NothingMissing'
  <2>1. \A n \in 1 .. next' - 1 : n = next \/ n \in 1 .. next - 1
    BY <1>2, <1>8
  <2>2. next \notin Elements(delivered) \cup lost \cup Elements(local)
    BY <1>6, <1>8
  <2> QED BY <1>3, <1>7, <2>1, <2>2 DEF NodeInv, NothingMissing
<1> QED BY <1>1, <1>2, <1>4, <1>5, <1>9, <1>10, <1>11 DEF NodeInv, StartInv

\* The forwarder moves between its loops, or a sender is flushed or filled, or a
\* client reads: no payload on its way to a client is touched.
LEMMA QuietKeeps ==
  ASSUME NodeInv,
         UNCHANGED startVars \/ GoTo("failed"),
         UNCHANGED <<holding, inbound, dests, next, last, routes, local, delivered, lost>>,
         fwd' = fwd \/ (fwd \in {"drain", "select", "flush"} /\ fwd' \in {"select", "flush"}),
         flushing' \subseteq flushing \cup fec_senders,
         buffer' \in [Peers -> 0 .. DataShards - 1],
         OnlyTunnelsFill,
         client' \in 0 .. ClientCap
  PROVE  NodeInv'
<1>1. StartInv' /\ UNCHANGED <<forwarderMaps, peer_crypto_map, probing>>
  BY TasksRun DEF NodeInv, TypeOK, StartInv
<1>2. TypeOK'
  <2>1. flushing' \subseteq Peers
    BY DEF NodeInv, TypeOK, StartTypeOK
  <2> QED BY <1>1, <2>1 DEF NodeInv, TypeOK, StartInv
<1>3. FecEverywhere'
  BY <1>1, FecStutters DEF NodeInv, MapsGrow
<1>4. ChainInv' /\ CarriesInv'
  BY ChainStutters DEF NodeInv
<1>5. PastInv' /\ InOrder' /\ NothingMissing'
  BY PastStutters DEF NodeInv
<1> QED BY <1>1, <1>2, <1>3, <1>4, <1>5 DEF NodeInv, StartInv

\* The forwarder leaves its drain loop, or starts or ends a flush.
LEMMA LoopsKeep ==
  ASSUME NodeInv, EndDrain \/ StartFlush \/ EndFlush
  PROVE  NodeInv'
<1>1. buffer \in [Peers -> 0 .. DataShards - 1] /\ client \in 0 .. ClientCap
  BY DEF NodeInv, TypeOK
<1> QED BY <1>1, QuietKeeps DEF EndDrain, StartFlush, EndFlush, Running, edgeVars,
                                OnlyTunnelsFill

\* flush_fec visits a sender.
LEMMA FlushPeerKeeps ==
  ASSUME NodeInv, NEW p \in flushing, FlushPeer(p)
  PROVE  NodeInv'
<1>1. buffer \in [Peers -> 0 .. DataShards - 1] /\ client \in 0 .. ClientCap
  BY DEF NodeInv, TypeOK
<1>2. p \in Peers /\ 0 \in 0 .. DataShards - 1
  BY NodeAssumption DEF NodeInv, TypeOK
<1>3. buffer' \in [Peers -> 0 .. DataShards - 1] /\ OnlyTunnelsFill
  BY <1>1, <1>2 DEF FlushPeer, OnlyTunnelsFill
<1> QED BY <1>1, <1>3, QuietKeeps DEF FlushPeer, Panic, edgeVars

\* A client's read task sends.
LEMMA SendToNodeKeeps ==
  ASSUME NodeInv, SendToNode
  PROVE  NodeInv'
<1>1. TypeOK /\ client \in 0 .. ClientCap
  BY DEF NodeInv, TypeOK
<1>2. /\ buffer' \in [Peers -> 0 .. DataShards - 1] /\ OnlyTunnelsFill
      /\ UNCHANGED startVars \/ GoTo("failed")
  BY <1>1, ForwardToKeeps DEF SendToNode
<1> QED BY <1>1, <1>2, QuietKeeps DEF SendToNode, edgeVars

\* A client's write task writes.
LEMMA WriteKeeps ==
  ASSUME NodeInv, Write
  PROVE  NodeInv'
<1>1. buffer \in [Peers -> 0 .. DataShards - 1] /\ client' \in 0 .. ClientCap
  BY NodeAssumption DEF NodeInv, TypeOK, Write
<1> QED BY <1>1, QuietKeeps DEF Write, Running, fwdVars, OnlyTunnelsFill

\* The delivery task hands on a payload, or drops it.
LEMMA DeliverKeeps ==
  ASSUME NodeInv, Deliver
  PROVE  NodeInv'
<1> DEFINE n0 == Head(local)
<1> USE DEF Deliver, Running, fwdVars
<1>1. StartInv' /\ UNCHANGED <<forwarderMaps, peer_crypto_map, probing>>
  BY TasksRun DEF NodeInv, TypeOK, StartInv
<1>2. /\ local \in Seq(Nat \ {0}) /\ local # <<>>
      /\ n0 \in Nat \ {0}
      /\ local' \in Seq(Nat \ {0}) /\ Len(local') = Len(local) - 1 /\ Len(local) \in Nat
  <2>1. local \in Seq(Nat \ {0}) /\ local # <<>> /\ local' = Tail(local)
    BY DEF NodeInv, TypeOK
  <2> QED BY <2>1, TailIs
<1>3. Elements(local) = Elements(local') \cup {n0}
  BY <1>2, ElementsTail
<1>4. /\ Increasing(local')
      /\ \A n \in Elements(local') : n0 < n
  <2>1. local \in Seq(Nat) /\ Increasing(local) /\ local # <<>>
    BY <1>2 DEF NodeInv, InOrder
  <2> QED BY <2>1, IncreasingTail
<1>5. \A m \in Elements(delivered) \cup lost : m < n0 /\ \A n \in Elements(local') : m < n
  BY <1>3 DEF NodeInv, InOrder
<1>6. UNCHANGED <<holding, inbound, dests, fwd, next, last, flushing, routes, buffer>>
  OBVIOUS
<1>7. FecEverywhere' /\ ChainInv' /\ CarriesInv'
  BY <1>1, <1>6, FecStutters, ChainStutters DEF NodeInv, MapsGrow, OnlyTunnelsFill
<1>8. /\ delivered' \in Seq(Nat \ {0})
      /\ client' \in 0 .. ClientCap
      /\ lost' \subseteq Nat \ {0}
      /\ Elements(delivered') \cup lost' = Elements(delivered) \cup lost \cup {n0}
      /\ Elements(delivered') \cap lost' = {}
      /\ Increasing(delivered')
  <2>1. delivered \in Seq(Nat \ {0}) /\ delivered \in Seq(Nat) /\ client \in 0 .. ClientCap
    BY DEF NodeInv, TypeOK
  <2>2. lost \subseteq Nat \ {0} /\ Elements(delivered) \subseteq Nat \ {0}
    BY Numbers DEF NodeInv
  <2>3. n0 \notin Elements(delivered) \cup lost
    BY <1>2, <1>5, <2>2
  <2>4. lost \cap Elements(delivered) = {} /\ Increasing(delivered)
    BY DEF NodeInv, NothingMissing, InOrder
  <2>5. CASE /\ client < ClientCap
             /\ client' = client + 1
             /\ delivered' = Append(delivered, n0)
             /\ UNCHANGED lost
    <3>1. Elements(delivered') = Elements(delivered) \cup {n0} /\ delivered' \in Seq(Nat \ {0})
      BY <1>2, <2>1, <2>5, ElementsAppend
    <3>2. Increasing(delivered')
      BY <1>2, <1>5, <2>1, <2>4, <2>5, IncreasingAppend
    <3>3. client' \in 0 .. ClientCap
      BY <2>1, <2>5, NodeAssumption
    <3> QED BY <2>2, <2>3, <2>4, <2>5, <3>1, <3>2, <3>3
  <2>6. CASE lost' = lost \cup {n0} /\ UNCHANGED <<client, delivered>>
    BY <1>2, <2>1, <2>2, <2>3, <2>4, <2>6
  <2> QED BY <2>5, <2>6
<1> HIDE DEF n0, Deliver
<1>9. TypeOK'
  <2>1. Len(local') <= LocalCap
    BY <1>2, NodeAssumption DEF NodeInv, TypeOK
  <2> QED BY <1>1, <1>2, <1>6, <1>8, <2>1 DEF NodeInv, TypeOK, StartInv
<1>10. Elements(delivered') \cup lost' \cup Elements(local')
         = Elements(delivered) \cup lost \cup Elements(local)
  BY <1>3, <1>8
<1>11. PastInv'
  BY <1>6, <1>10 DEF NodeInv, PastInv
<1>12. InOrder'
  BY <1>4, <1>5, <1>8 DEF InOrder
<1>13. NothingMissing'
  BY <1>6, <1>8, <1>10 DEF NodeInv, NothingMissing
<1> QED BY <1>1, <1>7, <1>9, <1>11, <1>12, <1>13 DEF NodeInv, StartInv

\* Every step keeps the invariant.
LEMMA NextKeeps == NodeInv /\ [Next]_vars => NodeInv'
<1> SUFFICES ASSUME NodeInv, [Next]_vars PROVE NodeInv'
  OBVIOUS
<1>1. CASE Main \/ UNCHANGED vars
  BY <1>1, MainKeeps
<1>2. CASE \E f \in Frames : Recv(f)
  BY <1>2, RecvKeeps
<1>3. CASE Enqueue
  BY <1>3, EnqueueKeeps
<1>4. CASE HandleInbound
  BY <1>4, HandleInboundKeeps
<1>5. CASE EndDrain \/ StartFlush \/ EndFlush
  BY <1>5, LoopsKeep
<1>6. CASE RouteLocal
  BY <1>6, RouteLocalKeeps
<1>7. CASE RouteOn
  BY <1>7, RouteOnKeeps
<1>8. CASE \E p \in flushing : FlushPeer(p)
  BY <1>8, FlushPeerKeeps
<1>9. CASE SendToNode
  BY <1>9, SendToNodeKeeps
<1>10. CASE Deliver
  BY <1>10, DeliverKeeps
<1>11. CASE Write
  BY <1>11, WriteKeeps
<1> QED BY <1>1, <1>2, <1>3, <1>4, <1>5, <1>6, <1>7, <1>8, <1>9, <1>10, <1>11
        DEF Next, Flush

\* The invariant holds for ever.
LEMMA Invariant == Spec => []NodeInv
BY Initially, NextKeeps, PTL DEF Spec

----------------------------------------------------------------------------
(* The results *)

\* Every variable of a node keeps its type: in particular no channel exceeds its
\* capacity, and no FEC sender ever holds as many payloads as make a block.
THEOREM TypeCorrect == Spec => []TypeOK
<1>1. NodeInv => TypeOK
  BY DEF NodeInv
<1> QED BY <1>1, Invariant, PTL

\* When run starts the receive loop, and at any time after, each configured peer
\* is probed, is in all three maps of the forwarder, and is known by its address.
THEOREM StartsComplete == Spec => []PeersComplete
<1>1. NodeInv => PeersComplete
  BY DEF NodeInv, AddedInv, SetUp, PeersComplete
<1> QED BY <1>1, Invariant, PTL

\* Packets only come from peers with a FEC receiver and are only forwarded to peers
\* with a tunnel and a FEC sender: the branches of handle_inbound and forward_to for
\* peers without FEC state, the error NoTunnel, and the branch of flush_fec without a
\* tunnel, which would drop a block, are never taken.
THEOREM FecIsThere == Spec => []FecEverywhere
<1>1. NodeInv => FecEverywhere
  BY DEF NodeInv
<1> QED BY <1>1, Invariant, PTL

\* Payloads go through the channels in the order in which they were accepted.
THEOREM Ordered == Spec => []InOrder
<1>1. NodeInv => InOrder
  BY DEF NodeInv
<1> QED BY <1>1, Invariant, PTL

\* Between the receive loop and a client's channel no payload is lost, made up or
\* sent the wrong way, however full the channels are.
THEOREM Lossless == Spec => []NothingMissing
<1>1. NodeInv => NothingMissing
  BY DEF NodeInv
<1> QED BY <1>1, Invariant, PTL
=============================================================================
