------------------------------ MODULE Startup ------------------------------
(***************************************************************************)
(* How a node starts: Config::load and validate (src/config.rs), run        *)
(* (src/main.rs) and Forwarder::add_tunnel (src/relay/forwarder.rs).  run   *)
(* is one thread; the tasks it spawns go on while it continues, and it ends *)
(* the process when a step of its own fails.  The release build aborts on a *)
(* panic in any task (Cargo.toml), which ends the process as well.  Node    *)
(* builds on this module.                                                   *)
(***************************************************************************)
EXTENDS Integers, Sequences, FiniteSets

CONSTANTS
  Configs,  \* the configurations a file may hold
  Peers,    \* names of nodes other than this one
  Addrs,    \* addresses
  NoPeer    \* an address without an entry in peer_crypto_map

\* A shared key, by what is looked at: is it base64, and of how many bytes?
Key == [base64 : BOOLEAN, len : Nat]

\* A configuration: is there a node_id; the peers; which TLS paths are given;
\* does Reed-Solomon accept the shard counts; is probe_interval_ms positive.
Config == [named : BOOLEAN,
           peers : Seq([node_id : Peers, addr : Addrs, shared_key : Key]),
           tls : SUBSET {"cert", "key"},
           fec : BOOLEAN,
           interval : BOOLEAN]

ASSUME StartupAssumption ==
  /\ Configs \subseteq Config
  /\ NoPeer \notin Peers

VARIABLES
  config,           \* the configuration of this node
  main,             \* what run does next
  added,            \* how many peers it has set up
  tunnels,          \* Forwarder.tunnels: the names
  fec_senders,      \* Forwarder.fec_senders: the names
  fec_receivers,    \* Forwarder.fec_receivers: the names
  peer_crypto_map,  \* the peer at each address
  probing           \* the peers whose probe_loop was started

forwarderMaps == <<tunnels, fec_senders, fec_receivers>>
startVars == <<config, main, added, forwarderMaps, peer_crypto_map, probing>>

\* What is running, by how far run has come.
ReceiveLoopRuns  == main \in {"forwarder", "tcp", "quic", "delivery", "admin", "ready"}
ForwarderRuns    == main \in {"tcp", "quic", "delivery", "admin", "ready"}
TcpEdgeRuns      == main \in {"quic", "delivery", "admin", "ready"}
DeliveryTaskRuns == main \in {"admin", "ready"}
Ended            == main \in {"failed", "stopped"}

\* The check of a key in validate.
ValidKey(key) == key.base64 /\ key.len = 32

\* PeerConfig::decode_key, which decodes the key once more.
DecodeKey(key) == key.base64 /\ key.len = 32

\* Config::validate
Validate(c) ==
  /\ c.named
  /\ c.peers # <<>>
  /\ \A i \in 1 .. Len(c.peers) : ValidKey(c.peers[i].shared_key)
  /\ c.tls \in {{}, {"cert", "key"}}

\* run goes on to step m.
GoTo(m) ==
  /\ main' = m
  /\ UNCHANGED <<config, added, forwarderMaps, peer_crypto_map, probing>>

\* Config::load fails if the file cannot be read or parsed, or is not valid.
Load ==
  /\ main = "load"
  /\ GoTo("failed") \/ (Validate(config) /\ GoTo("udp"))

BindUdp == main = "udp" /\ (GoTo("failed") \/ GoTo("peers"))

\* Seeded fault: the FEC receiver is left out.
AddTunnel_NoReceiver(name) ==
  /\ fec_senders' = fec_senders \cup {name}
  /\ tunnels' = tunnels \cup {name}
  /\ UNCHANGED fec_receivers

\* Forwarder::add_tunnel: the FEC state unless it is there, and the tunnel.
AddTunnel(name) ==
  /\ fec_senders' = fec_senders \cup {name}
  /\ fec_receivers' = fec_receivers \cup {name}
  /\ tunnels' = tunnels \cup {name}

\* One turn of the loop over the peers: decode_key, add_tunnel, the entry for
\* the receive loop, and a probe_loop.
AddPeer ==
  /\ main = "peers"
  /\ added < Len(config.peers)
  /\ LET peer == config.peers[added + 1]
     IN \/ /\ ~DecodeKey(peer.shared_key)
           /\ GoTo("failed")
        \/ /\ DecodeKey(peer.shared_key)
           /\ AddTunnel(peer.node_id)
           /\ peer_crypto_map' = [peer_crypto_map EXCEPT ![peer.addr] = peer.node_id]
           /\ probing' = probing \cup {peer.node_id}
           /\ added' = added + 1
           /\ UNCHANGED <<config, main>>

\* A probe_loop panics at its start if the interval is zero.
ProbePanics ==
  /\ probing # {} /\ ~config.interval
  /\ ~Ended
  /\ GoTo("failed")

\* Seeded fault: the receive loop is started before the peers are set up.
PeersDone_Early == main = "peers"

PeersDone == main = "peers" /\ added = Len(config.peers)

StartReceiveLoop == PeersDone /\ GoTo("forwarder")
StartForwarder == main = "forwarder" /\ GoTo("tcp")

\* The TCP listener, and the TLS files if there are any.
BindTcp == main = "tcp" /\ (GoTo("failed") \/ GoTo("quic"))

BindQuic == main = "quic" /\ (GoTo("failed") \/ GoTo("delivery"))
StartDelivery == main = "delivery" /\ GoTo("admin")
BindAdmin == main = "admin" /\ (GoTo("failed") \/ GoTo("ready"))

\* ctrl_c: run returns, and its tasks end with it.
CtrlC == main = "ready" /\ GoTo("stopped")

StartInit ==
  /\ config \in Configs
  /\ main = "load"
  /\ added = 0
  /\ tunnels = {}
  /\ fec_senders = {}
  /\ fec_receivers = {}
  /\ peer_crypto_map = [a \in Addrs |-> NoPeer]
  /\ probing = {}

StartStep ==
  \/ Load \/ BindUdp \/ AddPeer \/ ProbePanics
  \/ StartReceiveLoop \/ StartForwarder
  \/ BindTcp \/ BindQuic \/ StartDelivery \/ BindAdmin

----------------------------------------------------------------------------
(* What has to hold *)

StartTypeOK ==
  /\ config \in Configs
  /\ main \in {"load", "udp", "peers", "forwarder", "tcp", "quic", "delivery",
               "admin", "ready", "failed", "stopped"}
  /\ added \in 0 .. Len(config.peers)
  /\ tunnels \subseteq Peers
  /\ fec_senders \subseteq Peers
  /\ fec_receivers \subseteq Peers
  /\ peer_crypto_map \in [Addrs -> Peers \cup {NoPeer}]
  /\ probing \subseteq Peers

\* No two peers share an address.
DistinctAddrs ==
  \A i, j \in 1 .. Len(config.peers) :
    config.peers[i].addr = config.peers[j].addr => i = j

\* Before a frame can be received, each configured peer is probed, is in all
\* three maps of the forwarder, and frames from its address are booked to it (the
\* last of the peers that share an address wins: validate lets that pass).
PeersComplete ==
  ReceiveLoopRuns =>
    \A i \in 1 .. Len(config.peers) :
      LET peer == config.peers[i]
      IN /\ peer.node_id \in probing
         /\ peer.node_id \in tunnels \cap fec_senders \cap fec_receivers
         /\ DistinctAddrs => peer_crypto_map[peer.addr] = peer.node_id
=============================================================================
