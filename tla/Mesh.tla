-------------------------------- MODULE Mesh --------------------------------
(***************************************************************************)
(* How one node measures its peers and what it can route to: the Prober    *)
(* (src/mesh/probe.rs), the LatencyMatrix (src/mesh/latency_matrix.rs), and *)
(* the PING and PONG branches of Forwarder::handle_inbound.  The routes are *)
(* those Router computes, given by their reference definition in Paths.     *)
(*                                                                         *)
(* Instead of send times the state holds ages: a tick makes everything one  *)
(* tick older, so the model runs for ever in finitely many states.          *)
(***************************************************************************)
EXTENDS Paths

CONSTANTS
  Self,        \* Prober.node_id
  Peers,       \* the configured peers, each with a tunnel and a probe_loop
  ProbeSpace,  \* number of probe ids: 2^32 in the code
  StaleAge,    \* age at which create_ping drops a pending probe: 10 s
  Interval,    \* probe_interval_ms
  MaxTrip,     \* longest time from a ping to the last copy of its pong
  Micros       \* microseconds in a tick

ASSUME MeshAssumption ==
  /\ Self \in Nodes
  /\ IsFiniteSet(Nodes)
  /\ Peers \subseteq Nodes \ {Self}
  /\ ProbeSpace \in Nat \ {0}
  /\ StaleAge \in Nat \ {0}
  /\ Interval \in Nat \ {0}
  /\ MaxTrip \in Nat
  /\ Micros \in Nat \ {0}

VARIABLES
  up,             \* the peers whose link works
  due,            \* time until the next tick of each peer's probe_loop
  next_probe_id,  \* Prober.next_probe_id
  pending,        \* Prober.pending
  net,            \* pings and pongs in flight
  updating,       \* handle_pong between its two updates of the matrix
  matrix,         \* smoothed_rtt of LatencyMatrix.entries
  jitter,         \* jitter of LatencyMatrix.entries
  samples         \* history: least and greatest RTT measured for each peer

vars == <<up, due, next_probe_id, pending, net, updating, matrix, jitter,
          samples>>

Ids   == 0 .. ProbeSpace - 1
Edges == Nodes \X Nodes

NoProbe   == [peer |-> Self, age |-> 0]   \* no entry in pending
NoUpdate  == [peer |-> Self, rtt |-> 0]   \* handle_pong is not running
NoSamples == [least |-> NoEdge, most |-> NoEdge]

----------------------------------------------------------------------------
(* The latency matrix *)

\* Seeded fault: the new sample is not scaled.
Smooth_Heavy(old, new) == (7 * old + 8 * new) \div 8

\* EWMA with alpha = 1/8, cut to whole microseconds.
Smooth(old, new) == (7 * old + new) \div 8

Distance(x, y) == IF x < y THEN y - x ELSE x - y

\* LatencyMatrix::update for edge e: the first sample is stored as it is.
Update(e, rtt) ==
  /\ matrix' = [matrix EXCEPT ![e] =
                  IF @ = NoEdge THEN rtt ELSE Smooth(@, rtt)]
  /\ jitter' = [jitter EXCEPT ![e] =
                  IF matrix[e] = NoEdge THEN 0
                  ELSE Smooth(@, Distance(rtt, matrix[e]))]

----------------------------------------------------------------------------
(* The prober *)

\* Seeded fault: the counter is read and not advanced.
NextId_Stuck(id) == id

\* Seeded fault: the counter does not wrap.
NextId_NoWrap(id) == id + 1

\* AtomicU32::fetch_add wraps around.
NextId(id) == (id + 1) % ProbeSpace

\* Seeded fault: retain keeps what it should drop.
Fresh_Inverted(probe) == probe.age >= StaleAge

\* Seeded fault: probes are never dropped.
Fresh_Always(probe) == TRUE

\* The probes that create_ping retains.
Fresh(probe) == probe.age < StaleAge

\* probe_loop: create_ping, then tunnel.send.  Whether the network will lose
\* the ping or its pong on the way is decided here.
Ping(p, lost) ==
  /\ due[p] = 0
  /\ p \in up \/ lost
  /\ due' = [due EXCEPT ![p] = Interval]
  /\ next_probe_id' = NextId(next_probe_id)
  /\ LET probes == [pending EXCEPT ![next_probe_id] = [peer |-> p, age |-> 0]]
     IN pending' = [i \in Ids |-> IF Fresh(probes[i]) THEN probes[i]
                                  ELSE NoProbe]
  /\ net' = IF lost THEN net
            ELSE net \cup {[kind |-> "ping", peer |-> p,
                            id |-> next_probe_id, age |-> 0]}
  /\ UNCHANGED <<up, updating, matrix, jitter, samples>>

\* handle_inbound for PING at the peer: create_pong echoes the payload.
Pong(m) ==
  /\ m.kind = "ping"
  /\ net' = (net \ {m}) \cup {[m EXCEPT !.kind = "pong"]}
  /\ UNCHANGED <<up, due, next_probe_id, pending, updating, matrix, jitter,
                 samples>>

\* The range of the samples of one peer after one more.
Widen(range, rtt) ==
  IF range = NoSamples THEN [least |-> rtt, most |-> rtt]
  ELSE [least |-> Min({range.least, rtt}), most |-> Max({range.most, rtt})]

\* handle_inbound for PONG: handle_pong takes the probe out of pending and
\* updates the first direction, or finds no probe and does nothing.  The
\* network may deliver the pong again (keep).
HandlePong(m, keep) ==
  /\ m.kind = "pong"
  /\ updating = NoUpdate
  /\ net' = IF keep THEN net ELSE net \ {m}
  /\ LET probe == pending[m.id]
         rtt   == probe.age * Micros
     IN \/ /\ probe = NoProbe
           /\ UNCHANGED <<pending, updating, matrix, jitter, samples>>
        \/ /\ probe # NoProbe
           /\ pending' = [pending EXCEPT ![m.id] = NoProbe]
           /\ Update(<<Self, probe.peer>>, rtt)
           /\ updating' = [peer |-> probe.peer, rtt |-> rtt]
           /\ samples' = [samples EXCEPT ![probe.peer] = Widen(@, rtt)]
  /\ UNCHANGED <<up, due, next_probe_id>>

\* Seeded fault: the second update has the key of the first.
UpdateBack_SameKey ==
  /\ updating # NoUpdate
  /\ Update(<<Self, updating.peer>>, updating.rtt)
  /\ updating' = NoUpdate
  /\ UNCHANGED <<up, due, next_probe_id, pending, net, samples>>

\* handle_pong updates the second direction.
UpdateBack ==
  /\ updating # NoUpdate
  /\ Update(<<updating.peer, Self>>, updating.rtt)
  /\ updating' = NoUpdate
  /\ UNCHANGED <<up, due, next_probe_id, pending, net, samples>>

----------------------------------------------------------------------------
(* The network and the clock *)

\* The link to a peer breaks for good.
Break(p) ==
  /\ up' = up \ {p}
  /\ UNCHANGED <<due, next_probe_id, pending, net, updating, matrix, jitter,
                 samples>>

Older(x) == [x EXCEPT !.age = @ + 1]

\* Time passes, not past a probe that is due nor past the life of a datagram.
Tick ==
  /\ \A p \in Peers : due[p] > 0
  /\ \A m \in net : m.age < MaxTrip
  /\ due' = [p \in Peers |-> due[p] - 1]
  /\ net' = {Older(m) : m \in net}
  /\ pending' = [i \in Ids |-> IF pending[i] = NoProbe THEN NoProbe
                               ELSE Older(pending[i])]
  /\ UNCHANGED <<up, next_probe_id, updating, matrix, jitter, samples>>

Init ==
  /\ up = Peers
  /\ due = [p \in Peers |-> 0]
  /\ next_probe_id = 1 % ProbeSpace
  /\ pending = [i \in Ids |-> NoProbe]
  /\ net = {}
  /\ updating = NoUpdate
  /\ matrix = [e \in Edges |-> NoEdge]
  /\ jitter = [e \in Edges |-> 0]
  /\ samples = [p \in Peers |-> NoSamples]

Answered(p) == \E m \in net : m.peer = p /\ Pong(m)
Measured(p) ==
  \E m \in net, keep \in BOOLEAN : m.peer = p /\ HandlePong(m, keep)

Next ==
  \/ \E p \in Peers, lost \in BOOLEAN : Ping(p, lost)
  \/ \E p \in Peers : Answered(p) \/ Measured(p)
  \/ UpdateBack
  \/ \E p \in up : Break(p)
  \/ Tick

Spec == Init /\ [][Next]_vars

\* The tickers run, time passes and what is not lost arrives; a link that works
\* does not lose every probe.
Fairness ==
  /\ WF_vars(Tick)
  /\ WF_vars(UpdateBack)
  /\ \A p \in Peers :
       /\ WF_vars(\E lost \in BOOLEAN : Ping(p, lost))
       /\ SF_vars(Ping(p, FALSE))
       /\ WF_vars(Answered(p))
       /\ SF_vars(Measured(p))

FairSpec == Spec /\ Fairness

----------------------------------------------------------------------------
(* What has to hold *)

Message == [kind : {"ping", "pong"}, peer : Peers, id : Ids, age : 0 .. MaxTrip]

\* Every variable has its type; the probe id stays within its 32 bits.
TypeOK ==
  /\ up \subseteq Peers
  /\ due \in [Peers -> 0 .. Interval]
  /\ next_probe_id \in Ids
  /\ pending \in [Ids -> [peer : Peers \cup {Self}, age : Nat]]
  /\ net \subseteq Message
  /\ updating \in [peer : Peers \cup {Self}, rtt : Nat]
  /\ matrix \in Matrix(Nat)
  /\ jitter \in [Edges -> Nat]
  /\ samples \in [Peers -> [least : Nat \cup {NoEdge}, most : Nat \cup {NoEdge}]]

\* There are enough probe ids: while a ping or its pong is under way no peer
\* sends more than one probe per interval, so the ids do not come round.
IdsSuffice == Cardinality(Peers) * (MaxTrip \div Interval + 1) <= ProbeSpace

\* A ping or pong under way finds in pending the probe it belongs to or none:
\* a late or repeated pong is never taken for the answer to a younger probe of
\* the same or another peer, although handle_pong ignores who answers.
PongsMatch ==
  \A m \in net : pending[m.id] # NoProbe =>
                   pending[m.id] = [peer |-> m.peer, age |-> m.age]

\* Probes that are never answered do not pile up in Prober.pending, which is
\* cleaned by create_ping only: none is older than the stale age and one probe
\* interval.
ProbesAgeOut == \A i \in Ids : pending[i].age < StaleAge + Interval

\* Whenever handle_pong is not between its two updates the matrix holds the
\* same values for both directions of each link.
Symmetric ==
  updating = NoUpdate =>
    \A x, y \in Nodes : /\ matrix[<<x, y>>] = matrix[<<y, x>>]
                        /\ jitter[<<x, y>>] = jitter[<<y, x>>]

\* Smoothing never leaves the range of what was measured: the smoothed RTT of
\* a peer lies between its least and its greatest sample and the jitter does
\* not exceed their difference, in spite of the truncation at every update.
WithinSamples ==
  \A p \in Peers : LET e == <<Self, p>> IN
    matrix[e] # NoEdge =>
      /\ matrix[e] \in samples[p].least .. samples[p].most
      /\ jitter[e] \in 0 .. samples[p].most - samples[p].least

\* A peer whose link keeps working gets a route.
PeersBecomeRoutable ==
  \A p \in Peers : []<>(p \notin up \/ FirstHops(matrix, Self, p) # {})

\* Once the link to a peer that was measured is broken for good while another
\* one works, traffic for the peer goes over links that work: the router
\* "re-routes on degradation" (router.rs), through another PoP, as the matrix has
\* the "RTT between all node pairs" (latency_matrix.rs).
ReroutesOnDegradation ==
  \A p, q \in Peers :
    p # q => (<>[](samples[p] # NoSamples /\ p \notin up /\ q \in up)
                => []<>(/\ FirstHops(matrix, Self, p) # {}
                        /\ FirstHops(matrix, Self, p) \subseteq up))
=============================================================================
