----------------------------- MODULE MeshProofs -----------------------------
(***************************************************************************)
(* Proofs about Mesh for every set of nodes and peers, every number of     *)
(* probe ids and all intervals and ages.                                   *)
(***************************************************************************)
EXTENDS Mesh, FiniteSetTheorems, TLAPS

----------------------------------------------------------------------------
(* Facts about the operators *)

\* A smoothed value is a natural number that lies between any bounds on the
\* old value and the sample: the truncation never leaves the range.
LEMMA SmoothBetween ==
  ASSUME NEW old \in Nat, NEW new \in Nat
  PROVE  /\ Smooth(old, new) \in Nat
         /\ \A lo \in Nat : lo <= old /\ lo <= new => lo <= Smooth(old, new)
         /\ \A hi \in Nat : old <= hi /\ new <= hi => Smooth(old, new) <= hi
BY DEF Smooth

\* The distance of two numbers is at most the width of a range around them.
LEMMA DistanceWithin ==
  ASSUME NEW x \in Nat, NEW y \in Nat
  PROVE  /\ Distance(x, y) \in Nat
         /\ \A lo, hi \in Nat :
              lo <= x /\ lo <= y /\ x <= hi /\ y <= hi => Distance(x, y) <= hi - lo
BY DEF Distance

\* Min and Max of two numbers.
LEMMA MinMaxOfTwo ==
  ASSUME NEW x \in Int, NEW y \in Int
  PROVE  /\ Min({x, y}) = IF x <= y THEN x ELSE y
         /\ Max({x, y}) = IF x <= y THEN y ELSE x
<1>1. /\ (IF x <= y THEN x ELSE y) \in {x, y}
      /\ \A w \in {x, y} : (IF x <= y THEN x ELSE y) <= w
  OBVIOUS
<1>2. /\ (IF x <= y THEN y ELSE x) \in {x, y}
      /\ \A w \in {x, y} : (IF x <= y THEN y ELSE x) >= w
  OBVIOUS
<1>3. /\ Min({x, y}) \in {x, y}
      /\ \A w \in {x, y} : Min({x, y}) <= w
  BY <1>1 DEF Min
<1>4. /\ Max({x, y}) \in {x, y}
      /\ \A w \in {x, y} : Max({x, y}) >= w
  BY <1>2 DEF Max
<1> QED
  BY <1>3, <1>4

\* The first or a later sample widens the range of a peer to include it.
LEMMA WidenFacts ==
  ASSUME NEW range, NEW rtt \in Nat,
         range # NoSamples => /\ range \in [least : Nat, most : Nat]
                              /\ range.least <= range.most
  PROVE  LET wide == Widen(range, rtt) IN
         /\ wide \in [least : Nat, most : Nat]
         /\ wide # NoSamples
         /\ wide.least <= rtt /\ rtt <= wide.most
         /\ range # NoSamples => /\ wide.least <= range.least
                                 /\ range.most <= wide.most
<1>1. CASE range = NoSamples
  BY <1>1 DEF Widen, NoSamples, NoEdge
<1>2. CASE range # NoSamples
  <2>1. range.least \in Nat /\ range.most \in Nat
    BY <1>2
  <2>2. /\ Min({range.least, rtt}) = IF range.least <= rtt THEN range.least ELSE rtt
        /\ Max({range.most, rtt}) = IF range.most <= rtt THEN rtt ELSE range.most
    BY <2>1, MinMaxOfTwo
  <2> QED
    BY <1>2, <2>1, <2>2 DEF Widen, NoSamples, NoEdge
<1> QED
  BY <1>1, <1>2

----------------------------------------------------------------------------
(* Types *)

\* What the samples of a peer can be.
RangeOK ==
  \A p \in Peers : samples[p] # NoSamples =>
    /\ samples[p] \in [least : Nat, most : Nat]
    /\ samples[p].least <= samples[p].most

\* The type invariant and the range of the samples.
Typed == TypeOK /\ RangeOK

\* Initially every variable has its type.
LEMMA TypedInit == Init => Typed
<1> SUFFICES ASSUME Init PROVE Typed
  OBVIOUS
<1>1. next_probe_id \in Ids
  BY MeshAssumption DEF Init, Ids
<1>2. pending \in [Ids -> [peer : Peers \cup {Self}, age : Nat]]
  BY MeshAssumption DEF Init, NoProbe
<1>3. due \in [Peers -> 0 .. Interval]
  BY MeshAssumption DEF Init
<1>4. matrix \in Matrix(Nat) /\ jitter \in [Edges -> Nat]
  BY DEF Init, Matrix, Edges
<1>5. /\ samples \in [Peers -> [least : Nat \cup {NoEdge}, most : Nat \cup {NoEdge}]]
      /\ RangeOK
  BY DEF Init, NoSamples, RangeOK
<1> QED
  BY <1>1, <1>2, <1>3, <1>4, <1>5 DEF Typed, TypeOK, Init, NoUpdate

\* LatencyMatrix::update keeps the types of the matrix.
LEMMA UpdateTyped ==
  ASSUME matrix \in Matrix(Nat), jitter \in [Edges -> Nat],
         NEW e \in Edges, NEW rtt \in Nat, Update(e, rtt)
  PROVE  matrix' \in Matrix(Nat) /\ jitter' \in [Edges -> Nat]
<1>1. matrix \in [Edges -> Nat \cup {NoEdge}]
  BY DEF Matrix, Edges
<1>2. (IF matrix[e] = NoEdge THEN rtt ELSE Smooth(matrix[e], rtt)) \in Nat
  BY <1>1, SmoothBetween
<1>3. (IF matrix[e] = NoEdge THEN 0
       ELSE Smooth(jitter[e], Distance(rtt, matrix[e]))) \in Nat
  BY <1>1, SmoothBetween, DistanceWithin
<1>4. matrix' \in [Edges -> Nat \cup {NoEdge}]
  BY <1>1, <1>2 DEF Update
<1>5. jitter' \in [Edges -> Nat]
  BY <1>3 DEF Update
<1> QED
  BY <1>4, <1>5 DEF Matrix, Edges

\* Every step keeps the types.
LEMMA TypedNext ==
  ASSUME Typed, [Next]_vars
  PROVE  Typed'
<1> USE MeshAssumption
<1>1. ASSUME NEW p \in Peers, NEW lost \in BOOLEAN, Ping(p, lost)
      PROVE  Typed'
  <2>1. due' \in [Peers -> 0 .. Interval]
    BY <1>1 DEF Typed, TypeOK, Ping
  <2>2. next_probe_id' \in Ids
    BY <1>1 DEF Typed, TypeOK, Ping, NextId, Ids
  <2>3. pending' \in [Ids -> [peer : Peers \cup {Self}, age : Nat]]
    <3> DEFINE probes == [pending EXCEPT ![next_probe_id] = [peer |-> p, age |-> 0]]
    <3>1. probes \in [Ids -> [peer : Peers \cup {Self}, age : Nat]]
      BY DEF Typed, TypeOK
    <3>2. NoProbe \in [peer : Peers \cup {Self}, age : Nat]
      BY DEF NoProbe
    <3>3. pending' = [i \in Ids |-> IF Fresh(probes[i]) THEN probes[i] ELSE NoProbe]
      BY <1>1 DEF Ping
    <3> QED
      BY <3>1, <3>2, <3>3
  <2>4. net' \subseteq Message
    BY <1>1 DEF Typed, TypeOK, Ping, Message
  <2> QED
    BY <1>1, <2>1, <2>2, <2>3, <2>4 DEF Typed, TypeOK, Ping, RangeOK
<1>2. ASSUME NEW m \in net, Pong(m)
      PROVE  Typed'
  <2>1. [m EXCEPT !.kind = "pong"] \in Message
    BY DEF Typed, TypeOK, Message
  <2> QED
    BY <1>2, <2>1 DEF Typed, TypeOK, Pong, RangeOK
<1>3. ASSUME NEW m \in net, NEW keep \in BOOLEAN, HandlePong(m, keep)
      PROVE  Typed'
  <2> DEFINE probe == pending[m.id]
             rtt == probe.age * Micros
  <2>1. m.id \in Ids
    BY DEF Typed, TypeOK, Message
  <2>2. probe \in [peer : Peers \cup {Self}, age : Nat]
    BY <2>1 DEF Typed, TypeOK
  <2>3. rtt \in Nat /\ probe.peer \in Peers \cup {Self} /\ <<Self, probe.peer>> \in Edges
    BY <2>2 DEF Edges
  <2>4. net' \subseteq Message
    BY <1>3 DEF Typed, TypeOK, HandlePong
  <2>5. CASE probe = NoProbe
    BY <1>3, <2>4, <2>5 DEF Typed, TypeOK, HandlePong, RangeOK
  <2>6. CASE probe # NoProbe
    <3>1. matrix' \in Matrix(Nat) /\ jitter' \in [Edges -> Nat]
      BY <1>3, <2>3, <2>6, UpdateTyped DEF HandlePong, Typed, TypeOK
    <3>2. pending' \in [Ids -> [peer : Peers \cup {Self}, age : Nat]]
      BY <1>3, <2>6 DEF Typed, TypeOK, HandlePong, NoProbe
    <3>3. updating' \in [peer : Peers \cup {Self}, rtt : Nat]
      BY <1>3, <2>3, <2>6 DEF HandlePong
    <3>4. /\ samples' \in [Peers -> [least : Nat \cup {NoEdge}, most : Nat \cup {NoEdge}]]
          /\ RangeOK'
      <4>1. samples' = [samples EXCEPT ![probe.peer] = Widen(@, rtt)]
        BY <1>3, <2>6 DEF HandlePong
      <4>2. probe.peer \in Peers =>
              /\ Widen(samples[probe.peer], rtt) \in [least : Nat, most : Nat]
              /\ Widen(samples[probe.peer], rtt).least <= Widen(samples[probe.peer], rtt).most
        BY <2>3, WidenFacts DEF Typed, RangeOK
      <4> HIDE DEF probe, rtt
      <4> QED
        BY <4>1, <4>2 DEF Typed, TypeOK, RangeOK
    <3> QED
      BY <1>3, <2>4, <3>1, <3>2, <3>3, <3>4 DEF Typed, TypeOK, HandlePong
  <2> QED
    BY <2>5, <2>6
<1>4. CASE UpdateBack
  <2>1. <<updating.peer, Self>> \in Edges /\ updating.rtt \in Nat
    BY DEF Typed, TypeOK, Edges
  <2>2. matrix' \in Matrix(Nat) /\ jitter' \in [Edges -> Nat]
    BY <1>4, <2>1, UpdateTyped DEF UpdateBack, Typed, TypeOK
  <2> QED
    BY <1>4, <2>2 DEF Typed, TypeOK, UpdateBack, NoUpdate, RangeOK
<1>5. ASSUME NEW p \in up, Break(p)
      PROVE  Typed'
  BY <1>5 DEF Typed, TypeOK, Break, RangeOK
<1>6. CASE Tick
  <2>1. due' \in [Peers -> 0 .. Interval]
    BY <1>6 DEF Typed, TypeOK, Tick
  <2>2. net' \subseteq Message
    BY <1>6 DEF Typed, TypeOK, Tick, Message, Older
  <2>3. pending' \in [Ids -> [peer : Peers \cup {Self}, age : Nat]]
    BY <1>6 DEF Typed, TypeOK, Tick, Older, NoProbe
  <2> QED
    BY <1>6, <2>1, <2>2, <2>3 DEF Typed, TypeOK, Tick, RangeOK
<1>7. CASE UNCHANGED vars
  BY <1>7 DEF Typed, TypeOK, vars, RangeOK
<1> QED
  BY <1>1, <1>2, <1>3, <1>4, <1>5, <1>6, <1>7 DEF Next, Answered, Measured

\* Every variable keeps its type: the probe id never leaves its 32 bits, and
\* every value the matrix holds is an absent entry or a natural number of
\* microseconds (src/mesh/probe.rs, src/mesh/latency_matrix.rs).
THEOREM TypeCorrect == Spec => []TypeOK
<1>1. Typed /\ [Next]_vars => Typed'
  BY TypedNext
<1>2. Typed => TypeOK
  BY DEF Typed
<1> QED
  BY TypedInit, <1>1, <1>2, PTL DEF Spec

----------------------------------------------------------------------------
(* Pending probes *)

\* Strengthens ProbesAgeOut: a pending probe belongs to a peer, and the next
\* create_ping of whichever peer comes early enough to drop it in time.
ProbeInv ==
  \A i \in Ids : pending[i] # NoProbe =>
    /\ pending[i].peer \in Peers
    /\ \A p \in Peers : pending[i].age + due[p] < StaleAge + Interval

\* Every step keeps it: create_ping starts the interval again after it has
\* dropped the stale probes, and a tick makes probes older and pings nearer.
LEMMA ProbeInvNext ==
  ASSUME Typed, ProbeInv, [Next]_vars
  PROVE  ProbeInv'
<1> USE MeshAssumption
<1>1. ASSUME NEW p \in Peers, NEW lost \in BOOLEAN, Ping(p, lost)
      PROVE  ProbeInv'
  <2> DEFINE probes == [pending EXCEPT ![next_probe_id] = [peer |-> p, age |-> 0]]
  <2>1. pending' = [i \in Ids |-> IF Fresh(probes[i]) THEN probes[i] ELSE NoProbe]
    BY <1>1 DEF Ping
  <2>2. due' = [due EXCEPT ![p] = Interval] /\ due \in [Peers -> 0 .. Interval]
    BY <1>1 DEF Ping, Typed, TypeOK
  <2>3. SUFFICES ASSUME NEW i \in Ids, pending'[i] # NoProbe
                 PROVE  /\ pending'[i].peer \in Peers
                        /\ \A q \in Peers : pending'[i].age + due'[q] < StaleAge + Interval
    BY DEF ProbeInv
  <2>4. pending'[i] = probes[i] /\ probes[i].age < StaleAge
    BY <2>1, <2>3 DEF Fresh
  <2>5. CASE i = next_probe_id
    <3>1. probes[i] = [peer |-> p, age |-> 0]
      BY <2>5 DEF Typed, TypeOK
    <3> QED
      BY <2>2, <2>4, <3>1
  <2>6. CASE i # next_probe_id
    <3>1. probes[i] = pending[i] /\ pending[i] # NoProbe
      BY <2>3, <2>4, <2>6 DEF Typed, TypeOK
    <3>2. pending[i].age \in Nat
      BY DEF Typed, TypeOK
    <3>3. /\ pending[i].peer \in Peers
          /\ \A q \in Peers : pending[i].age + due[q] < StaleAge + Interval
      BY <3>1 DEF ProbeInv
    <3> HIDE DEF probes
    <3> QED
      BY <2>2, <2>4, <3>1, <3>2, <3>3
  <2> QED
    BY <2>5, <2>6
<1>2. ASSUME NEW m \in net, Pong(m)
      PROVE  ProbeInv'
  BY <1>2 DEF ProbeInv, Pong
<1>3. ASSUME NEW m \in net, NEW keep \in BOOLEAN, HandlePong(m, keep)
      PROVE  ProbeInv'
  <2>1. due' = due
    BY <1>3 DEF HandlePong
  <2>2. \A i \in Ids : pending'[i] # NoProbe => pending'[i] = pending[i]
    BY <1>3 DEF HandlePong, Typed, TypeOK
  <2> QED
    BY <2>1, <2>2 DEF ProbeInv
<1>4. CASE UpdateBack
  BY <1>4 DEF ProbeInv, UpdateBack
<1>5. ASSUME NEW p \in up, Break(p)
      PROVE  ProbeInv'
  BY <1>5 DEF ProbeInv, Break
<1>6. CASE Tick
  <2>1. SUFFICES ASSUME NEW i \in Ids, pending'[i] # NoProbe
                 PROVE  /\ pending'[i].peer \in Peers
                        /\ \A q \in Peers : pending'[i].age + due'[q] < StaleAge + Interval
    BY DEF ProbeInv
  <2>2. pending[i] # NoProbe /\ pending'[i] = Older(pending[i])
    BY <1>6, <2>1 DEF Tick
  <2>3. pending[i] \in [peer : Peers \cup {Self}, age : Nat]
    BY DEF Typed, TypeOK
  <2>4. pending'[i].peer = pending[i].peer /\ pending'[i].age = pending[i].age + 1
    BY <2>2, <2>3 DEF Older
  <2>5. \A q \in Peers : due'[q] = due[q] - 1 /\ due[q] \in Nat
    BY <1>6 DEF Tick, Typed, TypeOK
  <2>6. \A q \in Peers : pending'[i].age + due'[q] = pending[i].age + due[q]
    BY <2>3, <2>4, <2>5
  <2> QED
    BY <2>2, <2>4, <2>6 DEF ProbeInv
<1>7. CASE UNCHANGED vars
  BY <1>7 DEF ProbeInv, vars
<1> QED
  BY <1>1, <1>2, <1>3, <1>4, <1>5, <1>6, <1>7 DEF Next, Answered, Measured

----------------------------------------------------------------------------
(* The two directions of a link *)

\* What LatencyMatrix::update makes of an entry.
Later(old, rtt) == IF old = NoEdge THEN rtt ELSE Smooth(old, rtt)
LaterJitter(old, entry, rtt) ==
  IF entry = NoEdge THEN 0 ELSE Smooth(old, Distance(rtt, entry))

\* Strengthens Symmetric: between the two updates of handle_pong one direction
\* is ahead of the other by exactly the sample that is still to be applied.
SymInv ==
  /\ updating # NoUpdate =>
       LET out  == <<Self, updating.peer>>
           back == <<updating.peer, Self>>
       IN /\ updating.peer \in Peers
          /\ matrix[out] = Later(matrix[back], updating.rtt)
          /\ jitter[out] = LaterJitter(jitter[back], matrix[back], updating.rtt)
  /\ \A x, y \in Nodes :
       \/ matrix[<<x, y>>] = matrix[<<y, x>>] /\ jitter[<<x, y>>] = jitter[<<y, x>>]
       \/ updating # NoUpdate /\ x = Self /\ y = updating.peer
       \/ updating # NoUpdate /\ y = Self /\ x = updating.peer

\* What LatencyMatrix::update does to each entry.
LEMMA UpdateFacts ==
  ASSUME Typed, NEW a \in Nodes, NEW b \in Nodes, NEW rtt, Update(<<a, b>>, rtt)
  PROVE  /\ matrix'[<<a, b>>] = Later(matrix[<<a, b>>], rtt)
         /\ jitter'[<<a, b>>] = LaterJitter(jitter[<<a, b>>], matrix[<<a, b>>], rtt)
         /\ \A x, y \in Nodes : x # a \/ y # b =>
              /\ matrix'[<<x, y>>] = matrix[<<x, y>>]
              /\ jitter'[<<x, y>>] = jitter[<<x, y>>]
<1>1. <<a, b>> \in Edges
  BY DEF Edges
<1>2. matrix \in [Edges -> Nat \cup {NoEdge}] /\ jitter \in [Edges -> Nat]
  BY DEF Typed, TypeOK, Matrix, Edges
<1>3. \A x, y \in Nodes : <<x, y>> \in Edges
  BY DEF Edges
<1>4. \A x, y \in Nodes : x # a \/ y # b => <<x, y>> # <<a, b>>
  OBVIOUS
<1> QED
  BY <1>1, <1>2, <1>3, <1>4 DEF Update, Later, LaterJitter

\* Every step keeps it.
LEMMA SymInvNext ==
  ASSUME Typed, ProbeInv, SymInv, [Next]_vars
  PROVE  SymInv'
<1> USE MeshAssumption
<1>0. ASSUME UNCHANGED <<updating, matrix, jitter>>
      PROVE  SymInv'
  BY <1>0 DEF SymInv
<1>1. ASSUME NEW m \in net, NEW keep \in BOOLEAN, HandlePong(m, keep)
      PROVE  SymInv'
  <2> DEFINE probe == pending[m.id]
             peer  == probe.peer
             rtt   == probe.age * Micros
  <2>1. CASE probe = NoProbe
    BY <1>0, <1>1, <2>1 DEF HandlePong
  <2>2. CASE probe # NoProbe
    <3>1. m.id \in Ids
      BY DEF Typed, TypeOK, Message
    <3>2. peer \in Peers /\ peer \in Nodes /\ Self \in Nodes /\ peer # Self
      BY <2>2, <3>1 DEF ProbeInv
    <3>3. Update(<<Self, peer>>, rtt)
      BY <1>1, <2>2 DEF HandlePong
    <3>4. updating = NoUpdate /\ updating' = [peer |-> peer, rtt |-> rtt]
      BY <1>1, <2>2 DEF HandlePong
    <3>5. updating'.peer = peer /\ updating'.rtt = rtt /\ updating' # NoUpdate
      BY <3>2, <3>4 DEF NoUpdate
    <3>6. \A x, y \in Nodes : /\ matrix[<<x, y>>] = matrix[<<y, x>>]
                              /\ jitter[<<x, y>>] = jitter[<<y, x>>]
      BY <3>4 DEF SymInv
    <3> HIDE DEF probe, peer, rtt
    <3>7. /\ matrix'[<<Self, peer>>] = Later(matrix[<<Self, peer>>], rtt)
          /\ jitter'[<<Self, peer>>] =
               LaterJitter(jitter[<<Self, peer>>], matrix[<<Self, peer>>], rtt)
          /\ \A x, y \in Nodes : x # Self \/ y # peer =>
               /\ matrix'[<<x, y>>] = matrix[<<x, y>>]
               /\ jitter'[<<x, y>>] = jitter[<<x, y>>]
      BY <3>2, <3>3, UpdateFacts
    <3> QED
      BY <3>2, <3>5, <3>6, <3>7 DEF SymInv
  <2> QED
    BY <2>1, <2>2
<1>2. CASE UpdateBack
  <2> DEFINE peer == updating.peer
             rtt  == updating.rtt
  <2>1. updating # NoUpdate /\ updating' = NoUpdate /\ Update(<<peer, Self>>, rtt)
    BY <1>2 DEF UpdateBack
  <2>2. /\ peer \in Peers /\ peer \in Nodes /\ Self \in Nodes /\ peer # Self
        /\ matrix[<<Self, peer>>] = Later(matrix[<<peer, Self>>], rtt)
        /\ jitter[<<Self, peer>>] =
             LaterJitter(jitter[<<peer, Self>>], matrix[<<peer, Self>>], rtt)
    BY <2>1 DEF SymInv
  <2>3. \A x, y \in Nodes :
          \/ matrix[<<x, y>>] = matrix[<<y, x>>] /\ jitter[<<x, y>>] = jitter[<<y, x>>]
          \/ x = Self /\ y = peer
          \/ y = Self /\ x = peer
    BY DEF SymInv
  <2> HIDE DEF peer, rtt
  <2>4. /\ matrix'[<<peer, Self>>] = Later(matrix[<<peer, Self>>], rtt)
        /\ jitter'[<<peer, Self>>] =
             LaterJitter(jitter[<<peer, Self>>], matrix[<<peer, Self>>], rtt)
        /\ \A x, y \in Nodes : x # peer \/ y # Self =>
             /\ matrix'[<<x, y>>] = matrix[<<x, y>>]
             /\ jitter'[<<x, y>>] = jitter[<<x, y>>]
    BY <2>1, <2>2, UpdateFacts
  <2>5. \A x, y \in Nodes : /\ matrix'[<<x, y>>] = matrix'[<<y, x>>]
                            /\ jitter'[<<x, y>>] = jitter'[<<y, x>>]
    <3> SUFFICES ASSUME NEW x \in Nodes, NEW y \in Nodes
                 PROVE  /\ matrix'[<<x, y>>] = matrix'[<<y, x>>]
                        /\ jitter'[<<x, y>>] = jitter'[<<y, x>>]
      OBVIOUS
    <3>1. /\ matrix'[<<Self, peer>>] = matrix'[<<peer, Self>>]
          /\ jitter'[<<Self, peer>>] = jitter'[<<peer, Self>>]
      BY <2>2, <2>4
    <3>2. CASE x = Self /\ y = peer
      BY <3>1, <3>2
    <3>3. CASE x = peer /\ y = Self
      BY <3>1, <3>3
    <3>4. CASE ~(x = Self /\ y = peer) /\ ~(x = peer /\ y = Self)
      BY <2>3, <2>4, <3>4
    <3> QED
      BY <3>2, <3>3, <3>4
  <2> QED
    BY <2>1, <2>5 DEF SymInv
<1> QED
  BY <1>0, <1>1, <1>2
     DEF Next, Answered, Measured, Ping, Pong, Break, Tick, vars

----------------------------------------------------------------------------
(* Samples and entries *)

\* Only the links between this node and its peers have entries.
EdgeInv ==
  \A x, y \in Nodes : matrix[<<x, y>>] # NoEdge =>
    \/ x = Self /\ y \in Peers
    \/ y = Self /\ x \in Peers

\* Strengthens WithinSamples: a link has an entry exactly if it was measured.
SampleInv ==
  \A p \in Peers : LET e == <<Self, p>> IN
    /\ matrix[e] = NoEdge <=> samples[p] = NoSamples
    /\ samples[p] # NoSamples =>
         /\ matrix[e] \in samples[p].least .. samples[p].most
         /\ jitter[e] \in 0 .. samples[p].most - samples[p].least

\* One more sample keeps the smoothed RTT and the jitter in the range of the
\* samples, which it widens.
LEMMA SampleWithin ==
  ASSUME NEW entry \in Nat, NEW dev \in Nat, NEW rtt \in Nat,
         NEW lo \in Nat, NEW hi \in Nat,
         lo <= entry, entry <= hi, dev <= hi - lo, lo <= rtt, rtt <= hi
  PROVE  /\ Smooth(entry, rtt) \in Nat
         /\ lo <= Smooth(entry, rtt) /\ Smooth(entry, rtt) <= hi
         /\ Smooth(dev, Distance(rtt, entry)) \in Nat
         /\ Smooth(dev, Distance(rtt, entry)) <= hi - lo
<1>1. Distance(rtt, entry) \in Nat /\ Distance(rtt, entry) <= hi - lo
  BY DistanceWithin
<1>2. hi - lo \in Nat
  OBVIOUS
<1> QED
  BY <1>1, <1>2, SmoothBetween

\* Every step keeps both.
LEMMA SampleInvNext ==
  ASSUME Typed, ProbeInv, SymInv, EdgeInv, SampleInv, [Next]_vars
  PROVE  EdgeInv' /\ SampleInv'
<1> USE MeshAssumption
<1>0. ASSUME UNCHANGED <<matrix, jitter, samples>>
      PROVE  EdgeInv' /\ SampleInv'
  BY <1>0 DEF EdgeInv, SampleInv
<1>1. ASSUME NEW m \in net, NEW keep \in BOOLEAN, HandlePong(m, keep)
      PROVE  EdgeInv' /\ SampleInv'
  <2> DEFINE probe == pending[m.id]
             peer  == probe.peer
             rtt   == probe.age * Micros
  <2>1. CASE probe = NoProbe
    BY <1>0, <1>1, <2>1 DEF HandlePong
  <2>2. CASE probe # NoProbe
    <3>1. m.id \in Ids
      BY DEF Typed, TypeOK, Message
    <3>2. peer \in Peers /\ peer \in Nodes /\ Self \in Nodes /\ peer # Self
      BY <2>2, <3>1 DEF ProbeInv
    <3>3. probe.age \in Nat
      BY <3>1 DEF Typed, TypeOK
    <3>4. rtt \in Nat
      BY <3>3
    <3>5. Update(<<Self, peer>>, rtt)
      BY <1>1, <2>2 DEF HandlePong
    <3>6. samples' = [samples EXCEPT ![peer] = Widen(@, rtt)]
      BY <1>1, <2>2 DEF HandlePong
    <3> HIDE DEF probe, peer, rtt
    <3> DEFINE entry == matrix[<<Self, peer>>]
               dev   == jitter[<<Self, peer>>]
               wide  == Widen(samples[peer], rtt)
    <3>7. /\ matrix'[<<Self, peer>>] = Later(entry, rtt)
          /\ jitter'[<<Self, peer>>] = LaterJitter(dev, entry, rtt)
          /\ \A x, y \in Nodes : x # Self \/ y # peer =>
               /\ matrix'[<<x, y>>] = matrix[<<x, y>>]
               /\ jitter'[<<x, y>>] = jitter[<<x, y>>]
      BY <3>2, <3>5, UpdateFacts
    <3>8. samples'[peer] = wide /\ \A p \in Peers : p # peer => samples'[p] = samples[p]
      BY <3>2, <3>6 DEF Typed, TypeOK
    <3>9. samples[peer] # NoSamples => /\ samples[peer] \in [least : Nat, most : Nat]
                                       /\ samples[peer].least <= samples[peer].most
      BY <3>2 DEF Typed, RangeOK
    <3>10. /\ wide \in [least : Nat, most : Nat]
           /\ wide # NoSamples
           /\ wide.least <= rtt /\ rtt <= wide.most
           /\ samples[peer] # NoSamples => /\ wide.least <= samples[peer].least
                                           /\ samples[peer].most <= wide.most
      BY <3>4, <3>9, WidenFacts
    <3>11. wide.least \in Nat /\ wide.most \in Nat
      BY <3>10
    <3>12. <<Self, peer>> \in Edges
      BY <3>2 DEF Edges
    <3>13. entry \in Nat \cup {NoEdge} /\ dev \in Nat
      BY <3>12 DEF Typed, TypeOK, Matrix, Edges
    <3>14. /\ Later(entry, rtt) \in wide.least .. wide.most
           /\ LaterJitter(dev, entry, rtt) \in 0 .. wide.most - wide.least
      <4>1. CASE samples[peer] = NoSamples
        <5>1. entry = NoEdge
          BY <3>2, <4>1 DEF SampleInv
        <5> HIDE DEF wide, entry, dev
        <5> QED
          BY <3>4, <3>10, <3>11, <5>1 DEF Later, LaterJitter
      <4>2. CASE samples[peer] # NoSamples
        <5> DEFINE lo == samples[peer].least
                   hi == samples[peer].most
        <5>1. /\ entry # NoEdge
              /\ entry \in lo .. hi
              /\ dev \in 0 .. hi - lo
          BY <3>2, <4>2 DEF SampleInv
        <5>2. lo \in Nat /\ hi \in Nat /\ wide.least <= lo /\ hi <= wide.most
          BY <3>9, <3>10, <4>2
        <5> HIDE DEF wide, entry, dev, lo, hi
        <5>3. /\ entry \in Nat /\ dev \in Nat
              /\ wide.least <= entry /\ entry <= wide.most
              /\ dev <= wide.most - wide.least
          BY <3>11, <3>13, <5>1, <5>2
        <5>4. /\ Smooth(entry, rtt) \in Nat
              /\ wide.least <= Smooth(entry, rtt) /\ Smooth(entry, rtt) <= wide.most
              /\ Smooth(dev, Distance(rtt, entry)) \in Nat
              /\ Smooth(dev, Distance(rtt, entry)) <= wide.most - wide.least
          BY <3>4, <3>10, <3>11, <5>3, SampleWithin
        <5> QED
          BY <3>11, <5>1, <5>4 DEF Later, LaterJitter
      <4> QED
        BY <4>1, <4>2
    <3> HIDE DEF wide, entry, dev
    <3>15. matrix'[<<Self, peer>>] # NoEdge
      BY <3>7, <3>11, <3>14 DEF NoEdge
    <3>16. EdgeInv'
      BY <3>2, <3>7 DEF EdgeInv
    <3>17. SampleInv'
      <4> SUFFICES ASSUME NEW p \in Peers
                   PROVE  /\ matrix'[<<Self, p>>] = NoEdge <=> samples'[p] = NoSamples
                          /\ samples'[p] # NoSamples =>
                               /\ matrix'[<<Self, p>>] \in samples'[p].least .. samples'[p].most
                               /\ jitter'[<<Self, p>>] \in 0 .. samples'[p].most - samples'[p].least
        BY DEF SampleInv
      <4>1. CASE p = peer
        BY <3>7, <3>8, <3>10, <3>14, <3>15, <4>1
      <4>2. CASE p # peer
        <5>1. /\ matrix'[<<Self, p>>] = matrix[<<Self, p>>]
              /\ jitter'[<<Self, p>>] = jitter[<<Self, p>>]
          BY <3>2, <3>7, <4>2
        <5> QED
          BY <3>8, <4>2, <5>1 DEF SampleInv
      <4> QED
        BY <4>1, <4>2
    <3> QED
      BY <3>16, <3>17
  <2> QED
    BY <2>1, <2>2
<1>2. CASE UpdateBack
  <2> DEFINE peer == updating.peer
  <2>1. /\ updating # NoUpdate /\ Update(<<peer, Self>>, updating.rtt)
        /\ samples' = samples
    BY <1>2 DEF UpdateBack
  <2>2. peer \in Peers /\ peer \in Nodes /\ Self \in Nodes /\ peer # Self
    BY <2>1 DEF SymInv
  <2> HIDE DEF peer
  <2>3. \A x, y \in Nodes : x # peer \/ y # Self =>
          /\ matrix'[<<x, y>>] = matrix[<<x, y>>]
          /\ jitter'[<<x, y>>] = jitter[<<x, y>>]
    BY <2>1, <2>2, UpdateFacts
  <2>4. EdgeInv'
    BY <2>2, <2>3 DEF EdgeInv
  <2>5. \A p \in Peers : /\ matrix'[<<Self, p>>] = matrix[<<Self, p>>]
                         /\ jitter'[<<Self, p>>] = jitter[<<Self, p>>]
    BY <2>2, <2>3
  <2>6. SampleInv'
    BY <2>1, <2>5 DEF SampleInv
  <2> QED
    BY <2>4, <2>6
<1> QED
  BY <1>0, <1>1, <1>2
     DEF Next, Answered, Measured, Ping, Pong, Break, Tick, vars

\* The inductive invariant of the measurements.
MatrixInv == Typed /\ ProbeInv /\ SymInv /\ EdgeInv /\ SampleInv

\* It holds in every state.
LEMMA MatrixInvariant == Spec => []MatrixInv
<1>1. Init => MatrixInv
  <2> SUFFICES ASSUME Init PROVE MatrixInv
    OBVIOUS
  <2>1. \A x, y \in Nodes : matrix[<<x, y>>] = NoEdge /\ jitter[<<x, y>>] = 0
    BY DEF Init, Edges
  <2>2. ProbeInv
    BY DEF Init, ProbeInv
  <2>3. updating = NoUpdate /\ \A p \in Peers : samples[p] = NoSamples
    BY DEF Init
  <2>4. SymInv /\ EdgeInv
    BY <2>1, <2>3 DEF SymInv, EdgeInv
  <2>5. SampleInv
    BY <2>1, <2>3, MeshAssumption DEF SampleInv
  <2> QED
    BY <2>2, <2>4, <2>5, TypedInit DEF MatrixInv
<1>2. MatrixInv /\ [Next]_vars => MatrixInv'
  BY TypedNext, ProbeInvNext, SymInvNext, SampleInvNext DEF MatrixInv
<1> QED
  BY <1>1, <1>2, PTL DEF Spec

\* Probes that are never answered do not pile up in Prober.pending although
\* only create_ping cleans it: whatever the peers, the intervals and the order
\* of the pings, no probe outlives the stale age by more than one interval.
THEOREM ProbesAreBounded == Spec => []ProbesAgeOut
<1>1. MatrixInv => ProbesAgeOut
  <2> SUFFICES ASSUME Typed, ProbeInv, NEW i \in Ids
               PROVE  pending[i].age < StaleAge + Interval
    BY DEF ProbesAgeOut, MatrixInv
  <2>1. CASE pending[i] = NoProbe
    BY <2>1, MeshAssumption DEF NoProbe
  <2>2. CASE pending[i] # NoProbe
    <3>1. /\ pending[i].peer \in Peers
          /\ pending[i].age + due[pending[i].peer] < StaleAge + Interval
      BY <2>2 DEF ProbeInv
    <3>2. pending[i].age \in Nat /\ due[pending[i].peer] \in Nat
      BY <3>1, MeshAssumption DEF Typed, TypeOK
    <3> QED
      BY <3>1, <3>2, MeshAssumption
  <2> QED
    BY <2>1, <2>2
<1> QED
  BY <1>1, MatrixInvariant, PTL

\* Whenever handle_pong is not between its two updates, both directions of
\* every link have the same smoothed RTT and the same jitter.
THEOREM MatrixIsSymmetric == Spec => []Symmetric
<1>1. MatrixInv => Symmetric
  BY DEF MatrixInv, SymInv, Symmetric
<1> QED
  BY <1>1, MatrixInvariant, PTL

\* Whatever is measured and in whichever order, the smoothed RTT of a peer
\* stays between its least and greatest sample and its jitter within their
\* difference: the truncating EWMA of LatencyMatrix::update never leaves the
\* range.
THEOREM SmoothingStaysInRange == Spec => []WithinSamples
<1>1. MatrixInv => WithinSamples
  BY DEF MatrixInv, SampleInv, WithinSamples
<1> QED
  BY <1>1, MatrixInvariant, PTL

----------------------------------------------------------------------------
(* Routes *)

\* The cost of a path of one hop is its entry.
LEMMA CostOfOneHop ==
  ASSUME NEW m, NEW a, NEW b, m[<<a, b>>] \in Int
  PROVE  Cost(m, <<a, b>>) = m[<<a, b>>]
<1> DEFINE p == <<a, b>>
           S == 1 .. Len(p) - 1
           body(g) == [s \in SUBSET S |->
                    IF s = {} THEN 0
                    ELSE m[<<p[CHOOSE x \in s : TRUE], p[(CHOOSE x \in s : TRUE) + 1]>>]
                         + g[s \ {CHOOSE x \in s : TRUE}]]
           sum == CHOOSE g : g = body(g)
           one == [s \in SUBSET S |-> IF s = {} THEN 0 ELSE m[<<a, b>>]]
<1>1. Cost(m, p) = sum[S]
  BY Zenon DEF Cost, MapThenSumSet, MapThenFoldSet
<1>2. S = {1} /\ (CHOOSE x \in {1} : TRUE) = 1
  OBVIOUS
<1>3. SUBSET {1} = {{}, {1}}
  OBVIOUS
<1>4. one = body(one)
  <2>1. ASSUME NEW s \in SUBSET S PROVE one[s] = body(one)[s]
    <3>1. CASE s = {}
      BY <3>1
    <3>2. CASE s = {1}
      <4>1. (CHOOSE x \in s : TRUE) = 1
        BY <3>2
      <4>2. one[s \ {1}] = 0
        BY <3>2, <1>2
      <4>3. p[1] = a /\ p[1 + 1] = b
        OBVIOUS
      <4>4. body(one)[s] = m[<<p[1], p[1 + 1]>>] + one[s \ {1}]
        BY <3>2, <4>1
      <4> QED
        BY <3>2, <4>2, <4>3, <4>4
    <3> QED
      BY <3>1, <3>2, <1>2, <1>3
  <2> QED
    BY <2>1
<1>5. sum = body(sum)
  <2> HIDE DEF body, one
  <2> QED
   BY <1>4
<1>6. sum[{}] = 0
  BY <1>5
<1>7. sum[{1}] = m[<<p[1], p[1 + 1]>>] + sum[{1} \ {1}]
  <2> HIDE DEF sum
  <2> QED
   BY <1>2, <1>5
<1>8. {1} \ {1} = {}
  OBVIOUS
<1> HIDE DEF sum
<1> QED
  BY <1>1, <1>2, <1>6, <1>7, <1>8

\* The only path to another node is the link to it, if that has an entry.
LEMMA PathsAreDirect ==
  ASSUME MatrixInv, NEW d \in Nodes \ {Self}
  PROVE  SimplePaths(matrix, Self, d) =
           IF d \in Peers /\ samples[d] # NoSamples THEN {<<Self, d>>} ELSE {}
<1> USE MeshAssumption
<1>1. ASSUME NEW p \in SimplePaths(matrix, Self, d)
      PROVE  p = <<Self, d>> /\ d \in Peers /\ matrix[<<Self, d>>] # NoEdge
  <2>1. PICK k \in 1 .. Cardinality(Nodes) : p \in [1 .. k -> Nodes]
    BY DEF SimplePaths
  <2>2. Cardinality(Nodes) \in Nat
    BY FS_CardinalityType
  <2>3. k \in Nat /\ k >= 1 /\ p \in Seq(Nodes) /\ Len(p) = k
    BY <2>1, <2>2
  <2>4. /\ p[1] = Self /\ p[k] = d
        /\ \A i, j \in 1 .. k : p[i] = p[j] => i = j
        /\ \A i \in 1 .. k - 1 : matrix[<<p[i], p[i + 1]>>] # NoEdge
    BY <2>3 DEF SimplePaths
  <2>5. k >= 2
    BY <2>3, <2>4
  <2>6. matrix[<<p[1], p[2]>>] # NoEdge /\ p[2] \in Nodes
    BY <2>1, <2>3, <2>4, <2>5
  <2>7. p[2] \in Peers
    BY <2>4, <2>6 DEF MatrixInv, EdgeInv
  <2>8. k = 2
    <3> SUFFICES ASSUME k >= 3 PROVE FALSE
      BY <2>3, <2>5
    <3>1. matrix[<<p[2], p[3]>>] # NoEdge /\ p[3] \in Nodes
      BY <2>1, <2>3, <2>4
    <3>2. p[3] = Self
      BY <2>6, <2>7, <3>1 DEF MatrixInv, EdgeInv
    <3> QED
      BY <2>3, <2>4, <3>2
  <2>9. p[2] = d
    BY <2>4, <2>8
  <2>10. p = <<Self, d>>
    BY <2>1, <2>4, <2>8, <2>9
  <2> QED
    BY <2>4, <2>6, <2>7, <2>9, <2>10
<1>2. ASSUME d \in Peers, matrix[<<Self, d>>] # NoEdge
      PROVE  <<Self, d>> \in SimplePaths(matrix, Self, d)
  <2> DEFINE p == <<Self, d>>
  <2>1. p \in [1 .. 2 -> Nodes] /\ Len(p) = 2 /\ p[1] = Self /\ p[2] = d
    OBVIOUS
  <2>2. Cardinality(Nodes) \in Nat /\ 2 <= Cardinality(Nodes)
    <3>1. Cardinality({Self}) = 1 /\ IsFiniteSet({Self})
      BY FS_Singleton
    <3>2. Cardinality({Self} \cup {d}) = 2
      BY <3>1, FS_AddElement
    <3>3. ({Self} \cup {d}) \in SUBSET Nodes
      OBVIOUS
    <3>4. Cardinality({Self} \cup {d}) <= Cardinality(Nodes)
      BY <3>3, FS_Subset
    <3> QED
      BY <3>2, <3>4, FS_CardinalityType
  <2>3. p \in UNION {[1 .. k -> Nodes] : k \in 1 .. Cardinality(Nodes)}
    BY <2>1, <2>2
  <2>4. /\ \A i, j \in 1 .. Len(p) : p[i] = p[j] => i = j
        /\ \A i \in 1 .. Len(p) - 1 : matrix[<<p[i], p[i + 1]>>] # NoEdge
    BY <1>2, <2>1
  <2> HIDE DEF p
  <2> QED
    BY <2>1, <2>3, <2>4 DEF SimplePaths, p
<1>3. d \in Peers => (matrix[<<Self, d>>] = NoEdge <=> samples[d] = NoSamples)
  BY DEF MatrixInv, SampleInv
<1> QED
  BY <1>1, <1>2, <1>3

\* A destination has a route exactly if it is a peer that answered a probe, and
\* then over its own tunnel only.
RoutesAreDirect ==
  \A d \in Nodes \ {Self} :
    FirstHops(matrix, Self, d) =
      IF d \in Peers /\ samples[d] # NoSamples THEN {d} ELSE {}

\* Why ReroutesOnDegradation fails in every mesh: handle_pong measures the links
\* of its own node alone, so that no route ever leads through another node, and
\* a route once found stays, whatever becomes of the link.  What it is good for:
\* Router never names a next hop for which Forwarder has no tunnel.
THEOREM RoutesUseOwnTunnels == Spec => []RoutesAreDirect
<1>1. MatrixInv => RoutesAreDirect
  <2> SUFFICES ASSUME MatrixInv, NEW d \in Nodes \ {Self}
               PROVE  FirstHops(matrix, Self, d) =
                        IF d \in Peers /\ samples[d] # NoSamples THEN {d} ELSE {}
    BY DEF RoutesAreDirect
  <2> DEFINE q == <<Self, d>>
  <2>1. CASE ~(d \in Peers /\ samples[d] # NoSamples)
    BY <2>1, PathsAreDirect DEF FirstHops, Shortest
  <2>2. CASE d \in Peers /\ samples[d] # NoSamples
    <3>1. SimplePaths(matrix, Self, d) = {q}
      BY <2>2, PathsAreDirect
    <3>2. <<Self, d>> \in Edges
      BY MeshAssumption DEF Edges
    <3>3. Cost(matrix, q) \in Int
      <4>1. matrix[q] \in Int
        BY <3>2 DEF MatrixInv, Typed, TypeOK, Matrix, Edges, NoEdge
      <4> QED
        BY <4>1, CostOfOneHop
    <3>4. Costs(matrix, Self, d) = {Cost(matrix, q)}
      BY <3>1 DEF Costs
    <3>5. Cost(matrix, q) <= Cost(matrix, q)
      BY <3>3
    <3>6. Shortest(matrix, Self, d) = {q}
      BY <3>1, <3>4, <3>5, Zenon DEF Shortest
    <3>7. q[2] = d
      OBVIOUS
    <3> HIDE DEF q
    <3> QED
      BY <2>2, <3>6, <3>7 DEF FirstHops
  <2> QED
    BY <2>1, <2>2
<1> QED
  BY <1>1, MatrixInvariant, PTL

----------------------------------------------------------------------------
(* Probe ids *)

\* What whole division is: the quotient fits, one more does not.
LEMMA DivFacts ==
  ASSUME NEW a \in Nat, NEW b \in Nat \ {0}
  PROVE  /\ a \div b \in Nat
         /\ (a \div b) * b <= a
         /\ a < ((a \div b) + 1) * b
<1> DEFINE q == a \div b
           r == a % b
<1>1. q \in Int /\ r \in 0 .. b - 1 /\ a = b * q + r
  BY Z3
<1>2. q \in Nat
  <2> HIDE DEF q, r
  <2>1. ASSUME q < 0 PROVE FALSE
     <3>1. q \in Int /\ q <= -1 
       BY <1>1, <2>1
     <3>2. b * q <= - b
       BY <3>1
     <3> QED BY <3>2, <1>1
  <2> QED BY <2>1, <1>1
<1>3. q * b = b * q /\ (q + 1) * b = b * q + b
  BY <1>1
<1> QED BY <1>1, <1>2, <1>3

\* Whole division is monotonic.
LEMMA DivMonotonic ==
  ASSUME NEW a \in Nat, NEW c \in Nat, NEW b \in Nat \ {0}, a <= c
  PROVE  a \div b <= c \div b
<1> DEFINE x == a \div b
           y == c \div b
<1>1. /\ x \in Nat /\ y \in Nat /\ x * b <= a /\ c < (y + 1) * b
  BY DivFacts
<1> HIDE DEF x, y
<1>2. ASSUME x >= y + 1 PROVE FALSE
  <2>1. x * b >= (y + 1) * b
    <3>1. PICK z \in Nat : x = (y + 1) + z
      <4>1. x - (y + 1) \in Nat /\ x = (y + 1) + (x - (y + 1))
        BY <1>1, <1>2
      <4> QED BY <4>1
    <3>2. x * b = (y + 1) * b + z * b
       BY <3>1, <1>1
    <3>3. z * b \in Nat /\ (y + 1) * b \in Nat
       BY <3>1, <1>1
    <3> QED BY <3>2, <3>3
  <2>2. (y + 1) * b \in Nat /\ x * b \in Nat
    BY <1>1
  <2> QED BY <1>1, <2>1, <2>2
<1> QED BY <1>1, <1>2

\* The most probes one peer is sent while a message is under way.
PerPeer == MaxTrip \div Interval + 1

\* The probes sent no earlier than age ticks ago: the k-th last probe of peer p
\* was sent k intervals before its next one is due.
Window(age) ==
  {w \in Peers \X (1 .. PerPeer) : w[2] * Interval <= age + due[w[1]]}

\* How many ids have been given out since id, counting itself.
Lag(id) ==
  IF id < next_probe_id THEN next_probe_id - id ELSE next_probe_id - id + ProbeSpace

\* Strengthens PongsMatch: no more ids were given out since a message under way
\* than probes sent since.
LagInv == \A m \in net : Lag(m.id) <= Cardinality(Window(m.age))

\* The windows are finite and smaller than the id space.
LEMMA WindowFacts ==
  ASSUME IdsSuffice, NEW age
  PROVE  /\ IsFiniteSet(Window(age))
         /\ Cardinality(Window(age)) \in Nat
         /\ Cardinality(Window(age)) <= ProbeSpace
         /\ IsFiniteSet(Peers \X (1 .. PerPeer))
         /\ Cardinality(Peers \X (1 .. PerPeer)) <= ProbeSpace
<1>1. PerPeer \in Nat /\ PerPeer >= 1
  BY DivFacts, MeshAssumption DEF PerPeer
<1>2. IsFiniteSet(1 .. PerPeer) /\ Cardinality(1 .. PerPeer) = PerPeer
  BY <1>1, FS_Interval
<1>3. IsFiniteSet(Peers)
  BY MeshAssumption, FS_Subset
<1>4. /\ IsFiniteSet(Peers \X (1 .. PerPeer))
      /\ Cardinality(Peers \X (1 .. PerPeer)) = Cardinality(Peers) * PerPeer
  BY <1>2, <1>3, FS_Product
<1>5. Cardinality(Peers) * PerPeer <= ProbeSpace
  BY DEF IdsSuffice, PerPeer
<1>6. Window(age) \in SUBSET (Peers \X (1 .. PerPeer))
  BY DEF Window
<1>7. /\ IsFiniteSet(Window(age))
      /\ Cardinality(Window(age)) <= Cardinality(Peers \X (1 .. PerPeer))
  BY <1>4, <1>6, FS_Subset
<1>8. /\ Cardinality(Window(age)) \in Nat
      /\ Cardinality(Peers \X (1 .. PerPeer)) \in Nat
  BY <1>4, <1>7, FS_CardinalityType
<1> QED
  BY <1>4, <1>5, <1>7, <1>8, MeshAssumption

\* A ping adds a probe to the window of every message that is under way; so
\* before the ping the window was not full.
LEMMA WindowGrows ==
  ASSUME IdsSuffice, Typed, NEW p \in Peers, NEW lost \in BOOLEAN, Ping(p, lost),
         NEW age \in 0 .. MaxTrip
  PROVE  /\ Cardinality(Window(age)) < ProbeSpace
         /\ Cardinality(Window(age)) + 1 <= Cardinality(Window(age)')
         /\ Cardinality(Window(age)') \in Nat
<1> USE MeshAssumption
<1> DEFINE k == (age \div Interval) + 1
           Old == Window(age)
           New == Window(age)'
           All == Peers \X (1 .. PerPeer)
<1>1. /\ k \in 1 .. PerPeer
      /\ age < k * Interval
      /\ k * Interval <= age + Interval
  <2>1. /\ age \div Interval \in Nat
        /\ (age \div Interval) * Interval <= age
        /\ age < ((age \div Interval) + 1) * Interval
    BY DivFacts
  <2>2. age \div Interval <= MaxTrip \div Interval /\ MaxTrip \div Interval \in Nat
    BY DivMonotonic, DivFacts
  <2>3. ((age \div Interval) + 1) * Interval = (age \div Interval) * Interval + Interval
    BY <2>1
  <2>4. (age \div Interval) * Interval \in Nat
    BY <2>1
  <2> QED
    BY <2>1, <2>2, <2>3, <2>4 DEF PerPeer
<1>2. due[p] = 0 /\ due' = [due EXCEPT ![p] = Interval] /\ due \in [Peers -> 0 .. Interval]
  BY DEF Ping, Typed, TypeOK
<1> HIDE DEF k
<1>3. <<p, k>> \in All /\ <<p, k>> \notin Old
  BY <1>1, <1>2 DEF Window
<1>4. Old \subseteq All /\ New \subseteq All
  BY DEF Window
<1>5. \A q \in Peers : due[q] \in Nat /\ due'[q] \in Nat /\ due[q] <= due'[q]
  BY <1>2
<1>6. \A w \in All : w[2] * Interval \in Nat
  <2>1. \A w \in All : w[2] \in Nat
    BY <1>1
  <2> HIDE DEF All
  <2> QED
    BY <2>1
<1>7. ASSUME NEW w \in Old PROVE w \in New
  <2>1. w \in All /\ w[1] \in Peers /\ w[2] * Interval <= age + due[w[1]]
    BY DEF Window
  <2>2. w[2] * Interval <= age + due'[w[1]]
    BY <1>5, <1>6, <2>1
  <2> QED
    BY <2>1, <2>2 DEF Window
<1>8. <<p, k>> \in New
  <2>1. due'[p] = Interval
    BY <1>2
  <2> QED
    BY <1>1, <1>3, <2>1 DEF Window
<1> HIDE DEF Old, New, All
<1>9. IsFiniteSet(All) /\ Cardinality(All) <= ProbeSpace
  BY WindowFacts DEF All
<1>10. IsFiniteSet(Old) /\ IsFiniteSet(New)
  BY <1>4, <1>9, FS_Subset
<1>11. Cardinality(Old \cup {<<p, k>>}) = Cardinality(Old) + 1
  BY <1>3, <1>10, FS_AddElement
<1>12. Cardinality(Old \cup {<<p, k>>}) <= Cardinality(New)
  <2>1. (Old \cup {<<p, k>>}) \in SUBSET New
    BY <1>7, <1>8
  <2> QED
    BY <1>10, <2>1, FS_Subset
<1>13. Cardinality(New) <= Cardinality(All)
  BY <1>4, <1>9, FS_Subset
<1>14. /\ Cardinality(Old) \in Nat /\ Cardinality(New) \in Nat
       /\ Cardinality(All) \in Nat
  BY <1>9, <1>10, FS_CardinalityType
<1>15. Cardinality(Old) < ProbeSpace /\ Cardinality(Old) + 1 <= Cardinality(New)
  BY <1>9, <1>11, <1>12, <1>13, <1>14
<1> QED
  BY <1>14, <1>15 DEF Old, New

\* A tick leaves the window of a message that has aged with it unchanged.
LEMMA WindowAges ==
  ASSUME Typed, Tick, NEW age \in Nat
  PROVE  Window(age) = Window(age + 1)'
<1>1. \A p \in Peers : due[p] \in Nat /\ due'[p] = due[p] - 1
  BY MeshAssumption DEF Tick, Typed, TypeOK
<1>2. \A w \in Peers \X (1 .. PerPeer) : age + due[w[1]] = age + 1 + due'[w[1]]
  BY <1>1
<1> QED
  BY <1>2 DEF Window

\* The lag counts the ids given out, up to the size of the id space.
LEMMA LagStep ==
  ASSUME next_probe_id \in Ids, NEW id \in Ids,
         next_probe_id' = NextId(next_probe_id)
  PROVE  /\ Lag(id) \in 1 .. ProbeSpace
         /\ Lag(id) < ProbeSpace => Lag(id)' = Lag(id) + 1 /\ id # next_probe_id
         /\ id = next_probe_id => Lag(id)' = 1
<1>1. CASE next_probe_id + 1 = ProbeSpace
  <2>1. next_probe_id' = 0
    BY <1>1, MeshAssumption DEF NextId, Ids
  <2> QED
    BY <1>1, <2>1, MeshAssumption DEF Lag, Ids
<1>2. CASE next_probe_id + 1 < ProbeSpace
  <2>1. next_probe_id' = next_probe_id + 1
    BY <1>2, MeshAssumption DEF NextId, Ids
  <2> QED
    BY <1>2, <2>1, MeshAssumption DEF Lag, Ids
<1> QED
  BY <1>1, <1>2, MeshAssumption DEF Ids

\* Every step keeps PongsMatch and its strengthening.
LEMMA MatchNext ==
  ASSUME IdsSuffice, Typed, LagInv, PongsMatch, [Next]_vars
  PROVE  LagInv' /\ PongsMatch'
<1> USE MeshAssumption
<1>a. ASSUME NEW m \in net
      PROVE  /\ m \in Message
             /\ m.id \in Ids /\ m.age \in 0 .. MaxTrip /\ m.age \in Nat
             /\ m.peer \in Peers
  BY DEF Typed, TypeOK, Message
<1>b. pending \in [Ids -> [peer : Peers \cup {Self}, age : Nat]]
  BY DEF Typed, TypeOK
<1>1. ASSUME NEW p \in Peers, NEW lost \in BOOLEAN, Ping(p, lost)
      PROVE  LagInv' /\ PongsMatch'
  <2> DEFINE ping == [kind |-> "ping", peer |-> p, id |-> next_probe_id, age |-> 0]
             probes == [pending EXCEPT ![next_probe_id] = [peer |-> p, age |-> 0]]
  <2>1. next_probe_id \in Ids /\ next_probe_id' = NextId(next_probe_id)
    BY <1>1 DEF Ping, Typed, TypeOK
  <2>2. net' \subseteq net \cup {ping}
    BY <1>1 DEF Ping
  <2>3. \A i \in Ids : pending'[i] # NoProbe => pending'[i] = probes[i]
    BY <1>1 DEF Ping
  <2>4. ASSUME NEW m \in net
        PROVE  /\ m.id # next_probe_id
               /\ Lag(m.id)' <= Cardinality(Window(m.age)')
    <3>1. /\ Cardinality(Window(m.age)) < ProbeSpace
          /\ Cardinality(Window(m.age)) + 1 <= Cardinality(Window(m.age)')
          /\ Cardinality(Window(m.age)') \in Nat
      BY <1>1, <1>a, WindowGrows
    <3>2. Lag(m.id) <= Cardinality(Window(m.age)) /\ Cardinality(Window(m.age)) \in Nat
      BY WindowFacts DEF LagInv
    <3>3. /\ Lag(m.id) \in 1 .. ProbeSpace
          /\ Lag(m.id) < ProbeSpace => Lag(m.id)' = Lag(m.id) + 1 /\ m.id # next_probe_id
      BY <1>a, <2>1, LagStep
    <3> QED
      BY <3>1, <3>2, <3>3
  <2>5. ASSUME NEW m, m = ping
        PROVE  /\ m.id = next_probe_id /\ m.age = 0 /\ m.peer = p
               /\ Lag(m.id)' <= Cardinality(Window(m.age)')
    <3>1. m.id = next_probe_id /\ m.age = 0 /\ m.peer = p /\ m.id \in Ids
      BY <2>1, <2>5
    <3>2. 0 \in 0 .. MaxTrip
      OBVIOUS
    <3>3. Cardinality(Window(0)) + 1 <= Cardinality(Window(0)') /\ Cardinality(Window(0)') \in Nat
      BY <1>1, <3>2, WindowGrows
    <3>4. Cardinality(Window(0)) \in Nat
      BY WindowFacts
    <3>5. Lag(m.id)' = 1
      BY <2>1, <3>1, LagStep
    <3> QED
      BY <3>1, <3>3, <3>4, <3>5
  <2>6. LagInv'
    <3> SUFFICES ASSUME NEW m \in net' PROVE Lag(m.id)' <= Cardinality(Window(m.age)')
      BY DEF LagInv
    <3> QED
      BY <2>2, <2>4, <2>5
  <2>7. PongsMatch'
    <3> SUFFICES ASSUME NEW m \in net', pending'[m.id] # NoProbe
                 PROVE  pending'[m.id] = [peer |-> m.peer, age |-> m.age]
      BY DEF PongsMatch
    <3>1. CASE m \in net
      <4>1. m.id # next_probe_id /\ m.id \in Ids
        BY <1>a, <2>4, <3>1
      <4>2. pending'[m.id] = pending[m.id]
        BY <1>b, <2>3, <4>1
      <4> QED
        BY <3>1, <4>2 DEF PongsMatch
    <3>2. CASE m = ping
      <4>1. probes[next_probe_id] = [peer |-> p, age |-> 0]
        BY <1>b, <2>1
      <4> QED
        BY <2>1, <2>3, <2>5, <3>2, <4>1
    <3> QED
      BY <2>2, <3>1, <3>2
  <2> QED
    BY <2>6, <2>7
<1>2. ASSUME NEW m \in net, Pong(m)
      PROVE  LagInv' /\ PongsMatch'
  <2> DEFINE pong == [m EXCEPT !.kind = "pong"]
  <2>1. pong.id = m.id /\ pong.age = m.age /\ pong.peer = m.peer
    BY <1>a DEF Message
  <2>2. net' \subseteq net \cup {pong} /\ UNCHANGED <<next_probe_id, due, pending>>
    BY <1>2 DEF Pong
  <2>3. \A n \in net' : \E o \in net : n.id = o.id /\ n.age = o.age /\ n.peer = o.peer
    BY <2>1, <2>2
  <2>4. LagInv'
    BY <2>2, <2>3 DEF LagInv, Lag, Window
  <2>5. PongsMatch'
    BY <2>2, <2>3 DEF PongsMatch
  <2> QED
    BY <2>4, <2>5
<1>3. ASSUME NEW m \in net, NEW keep \in BOOLEAN, HandlePong(m, keep)
      PROVE  LagInv' /\ PongsMatch'
  <2>1. net' \subseteq net /\ UNCHANGED <<next_probe_id, due>>
    BY <1>3 DEF HandlePong
  <2>2. \A i \in Ids : pending'[i] # NoProbe => pending'[i] = pending[i]
    BY <1>3, <1>b DEF HandlePong
  <2>3. LagInv'
    BY <2>1 DEF LagInv, Lag, Window
  <2>4. PongsMatch'
    BY <1>a, <2>1, <2>2 DEF PongsMatch
  <2> QED
    BY <2>3, <2>4
<1>4. CASE Tick
  <2>1. net' = {Older(m) : m \in net} /\ next_probe_id' = next_probe_id
    BY <1>4 DEF Tick
  <2>2. \A m \in net : /\ Older(m).id = m.id /\ Older(m).peer = m.peer
                       /\ Older(m).age = m.age + 1
    BY <1>a DEF Older, Message
  <2>3. \A n \in net' : \E m \in net :
          n.id = m.id /\ n.peer = m.peer /\ n.age = m.age + 1
    BY <2>1, <2>2
  <2>4. LagInv'
    <3> SUFFICES ASSUME NEW n \in net'
                 PROVE  Lag(n.id)' <= Cardinality(Window(n.age)')
      BY DEF LagInv
    <3>1. PICK m \in net : n.id = m.id /\ n.age = m.age + 1
      BY <2>3
    <3>2. Window(m.age) = Window(m.age + 1)'
      BY <1>4, <1>a, WindowAges
    <3>3. Lag(n.id)' = Lag(m.id)
      BY <2>1, <3>1 DEF Lag
    <3> QED
      BY <3>1, <3>2, <3>3 DEF LagInv
  <2>5. PongsMatch'
    <3> SUFFICES ASSUME NEW n \in net', pending'[n.id] # NoProbe
                 PROVE  pending'[n.id] = [peer |-> n.peer, age |-> n.age]
      BY DEF PongsMatch
    <3>1. PICK m \in net : n.id = m.id /\ n.peer = m.peer /\ n.age = m.age + 1
      BY <2>3
    <3>2. pending[m.id] # NoProbe /\ pending'[n.id] = Older(pending[m.id])
      BY <1>4, <1>a, <3>1 DEF Tick
    <3>3. pending[m.id] = [peer |-> m.peer, age |-> m.age]
      BY <3>2 DEF PongsMatch
    <3>4. Older([peer |-> m.peer, age |-> m.age]) = [peer |-> m.peer, age |-> m.age + 1]
      BY DEF Older
    <3> QED
      BY <3>1, <3>2, <3>3, <3>4
  <2> QED
    BY <2>4, <2>5
<1>5. ASSUME UNCHANGED <<net, next_probe_id, due, pending>>
      PROVE  LagInv' /\ PongsMatch'
  <2>1. LagInv'
    BY <1>5 DEF LagInv, Lag, Window
  <2> QED
    BY <1>5, <2>1 DEF PongsMatch
<1> QED
  BY <1>1, <1>2, <1>3, <1>4, <1>5
     DEF Next, Answered, Measured, UpdateBack, Break, vars

\* If the probe ids suffice, a ping or pong under way finds in Prober.pending
\* its own probe or none: handle_pong never measures a late or repeated pong
\* against a younger probe, however the peers' probe loops interleave and
\* however often the ids wrap around.
THEOREM PongsFindTheirProbe == IdsSuffice => (Spec => []PongsMatch)
<1> SUFFICES ASSUME IdsSuffice PROVE Spec => []PongsMatch
  OBVIOUS
<1>1. Init => Typed /\ LagInv /\ PongsMatch
  BY TypedInit DEF Init, LagInv, PongsMatch
<1>2. Typed /\ LagInv /\ PongsMatch /\ [Next]_vars => (Typed /\ LagInv /\ PongsMatch)'
  BY TypedNext, MatchNext
<1> QED
  BY <1>1, <1>2, PTL DEF Spec
=============================================================================
