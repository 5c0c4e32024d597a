-------------------------- MODULE EdgeFlowsProofs --------------------------
(***************************************************************************)
(* Proofs about EdgeFlows for every set of nodes and clients, every split  *)
(* of the flow ids and every capacity.                                     *)
(***************************************************************************)
EXTENDS EdgeFlows, FiniteSetTheorems, TLAPS

----------------------------------------------------------------------------
(* Facts about the operators *)

\* Append keeps the elements and adds one at the end.
LEMMA AppendFacts ==
  ASSUME NEW S, NEW q \in Seq(S), NEW e \in S
  PROVE  /\ Append(q, e) \in Seq(S)
         /\ Len(q) \in Nat
         /\ Len(Append(q, e)) = Len(q) + 1
         /\ \A i \in 1 .. Len(q) : Append(q, e)[i] = q[i]
         /\ Append(q, e)[Len(q) + 1] = e
OBVIOUS

\* Tail drops the first element and keeps the others.
LEMMA TailFacts ==
  ASSUME NEW S, NEW q \in Seq(S), q # <<>>
  PROVE  /\ Tail(q) \in Seq(S) /\ Head(q) \in S
         /\ Len(q) \in Nat /\ 1 <= Len(q)
         /\ Len(Tail(q)) = Len(q) - 1
         /\ Head(q) = q[1]
         /\ \A i \in 1 .. Len(Tail(q)) : Tail(q)[i] = q[i + 1]
OBVIOUS

\* The other node is another node.
LEMMA OtherFacts ==
  ASSUME NEW n \in Nodes
  PROVE  Other(n) \in Nodes /\ Other(n) # n
<1>1. \E m \in Nodes : m # n
  BY EdgeAssumption
<1> QED
  BY <1>1 DEF Other

\* The clients have a home and a kind, the counters start at a flow id.
LEMMA ConstantFacts ==
  /\ \A c \in Clients : Home[c] \in Nodes /\ Kind[c] \in Kinds
  /\ \A k \in Kinds : FirstFlow(k) \in Flows
  /\ \A id \in Flows : NextFlow(id) \in Flows
  /\ NoClient \notin Clients
BY EdgeAssumption DEF Kinds, FirstFlow, Flows, NextFlow

----------------------------------------------------------------------------
(* Types *)

\* Initially every variable has its type.
LEMMA TypeInit == Init => TypeOK
<1> SUFFICES ASSUME Init PROVE TypeOK
  OBVIOUS
<1>1. next_flow_id \in [Nodes -> [Kinds -> Flows]]
  BY ConstantFacts DEF Init
<1>2. /\ channel \in [Clients -> Seq(Data)] /\ written \in [Clients -> Seq(Data)]
      /\ \A c \in Clients : Len(channel[c]) <= Capacity
  BY EdgeAssumption DEF Init
<1>3. flow \in [Clients -> Flows] /\ writing \in [Clients -> Data \cup {Nothing}]
  BY EdgeAssumption DEF Init, Flows
<1> QED
  BY <1>1, <1>2, <1>3 DEF Init, TypeOK

\* Every step keeps the types.
LEMMA TypeNext ==
  ASSUME TypeOK, [Next]_vars
  PROVE  TypeOK'
<1> USE ConstantFacts
<1>1. ASSUME NEW c \in Clients, Accept(c) PROVE TypeOK'
  <2> DEFINE n == Home[c]
             k == Kind[c]
             id == next_flow_id[n][k]
  <2>1. n \in Nodes /\ k \in Kinds /\ id \in Flows
    BY DEF TypeOK
  <2>2. next_flow_id' \in [Nodes -> [Kinds -> Flows]]
    <3>1. [next_flow_id[n] EXCEPT ![k] = NextFlow(@)] \in [Kinds -> Flows]
      BY <2>1 DEF TypeOK
    <3> QED
      BY <1>1, <2>1, <3>1 DEF Accept, TypeOK
  <2>3. active_flows' \in [Nodes -> [Kinds -> [Flows -> Clients \cup {NoClient}]]]
    <3>1. [active_flows[n][k] EXCEPT ![id] = c] \in [Flows -> Clients \cup {NoClient}]
      BY <2>1 DEF TypeOK
    <3>2. [active_flows[n] EXCEPT ![k][id] = c]
            \in [Kinds -> [Flows -> Clients \cup {NoClient}]]
      BY <2>1, <3>1 DEF TypeOK
    <3> QED
      BY <1>1, <2>1, <3>2 DEF Accept, TypeOK
  <2>4. flow' \in [Clients -> Flows]
    BY <1>1, <2>1 DEF Accept, TypeOK
  <2> QED
    BY <1>1, <2>2, <2>3, <2>4 DEF Accept, TypeOK
<1>2. ASSUME NEW c \in Clients, Read(c) PROVE TypeOK'
  <2>1. [to |-> Other(Home[c]), flow_id |-> flow[c], from |-> c, n |-> chunks[c] + 1]
          \in [to : Nodes, flow_id : Flows, from : Clients, n : Nat \ {0}]
    BY OtherFacts DEF TypeOK
  <2>2. chunks' \in [Clients -> Nat]
    BY <1>2 DEF Read, TypeOK
  <2> QED
    BY <1>2, <2>1, <2>2 DEF Read, TypeOK
<1>3. ASSUME NEW c \in Clients, ReaderEnds(c) PROVE TypeOK'
  BY <1>3 DEF ReaderEnds, TypeOK
<1>4. ASSUME NEW c \in Clients, Take(c) PROVE TypeOK'
  <2>1. channel[c] \in Seq(Data) /\ channel[c] # <<>>
    BY <1>4 DEF Take, TypeOK
  <2>2. /\ Tail(channel[c]) \in Seq(Data) /\ Head(channel[c]) \in Data
        /\ Len(Tail(channel[c])) <= Len(channel[c])
        /\ Len(channel[c]) \in Nat /\ Len(Tail(channel[c])) \in Nat
    <3> HIDE DEF Data
    <3> QED
      BY <2>1, TailFacts
  <2>3. Len(Tail(channel[c])) <= Capacity
    BY <2>2, EdgeAssumption DEF TypeOK
  <2> HIDE DEF Data
  <2>4. channel' \in [Clients -> Seq(Data)] /\ writing' \in [Clients -> Data \cup {Nothing}]
    BY <1>4, <2>2 DEF Take, TypeOK
  <2>5. \A d \in Clients : Len(channel'[d]) <= Capacity
    BY <1>4, <2>3 DEF Take, TypeOK
  <2> QED
    BY <1>4, <2>4, <2>5 DEF Take, TypeOK
<1>11. ASSUME NEW c \in Clients, Write(c) PROVE TypeOK'
  <2>1. writing[c] \in Data /\ written[c] \in Seq(Data)
    BY <1>11 DEF Write, TypeOK
  <2>2. Append(written[c], writing[c]) \in Seq(Data)
    BY <2>1
  <2> HIDE DEF Data
  <2>3. written' \in [Clients -> Seq(Data)] /\ writing' \in [Clients -> Data \cup {Nothing}]
    BY <1>11, <2>2 DEF Write, TypeOK
  <2> QED
    BY <1>11, <2>3 DEF Write, TypeOK
<1>5. ASSUME NEW c \in Clients, WriteFails(c) PROVE TypeOK'
  <2>1. channel' \in [Clients -> Seq(Data)] /\ \A d \in Clients : Len(channel'[d]) <= Capacity
    BY <1>5, EdgeAssumption DEF WriteFails, TypeOK
  <2>2. writing' \in [Clients -> Data \cup {Nothing}]
    BY <1>5 DEF WriteFails, TypeOK
  <2> QED
    BY <1>5, <2>1, <2>2 DEF WriteFails, TypeOK
<1>6. ASSUME NEW c \in Clients, WriterEnds(c) PROVE TypeOK'
  BY <1>6 DEF WriterEnds, TypeOK
<1>7. ASSUME NEW c \in Clients, Close(c) PROVE TypeOK'
  <2> DEFINE n == Home[c]
             k == Kind[c]
             id == flow[c]
  <2>1. n \in Nodes /\ k \in Kinds /\ id \in Flows
    BY DEF TypeOK
  <2>2. [active_flows[n][k] EXCEPT ![id] = NoClient] \in [Flows -> Clients \cup {NoClient}]
    BY <2>1 DEF TypeOK
  <2>3. [active_flows[n] EXCEPT ![k][id] = NoClient]
          \in [Kinds -> [Flows -> Clients \cup {NoClient}]]
    BY <2>1, <2>2 DEF TypeOK
  <2>4. active_flows' \in [Nodes -> [Kinds -> [Flows -> Clients \cup {NoClient}]]]
    BY <1>7, <2>1, <2>3 DEF Close, TypeOK
  <2> QED
    BY <1>7, <2>4 DEF Close, TypeOK
<1>8. ASSUME NEW x \in relay, Lose(x) PROVE TypeOK'
  BY <1>8 DEF Lose, TypeOK
<1>9. ASSUME NEW x \in relay, Deliver(x) PROVE TypeOK'
  <2> DEFINE c == active_flows[x.to][EdgeOf(x.flow_id)][x.flow_id]
             data == [from |-> x.from, n |-> x.n]
  <2>1. CASE HasRoom(c)
    <3>1. x.to \in Nodes /\ x.flow_id \in Flows /\ EdgeOf(x.flow_id) \in Kinds /\ data \in Data
      BY DEF TypeOK, EdgeOf, Kinds, Data
    <3>2. c \in Clients
      BY <2>1, <3>1 DEF TypeOK, HasRoom
    <3>3. channel' = [channel EXCEPT ![c] = Append(@, data)]
      BY <1>9, <2>1 DEF Deliver
    <3> HIDE DEF c, data, Data
    <3>4. channel[c] \in Seq(Data) /\ Len(channel[c]) < Capacity
      BY <2>1, <3>2 DEF TypeOK, HasRoom
    <3>5. /\ Append(channel[c], data) \in Seq(Data)
          /\ Len(Append(channel[c], data)) = Len(channel[c]) + 1 /\ Len(channel[c]) \in Nat
      BY <3>1, <3>4, AppendFacts
    <3>6. Len(Append(channel[c], data)) <= Capacity
      BY <3>4, <3>5, EdgeAssumption
    <3>7. /\ channel' \in [Clients -> Seq(Data)]
          /\ \A d \in Clients : Len(channel'[d]) <= Capacity
      BY <3>2, <3>3, <3>5, <3>6 DEF TypeOK
    <3> QED
      BY <1>9, <3>7 DEF Deliver, TypeOK
  <2>2. CASE ~HasRoom(c)
    BY <1>9, <2>2 DEF Deliver, TypeOK
  <2> QED
    BY <2>1, <2>2
<1>10. CASE UNCHANGED vars
  BY <1>10 DEF vars, TypeOK
<1> QED
  BY <1>1, <1>2, <1>3, <1>4, <1>5, <1>6, <1>7, <1>8, <1>9, <1>10, <1>11 DEF Next

\* Every variable keeps its type, and no response channel ever exceeds its
\* capacity, whatever the connections do: deliver uses try_send.
THEOREM TypeCorrect == Spec => []TypeOK
<1>1. TypeOK /\ [Next]_vars => TypeOK'
  BY TypeNext
<1> QED
  BY TypeInit, <1>1, PTL DEF Spec

----------------------------------------------------------------------------
(* Flow ids *)

\* The clients that have been given an id by the counter of an edge.
Accepted(n, k) == {c \in ClientsOf(n, k) : handler[c] # "idle"}

\* How many ids a counter has given out since id, counting itself.
Lag(n, k, id) ==
  IF id < next_flow_id[n][k] THEN next_flow_id[n][k] - id
  ELSE next_flow_id[n][k] - id + FlowSpace

\* The tasks of a client run only after it was accepted.
RunInv ==
  \A c \in Clients : reader[c] # "idle" \/ writer[c] # "idle" => handler[c] # "idle"

\* A counter has moved past an id by no more than the number of clients it has
\* served, and no two clients of an edge share an id.
IdInv ==
  /\ \A c \in Clients : handler[c] # "idle" =>
       Lag(Home[c], Kind[c], flow[c]) <= Cardinality(Accepted(Home[c], Kind[c]))
  /\ \A c, d \in Clients :
       /\ handler[c] # "idle" /\ handler[d] # "idle"
       /\ Home[c] = Home[d] /\ Kind[c] = Kind[d] /\ flow[c] = flow[d]
       => c = d

\* Strengthens ConnectedIsRegistered: an entry of active_flows is a client of
\* that edge.
RegInv ==
  /\ \A c \in Clients :
       handler[c] = "open" => active_flows[Home[c]][Kind[c]][flow[c]] = c
  /\ \A n \in Nodes, k \in Kinds, id \in Flows :
       LET c == active_flows[n][k][id]
       IN c # NoClient => /\ c \in ClientsOf(n, k)
                          /\ handler[c] = "open" /\ flow[c] = id

\* Together with the types this is inductive.
FlowInv == TypeOK /\ RunInv /\ IdInv /\ RegInv

\* The sets that are counted are finite; before a client is accepted its
\* counter has not served all, after it has served one more.
LEMMA AcceptedFacts ==
  ASSUME FlowsAreUnique, NEW n \in Nodes, NEW k \in Kinds
  PROVE  /\ IsFiniteSet(Accepted(n, k))
         /\ Cardinality(Accepted(n, k)) \in Nat
         /\ Cardinality(ClientsOf(n, k)) \in Nat
         /\ \A c \in ClientsOf(n, k) : c \notin Accepted(n, k) =>
              /\ Cardinality(Accepted(n, k)) < Cardinality(ClientsOf(n, k))
              /\ Cardinality(Accepted(n, k) \cup {c}) = Cardinality(Accepted(n, k)) + 1
<1>1. ClientsOf(n, k) \in SUBSET Clients /\ IsFiniteSet(Clients)
  BY DEF ClientsOf, FlowsAreUnique
<1>2. IsFiniteSet(ClientsOf(n, k))
  BY <1>1, FS_Subset
<1>3. Accepted(n, k) \in SUBSET ClientsOf(n, k)
  BY DEF Accepted
<1>4. IsFiniteSet(Accepted(n, k))
  BY <1>2, <1>3, FS_Subset
<1>5. Cardinality(Accepted(n, k)) \in Nat /\ Cardinality(ClientsOf(n, k)) \in Nat
  BY <1>2, <1>4, FS_CardinalityType
<1>6. ASSUME NEW c \in ClientsOf(n, k), c \notin Accepted(n, k)
      PROVE  /\ Cardinality(Accepted(n, k)) < Cardinality(ClientsOf(n, k))
             /\ Cardinality(Accepted(n, k) \cup {c}) = Cardinality(Accepted(n, k)) + 1
  <2>1. Cardinality(Accepted(n, k) \cup {c}) = Cardinality(Accepted(n, k)) + 1
    BY <1>4, <1>6, FS_AddElement
  <2>2. (Accepted(n, k) \cup {c}) \in SUBSET ClientsOf(n, k)
    BY <1>3
  <2>3. Cardinality(Accepted(n, k) \cup {c}) <= Cardinality(ClientsOf(n, k))
    BY <1>2, <2>2, FS_Subset
  <2> QED
    BY <1>5, <2>1, <2>3
<1> QED
  BY <1>4, <1>5, <1>6

\* What accepting a client does, entry by entry.
LEMMA AcceptFacts ==
  ASSUME TypeOK, NEW c \in Clients, Accept(c)
  PROVE  LET id == next_flow_id[Home[c]][Kind[c]] IN
         /\ id \in Flows
         /\ handler[c] = "idle"
         /\ \A n \in Nodes, k \in Kinds :
              next_flow_id'[n][k] = IF n = Home[c] /\ k = Kind[c] THEN NextFlow(id)
                                    ELSE next_flow_id[n][k]
         /\ \A n \in Nodes, k \in Kinds, i \in Flows :
              active_flows'[n][k][i] = IF n = Home[c] /\ k = Kind[c] /\ i = id THEN c
                                       ELSE active_flows[n][k][i]
         /\ \A d \in Clients : flow'[d] = IF d = c THEN id ELSE flow[d]
         /\ \A d \in Clients : handler'[d] = IF d = c THEN "open" ELSE handler[d]
<1>1. Home[c] \in Nodes /\ Kind[c] \in Kinds
  BY ConstantFacts
<1>2. next_flow_id[Home[c]][Kind[c]] \in Flows
  BY <1>1 DEF TypeOK
<1>3. \A n \in Nodes, k \in Kinds :
        next_flow_id'[n][k] = IF n = Home[c] /\ k = Kind[c]
                              THEN NextFlow(next_flow_id[Home[c]][Kind[c]])
                              ELSE next_flow_id[n][k]
  BY <1>1 DEF TypeOK, Accept
<1>4. \A n \in Nodes, k \in Kinds, i \in Flows :
        active_flows'[n][k][i] =
          IF n = Home[c] /\ k = Kind[c] /\ i = next_flow_id[Home[c]][Kind[c]] THEN c
          ELSE active_flows[n][k][i]
  BY <1>1, <1>2 DEF TypeOK, Accept
<1>5. /\ \A d \in Clients : flow'[d] = IF d = c THEN next_flow_id[Home[c]][Kind[c]] ELSE flow[d]
      /\ \A d \in Clients : handler'[d] = IF d = c THEN "open" ELSE handler[d]
      /\ handler[c] = "idle"
  BY DEF TypeOK, Accept, Waiting
<1> QED
  BY <1>2, <1>3, <1>4, <1>5

\* An id is a number of steps behind its counter, one more after the next id
\* was given out, unless the counter has come round to it.
LEMMA LagStep ==
  ASSUME NEW id \in Flows, NEW old \in Flows, NEW new, new = NextFlow(old)
  PROVE  LET lag(x) == IF id < x THEN x - id ELSE x - id + FlowSpace IN
         /\ lag(old) \in 1 .. FlowSpace
         /\ lag(old) < FlowSpace => lag(new) = lag(old) + 1 /\ id # old
         /\ id = old => lag(new) = 1
<1>1. CASE old + 1 = FlowSpace
  <2>1. new = 0
    BY <1>1, EdgeAssumption DEF NextFlow, Flows
  <2> QED
    BY <1>1, <2>1, EdgeAssumption DEF Flows
<1>2. CASE old + 1 < FlowSpace
  <2>1. new = old + 1
    BY <1>2, EdgeAssumption DEF NextFlow, Flows
  <2> QED
    BY <1>2, <2>1, EdgeAssumption DEF Flows
<1> QED
  BY <1>1, <1>2, EdgeAssumption DEF Flows

\* Accepting a client keeps the invariant: its id is nobody else's.
LEMMA AcceptKeeps ==
  ASSUME FlowsAreUnique, FlowInv, NEW c \in Clients, Accept(c)
  PROVE  (RunInv /\ IdInv /\ RegInv)'
<1> DEFINE n == Home[c]
           k == Kind[c]
           id == next_flow_id[n][k]
<1> USE ConstantFacts
<1>1. TypeOK /\ RunInv /\ IdInv /\ RegInv
  BY DEF FlowInv
<1>2. n \in Nodes /\ k \in Kinds /\ id \in Flows /\ handler[c] = "idle"
  BY <1>1, AcceptFacts
<1>3. /\ \A m \in Nodes, j \in Kinds :
           next_flow_id'[m][j] = IF m = n /\ j = k THEN NextFlow(id)
                                 ELSE next_flow_id[m][j]
      /\ \A m \in Nodes, j \in Kinds, i \in Flows :
           active_flows'[m][j][i] = IF m = n /\ j = k /\ i = id THEN c
                                    ELSE active_flows[m][j][i]
      /\ \A d \in Clients : flow'[d] = IF d = c THEN id ELSE flow[d]
      /\ \A d \in Clients : handler'[d] = IF d = c THEN "open" ELSE handler[d]
  BY <1>1, AcceptFacts
<1>4. RunInv'
  BY <1>1, <1>3 DEF RunInv, Accept, TypeOK
<1>5. \A d \in Clients : Home[d] \in Nodes /\ Kind[d] \in Kinds /\ flow[d] \in Flows
  BY <1>1 DEF TypeOK
<1>6. /\ Accepted(n, k)' = Accepted(n, k) \cup {c}
      /\ \A m \in Nodes, j \in Kinds : m # n \/ j # k => Accepted(m, j)' = Accepted(m, j)
  BY <1>2, <1>3 DEF Accepted, ClientsOf
<1>7. c \in ClientsOf(n, k) /\ c \notin Accepted(n, k)
  BY <1>2 DEF Accepted, ClientsOf
<1>8. /\ Cardinality(Accepted(n, k)) \in Nat
      /\ Cardinality(Accepted(n, k)) < FlowSpace
      /\ Cardinality(Accepted(n, k)') = Cardinality(Accepted(n, k)) + 1
  <2>1. /\ Cardinality(Accepted(n, k)) \in Nat /\ Cardinality(ClientsOf(n, k)) \in Nat
        /\ Cardinality(Accepted(n, k)) < Cardinality(ClientsOf(n, k))
        /\ Cardinality(Accepted(n, k) \cup {c}) = Cardinality(Accepted(n, k)) + 1
    BY <1>2, <1>7, AcceptedFacts
  <2>2. Cardinality(ClientsOf(n, k)) <= FlowSpace
    BY <1>2 DEF FlowsAreUnique
  <2> QED
    BY <1>6, <2>1, <2>2, EdgeAssumption
<1> HIDE DEF id
<1>9. ASSUME NEW d \in Clients, handler[d] # "idle", Home[d] = n, Kind[d] = k
      PROVE  /\ flow[d] # id
             /\ Lag(n, k, flow[d])' <= Cardinality(Accepted(n, k)')
  <2> DEFINE i == flow[d]
             lag(x) == IF i < x THEN x - i ELSE x - i + FlowSpace
  <2>1. i \in Flows /\ lag(id) <= Cardinality(Accepted(n, k))
    BY <1>1, <1>5, <1>9 DEF IdInv, Lag, id
  <2>2. /\ lag(id) \in 1 .. FlowSpace
        /\ lag(id) < FlowSpace => lag(NextFlow(id)) = lag(id) + 1 /\ i # id
    BY <1>2, <2>1, LagStep
  <2>3. next_flow_id'[n][k] = NextFlow(id) /\ flow'[d] = i
    BY <1>2, <1>3, <1>9
  <2>4. Lag(n, k, flow[d])' = lag(NextFlow(id))
    BY <2>3 DEF Lag
  <2> HIDE DEF i, lag
  <2>5. lag(NextFlow(id)) <= Cardinality(Accepted(n, k)') /\ i # id
    BY <1>8, <2>1, <2>2, EdgeAssumption
  <2> QED
    BY <2>4, <2>5 DEF i
<1>10. Lag(n, k, flow[c])' <= Cardinality(Accepted(n, k)')
  <2>1. next_flow_id'[n][k] = NextFlow(id) /\ flow'[c] = id
    BY <1>2, <1>3
  <2>2. Lag(n, k, flow[c])' = 1
    BY <1>2, <2>1, LagStep DEF Lag
  <2> QED
    BY <1>8, <2>2
<1>11. ASSUME NEW d \in Clients, handler[d] # "idle", Home[d] # n \/ Kind[d] # k
       PROVE  Lag(Home[d], Kind[d], flow[d])' <= Cardinality(Accepted(Home[d], Kind[d])')
  <2>1. /\ next_flow_id'[Home[d]][Kind[d]] = next_flow_id[Home[d]][Kind[d]]
        /\ flow'[d] = flow[d]
        /\ Accepted(Home[d], Kind[d])' = Accepted(Home[d], Kind[d])
    BY <1>3, <1>5, <1>6, <1>11
  <2>2. Lag(Home[d], Kind[d], flow[d])' = Lag(Home[d], Kind[d], flow[d])
    BY <2>1 DEF Lag
  <2> QED
    BY <1>1, <1>11, <2>1, <2>2 DEF IdInv
<1>12. IdInv'
  <2>1. ASSUME NEW d \in Clients, handler'[d] # "idle"
        PROVE  Lag(Home[d], Kind[d], flow[d])' <= Cardinality(Accepted(Home[d], Kind[d])')
    <3>1. CASE d = c
      BY <1>10, <3>1
    <3>2. CASE d # c /\ Home[d] = n /\ Kind[d] = k
      BY <1>3, <1>9, <2>1, <3>2
    <3>3. CASE d # c /\ (Home[d] # n \/ Kind[d] # k)
      BY <1>3, <1>11, <2>1, <3>3
    <3> QED
      BY <3>1, <3>2, <3>3
  <2>2. ASSUME NEW d \in Clients, NEW e \in Clients,
               handler'[d] # "idle", handler'[e] # "idle",
               Home[d] = Home[e], Kind[d] = Kind[e], flow'[d] = flow'[e]
        PROVE  d = e
    BY <1>1, <1>3, <1>9, <2>2 DEF IdInv
  <2> QED
    BY <2>1, <2>2 DEF IdInv
<1>13. RegInv'
  <2>1. ASSUME NEW d \in Clients, handler'[d] = "open"
        PROVE  active_flows'[Home[d]][Kind[d]][flow'[d]] = d
    <3>1. CASE d = c
      BY <1>2, <1>3, <3>1
    <3>2. CASE d # c
      <4>1. handler[d] = "open" /\ flow'[d] = flow[d]
        BY <1>3, <2>1, <3>2
      <4>2. ~(Home[d] = n /\ Kind[d] = k /\ flow[d] = id)
        BY <1>9, <4>1
      <4>3. active_flows'[Home[d]][Kind[d]][flow[d]] = active_flows[Home[d]][Kind[d]][flow[d]]
        BY <1>3, <1>5, <4>2
      <4> QED
        BY <1>1, <4>1, <4>3 DEF RegInv
    <3> QED
      BY <3>1, <3>2
  <2>2. ASSUME NEW m \in Nodes, NEW j \in Kinds, NEW i \in Flows,
               active_flows'[m][j][i] # NoClient
        PROVE  LET d == active_flows'[m][j][i] IN
               d \in ClientsOf(m, j) /\ handler'[d] = "open" /\ flow'[d] = i
    <3>1. CASE m = n /\ j = k /\ i = id
      BY <1>3, <1>7, <3>1
    <3>2. CASE ~(m = n /\ j = k /\ i = id)
      <4> DEFINE d == active_flows[m][j][i]
      <4>1. active_flows'[m][j][i] = d
        BY <1>3, <3>2
      <4>2. d \in ClientsOf(m, j) /\ handler[d] = "open" /\ flow[d] = i
        BY <1>1, <2>2, <4>1 DEF RegInv
      <4>3. d \in Clients /\ d # c
        BY <1>2, <4>2 DEF ClientsOf
      <4> HIDE DEF d
      <4> QED
        BY <1>3, <4>1, <4>2, <4>3
    <3> QED
      BY <3>1, <3>2
  <2> QED
    BY <2>1, <2>2 DEF RegInv, ClientsOf
<1> QED
  BY <1>4, <1>12, <1>13

\* Closing a flow removes the entry of its client and no other.
LEMMA CloseKeeps ==
  ASSUME FlowInv, NEW c \in Clients, Close(c)
  PROVE  (RunInv /\ IdInv /\ RegInv)'
<1> USE ConstantFacts
<1>1. TypeOK /\ RunInv /\ IdInv /\ RegInv
  BY DEF FlowInv
<1>2. handler[c] = "open" /\ Home[c] \in Nodes /\ Kind[c] \in Kinds /\ flow[c] \in Flows
  BY <1>1 DEF Close, TypeOK
<1>3. \A m \in Nodes, j \in Kinds, i \in Flows :
        active_flows'[m][j][i] =
          IF m = Home[c] /\ j = Kind[c] /\ i = flow[c] THEN NoClient
          ELSE active_flows[m][j][i]
  BY <1>1, <1>2 DEF TypeOK, Close
<1>4. /\ \A d \in Clients : handler'[d] = IF d = c THEN "done" ELSE handler[d]
      /\ UNCHANGED <<next_flow_id, flow, reader, writer>>
  BY <1>1 DEF TypeOK, Close
<1>5. RunInv'
  BY <1>1, <1>2, <1>4 DEF RunInv
<1>6. \A d \in Clients : handler'[d] # "idle" <=> handler[d] # "idle"
  BY <1>2, <1>4
<1>7. \A m, j : Accepted(m, j)' = Accepted(m, j)
  BY <1>6 DEF Accepted, ClientsOf
<1>8. IdInv'
  BY <1>1, <1>4, <1>6, <1>7 DEF IdInv, Lag
<1>9. RegInv'
  <2>1. ASSUME NEW d \in Clients, handler'[d] = "open"
        PROVE  active_flows'[Home[d]][Kind[d]][flow'[d]] = d
    <3>1. handler[d] = "open" /\ d # c /\ flow'[d] = flow[d] /\ flow[d] \in Flows
      BY <1>1, <1>4, <2>1 DEF TypeOK
    <3>2. ~(Home[d] = Home[c] /\ Kind[d] = Kind[c] /\ flow[d] = flow[c])
      BY <1>1, <1>2, <3>1 DEF IdInv
    <3>3. active_flows'[Home[d]][Kind[d]][flow[d]] = active_flows[Home[d]][Kind[d]][flow[d]]
      BY <1>3, <3>1, <3>2
    <3> QED
      BY <1>1, <3>1, <3>3 DEF RegInv
  <2>2. ASSUME NEW m \in Nodes, NEW j \in Kinds, NEW i \in Flows,
               active_flows'[m][j][i] # NoClient
        PROVE  LET d == active_flows'[m][j][i] IN
               d \in ClientsOf(m, j) /\ handler'[d] = "open" /\ flow'[d] = i
    <3> DEFINE d == active_flows[m][j][i]
    <3>1. active_flows'[m][j][i] = d /\ ~(m = Home[c] /\ j = Kind[c] /\ i = flow[c])
      BY <1>3, <2>2
    <3>2. d \in ClientsOf(m, j) /\ handler[d] = "open" /\ flow[d] = i
      BY <1>1, <2>2, <3>1 DEF RegInv
    <3>3. d \in Clients /\ Home[d] = m /\ Kind[d] = j
      BY <3>2 DEF ClientsOf
    <3>4. d # c
      BY <3>1, <3>2, <3>3
    <3> HIDE DEF d
    <3> QED
      BY <1>4, <3>1, <3>2, <3>3, <3>4
  <2> QED
    BY <2>1, <2>2 DEF RegInv, ClientsOf
<1> QED
  BY <1>5, <1>8, <1>9

\* Every step keeps the invariant.
LEMMA FlowNext ==
  ASSUME FlowsAreUnique, FlowInv, [Next]_vars
  PROVE  FlowInv'
<1>0. TypeOK'
  BY TypeNext DEF FlowInv
<1>1. ASSUME NEW c \in Clients, Accept(c) PROVE FlowInv'
  BY <1>0, <1>1, AcceptKeeps DEF FlowInv
<1>2. ASSUME NEW c \in Clients, Close(c) PROVE FlowInv'
  BY <1>0, <1>2, CloseKeeps DEF FlowInv
<1>3. ASSUME UNCHANGED <<next_flow_id, active_flows, flow, handler>>,
             \A d \in Clients : /\ reader[d] = "idle" => reader'[d] = "idle"
                                /\ writer[d] = "idle" => writer'[d] = "idle"
      PROVE  FlowInv'
  <2>1. \A n, k : Accepted(n, k)' = Accepted(n, k)
    BY <1>3 DEF Accepted, ClientsOf
  <2>2. IdInv'
    BY <1>3, <2>1 DEF FlowInv, IdInv, Lag
  <2>3. RegInv'
    BY <1>3 DEF FlowInv, RegInv, ClientsOf
  <2>4. RunInv'
    BY <1>3 DEF FlowInv, RunInv
  <2> QED
    BY <1>0, <2>2, <2>3, <2>4 DEF FlowInv
<1>4. ASSUME NEW c \in Clients,
             \/ Read(c) \/ ReaderEnds(c)
             \/ Take(c) \/ Write(c) \/ WriteFails(c) \/ WriterEnds(c)
      PROVE  FlowInv'
  <2>1. UNCHANGED <<next_flow_id, active_flows, flow, handler>>
    BY <1>4 DEF Read, ReaderEnds, Take, Write, WriteFails, WriterEnds
  <2>2. \A d \in Clients : /\ reader[d] = "idle" => reader'[d] = "idle"
                           /\ writer[d] = "idle" => writer'[d] = "idle"
    BY <1>4 DEF Read, ReaderEnds, Take, Write, WriteFails, WriterEnds, FlowInv, TypeOK
  <2> QED
    BY <1>3, <2>1, <2>2
<1>5. ASSUME NEW x \in relay, Lose(x) \/ Deliver(x) PROVE FlowInv'
  BY <1>3, <1>5 DEF Lose, Deliver
<1>6. CASE UNCHANGED vars
  BY <1>3, <1>6 DEF vars
<1> QED
  BY <1>1, <1>2, <1>4, <1>5, <1>6 DEF Next

\* Initially nothing is registered.
LEMMA FlowInit == Init => FlowInv
<1> SUFFICES ASSUME Init PROVE FlowInv
  OBVIOUS
<1>1. \A c \in Clients : handler[c] = "idle" /\ reader[c] = "idle" /\ writer[c] = "idle"
  BY DEF Init
<1>2. \A n \in Nodes, k \in Kinds, id \in Flows : active_flows[n][k][id] = NoClient
  BY DEF Init
<1>3. RegInv
  BY <1>1, <1>2 DEF RegInv
<1>4. RunInv /\ IdInv
  BY <1>1 DEF RunInv, IdInv
<1> QED
  BY <1>3, <1>4, TypeInit DEF FlowInv

\* As long as fewer connections come than there are flow ids, a client whose
\* handler runs is the one its acceptor finds under its flow id, and nothing
\* else is found in active_flows: closing one flow or accepting another never
\* takes away the entry of a third.
THEOREM ConnectionsAreRegistered == FlowsAreUnique => (Spec => []ConnectedIsRegistered)
<1> SUFFICES ASSUME FlowsAreUnique PROVE Spec => []ConnectedIsRegistered
  OBVIOUS
<1>1. FlowInv /\ [Next]_vars => FlowInv'
  BY FlowNext
<1>2. FlowInv => ConnectedIsRegistered
  BY DEF FlowInv, RegInv, ConnectedIsRegistered
<1> QED
  BY FlowInit, <1>1, <1>2, PTL DEF Spec

----------------------------------------------------------------------------
(* Payloads *)

\* The ids of each edge are on its side of the boundary, and as long as a
\* client is still to come the counter has not wrapped around.
SideInv ==
  /\ \A c \in Clients : handler[c] # "idle" => EdgeOf(flow[c]) = Kind[c]
  /\ \A n \in Nodes, k \in Kinds :
       Accepted(n, k) # ClientsOf(n, k) =>
         next_flow_id[n][k] = FirstFlow(k) + Cardinality(Accepted(n, k))

\* d is the counterpart of c.
Counterpart(d, c) ==
  /\ d \in Clients
  /\ handler[c] # "idle" /\ handler[d] # "idle"
  /\ Home[d] # Home[c] /\ Kind[d] = Kind[c] /\ flow[d] = flow[c]

\* Strengthens RightClient: payloads under way carry the id of their sender,
\* and what waits in a channel comes from the counterpart as well.
DataInv ==
  /\ \A x \in relay : /\ handler[x.from] # "idle"
                      /\ x.to = Other(Home[x.from])
                      /\ x.flow_id = flow[x.from]
  /\ \A c \in Clients :
       /\ \A i \in 1 .. Len(channel[c]) : Counterpart(channel[c][i].from, c)
       /\ \A i \in 1 .. Len(written[c]) : Counterpart(written[c][i].from, c)
       /\ writing[c] # Nothing => Counterpart(writing[c].from, c)

\* Ids on their own side of the boundary are in particular unique.
LEMMA ApartIsUnique == FlowsStayApart => FlowsAreUnique
<1> SUFFICES ASSUME FlowsStayApart, NEW n \in Nodes, NEW k \in Kinds
             PROVE  Cardinality(ClientsOf(n, k)) <= FlowSpace
  BY DEF FlowsStayApart, FlowsAreUnique
<1>1. ClientsOf(n, k) \in SUBSET Clients /\ IsFiniteSet(Clients)
  BY DEF ClientsOf, FlowsStayApart
<1>2. Cardinality(ClientsOf(n, k)) \in Nat
  BY <1>1, FS_Subset, FS_CardinalityType
<1> QED
  BY <1>2, EdgeAssumption DEF FlowsStayApart, Kinds

\* Accepting a client keeps the ids on their sides.
LEMMA AcceptKeepsSides ==
  ASSUME FlowsStayApart, TypeOK, SideInv, NEW c \in Clients, Accept(c)
  PROVE  SideInv'
<1> DEFINE n == Home[c]
           k == Kind[c]
           id == next_flow_id[n][k]
<1>1. n \in Nodes /\ k \in Kinds /\ id \in Flows /\ handler[c] = "idle"
  BY ConstantFacts, AcceptFacts
<1>2. /\ \A m \in Nodes, j \in Kinds :
           next_flow_id'[m][j] = IF m = n /\ j = k THEN NextFlow(id)
                                 ELSE next_flow_id[m][j]
      /\ \A d \in Clients : flow'[d] = IF d = c THEN id ELSE flow[d]
      /\ \A d \in Clients : handler'[d] = IF d = c THEN "open" ELSE handler[d]
  BY AcceptFacts
<1> HIDE DEF id
<1>3. /\ Accepted(n, k)' = Accepted(n, k) \cup {c}
      /\ \A m \in Nodes, j \in Kinds : m # n \/ j # k => Accepted(m, j)' = Accepted(m, j)
      /\ \A m, j : ClientsOf(m, j)' = ClientsOf(m, j)
  BY <1>1, <1>2 DEF Accepted, ClientsOf
<1>4. c \in ClientsOf(n, k) /\ c \notin Accepted(n, k)
  BY <1>1 DEF Accepted, ClientsOf
<1>5. /\ IsFiniteSet(Accepted(n, k))
      /\ Cardinality(Accepted(n, k)) \in Nat /\ Cardinality(ClientsOf(n, k)) \in Nat
      /\ Cardinality(Accepted(n, k)) < Cardinality(ClientsOf(n, k))
      /\ Cardinality(Accepted(n, k)') = Cardinality(Accepted(n, k)) + 1
  BY <1>1, <1>3, <1>4, ApartIsUnique, AcceptedFacts
<1>6. id = FirstFlow(k) + Cardinality(Accepted(n, k))
  BY <1>1, <1>4 DEF SideInv, id
<1>7. EdgeOf(id) = k
  <2>1. CASE k = "tcp"
    BY <1>1, <1>5, <1>6, <2>1, EdgeAssumption DEF FlowsStayApart, FirstFlow, EdgeOf
  <2>2. CASE k = "quic"
    BY <1>1, <1>5, <1>6, <2>2, EdgeAssumption DEF FlowsStayApart, FirstFlow, EdgeOf
  <2> QED
    BY <1>1, <2>1, <2>2 DEF Kinds
<1>8. ASSUME NEW m \in Nodes, NEW j \in Kinds, Accepted(m, j)' # ClientsOf(m, j)
      PROVE  next_flow_id'[m][j] = FirstFlow(j) + Cardinality(Accepted(m, j)')
  <2>1. CASE m = n /\ j = k
    <3>1. Cardinality(Accepted(n, k)') < Cardinality(ClientsOf(n, k))
      <4>1. (Accepted(n, k) \cup {c}) \in SUBSET ClientsOf(n, k)
        BY <1>4 DEF Accepted
      <4>2. IsFiniteSet(ClientsOf(n, k))
        <5>1. ClientsOf(n, k) \in SUBSET Clients /\ IsFiniteSet(Clients)
          BY DEF ClientsOf, FlowsStayApart
        <5> QED
          BY <5>1, FS_Subset
      <4>3. /\ Cardinality(Accepted(n, k) \cup {c}) <= Cardinality(ClientsOf(n, k))
            /\ Cardinality(Accepted(n, k) \cup {c}) # Cardinality(ClientsOf(n, k))
        BY <1>3, <1>8, <2>1, <4>1, <4>2, FS_Subset
      <4> QED
        BY <1>3, <1>5, <4>3
    <3>2. FirstFlow(k) + Cardinality(Accepted(n, k)) + 1 < FlowSpace
      <4>1. CASE k = "tcp"
        BY <1>1, <1>5, <3>1, <4>1, EdgeAssumption DEF FlowsStayApart, FirstFlow
      <4>2. CASE k = "quic"
        BY <1>1, <1>5, <3>1, <4>2, EdgeAssumption DEF FlowsStayApart, FirstFlow
      <4> QED
        BY <1>1, <4>1, <4>2 DEF Kinds
    <3>3. FirstFlow(k) \in Nat
      BY EdgeAssumption DEF FirstFlow
    <3>4. NextFlow(id) = id + 1
      BY <1>1, <1>6, <3>2, EdgeAssumption DEF NextFlow, Flows
    <3> QED
      BY <1>1, <1>2, <1>5, <1>6, <2>1, <3>3, <3>4
  <2>2. CASE m # n \/ j # k
    BY <1>2, <1>3, <1>8, <2>2 DEF SideInv
  <2> QED
    BY <2>1, <2>2
<1>9. \A d \in Clients : handler'[d] # "idle" => EdgeOf(flow'[d]) = Kind[d]
  BY <1>2, <1>7 DEF SideInv
<1> QED
  BY <1>3, <1>8, <1>9 DEF SideInv, ClientsOf

\* Every step keeps the ids on their sides.
LEMMA SideNext ==
  ASSUME FlowsStayApart, TypeOK, SideInv, [Next]_vars
  PROVE  SideInv'
<1>1. ASSUME NEW c \in Clients, Close(c) PROVE SideInv'
  <2>1. \A d \in Clients : handler'[d] # "idle" <=> handler[d] # "idle"
    BY <1>1 DEF Close, TypeOK
  <2>2. \A n, k : Accepted(n, k)' = Accepted(n, k)
    BY <2>1 DEF Accepted, ClientsOf
  <2> QED
    BY <1>1, <2>1, <2>2 DEF SideInv, Close, ClientsOf
<1>2. ASSUME UNCHANGED <<next_flow_id, flow, handler>> PROVE SideInv'
  <2>1. \A n, k : Accepted(n, k)' = Accepted(n, k)
    BY <1>2 DEF Accepted, ClientsOf
  <2> QED
    BY <1>2, <2>1 DEF SideInv, ClientsOf
<1>3. ASSUME NEW c \in Clients,
             \/ Read(c) \/ ReaderEnds(c)
             \/ Take(c) \/ Write(c) \/ WriteFails(c) \/ WriterEnds(c)
      PROVE  SideInv'
  BY <1>2, <1>3 DEF Read, ReaderEnds, Take, Write, WriteFails, WriterEnds
<1>4. ASSUME NEW x \in relay, Lose(x) \/ Deliver(x) PROVE SideInv'
  BY <1>2, <1>4 DEF Lose, Deliver
<1> QED
  BY <1>1, <1>2, <1>3, <1>4, AcceptKeepsSides DEF Next, vars

\* Every step keeps the origin of payloads and responses: an id is given to a
\* client once, so what carries it belongs to the same client until the end.
LEMMA DataNext ==
  ASSUME FlowInv, SideInv, DataInv, [Next]_vars
  PROVE  DataInv'
<1> USE ConstantFacts
<1>1. TypeOK /\ RunInv /\ RegInv
  BY DEF FlowInv
<1>2. ASSUME \A d \in Clients : handler[d] # "idle" => handler'[d] # "idle" /\ flow'[d] = flow[d]
      PROVE  /\ \A d, c : c \in Clients /\ Counterpart(d, c) => Counterpart(d, c)'
             /\ \A x \in relay : /\ handler'[x.from] # "idle"
                                 /\ x.to = Other(Home[x.from])
                                 /\ x.flow_id = flow'[x.from]
  <2>1. \A d, c : c \in Clients /\ Counterpart(d, c) => Counterpart(d, c)'
    BY <1>2 DEF Counterpart
  <2>2. \A x \in relay : x.from \in Clients
    BY <1>1 DEF TypeOK
  <2> QED
    BY <1>2, <2>1, <2>2 DEF DataInv
<1>3. ASSUME NEW c \in Clients, Accept(c) PROVE DataInv'
  <2>1. \A d \in Clients : handler[d] # "idle" => handler'[d] # "idle" /\ flow'[d] = flow[d]
    BY <1>1, <1>3, AcceptFacts
  <2>2. UNCHANGED <<relay, channel, writing, written>>
    BY <1>3 DEF Accept
  <2> QED
    BY <1>2, <2>1, <2>2 DEF DataInv
<1>4. ASSUME NEW c \in Clients, Read(c) PROVE DataInv'
  <2> DEFINE new == [to |-> Other(Home[c]), flow_id |-> flow[c],
                     from |-> c, n |-> chunks[c] + 1]
  <2>1. relay' = relay \cup {new} /\ UNCHANGED <<flow, handler, channel, writing, written>>
    BY <1>4 DEF Read
  <2>2. handler[c] # "idle"
    BY <1>1, <1>4 DEF RunInv, Read
  <2>3. new.from = c /\ new.to = Other(Home[c]) /\ new.flow_id = flow[c]
    OBVIOUS
  <2> HIDE DEF new
  <2> QED
    BY <2>1, <2>2, <2>3 DEF DataInv, Counterpart
<1>5. ASSUME NEW c \in Clients, Take(c) PROVE DataInv'
  <2>1. /\ channel[c] # <<>> /\ channel[c] \in Seq(Data)
        /\ writing' = [writing EXCEPT ![c] = Head(channel[c])]
        /\ channel' = [channel EXCEPT ![c] = Tail(@)]
        /\ channel \in [Clients -> Seq(Data)]
        /\ \A d \in Clients : writing'[d] = IF d = c THEN Head(channel[c]) ELSE writing[d]
        /\ UNCHANGED <<flow, handler, relay, written>>
    BY <1>1, <1>5 DEF Take, TypeOK
  <2> HIDE DEF Data
  <2>2. /\ Head(channel[c]) \in Data /\ Head(channel[c]) = channel[c][1]
        /\ Len(channel[c]) \in Nat /\ 1 <= Len(channel[c])
        /\ Len(Tail(channel[c])) = Len(channel[c]) - 1
        /\ \A i \in 1 .. Len(Tail(channel[c])) : Tail(channel[c])[i] = channel[c][i + 1]
    BY <2>1, TailFacts
  <2>3. \A i \in 1 .. Len(channel[c]) : Counterpart(channel[c][i].from, c)
    BY DEF DataInv
  <2>4. Counterpart(Head(channel[c]).from, c)
    BY <2>2, <2>3
  <2>5. \A i \in 1 .. Len(Tail(channel[c])) : Counterpart(Tail(channel[c])[i].from, c)
    BY <2>2, <2>3
  <2>6. \A d \in Clients :
          /\ \A i \in 1 .. Len(channel'[d]) : Counterpart(channel'[d][i].from, d)
          /\ \A i \in 1 .. Len(written'[d]) : Counterpart(written'[d][i].from, d)
          /\ writing'[d] # Nothing => Counterpart(writing'[d].from, d)
    BY <2>1, <2>4, <2>5 DEF DataInv
  <2>7. \A d, e : Counterpart(d, e)' <=> Counterpart(d, e)
    BY <2>1 DEF Counterpart
  <2> QED
    BY <2>1, <2>6, <2>7 DEF DataInv
<1>12. ASSUME NEW c \in Clients, Write(c) PROVE DataInv'
  <2>1. /\ writing[c] # Nothing /\ writing[c] \in Data /\ written[c] \in Seq(Data)
        /\ written' = [written EXCEPT ![c] = Append(@, writing[c])]
        /\ written \in [Clients -> Seq(Data)]
        /\ \A d \in Clients : writing'[d] = IF d = c THEN Nothing ELSE writing[d]
        /\ UNCHANGED <<flow, handler, relay, channel>>
    BY <1>1, <1>12 DEF Write, TypeOK
  <2> HIDE DEF Data
  <2>2. Counterpart(writing[c].from, c)
    BY <2>1 DEF DataInv
  <2>3. LET q == Append(written[c], writing[c])
        IN \A i \in 1 .. Len(q) : Counterpart(q[i].from, c)
    <3> DEFINE q == Append(written[c], writing[c])
    <3>1. /\ Len(written[c]) \in Nat /\ Len(q) = Len(written[c]) + 1
          /\ \A i \in 1 .. Len(written[c]) : q[i] = written[c][i]
          /\ q[Len(written[c]) + 1] = writing[c]
      BY <2>1, AppendFacts
    <3>2. \A i \in 1 .. Len(written[c]) : Counterpart(written[c][i].from, c)
      BY DEF DataInv
    <3> HIDE DEF q
    <3>3. ASSUME NEW i \in 1 .. Len(q) PROVE Counterpart(q[i].from, c)
      BY <2>2, <3>1, <3>2
    <3> QED
      BY <3>3 DEF q
  <2>4. \A d \in Clients :
          /\ \A i \in 1 .. Len(channel'[d]) : Counterpart(channel'[d][i].from, d)
          /\ \A i \in 1 .. Len(written'[d]) : Counterpart(written'[d][i].from, d)
          /\ writing'[d] # Nothing => Counterpart(writing'[d].from, d)
    BY <2>1, <2>3 DEF DataInv
  <2>5. \A d, e : Counterpart(d, e)' <=> Counterpart(d, e)
    BY <2>1 DEF Counterpart
  <2> QED
    BY <2>1, <2>4, <2>5 DEF DataInv
<1>6. ASSUME NEW c \in Clients, WriteFails(c) PROVE DataInv'
  <2>1. /\ \A d \in Clients : channel'[d] = channel[d] \/ channel'[d] = <<>>
        /\ \A d \in Clients : writing'[d] = writing[d] \/ writing'[d] = Nothing
        /\ UNCHANGED <<flow, handler, relay, written>>
    BY <1>1, <1>6 DEF WriteFails, TypeOK
  <2>2. \A d \in Clients :
          /\ \A i \in 1 .. Len(channel'[d]) : Counterpart(channel'[d][i].from, d)
          /\ \A i \in 1 .. Len(written'[d]) : Counterpart(written'[d][i].from, d)
          /\ writing'[d] # Nothing => Counterpart(writing'[d].from, d)
    BY <2>1 DEF DataInv
  <2> QED
    BY <2>1, <2>2 DEF DataInv, Counterpart
<1>7. ASSUME NEW c \in Clients, ReaderEnds(c) \/ WriterEnds(c) PROVE DataInv'
  BY <1>7 DEF ReaderEnds, WriterEnds, DataInv, Counterpart
<1>8. ASSUME NEW c \in Clients, Close(c) PROVE DataInv'
  <2>1. \A d \in Clients : handler[d] # "idle" => handler'[d] # "idle" /\ flow'[d] = flow[d]
    BY <1>1, <1>8 DEF Close, TypeOK
  <2>2. UNCHANGED <<relay, channel, writing, written>>
    BY <1>8 DEF Close
  <2> QED
    BY <1>2, <2>1, <2>2 DEF DataInv
<1>9. ASSUME NEW x \in relay, Lose(x) PROVE DataInv'
  BY <1>9 DEF Lose, DataInv, Counterpart
<1>10. ASSUME NEW x \in relay, Deliver(x) PROVE DataInv'
  <2> DEFINE c == active_flows[x.to][EdgeOf(x.flow_id)][x.flow_id]
             data == [from |-> x.from, n |-> x.n]
  <2>1. relay' \subseteq relay /\ UNCHANGED <<flow, handler, writing, written>>
    BY <1>10 DEF Deliver
  <2>2. CASE ~HasRoom(c)
    <3>1. channel' = channel
      BY <1>10, <2>2 DEF Deliver
    <3> QED
      BY <2>1, <3>1 DEF DataInv, Counterpart
  <2>3. CASE HasRoom(c)
    <3>1. /\ x.to \in Nodes /\ x.flow_id \in Flows /\ x.from \in Clients /\ x.n \in Nat \ {0}
          /\ EdgeOf(x.flow_id) \in Kinds
      BY <1>1 DEF TypeOK, EdgeOf, Kinds
    <3>2. /\ handler[x.from] # "idle" /\ x.to = Other(Home[x.from])
          /\ x.flow_id = flow[x.from]
      BY DEF DataInv
    <3>3. EdgeOf(flow[x.from]) = Kind[x.from]
      BY <3>1, <3>2 DEF SideInv
    <3>4. c # NoClient
      BY <2>3 DEF HasRoom
    <3>5. /\ c \in ClientsOf(x.to, EdgeOf(x.flow_id))
          /\ handler[c] = "open" /\ flow[c] = x.flow_id
      BY <1>1, <3>1, <3>4 DEF RegInv
    <3>6. c \in Clients /\ Home[c] = x.to /\ Kind[c] = EdgeOf(x.flow_id)
      BY <3>5 DEF ClientsOf
    <3>7. Other(Home[x.from]) # Home[x.from]
      BY <3>1, OtherFacts
    <3>8. channel' = [channel EXCEPT ![c] = Append(@, data)]
      BY <1>10, <2>3 DEF Deliver
    <3>9. data \in Data /\ data.from = x.from
      BY <3>1 DEF Data
    <3> HIDE DEF c, data, Data
    <3>10. Counterpart(data.from, c)
      BY <3>1, <3>2, <3>3, <3>5, <3>6, <3>7, <3>9 DEF Counterpart
    <3>11. channel \in [Clients -> Seq(Data)] /\ channel[c] \in Seq(Data)
      BY <1>1, <3>6 DEF TypeOK
    <3>12. LET q == Append(channel[c], data)
           IN \A i \in 1 .. Len(q) : Counterpart(q[i].from, c)
      <4> DEFINE q == Append(channel[c], data)
      <4>1. /\ Len(channel[c]) \in Nat /\ Len(q) = Len(channel[c]) + 1
            /\ \A i \in 1 .. Len(channel[c]) : q[i] = channel[c][i]
            /\ q[Len(channel[c]) + 1] = data
        BY <3>9, <3>11, AppendFacts
      <4>2. \A i \in 1 .. Len(channel[c]) : Counterpart(channel[c][i].from, c)
        BY <3>6 DEF DataInv
      <4> HIDE DEF q
      <4>3. ASSUME NEW i \in 1 .. Len(q) PROVE Counterpart(q[i].from, c)
        BY <3>10, <4>1, <4>2
      <4> QED
        BY <4>3 DEF q
    <3>13. \A d \in Clients :
             \A i \in 1 .. Len(channel'[d]) : Counterpart(channel'[d][i].from, d)
      BY <3>6, <3>8, <3>11, <3>12 DEF DataInv
    <3> QED
      BY <2>1, <3>13 DEF DataInv, Counterpart
  <2> QED
    BY <2>2, <2>3
<1>11. CASE UNCHANGED vars
  BY <1>11 DEF vars, DataInv, Counterpart
<1> QED
  BY <1>3, <1>4, <1>5, <1>6, <1>7, <1>8, <1>9, <1>10, <1>11, <1>12 DEF Next

\* As long as no counter reaches the ids of the other edge, whatever is written
\* to a client was sent by its counterpart: the client of the same kind and the
\* same flow id at the other node, however connections come and go and whatever
\* the relay loses or reorders.
THEOREM ResponsesReachTheRightClient == FlowsStayApart => (Spec => []RightClient)
<1> SUFFICES ASSUME FlowsStayApart PROVE Spec => []RightClient
  OBVIOUS
<1>1. Init => FlowInv /\ SideInv /\ DataInv
  <2> SUFFICES ASSUME Init PROVE SideInv /\ DataInv
    BY FlowInit
  <2>1. \A c \in Clients : handler[c] = "idle"
    BY DEF Init
  <2>2. \A n, k : Accepted(n, k) = {}
    BY <2>1 DEF Accepted, ClientsOf
  <2>3. \A n \in Nodes, k \in Kinds : next_flow_id[n][k] = FirstFlow(k)
    BY DEF Init
  <2>4. \A k \in Kinds : FirstFlow(k) \in Nat
    BY EdgeAssumption DEF FirstFlow
  <2>5. SideInv
    <3>1. \A n, k : Cardinality(Accepted(n, k)) = 0
      BY <2>2, FS_EmptySet
    <3>2. \A n \in Nodes, k \in Kinds :
            next_flow_id[n][k] = FirstFlow(k) + Cardinality(Accepted(n, k))
      BY <2>3, <2>4, <3>1
    <3> QED
      BY <2>1, <3>2 DEF SideInv
  <2>6. DataInv
    BY DEF Init, DataInv
  <2> QED
    BY <2>5, <2>6
<1>2. FlowInv /\ SideInv /\ DataInv /\ [Next]_vars => (FlowInv /\ SideInv /\ DataInv)'
  BY FlowNext, SideNext, DataNext, ApartIsUnique DEF FlowInv
<1>3. DataInv => RightClient
  BY DEF DataInv, RightClient, Counterpart
<1> QED
  BY <1>1, <1>2, <1>3, PTL DEF Spec
=============================================================================
