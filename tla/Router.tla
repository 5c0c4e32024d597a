------------------------------- MODULE Router -------------------------------
(***************************************************************************)
(* MeshRouter (src/mesh/router.rs): one call of next_hop or of top_paths,   *)
(* while the prober keeps updating the latency matrix underneath it.        *)
(*                                                                         *)
(* Every search takes a snapshot of the matrix (all_edges).  The snapshot   *)
(* of nodes() only initialises distances that are MaxCost by default.  The  *)
(* edges out of a node lead to different nodes, so the order in which a     *)
(* node's edges are relaxed does not matter and relaxing is one step.       *)
(***************************************************************************)
EXTENDS Paths

CONSTANTS
  LocalNode,   \* MeshRouter.local_node
  NoNode,      \* no entry in the prev map
  Dests,       \* the destinations that are asked for
  Matrices,    \* the matrices a call may find
  Rtts,        \* the values an update may store
  MaxCost,     \* u64::MAX
  TopN,        \* the n of top_paths
  MaxUpdates   \* bound: updates of the matrix during the call

ASSUME RouterAssumption ==
  /\ IsFiniteSet(Nodes)
  /\ LocalNode \in Nodes
  /\ NoNode \notin Nodes
  /\ Dests \subseteq Nodes
  /\ Rtts \subseteq 0 .. MaxCost
  /\ Matrices \subseteq Matrix(Rtts)
  /\ MaxCost \in Nat \ {0}
  /\ TopN \in Nat
  /\ MaxUpdates \in Nat

VARIABLES
  matrix,    \* the shared LatencyMatrix
  updates,   \* number of updates so far
  call,      \* the method called
  dest,      \* its destination
  pc,        \* where the call is
  todo,      \* top_paths: neighbours not searched yet
  edges,     \* the snapshot of the current search
  source,    \* the node the current search starts from
  dist, prev, heap,  \* the maps and the binary heap of the search
  path,      \* the path under construction
  measured,  \* path_cost: how many hops of it are summed
  total,     \* total_rtt of the route under construction
  routes,    \* top_paths: the routes collected
  result     \* what the call returns: a sequence of routes

search == <<edges, source, dist, prev, heap>>
vars == <<matrix, updates, call, dest, pc, todo, edges, source, dist, prev,
          heap, path, measured, total, routes, result>>

Unreached == [n \in Nodes |-> MaxCost]
NoPrev    == [n \in Nodes |-> NoNode]

\* u64::saturating_add
SaturatingAdd(a, b) == IF a + b > MaxCost THEN MaxCost ELSE a + b

Return(rs) == pc' = "done" /\ result' = rs

\* all_edges: what a search copies of the matrix.
AllEdges == matrix

\* The set-up of a search from node a, which costs c to get to.
Begin(a, c) ==
  /\ edges' = AllEdges
  /\ source' = a
  /\ dist' = [Unreached EXCEPT ![a] = c]
  /\ prev' = NoPrev
  /\ heap' = {[cost |-> c, node |-> a]}
  /\ pc' = "search"

Neighbours == {n \in Nodes : matrix[<<LocalNode, n>>] # NoEdge}

\* A call that asks for a route to this node itself.
CallForSelf ==
  /\ pc = "start"
  /\ dest = LocalNode
  /\ Return(<<>>)
  /\ UNCHANGED <<matrix, updates, call, dest, todo, search, path, measured,
                 total, routes>>

\* next_hop starts dijkstra.
NextHop ==
  /\ pc = "start" /\ call = "next_hop" /\ dest # LocalNode
  /\ Begin(LocalNode, 0)
  /\ UNCHANGED <<matrix, updates, call, dest, todo, path, measured, total,
                 routes, result>>

\* top_paths collects the neighbours.
TopPaths ==
  /\ pc = "start" /\ call = "top_paths" /\ dest # LocalNode
  /\ todo' = Neighbours
  /\ pc' = "pick"
  /\ UNCHANGED <<matrix, updates, call, dest, search, path, measured, total,
                 routes, result>>

\* dijkstra_via reads the cost of the first hop.
PickVia(v) ==
  /\ pc = "pick"
  /\ todo' = todo \ {v}
  /\ source' = v
  /\ total' = matrix[<<LocalNode, v>>]
  /\ pc' = "via"
  /\ UNCHANGED <<matrix, updates, call, dest, edges, dist, prev, heap, path,
                 measured, routes, result>>

\* dijkstra_via takes its snapshot.
SearchVia ==
  /\ pc = "via"
  /\ Begin(source, total)
  /\ UNCHANGED <<matrix, updates, call, dest, todo, path, measured, total,
                 routes, result>>

Cheapest(s) == \A t \in heap : s.cost <= t.cost

\* Seeded fault: the first way found to a node is kept.
Improves_FirstFound(n, cost) == dist[n] = MaxCost /\ cost < MaxCost

\* Seeded fault: an equally long way replaces the one that is known.
Improves_NotStrict(n, cost) == cost <= dist[n]

\* The test that decides whether an edge is worth taking.
Improves(n, cost) == cost < dist[n]

\* The edges out of the popped node are relaxed.
Relax(s) ==
  LET newCost(n) == SaturatingAdd(s.cost, edges[<<s.node, n>>])
      better == {n \in Nodes : /\ edges[<<s.node, n>>] # NoEdge
                               /\ Improves(n, newCost(n))}
  IN /\ dist' = [n \in Nodes |-> IF n \in better THEN newCost(n) ELSE dist[n]]
     /\ prev' = [n \in Nodes |-> IF n \in better THEN s.node ELSE prev[n]]
     /\ heap' = (heap \ {s})
                  \cup {[cost |-> newCost(n), node |-> n] : n \in better}

\* One turn of the search loop; the heap breaks ties in any way.
Pop(s) ==
  /\ pc = "search"
  /\ Cheapest(s)
  /\ \/ /\ s.node = dest
        /\ heap' = heap \ {s}
        /\ pc' = "walk"
        /\ path' = <<dest>>
        /\ UNCHANGED <<dist, prev>>
     \/ /\ s.node # dest
        /\ s.cost > dist[s.node]
        /\ heap' = heap \ {s}
        /\ UNCHANGED <<pc, path, dist, prev>>
     \/ /\ s.node # dest
        /\ s.cost <= dist[s.node]
        /\ Relax(s)
        /\ UNCHANGED <<pc, path>>
  /\ UNCHANGED <<matrix, updates, call, dest, todo, edges, source, measured,
                 total, routes, result>>

\* The heap runs empty.
Exhaust ==
  /\ pc = "search"
  /\ heap = {}
  /\ pc' = "walk"
  /\ path' = <<dest>>
  /\ UNCHANGED <<matrix, updates, call, dest, todo, search, measured, total,
                 routes, result>>

\* Seeded fault: the missing predecessor is not noticed.
Walk_Unchecked ==
  /\ pc = "walk"
  /\ path[1] # source
  /\ path[1] \in Nodes
  /\ path' = <<prev[path[1]]>> \o path
  /\ UNCHANGED <<matrix, updates, call, dest, pc, todo, search, measured,
                 total, routes, result>>

\* One turn of the loop that follows prev back to the source.
Walk ==
  /\ pc = "walk"
  /\ path[1] # source
  /\ prev[path[1]] # NoNode
  /\ path' = <<prev[path[1]]>> \o path
  /\ UNCHANGED <<matrix, updates, call, dest, pc, todo, search, measured,
                 total, routes, result>>

\* The destination was not reached: None, or the next neighbour.
NoPath ==
  /\ pc = "walk"
  /\ path[1] # source
  /\ prev[path[1]] = NoNode
  /\ \/ call = "next_hop" /\ Return(<<>>)
     \/ call = "top_paths" /\ pc' = "pick" /\ UNCHANGED result
  /\ UNCHANGED <<matrix, updates, call, dest, todo, search, path, measured,
                 total, routes>>

\* dijkstra_via returns a route, which top_paths collects.
Collect ==
  /\ pc = "walk" /\ call = "top_paths"
  /\ path[1] = source
  /\ routes' = routes \cup {[next_hop |-> source, total_rtt |-> dist[dest],
                             path |-> <<LocalNode>> \o path]}
  /\ pc' = "pick"
  /\ UNCHANGED <<matrix, updates, call, dest, todo, search, path, measured,
                 total, result>>

\* dijkstra returns a path to next_hop.
Found ==
  /\ pc = "walk" /\ call = "next_hop"
  /\ path[1] = source
  /\ pc' = "measure"
  /\ measured' = 0
  /\ total' = 0
  /\ UNCHANGED <<matrix, updates, call, dest, todo, search, path, routes,
                 result>>

\* Seeded fault: the link of a hop is read in its other direction.
AddHop_Back ==
  /\ pc = "measure"
  /\ measured < Len(path) - 1
  /\ measured' = measured + 1
  /\ total' = total + matrix[<<path[measured + 2], path[measured + 1]>>]
  /\ UNCHANGED <<matrix, updates, call, dest, pc, todo, search, path, routes,
                 result>>

\* path_cost reads the matrix once for every hop.
AddHop ==
  /\ pc = "measure"
  /\ measured < Len(path) - 1
  /\ measured' = measured + 1
  /\ total' = total + matrix[<<path[measured + 1], path[measured + 2]>>]
  /\ UNCHANGED <<matrix, updates, call, dest, pc, todo, search, path, routes,
                 result>>

\* next_hop returns.
ReturnRoute ==
  /\ pc = "measure"
  /\ measured = Len(path) - 1
  /\ Return(<<[next_hop |-> path[2], total_rtt |-> total, path |-> path]>>)
  /\ UNCHANGED <<matrix, updates, call, dest, todo, search, path, measured,
                 total, routes>>

\* Seeded fault: the routes are sorted the wrong way round.
Ranked_Descending(rs) ==
  \A i, j \in 1 .. Len(rs) : i < j => rs[i].total_rtt >= rs[j].total_rtt

\* sort_by_key(total_rtt); routes of equal cost stay in any order.
Ranked(rs) ==
  \A i, j \in 1 .. Len(rs) : i < j => rs[i].total_rtt <= rs[j].total_rtt

\* The sequences that hold each route once.
Orders == {rs \in [1 .. Cardinality(routes) -> routes] :
             \A i, j \in 1 .. Cardinality(routes) : rs[i] = rs[j] => i = j}

\* top_paths sorts, truncates and returns.
ReturnTop ==
  /\ pc = "pick"
  /\ todo = {}
  /\ \E rs \in Orders :
       Ranked(rs) /\ Return(SubSeq(rs, 1, Min({TopN, Len(rs)})))
  /\ UNCHANGED <<matrix, updates, call, dest, todo, search, path, measured,
                 total, routes>>

\* LatencyMatrix::update by the prober, in the middle of the call.
Update(e, r) ==
  /\ pc # "done"
  /\ updates < MaxUpdates
  /\ matrix' = [matrix EXCEPT ![e] = r]
  /\ updates' = updates + 1
  /\ UNCHANGED <<call, dest, pc, todo, search, path, measured, total, routes,
                 result>>

Init ==
  /\ matrix \in Matrices
  /\ updates = 0
  /\ call \in {"next_hop", "top_paths"}
  /\ dest \in Dests
  /\ pc = "start"
  /\ todo = {}
  /\ edges = [e \in Nodes \X Nodes |-> NoEdge]
  /\ source = NoNode
  /\ dist = Unreached
  /\ prev = NoPrev
  /\ heap = {}
  /\ path = <<>>
  /\ measured = 0
  /\ total = 0
  /\ routes = {}
  /\ result = <<>>

Step ==
  \/ CallForSelf
  \/ NextHop
  \/ TopPaths
  \/ \E v \in todo : PickVia(v)
  \/ SearchVia
  \/ \E s \in heap : Pop(s)
  \/ Exhaust
  \/ Walk
  \/ NoPath
  \/ Collect
  \/ Found
  \/ AddHop
  \/ ReturnRoute
  \/ ReturnTop

\* Prober::handle_pong only updates the links of its own node.
Probed ==
  \E p \in Nodes \ {LocalNode}, r \in Rtts :
    Update(<<LocalNode, p>>, r) \/ Update(<<p, LocalNode>>, r)

Next == Step \/ Probed

Spec == Init /\ [][Next]_vars /\ WF_vars(Step)

----------------------------------------------------------------------------
(* What has to hold *)

Route == [next_hop : Nodes, total_rtt : Nat, path : Seq(Nodes)]

\* Every variable has its type; a distance never exceeds u64::MAX.
TypeOK ==
  /\ matrix \in Matrix(Rtts)
  /\ updates \in 0 .. MaxUpdates
  /\ call \in {"next_hop", "top_paths"}
  /\ dest \in Nodes
  /\ pc \in {"start", "pick", "via", "search", "walk", "measure", "done"}
  /\ todo \subseteq Nodes
  /\ edges \in Matrix(Rtts)
  /\ source \in Nodes \cup {NoNode}
  /\ dist \in [Nodes -> 0 .. MaxCost]
  /\ prev \in [Nodes -> Nodes \cup {NoNode}]
  /\ heap \subseteq [cost : 0 .. MaxCost, node : Nodes]
  /\ path \in Seq(Nodes)
  /\ measured \in Nat
  /\ total \in Nat
  /\ routes \subseteq Route
  /\ result \in Seq(Route)

\* next_hop returns a cheapest path of the matrix it looked at, and None just
\* when every path costs u64::MAX or more, however the matrix changes meanwhile.
NextHopIsShortest ==
  (pc = "done" /\ call = "next_hop" /\ dest # LocalNode) =>
    IF result = <<>>
    THEN \A c \in Costs(edges, LocalNode, dest) : c >= MaxCost
    ELSE /\ result[1].path \in Shortest(edges, LocalNode, dest)
         /\ result[1].next_hop = result[1].path[2]

\* total_rtt of next_hop, which path_cost reads from the matrix after the search,
\* is the cost of the returned path: in the matrix that was searched or, if the
\* prober has updated a direction of a link by then, in the one it left behind;
\* never a mixture of the two.
TotalMatchesPath ==
  (pc = "done" /\ call = "next_hop" /\ result # <<>> /\ updates <= 1) =>
    LET p == result[1].path
    IN result[1].total_rtt \in {Cost(edges, p), Cost(matrix, p)}

\* The costs of the ways to the destination that start with neighbour v; they
\* may come back through the local node.
ViaCosts(v) ==
  {c \in {matrix[<<LocalNode, v>>] + d : d \in Costs(matrix, v, dest)} :
     c < MaxCost}

\* The path of route r is the hop to its neighbour and a way on from there that
\* visits no node twice, and total_rtt is what it costs.
IsWay(m, r, d) ==
  \E p \in SimplePaths(m, r.next_hop, d) :
    /\ r.path = <<LocalNode>> \o p
    /\ r.total_rtt = m[<<LocalNode, r.next_hop>>] + Cost(m, p)

\* No RTT is u64::MAX microseconds.
RttsAreShort == \A r \in Rtts : r < MaxCost

\* If the matrix does not change during the call, top_paths returns one route
\* for each of the TopN neighbours that lead to the destination most cheaply,
\* cheapest first, with a cheapest path through that neighbour and what this
\* path costs; the first of them costs what the route of next_hop costs.
TopPathsRanked ==
  (pc = "done" /\ call = "top_paths" /\ dest # LocalNode /\ updates = 0) =>
    LET leading == {v \in Neighbours : ViaCosts(v) # {}}
        used    == {result[i].next_hop : i \in 1 .. Len(result)}
    IN /\ Len(result) = Min({TopN, Cardinality(leading)})
       /\ Cardinality(used) = Len(result)
       /\ used \subseteq leading
       /\ \A i \in 1 .. Len(result) : IsWay(matrix, result[i], dest)
       /\ \A i \in 1 .. Len(result) :
            result[i].total_rtt = Min(ViaCosts(result[i].next_hop))
       /\ \A i \in 1 .. Len(result) : \A v \in leading \ used :
            result[i].total_rtt <= Min(ViaCosts(v))
       /\ \A i, j \in 1 .. Len(result) :
            i < j => result[i].total_rtt <= result[j].total_rtt
       /\ result # <<>> =>
            result[1].total_rtt = Min(Costs(matrix, LocalNode, dest))

\* The paths of top_paths are "diverse paths to a destination (for multi-path
\* sending)", says its comment: none of them undoes its first hop and comes back
\* through the local node, to go on along the links of another one.
PathsAreDiverse ==
  (pc = "done" /\ call = "top_paths") =>
    \A i \in 1 .. Len(result) : \A k \in 2 .. Len(result[i].path) :
      result[i].path[k] # LocalNode

\* The call returns: both loops end, for every matrix and order of updates.
Returns == <>(pc = "done")
=============================================================================
