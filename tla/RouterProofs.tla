---------------------------- MODULE RouterProofs ----------------------------
(***************************************************************************)
(* Proofs about Router for every set of nodes, every matrix and all        *)
(* updates while a call is under way.                                      *)
(***************************************************************************)
EXTENDS Router, FiniteSetTheorems, WellFoundedInduction, TLAPS

----------------------------------------------------------------------------
(* The cost of a path.  What follows argues by the smallest counterexample, *)
(* where one would like to use induction.                                  *)

\* A set of natural numbers that is not empty has a least element.
LEMMA Least ==
  ASSUME NEW T \in SUBSET Nat, T # {}
  PROVE  \E k \in T : \A j \in T : k <= j
<1> DEFINE R == {e \in Nat \X Nat : e[1] < e[2]}
<1>1. IsWellFoundedOn(R, Nat)
  BY NatLessThanWellFounded, Zenon DEF OpToRel
<1>2. PICK k \in T : \A j \in T : <<j, k>> \notin R
  <2> HIDE DEF R
  <2> QED
    BY <1>1, WFMin
<1>3. \A j \in T : ~ (j < k)
  BY <1>2
<1> QED
  BY <1>2, <1>3

\* The recursion of MapThenSumSet, for weights W of the elements of U.
Chosen(s) == CHOOSE x \in s : TRUE
SumBody(g, W, U) ==
  [s \in SUBSET U |-> IF s = {} THEN 0 ELSE W[Chosen(s)] + g[s \ {Chosen(s)}]]

\* What is chosen from a set that is not empty belongs to it.
LEMMA ChosenIsElement ==
  ASSUME NEW s, s # {}
  PROVE  Chosen(s) \in s
<1>1. PICK x : x \in s
  OBVIOUS
<1> QED
  BY <1>1, Zenon DEF Chosen

\* Taking an element away leaves a smaller set.
LEMMA SmallerWithout ==
  ASSUME NEW U, IsFiniteSet(U), NEW s \in SUBSET U, NEW x \in s
  PROVE  /\ s \ {x} \in SUBSET U
         /\ Cardinality(s) \in Nat
         /\ Cardinality(s \ {x}) \in Nat
         /\ Cardinality(s \ {x}) < Cardinality(s)
<1>1. IsFiniteSet(s)
  BY FS_Subset
<1>2. IsFiniteSet(s \ {x}) /\ Cardinality(s \ {x}) = Cardinality(s) - 1
  BY <1>1, FS_RemoveElement
<1>3. Cardinality(s) \in Nat /\ Cardinality(s \ {x}) \in Nat
  BY <1>1, <1>2, FS_CardinalityType
<1> QED
  BY <1>2, <1>3

\* The recursion has a solution, on a finite set of elements.
LEMMA SumExists ==
  ASSUME NEW U, IsFiniteSet(U), NEW W \in [U -> Int]
  PROVE  \E g \in [SUBSET U -> Int] : g = SumBody(g, W, U)
<1> DEFINE Solves(g, k) == \A s \in SUBSET U :
                             Cardinality(s) <= k => g[s] = SumBody(g, W, U)[s]
           T == {k \in Nat : ~ \E g \in [SUBSET U -> Int] : Solves(g, k)}
<1>1. ASSUME T # {} PROVE FALSE
  <2>1. PICK k \in T : \A j \in T : k <= j
    BY <1>1, Least
  <2>2. \E g \in [SUBSET U -> Int] : \A s \in SUBSET U :
          Cardinality(s) < k => g[s] = SumBody(g, W, U)[s]
    <3>1. CASE k = 0
      <4> DEFINE z == [s \in SUBSET U |-> 0]
      <4>1. ASSUME NEW s \in SUBSET U PROVE ~ (Cardinality(s) < 0)
        <5>1. IsFiniteSet(s)
          BY FS_Subset
        <5> QED
          BY <5>1, FS_CardinalityType
      <4>2. z \in [SUBSET U -> Int]
        OBVIOUS
      <4>3. \A s \in SUBSET U : Cardinality(s) < k => z[s] = SumBody(z, W, U)[s]
        BY <3>1, <4>1
      <4> HIDE DEF z
      <4> QED
        BY <4>2, <4>3
    <3>2. CASE k # 0
      <4>1. k - 1 \in Nat /\ ~ (k <= k - 1)
        BY <2>1, <3>2
      <4>2. k - 1 \notin T
        <5> HIDE DEF T
        <5> QED
          BY <2>1, <4>1
      <4>3. PICK g \in [SUBSET U -> Int] : Solves(g, k - 1)
        <5> HIDE DEF Solves
        <5> QED
          BY <4>1, <4>2
      <4>4. ASSUME NEW s \in SUBSET U, Cardinality(s) < k
            PROVE  Cardinality(s) <= k - 1
        <5>1. Cardinality(s) \in Nat
          BY FS_Subset, FS_CardinalityType
        <5> QED
          BY <2>1, <4>4, <5>1
      <4> QED
        BY <4>3, <4>4
    <3> QED
      BY <3>1, <3>2
  <2>3. PICK g \in [SUBSET U -> Int] : \A s \in SUBSET U :
          Cardinality(s) < k => g[s] = SumBody(g, W, U)[s]
    BY <2>2
  <2> DEFINE f == SumBody(g, W, U)
  <2>4. f \in [SUBSET U -> Int]
    <3>1. ASSUME NEW s \in SUBSET U, s # {}
          PROVE  W[Chosen(s)] \in Int /\ g[s \ {Chosen(s)}] \in Int
      BY <3>1, ChosenIsElement
    <3> QED
      BY <3>1 DEF SumBody
  <2>5. ASSUME NEW s \in SUBSET U, Cardinality(s) <= k
        PROVE  f[s] = SumBody(f, W, U)[s]
    <3>1. CASE s = {}
      BY <3>1 DEF SumBody
    <3>2. CASE s # {}
      <4> DEFINE r == s \ {Chosen(s)}
      <4>1. r \in SUBSET U /\ Cardinality(r) < k
        BY <2>1, <2>5, <3>2, ChosenIsElement, SmallerWithout
      <4>2. g[r] = f[r]
        BY <2>3, <4>1
      <4>3. f[s] = W[Chosen(s)] + g[r] /\ SumBody(f, W, U)[s] = W[Chosen(s)] + f[r]
        BY <3>2 DEF SumBody
      <4> QED
        BY <4>2, <4>3
    <3> QED
      BY <3>1, <3>2
  <2>6. Solves(f, k)
    BY <2>5
  <2> QED
    BY <2>1, <2>4, <2>6
<1>2. Cardinality(U) \in Nat
  BY FS_CardinalityType
<1>3. PICK g \in [SUBSET U -> Int] : Solves(g, Cardinality(U))
  BY <1>1, <1>2
<1>4. \A s \in SUBSET U : Cardinality(s) <= Cardinality(U)
  BY FS_Subset
<1>5. \A s \in SUBSET U : g[s] = SumBody(g, W, U)[s]
  BY <1>3, <1>4
<1>6. g = SumBody(g, W, U)
  BY <1>5 DEF SumBody
<1> QED
  BY <1>6

AnyOrder(g, W, U) ==
  /\ g[{}] = 0
  /\ \A s \in SUBSET U : \A x \in s : g[s] = W[x] + g[s \ {x}]

\* Whatever satisfies the recursion is a sum: any element can be added last.
LEMMA SumStep ==
  ASSUME NEW U, NEW W, NEW g,
         IsFiniteSet(U), W \in [U -> Int], g = SumBody(g, W, U)
  PROVE  g \in [SUBSET U -> Int] /\ AnyOrder(g, W, U)
<1> DEFINE Right(s) == g[s] \in Int /\ \A x \in s : g[s] = W[x] + g[s \ {x}]
           T == {k \in Nat : \E s \in SUBSET U : Cardinality(s) = k /\ ~ Right(s)}
<1>1. g[{}] = 0
  BY DEF SumBody
<1>2. ASSUME NEW s \in SUBSET U, s # {}
      PROVE  g[s] = W[Chosen(s)] + g[s \ {Chosen(s)}]
  BY <1>2 DEF SumBody
<1>3. ASSUME NEW s \in SUBSET U
      PROVE  Cardinality(s) \in Nat
  BY FS_Subset, FS_CardinalityType
<1>4. ASSUME NEW s \in SUBSET U,
             \A r \in SUBSET U : Cardinality(r) < Cardinality(s) => Right(r)
      PROVE  Right(s)
  <2>1. CASE s = {}
    BY <1>1, <2>1
  <2>2. CASE s # {}
    <3> DEFINE y == Chosen(s)
    <3>1. y \in s
      BY <2>2, ChosenIsElement
    <3>2. g[s] = W[y] + g[s \ {y}]
      BY <1>2, <2>2
    <3> HIDE DEF y
    <3> HIDE DEF Right
    <3>3. ASSUME NEW x \in s
          PROVE  Right(s \ {x}) /\ s \ {x} \in SUBSET U
      BY <1>4, SmallerWithout
    <3> USE DEF Right
    <3>4. g[s] \in Int
      BY <3>1, <3>2, <3>3
    <3>5. ASSUME NEW x \in s, x # y PROVE g[s] = W[x] + g[s \ {x}]
      <4> DEFINE r == s \ {x, y}
      <4>1. /\ (s \ {y}) \ {x} = r /\ x \in s \ {y}
            /\ (s \ {x}) \ {y} = r /\ y \in s \ {x}
        BY <3>1, <3>5
      <4> HIDE DEF r, Right
      <4>2. Right(s \ {y}) /\ Right(s \ {x})
        BY <3>1, <3>3
      <4>3. Right(r)
        <5>1. s \ {y} \in SUBSET U /\ Cardinality(s \ {y}) \in Nat
               /\ Cardinality(s \ {y}) < Cardinality(s)
          BY <3>1, SmallerWithout
        <5>2. r \in SUBSET U /\ Cardinality(r) < Cardinality(s \ {y})
               /\ Cardinality(r) \in Nat
          BY <5>1, <4>1, SmallerWithout
        <5>3. Cardinality(r) < Cardinality(s)
          BY <5>1, <5>2, <1>3
        <5> QED
          BY <1>4, <5>2, <5>3
      <4> USE DEF Right
      <4>4. g[s \ {y}] = W[x] + g[r]
        BY <4>1, <4>2
      <4>5. g[s \ {x}] = W[y] + g[r]
        BY <4>1, <4>2
      <4>6. g[r] \in Int /\ W[x] \in Int /\ W[y] \in Int
        BY <3>1, <4>3
      <4> QED
        BY <3>2, <4>4, <4>5, <4>6
    <3>6. ASSUME NEW x \in s PROVE g[s] = W[x] + g[s \ {x}]
      BY <3>2, <3>5
    <3> QED
      BY <3>4, <3>6
  <2> QED
    BY <2>1, <2>2
<1> HIDE DEF Right
<1>5. ASSUME T # {} PROVE FALSE
  <2>1. PICK k \in T : \A j \in T : k <= j
    <3>1. T \in SUBSET Nat
      OBVIOUS
    <3> HIDE DEF T
    <3> QED
      BY <1>5, <3>1, Least
  <2>2. PICK s \in SUBSET U : Cardinality(s) = k /\ ~ Right(s)
    BY <2>1
  <2>3. ASSUME NEW r \in SUBSET U, Cardinality(r) < Cardinality(s)
        PROVE  Right(r)
    <3>1. Cardinality(r) \in Nat /\ Cardinality(s) \in Nat
      BY <1>3
    <3>2. Cardinality(r) \notin T
      <4> HIDE DEF T
      <4> QED
        BY <2>1, <2>2, <2>3, <3>1
    <3> QED
      BY <3>1, <3>2
  <2> QED
    BY <1>4, <2>2, <2>3
<1>6. ASSUME NEW s \in SUBSET U PROVE Right(s)
  <2>1. Cardinality(s) \notin T
    BY <1>5
  <2> QED
    BY <1>3, <2>1
<1> USE DEF Right
<1>7. \A s \in SUBSET U : g[s] \in Int
  BY <1>6
<1>8. g \in [SUBSET U -> Int]
  BY <1>7 DEF SumBody
<1>9. \A s \in SUBSET U : \A x \in s : g[s] = W[x] + g[s \ {x}]
  BY <1>6
<1> QED
  BY <1>1, <1>8, <1>9 DEF AnyOrder

\* The cost of a path is the last of its running sums.
LEMMA RunningCost ==
  ASSUME NEW m, NEW p, NEW n \in Nat, Len(p) - 1 = n,
         \A i \in 1 .. n : m[<<p[i], p[i + 1]>>] \in Int
  PROVE  \E s \in [0 .. n -> Int] :
           /\ s[0] = 0
           /\ \A i \in 1 .. n : s[i] = s[i - 1] + m[<<p[i], p[i + 1]>>]
           /\ s[n] = Cost(m, p)
<1> DEFINE U == 1 .. n
           W == [i \in U |-> m[<<p[i], p[i + 1]>>]]
           body(g) == [s \in SUBSET U |->
                    IF s = {} THEN 0
                    ELSE m[<<p[CHOOSE x \in s : TRUE], p[(CHOOSE x \in s : TRUE) + 1]>>]
                         + g[s \ {CHOOSE x \in s : TRUE}]]
           sum == CHOOSE g : g = body(g)
<1>1. Cost(m, p) = sum[U]
  BY Zenon DEF Cost, MapThenSumSet, MapThenFoldSet
<1>2. W \in [U -> Int] /\ IsFiniteSet(U)
  BY FS_Interval
<1>3. ASSUME NEW g PROVE body(g) = SumBody(g, W, U)
  <2>1. ASSUME NEW s \in SUBSET U, s # {}
        PROVE  W[Chosen(s)] = m[<<p[Chosen(s)], p[Chosen(s) + 1]>>]
    BY <2>1, ChosenIsElement
  <2>2. ASSUME NEW s \in SUBSET U
        PROVE  body(g)[s] = SumBody(g, W, U)[s]
    <3>1. CASE s = {}
      BY <3>1 DEF SumBody
    <3>2. CASE s # {}
      <4>1. body(g)[s] = m[<<p[Chosen(s)], p[Chosen(s) + 1]>>] + g[s \ {Chosen(s)}]
        BY <3>2 DEF Chosen
      <4>2. SumBody(g, W, U)[s] = W[Chosen(s)] + g[s \ {Chosen(s)}]
        BY <3>2 DEF SumBody
      <4> QED
        BY <2>1, <3>2, <4>1, <4>2
    <3> QED
      BY <3>1, <3>2
  <2> QED
    BY <2>2 DEF SumBody
<1> HIDE DEF W, body
<1>4. \E g : g = body(g)
  BY <1>2, <1>3, SumExists
<1>5. sum = body(sum)
  BY <1>4
<1> HIDE DEF sum
<1>6. sum = SumBody(sum, W, U)
  BY <1>3, <1>5
<1>7. sum \in [SUBSET U -> Int] /\ AnyOrder(sum, W, U)
  BY <1>2, <1>6, SumStep
<1> DEFINE run == [i \in 0 .. n |-> sum[1 .. i]]
<1>8. run \in [0 .. n -> Int] /\ run[0] = 0 /\ run[n] = Cost(m, p)
  BY <1>1, <1>7 DEF AnyOrder
<1>9. ASSUME NEW i \in 1 .. n
      PROVE  run[i] = run[i - 1] + m[<<p[i], p[i + 1]>>]
  <2>1. 1 .. i \in SUBSET U /\ i \in 1 .. i /\ (1 .. i) \ {i} = 1 .. i - 1
    OBVIOUS
  <2>2. sum[1 .. i] = W[i] + sum[1 .. i - 1]
    <3>1. sum[1 .. i] = W[i] + sum[(1 .. i) \ {i}]
      BY <1>7, <2>1 DEF AnyOrder
    <3> QED
      BY <2>1, <3>1
  <2>3. W[i] = m[<<p[i], p[i + 1]>>] /\ W[i] \in Int
    BY DEF W
  <2>4. run[i - 1] = sum[1 .. i - 1] /\ run[i] = sum[1 .. i] /\ run[i - 1] \in Int
    BY <1>8
  <2> QED
    BY <2>2, <2>3, <2>4
<1> HIDE DEF run
<1> QED
  BY <1>8, <1>9

\* If no hop raises a quantity by more than it costs, the path does not; and if
\* every hop raises it by as much at least, the path does.
LEMMA Climb ==
  ASSUME NEW m, NEW p, NEW n \in Nat, Len(p) - 1 = n,
         \A i \in 1 .. n : m[<<p[i], p[i + 1]>>] \in Int,
         NEW h \in [1 .. n + 1 -> Int]
  PROVE  /\ Cost(m, p) \in Int
         /\ (\A i \in 1 .. n : h[i + 1] <= h[i] + m[<<p[i], p[i + 1]>>])
              => h[n + 1] <= h[1] + Cost(m, p)
         /\ (\A i \in 1 .. n : h[i + 1] >= h[i] + m[<<p[i], p[i + 1]>>])
              => h[n + 1] >= h[1] + Cost(m, p)
<1>1. PICK s \in [0 .. n -> Int] :
        /\ s[0] = 0
        /\ \A i \in 1 .. n : s[i] = s[i - 1] + m[<<p[i], p[i + 1]>>]
        /\ s[n] = Cost(m, p)
  BY RunningCost
<1>2. ASSUME \A i \in 1 .. n : h[i + 1] <= h[i] + m[<<p[i], p[i + 1]>>]
      PROVE  h[n + 1] <= h[1] + s[n]
  <2> DEFINE T == {i \in 0 .. n : ~ (h[i + 1] <= h[1] + s[i])}
  <2>1. ASSUME T # {} PROVE FALSE
    <3>1. PICK k \in T : \A j \in T : k <= j
      <4>1. T \in SUBSET Nat
        OBVIOUS
      <4> HIDE DEF T
      <4> QED
        BY <2>1, <4>1, Least
    <3>2. k # 0
      BY <1>1
    <3>3. k - 1 \in 0 .. n /\ k - 1 \notin T /\ k \in 1 .. n
      <4>1. k - 1 \in 0 .. n /\ ~ (k <= k - 1) /\ k \in 1 .. n
        BY <3>2
      <4> HIDE DEF T
      <4> QED
        BY <3>1, <4>1
    <3>4. h[k] <= h[1] + s[k - 1] /\ k - 1 + 1 = k
      BY <3>3
    <3>5. h[k + 1] <= h[k] + m[<<p[k], p[k + 1]>>] /\ m[<<p[k], p[k + 1]>>] \in Int
      BY <1>2, <3>3
    <3>6. s[k] = s[k - 1] + m[<<p[k], p[k + 1]>>] /\ s[k - 1] \in Int
      BY <1>1, <3>3
    <3>7. h[k] \in Int /\ h[k + 1] \in Int /\ h[1] \in Int
      BY <3>3
    <3>8. \A a, b, c, d, w \in Int :
            b <= c + d /\ a <= b + w => a <= c + (d + w)
      OBVIOUS
    <3>9. h[k + 1] <= h[1] + (s[k - 1] + m[<<p[k], p[k + 1]>>])
      BY <3>4, <3>5, <3>6, <3>7, <3>8
    <3> QED
      BY <3>6, <3>9
  <2>2. n \in 0 .. n
    OBVIOUS
  <2>3. n \notin T
    <3> HIDE DEF T
    <3> QED
      BY <2>1
  <2> QED
    BY <2>2, <2>3
<1>3. ASSUME \A i \in 1 .. n : h[i + 1] >= h[i] + m[<<p[i], p[i + 1]>>]
      PROVE  h[n + 1] >= h[1] + s[n]
  <2> DEFINE T == {i \in 0 .. n : ~ (h[i + 1] >= h[1] + s[i])}
  <2>1. ASSUME T # {} PROVE FALSE
    <3>1. PICK k \in T : \A j \in T : k <= j
      <4>1. T \in SUBSET Nat
        OBVIOUS
      <4> HIDE DEF T
      <4> QED
        BY <2>1, <4>1, Least
    <3>2. k # 0
      BY <1>1
    <3>3. k - 1 \in 0 .. n /\ k - 1 \notin T /\ k \in 1 .. n
      <4>1. k - 1 \in 0 .. n /\ ~ (k <= k - 1) /\ k \in 1 .. n
        BY <3>2
      <4> HIDE DEF T
      <4> QED
        BY <3>1, <4>1
    <3>4. h[k] >= h[1] + s[k - 1] /\ k - 1 + 1 = k
      BY <3>3
    <3>5. h[k + 1] >= h[k] + m[<<p[k], p[k + 1]>>] /\ m[<<p[k], p[k + 1]>>] \in Int
      BY <1>3, <3>3
    <3>6. s[k] = s[k - 1] + m[<<p[k], p[k + 1]>>] /\ s[k - 1] \in Int
      BY <1>1, <3>3
    <3>7. h[k] \in Int /\ h[k + 1] \in Int /\ h[1] \in Int
      BY <3>3
    <3>8. \A a, b, c, d, w \in Int :
            b >= c + d /\ a >= b + w => a >= c + (d + w)
      OBVIOUS
    <3>9. h[k + 1] >= h[1] + (s[k - 1] + m[<<p[k], p[k + 1]>>])
      BY <3>4, <3>5, <3>6, <3>7, <3>8
    <3> QED
      BY <3>6, <3>9
  <2>2. n \in 0 .. n
    OBVIOUS
  <2>3. n \notin T
    <3> HIDE DEF T
    <3> QED
      BY <2>1
  <2> QED
    BY <2>2, <2>3
<1> QED
  BY <1>1, <1>2, <1>3

----------------------------------------------------------------------------
(* The inductive invariant *)

\* Where a call is and what it has set up by then.
CallInv ==
  /\ IsFiniteSet(routes)
  /\ pc \notin {"start", "done"} => dest # LocalNode
  /\ call = "next_hop" => pc \notin {"pick", "via"}
  /\ call = "top_paths" => pc # "measure"
  /\ pc \in {"via", "search", "walk", "measure"} => source \in Nodes
  /\ pc \in {"via", "search", "walk"} => total <= MaxCost
  /\ call = "next_hop" =>
       /\ pc \in {"start", "search", "walk"} => total = 0
       /\ pc \in {"search", "walk", "measure"} => source = LocalNode

\* No link disappears from the matrix: what a snapshot has it still has.
SnapInv ==
  /\ \A e \in Nodes \X Nodes : edges[e] # NoEdge => matrix[e] # NoEdge
  /\ \A v \in todo : matrix[<<LocalNode, v>>] # NoEdge

\* The path under construction follows prev, and prev follows the snapshot.
PathInv ==
  /\ \A n \in Nodes : prev[n] # NoNode => edges[<<prev[n], n>>] # NoEdge
  /\ pc \in {"walk", "measure"} =>
       /\ path # <<>> /\ path[Len(path)] = dest
       /\ \A i \in 1 .. Len(path) - 1 : prev[path[i + 1]] = path[i]
  /\ pc = "measure" => measured <= Len(path) - 1 /\ path[1] = source

TypeInv == TypeOK /\ CallInv /\ SnapInv /\ PathInv

\* The search has relaxed the edges out of node n for good.
Settled(n) == dist[n] < MaxCost /\ [cost |-> dist[n], node |-> n] \notin heap

\* prev is a tree of edges that account for the distances.
TreeInv ==
  /\ prev[source] = NoNode
  /\ \A n \in Nodes : prev[n] # NoNode =>
       /\ dist[n] < MaxCost
       /\ dist[n] = dist[prev[n]] + edges[<<prev[n], n>>]
  /\ \A n \in Nodes : n # source /\ dist[n] < MaxCost => prev[n] # NoNode

\* The nodes in the order in which the search settles them: a node comes after
\* its predecessor, also where a link takes no time.
SettledInOrder ==
  \E rank \in [Nodes -> Nat], top \in Nat : \A n \in Nodes :
    Settled(n) =>
      /\ rank[n] < top
      /\ prev[n] # NoNode => rank[prev[n]] < rank[n]

\* The search: what it has settled is no farther than what it has yet to pop,
\* and no edge out of a settled node leads anywhere more cheaply.
SearchInv ==
  pc = "search" =>
    /\ TreeInv
    /\ dist[source] = total
    /\ \A t \in heap : total <= t.cost /\ dist[t.node] <= t.cost
    /\ \A n \in Nodes : Settled(n) =>
         /\ \A t \in heap : dist[n] <= t.cost
         /\ \A k \in Nodes : edges[<<n, k>>] # NoEdge =>
                               dist[k] <= dist[n] + edges[<<n, k>>]
    /\ \A n, q \in Nodes : prev[n] = q => Settled(q)
    /\ \A n \in Nodes : Settled(n) => n # dest
    /\ SettledInOrder

\* The path visits no node twice.
PathInOrder ==
  \E rank \in [Nodes -> Nat] :
    /\ \A n \in Nodes : prev[n] # NoNode => rank[prev[n]] < rank[n]
    /\ \A i, j \in 1 .. Len(path) : i < j => rank[path[i]] < rank[path[j]]

\* After the search no way to the destination is shorter than its distance.
WalkInv ==
  pc \in {"walk", "measure"} =>
    /\ TreeInv
    /\ pc = "walk" => dist[source] = total
    /\ call = "next_hop" => dist[source] = 0
    /\ \A k \in Costs(edges, source, dest) : dist[dest] <= dist[source] + k
    /\ PathInOrder

RouterInv == TypeInv /\ SearchInv /\ WalkInv /\ NextHopIsShortest

----------------------------------------------------------------------------
(* Types *)

\* An entry of a matrix that is there is a 64-bit number.
LEMMA EntryFacts ==
  ASSUME NEW m \in Matrix(Rtts), NEW x \in Nodes, NEW y \in Nodes
  PROVE  /\ m[<<x, y>>] \in Int
         /\ m[<<x, y>>] # NoEdge => m[<<x, y>>] \in 0 .. MaxCost
<1>1. m[<<x, y>>] \in Rtts \cup {NoEdge}
  BY DEF Matrix
<1>2. NoEdge \in Int
  BY DEF NoEdge
<1>3. MaxCost \in Int /\ \A r \in Rtts : r \in 0 .. MaxCost
  BY RouterAssumption
<1>4. CASE m[<<x, y>>] = NoEdge
  BY <1>2, <1>4
<1>5. CASE m[<<x, y>>] \in Rtts
  BY <1>3, <1>5
<1> QED
  BY <1>1, <1>4, <1>5

\* A saturated sum is a 64-bit number, and the sum itself if it is less than
\* the greatest one.
LEMMA SaturatingFacts ==
  ASSUME NEW x \in 0 .. MaxCost, NEW y \in 0 .. MaxCost
  PROVE  /\ SaturatingAdd(x, y) \in 0 .. MaxCost
         /\ x <= SaturatingAdd(x, y)
         /\ SaturatingAdd(x, y) <= x + y
         /\ SaturatingAdd(x, y) < MaxCost => SaturatingAdd(x, y) = x + y
BY RouterAssumption DEF SaturatingAdd

\* A node put before a path.
LEMMA PrependFacts ==
  ASSUME NEW S, NEW p \in Seq(S), NEW x \in S
  PROVE  LET q == <<x>> \o p IN
         /\ q \in Seq(S) /\ Len(q) = Len(p) + 1
         /\ q[1] = x
         /\ \A i \in 1 .. Len(p) : q[i + 1] = p[i]
OBVIOUS

\* The first elements of a sequence that an array of n elements makes.
LEMMA FirstOfArray ==
  ASSUME NEW S, NEW n \in Nat, NEW rs \in [1 .. n -> S], NEW k \in 0 .. n
  PROVE  /\ rs \in Seq(S) /\ Len(rs) = n
         /\ SubSeq(rs, 1, k) \in Seq(S) /\ Len(SubSeq(rs, 1, k)) = k
         /\ \A i \in 1 .. k : SubSeq(rs, 1, k)[i] = rs[i]
OBVIOUS

\* The less of two numbers.
LEMMA MinOfTwo ==
  ASSUME NEW x \in Int, NEW y \in Int
  PROVE  Min({x, y}) = IF x <= y THEN x ELSE y
BY DEF Min

\* What a search sets up has its type, if its start is a node that it does not
\* cost too much to get to.
LEMMA BeginTypes ==
  ASSUME TypeOK, NEW x \in Nodes, NEW k \in 0 .. MaxCost, Begin(x, k)
  PROVE  /\ edges' \in Matrix(Rtts) /\ edges' = matrix
         /\ source' = x
         /\ dist' \in [Nodes -> 0 .. MaxCost]
         /\ prev' \in [Nodes -> Nodes \cup {NoNode}] /\ prev' = NoPrev
         /\ heap' \subseteq [cost : 0 .. MaxCost, node : Nodes]
         /\ pc' = "search"
<1>1. MaxCost \in 0 .. MaxCost
  BY RouterAssumption
<1> QED
  BY <1>1 DEF Begin, TypeOK, AllEdges, Unreached, NoPrev

\* Relaxing keeps the types of the search.
LEMMA RelaxTypes ==
  ASSUME TypeOK, NEW s \in heap, Relax(s)
  PROVE  /\ dist' \in [Nodes -> 0 .. MaxCost]
         /\ prev' \in [Nodes -> Nodes \cup {NoNode}]
         /\ heap' \subseteq [cost : 0 .. MaxCost, node : Nodes]
<1> DEFINE newCost(n) == SaturatingAdd(s.cost, edges[<<s.node, n>>])
           better == {n \in Nodes : edges[<<s.node, n>>] # NoEdge
                                    /\ Improves(n, newCost(n))}
<1>1. s.cost \in 0 .. MaxCost /\ s.node \in Nodes
  BY DEF TypeOK
<1>2. ASSUME NEW n \in better PROVE newCost(n) \in 0 .. MaxCost
  BY <1>1, EntryFacts, SaturatingFacts DEF TypeOK
<1>3. /\ dist' = [n \in Nodes |-> IF n \in better THEN newCost(n) ELSE dist[n]]
      /\ prev' = [n \in Nodes |-> IF n \in better THEN s.node ELSE prev[n]]
      /\ heap' = (heap \ {s}) \cup {[cost |-> newCost(n), node |-> n] : n \in better}
  BY DEF Relax
<1>4. better \subseteq Nodes
  OBVIOUS
<1> HIDE DEF newCost, better
<1> QED
  BY <1>1, <1>2, <1>3, <1>4 DEF TypeOK

\* The sorted routes are routes, and so is what is left when they are cut off.
LEMMA OrderFacts ==
  ASSUME TypeOK, IsFiniteSet(routes), NEW rs \in Orders
  PROVE  SubSeq(rs, 1, Min({TopN, Len(rs)})) \in Seq(Route)
<1>1. Cardinality(routes) \in Nat
  BY FS_CardinalityType
<1>2. rs \in [1 .. Cardinality(routes) -> Route]
  BY <1>1 DEF Orders, TypeOK
<1> HIDE DEF Route
<1>3. Len(rs) = Cardinality(routes)
  BY <1>1, <1>2, FirstOfArray
<1>4. Min({TopN, Len(rs)}) \in 0 .. Cardinality(routes)
  BY <1>1, <1>3, RouterAssumption, MinOfTwo
<1> QED
  BY <1>1, <1>2, <1>4, FirstOfArray

\* The invariant holds at the start.
LEMMA TypeInvInit == Init => TypeInv
<1> SUFFICES ASSUME Init PROVE TypeInv
  OBVIOUS
<1>1. TypeOK
  <2>1. MaxCost \in 0 .. MaxCost /\ 0 \in 0 .. MaxUpdates
    BY RouterAssumption
  <2>2. edges \in Matrix(Rtts) /\ matrix \in Matrix(Rtts)
    BY RouterAssumption DEF Init, Matrix
  <2> QED
    BY <2>1, <2>2, RouterAssumption DEF Init, TypeOK, Unreached, NoPrev
<1>2. CallInv
  BY FS_EmptySet DEF Init, CallInv
<1>3. SnapInv
  BY DEF Init, SnapInv
<1>4. PathInv
  BY DEF Init, PathInv, NoPrev
<1> QED
  BY <1>1, <1>2, <1>3, <1>4 DEF TypeInv

\* Every step keeps it.
LEMMA TypeInvNext == TypeInv /\ [Next]_vars => TypeInv'
<1> SUFFICES ASSUME TypeInv, [Next]_vars PROVE TypeInv'
  OBVIOUS
<1> USE DEF TypeInv
<1>1. CASE CallForSelf
  BY <1>1 DEF CallForSelf, Return, search, TypeOK, CallInv, SnapInv, PathInv
<1>2. CASE NextHop
  <2>1. Begin(LocalNode, 0) /\ 0 \in 0 .. MaxCost /\ LocalNode \in Nodes
    BY <1>2, RouterAssumption DEF NextHop
  <2>2. /\ edges' \in Matrix(Rtts) /\ edges' = matrix
        /\ source' = LocalNode
        /\ dist' \in [Nodes -> 0 .. MaxCost]
        /\ prev' \in [Nodes -> Nodes \cup {NoNode}] /\ prev' = NoPrev
        /\ heap' \subseteq [cost : 0 .. MaxCost, node : Nodes]
        /\ pc' = "search"
    BY <2>1, BeginTypes
  <2> QED
    BY <1>2, <2>1, <2>2
       DEF NextHop, TypeOK, CallInv, SnapInv, PathInv, NoPrev
<1>3. CASE TopPaths
  BY <1>3 DEF TopPaths, Neighbours, search, TypeOK, CallInv, SnapInv, PathInv
<1>4. ASSUME NEW v \in todo, PickVia(v) PROVE TypeInv'
  <2>1. v \in Nodes /\ matrix[<<LocalNode, v>>] \in 0 .. MaxCost
    BY EntryFacts, RouterAssumption DEF TypeOK, SnapInv
  <2> QED
    BY <1>4, <2>1 DEF PickVia, TypeOK, CallInv, SnapInv, PathInv
<1>5. CASE SearchVia
  <2>1. Begin(source, total) /\ total \in 0 .. MaxCost /\ source \in Nodes
    BY <1>5 DEF SearchVia, TypeOK, CallInv
  <2>2. /\ edges' \in Matrix(Rtts) /\ edges' = matrix
        /\ source' = source
        /\ dist' \in [Nodes -> 0 .. MaxCost]
        /\ prev' \in [Nodes -> Nodes \cup {NoNode}] /\ prev' = NoPrev
        /\ heap' \subseteq [cost : 0 .. MaxCost, node : Nodes]
        /\ pc' = "search"
    BY <2>1, BeginTypes
  <2> QED
    BY <1>5, <2>1, <2>2
       DEF SearchVia, TypeOK, CallInv, SnapInv, PathInv, NoPrev
<1>6. ASSUME NEW s \in heap, Pop(s) PROVE TypeInv'
  <2>0. pc = "search" /\ UNCHANGED <<matrix, updates, call, dest, todo, edges, source,
                                     measured, total, routes, result>>
    BY <1>6 DEF Pop
  <2>1. CASE s.node = dest /\ heap' = heap \ {s} /\ pc' = "walk" /\ path' = <<dest>>
             /\ UNCHANGED <<dist, prev>>
    BY <2>0, <2>1 DEF TypeOK, CallInv, SnapInv, PathInv
  <2>2. CASE heap' = heap \ {s} /\ UNCHANGED <<pc, path, dist, prev>>
    BY <2>0, <2>2 DEF TypeOK, CallInv, SnapInv, PathInv
  <2>3. CASE Relax(s) /\ UNCHANGED <<pc, path>>
    <3>1. /\ dist' \in [Nodes -> 0 .. MaxCost]
          /\ prev' \in [Nodes -> Nodes \cup {NoNode}]
          /\ heap' \subseteq [cost : 0 .. MaxCost, node : Nodes]
      BY <2>3, RelaxTypes
    <3>2. \A n \in Nodes : prev'[n] # prev[n] =>
            prev'[n] = s.node /\ edges[<<s.node, n>>] # NoEdge
      BY <2>3 DEF Relax
    <3> QED
      BY <2>0, <2>3, <3>1, <3>2 DEF TypeOK, CallInv, SnapInv, PathInv
  <2> QED
    BY <1>6, <2>1, <2>2, <2>3 DEF Pop
<1>7. CASE Exhaust
  BY <1>7 DEF Exhaust, search, TypeOK, CallInv, SnapInv, PathInv
<1>8. CASE Walk
  <2>1. path \in Seq(Nodes) /\ path # <<>> /\ path[1] \in Nodes
    BY <1>8 DEF Walk, TypeOK, PathInv
  <2>2. prev[path[1]] \in Nodes
    BY <1>8, <2>1 DEF Walk, TypeOK
  <2> DEFINE q == <<prev[path[1]]>> \o path
  <2>3. /\ q \in Seq(Nodes) /\ Len(q) = Len(path) + 1
        /\ q[1] = prev[path[1]]
        /\ \A i \in 1 .. Len(path) : q[i + 1] = path[i]
    BY <2>1, <2>2, PrependFacts
  <2>4. path' = q
    BY <1>8 DEF Walk
  <2> HIDE DEF q
  <2>5. path' # <<>> /\ path'[Len(path')] = dest
    <3>1. path[Len(path)] = dest /\ Len(path) \in 1 .. Len(path)
      BY <1>8, <2>1 DEF Walk, PathInv
    <3> QED
      BY <2>1, <2>3, <2>4, <3>1
  <2>6. ASSUME NEW i \in 1 .. Len(path') - 1 PROVE prev[path'[i + 1]] = path'[i]
    <3>1. CASE i = 1
      BY <2>1, <2>3, <2>4, <3>1
    <3>2. CASE i # 1
      <4>1. i - 1 \in 1 .. Len(path) - 1 /\ i - 1 + 1 = i /\ i \in 1 .. Len(path)
        BY <2>1, <2>3, <2>4, <3>2
      <4>2. q[i + 1] = path[i] /\ q[i] = path[i - 1]
        BY <2>1, <2>3, <4>1
      <4>3. prev[path[i - 1 + 1]] = path[i - 1]
        BY <1>8, <4>1 DEF Walk, PathInv
      <4> QED
        BY <2>4, <4>1, <4>2, <4>3
    <3> QED
      BY <3>1, <3>2
  <2>7. TypeOK'
    BY <1>8, <2>3, <2>4 DEF Walk, search, TypeOK
  <2>8. CallInv' /\ SnapInv'
    BY <1>8 DEF Walk, search, CallInv, SnapInv
  <2>9. PathInv'
    BY <1>8, <2>5, <2>6 DEF Walk, search, PathInv
  <2> QED
    BY <2>7, <2>8, <2>9
<1>9. CASE NoPath
  <2>1. CASE call = "next_hop" /\ Return(<<>>)
    <3>1. pc' = "done" /\ result' = <<>> /\ pc = "walk"
          /\ UNCHANGED <<matrix, updates, call, dest, todo, edges, source, dist, prev,
                         heap, path, measured, total, routes>>
      BY <1>9, <2>1 DEF NoPath, Return, search
    <3>2. <<>> \in Seq(Route)
      OBVIOUS
    <3> QED
      BY <3>1, <3>2 DEF TypeOK, CallInv, SnapInv, PathInv
  <2>2. CASE call = "top_paths" /\ pc' = "pick" /\ UNCHANGED result
    BY <1>9, <2>2 DEF NoPath, search, TypeOK, CallInv, SnapInv, PathInv
  <2> QED
    BY <1>9, <2>1, <2>2 DEF NoPath
<1>10. CASE Collect
  <2>1. source \in Nodes /\ dist[dest] \in Nat
    BY <1>10 DEF Collect, TypeOK, CallInv
  <2>2. <<LocalNode>> \o path \in Seq(Nodes)
    BY RouterAssumption, PrependFacts DEF TypeOK
  <2>3. routes' \subseteq Route
    <3>1. [next_hop |-> source, total_rtt |-> dist[dest],
           path |-> <<LocalNode>> \o path] \in Route
      BY <2>1, <2>2 DEF Route
    <3> QED
      BY <1>10, <3>1 DEF Collect, TypeOK
  <2>4. IsFiniteSet(routes')
    BY <1>10, FS_AddElement DEF Collect, CallInv
  <2> QED
    BY <1>10, <2>3, <2>4 DEF Collect, search, TypeOK, CallInv, SnapInv, PathInv
<1>11. CASE Found
  <2>1. path \in Seq(Nodes) /\ path # <<>> /\ 0 <= Len(path) - 1
    BY <1>11 DEF Found, TypeOK, PathInv
  <2> QED
    BY <1>11, <2>1 DEF Found, search, TypeOK, CallInv, SnapInv, PathInv
<1>12. CASE AddHop
  <2>0. /\ path \in Seq(Nodes) /\ Len(path) \in Nat
        /\ measured \in Nat /\ total \in Nat
    BY DEF TypeOK
  <2>1. measured + 1 \in 1 .. Len(path) - 1 /\ measured + 1 + 1 = measured + 2
    BY <1>12, <2>0 DEF AddHop
  <2>2. /\ path[measured + 1] \in Nodes /\ path[measured + 2] \in Nodes
        /\ prev[path[measured + 2]] = path[measured + 1]
    <3>1. measured + 1 \in 1 .. Len(path) /\ measured + 2 \in 1 .. Len(path)
      BY <2>0, <2>1
    <3>2. prev[path[measured + 1 + 1]] = path[measured + 1]
      BY <1>12, <2>1 DEF AddHop, PathInv
    <3> QED
      BY <2>0, <2>1, <3>1, <3>2
  <2>3. edges[<<path[measured + 1], path[measured + 2]>>] # NoEdge
    BY <2>2, RouterAssumption DEF PathInv
  <2>4. matrix[<<path[measured + 1], path[measured + 2]>>] \in Nat
    BY <2>2, <2>3, EntryFacts DEF SnapInv, TypeOK
  <2>5. measured' \in Nat /\ measured' <= Len(path) - 1 /\ total' \in Nat
    BY <1>12, <2>0, <2>1, <2>4 DEF AddHop
  <2> QED
    BY <1>12, <2>5 DEF AddHop, search, TypeOK, CallInv, SnapInv, PathInv
<1>13. CASE ReturnRoute
  <2>1. path \in Seq(Nodes) /\ path # <<>> /\ path[1] = LocalNode /\ path[Len(path)] # LocalNode
    BY <1>13 DEF ReturnRoute, TypeOK, CallInv, PathInv
  <2>2. 2 \in 1 .. Len(path)
    BY <2>1
  <2>3. [next_hop |-> path[2], total_rtt |-> total, path |-> path] \in Route
    BY <2>1, <2>2 DEF Route, TypeOK
  <2>4. result' \in Seq(Route)
    BY <1>13, <2>3 DEF ReturnRoute, Return
  <2> QED
    BY <1>13, <2>4 DEF ReturnRoute, Return, search, TypeOK, CallInv, SnapInv, PathInv
<1>14. CASE ReturnTop
  <2>1. result' \in Seq(Route) /\ pc' = "done"
    BY <1>14, OrderFacts DEF ReturnTop, Return, CallInv
  <2> QED
    BY <1>14, <2>1 DEF ReturnTop, search, TypeOK, CallInv, SnapInv, PathInv
<1>15. ASSUME NEW e \in Nodes \X Nodes, NEW r \in Rtts, Update(e, r)
       PROVE  TypeInv'
  <2>1. matrix' \in Matrix(Rtts)
    BY <1>15 DEF Update, TypeOK, Matrix
  <2>2. \A d \in Nodes \X Nodes : matrix[d] # NoEdge => matrix'[d] # NoEdge
    <3>1. r # NoEdge
      BY RouterAssumption DEF NoEdge
    <3> QED
      BY <1>15, <3>1 DEF Update, TypeOK, Matrix
  <2>3. updates' \in 0 .. MaxUpdates
    BY <1>15, RouterAssumption DEF Update, TypeOK
  <2>4. UNCHANGED <<call, dest, pc, todo, edges, source, dist, prev, heap, path,
                    measured, total, routes, result>>
    BY <1>15 DEF Update, search
  <2>5. TypeOK'
    BY <2>1, <2>3, <2>4 DEF TypeOK
  <2>6. CallInv' /\ PathInv'
    BY <2>4 DEF CallInv, PathInv
  <2>7. SnapInv'
    <3>1. \A v \in todo : <<LocalNode, v>> \in Nodes \X Nodes
      BY RouterAssumption DEF TypeOK
    <3> QED
      BY <2>2, <2>4, <3>1 DEF SnapInv
  <2> QED
    BY <2>5, <2>6, <2>7
<1>16. CASE UNCHANGED vars
  BY <1>16 DEF vars, TypeOK, CallInv, SnapInv, PathInv
<1>17. ASSUME Probed PROVE TypeInv'
  <2>1. PICK p \in Nodes \ {LocalNode}, r \in Rtts :
          Update(<<LocalNode, p>>, r) \/ Update(<<p, LocalNode>>, r)
    BY <1>17 DEF Probed
  <2> QED
    BY <1>15, <2>1, RouterAssumption
<1> QED
  BY <1>1, <1>2, <1>3, <1>4, <1>5, <1>6, <1>7, <1>8, <1>9, <1>10, <1>11, <1>12,
     <1>13, <1>14, <1>16, <1>17 DEF Next, Step

\* Every variable keeps its type, whatever the matrix and however it changes
\* during the call: no distance exceeds u64::MAX, and path_cost finds all the
\* links of the path it sums up, for links never leave the matrix.
THEOREM TypeCorrect == Spec => []TypeOK
<1>1. TypeInv => TypeOK
  BY DEF TypeInv
<1> QED
  BY <1>1, TypeInvInit, TypeInvNext, PTL DEF Spec

----------------------------------------------------------------------------
(* The search *)

\* A search starts with nothing settled.
LEMMA BeginSearch ==
  ASSUME TypeInv, NEW x \in Nodes, NEW k \in 0 .. MaxCost, Begin(x, k),
         total' = k, dest' \in Nodes
  PROVE  SearchInv'
<1>1. /\ source' = x /\ prev' = NoPrev
      /\ heap' = {[cost |-> k, node |-> x]}
      /\ dist' = [Unreached EXCEPT ![x] = k]
  BY DEF Begin
<1>2. dist'[x] = k /\ \A n \in Nodes \ {x} : dist'[n] = MaxCost
  BY <1>1 DEF Unreached
<1>3. MaxCost \in Nat
  BY RouterAssumption
<1>4. \A n \in Nodes : ~ Settled(n)'
  BY <1>1, <1>2, <1>3 DEF Settled
<1>5. SettledInOrder'
  <2> DEFINE rank == [n \in Nodes |-> 0]
  <2>1. rank \in [Nodes -> Nat]
    OBVIOUS
  <2> QED
    BY <1>4, <2>1 DEF SettledInOrder
<1>6. TreeInv'
  BY <1>1, <1>2, <1>3 DEF TreeInv, NoPrev
<1>7. \A t \in heap' : total' <= t.cost /\ dist'[t.node] <= t.cost
  BY <1>1, <1>2
<1>8. \A n, q \in Nodes : prev'[n] # q
  BY <1>1, RouterAssumption DEF NoPrev
<1> QED
  BY <1>1, <1>2, <1>4, <1>5, <1>6, <1>7, <1>8 DEF SearchInv

\* A stale entry of the heap can be dropped.
LEMMA PopStale ==
  ASSUME TypeInv, SearchInv, pc = "search", NEW s \in heap,
         s.cost > dist[s.node], heap' = heap \ {s},
         UNCHANGED <<dest, edges, source, dist, prev, total>>
  PROVE  SearchInv'
<1>1. ASSUME NEW n \in Nodes PROVE [cost |-> dist[n], node |-> n] # s
  BY DEF TypeInv, TypeOK
<1>2. \A n \in Nodes : Settled(n)' <=> Settled(n)
  BY <1>1 DEF Settled
<1>3. TreeInv'
  BY DEF SearchInv, TreeInv
<1>4. SettledInOrder'
  <2>1. PICK rank \in [Nodes -> Nat], top \in Nat : \A n \in Nodes :
          Settled(n) => /\ rank[n] < top
                        /\ prev[n] # NoNode => rank[prev[n]] < rank[n]
    BY DEF SearchInv, SettledInOrder
  <2>2. \A n \in Nodes : Settled(n)' =>
          /\ rank[n] < top
          /\ prev'[n] # NoNode => rank[prev'[n]] < rank[n]
    BY <1>2, <2>1
  <2> QED
    BY <2>2 DEF SettledInOrder
<1>5. /\ dist'[source'] = total'
      /\ \A t \in heap' : total' <= t.cost /\ dist'[t.node] <= t.cost
      /\ \A n \in Nodes : Settled(n)' =>
           /\ \A t \in heap' : dist'[n] <= t.cost
           /\ \A k \in Nodes : edges'[<<n, k>>] # NoEdge =>
                                 dist'[k] <= dist'[n] + edges'[<<n, k>>]
  BY <1>2 DEF SearchInv
<1>6. /\ \A n, q \in Nodes : prev'[n] = q => Settled(q)'
      /\ \A n \in Nodes : Settled(n)' => n # dest'
  BY <1>2 DEF SearchInv
<1> QED
  BY <1>3, <1>4, <1>5, <1>6 DEF SearchInv

\* The nodes that relaxing the edges out of s.node finds a better way to.
NewCost(s, n) == SaturatingAdd(s.cost, edges[<<s.node, n>>])
Better(s) == {n \in Nodes : /\ edges[<<s.node, n>>] # NoEdge
                            /\ NewCost(s, n) < dist[n]}

\* What relaxing does, in these words.
LEMMA RelaxFacts ==
  ASSUME NEW s, Relax(s)
  PROVE  /\ dist' = [n \in Nodes |-> IF n \in Better(s) THEN NewCost(s, n) ELSE dist[n]]
         /\ prev' = [n \in Nodes |-> IF n \in Better(s) THEN s.node ELSE prev[n]]
         /\ heap' = (heap \ {s})
                      \cup {[cost |-> NewCost(s, n), node |-> n] : n \in Better(s)}
BY DEF Relax, Better, NewCost, Improves

\* Relaxing the edges out of the nearest node settles that node and nothing
\* else, and finds no better way to a settled node.
LEMMA RelaxSettles ==
  ASSUME TypeInv, SearchInv, pc = "search", NEW s \in heap, Cheapest(s),
         s.cost <= dist[s.node], Relax(s)
  PROVE  /\ s.node \in Nodes /\ s.cost \in 0 .. MaxCost /\ s.cost = dist[s.node]
         /\ \A n \in Better(s) :
              /\ n \in Nodes
              /\ edges[<<s.node, n>>] \in 0 .. MaxCost
              /\ NewCost(s, n) = s.cost + edges[<<s.node, n>>]
              /\ NewCost(s, n) < dist[n] /\ NewCost(s, n) < MaxCost
              /\ ~ Settled(n) /\ n # s.node /\ n # source
         /\ ~ Settled(s.node)
         /\ \A n \in Nodes :
              Settled(n)' <=> Settled(n) \/ (n = s.node /\ s.cost < MaxCost)
<1>1. /\ s.node \in Nodes /\ s.cost \in 0 .. MaxCost
      /\ s = [cost |-> s.cost, node |-> s.node]
  BY DEF TypeInv, TypeOK
<1>2. s.cost = dist[s.node]
  <2>1. dist[s.node] <= s.cost /\ dist[s.node] \in 0 .. MaxCost
    BY <1>1 DEF SearchInv, TypeInv, TypeOK
  <2> QED
    BY <1>1, <2>1
<1>3. ~ Settled(s.node)
  BY <1>1, <1>2 DEF Settled
<1>4. ASSUME NEW n \in Better(s)
      PROVE  /\ n \in Nodes
             /\ edges[<<s.node, n>>] \in 0 .. MaxCost
             /\ NewCost(s, n) = s.cost + edges[<<s.node, n>>]
             /\ s.cost <= NewCost(s, n)
             /\ NewCost(s, n) < dist[n] /\ NewCost(s, n) < MaxCost
             /\ NewCost(s, n) \in 0 .. MaxCost /\ dist[n] \in 0 .. MaxCost
  <2>1. n \in Nodes /\ edges[<<s.node, n>>] # NoEdge /\ NewCost(s, n) < dist[n]
    BY DEF Better
  <2>2. edges[<<s.node, n>>] \in 0 .. MaxCost
    BY <1>1, <2>1, EntryFacts DEF TypeInv, TypeOK
  <2>3. dist[n] \in 0 .. MaxCost /\ MaxCost \in Nat
    BY <2>1, RouterAssumption DEF TypeInv, TypeOK
  <2>4. /\ NewCost(s, n) \in 0 .. MaxCost
        /\ s.cost <= NewCost(s, n)
        /\ NewCost(s, n) < MaxCost => NewCost(s, n) = s.cost + edges[<<s.node, n>>]
    BY <1>1, <2>2, SaturatingFacts DEF NewCost
  <2> QED
    BY <2>1, <2>2, <2>3, <2>4
<1>5. ASSUME NEW n \in Better(s), dist[n] <= s.cost PROVE FALSE
  <2>1. \A x, y, z \in Int : x <= y /\ y < z /\ z <= x => FALSE
    OBVIOUS
  <2>2. s.cost \in 0 .. MaxCost /\ NewCost(s, n) \in 0 .. MaxCost /\ dist[n] \in 0 .. MaxCost
    BY <1>1, <1>4
  <2>3. 0 .. MaxCost \subseteq Int
    BY RouterAssumption
  <2>4. s.cost \in Int /\ NewCost(s, n) \in Int /\ dist[n] \in Int
    BY <2>2, <2>3, Zenon
  <2> QED
    BY <1>4, <1>5, <2>1, <2>4
<1>6. ASSUME NEW n \in Better(s)
      PROVE  ~ Settled(n) /\ n # s.node /\ n # source
  <2>1. Settled(n) => dist[n] <= s.cost
    BY <1>4 DEF SearchInv
  <2>2. dist[s.node] <= s.cost
    BY <1>1, <1>2
  <2>3. dist[source] <= s.cost
    BY DEF SearchInv
  <2> QED
    BY <1>5, <2>1, <2>2, <2>3
<1>7. ASSUME NEW n \in Nodes
      PROVE  Settled(n)' <=> Settled(n) \/ (n = s.node /\ s.cost < MaxCost)
  <2>1. CASE n \in Better(s)
    <3>1. dist'[n] = NewCost(s, n) /\ [cost |-> NewCost(s, n), node |-> n] \in heap'
      BY <2>1, RelaxFacts
    <3> QED
      BY <1>6, <2>1, <3>1 DEF Settled
  <2>2. CASE n \notin Better(s)
    <3>1. dist'[n] = dist[n]
      BY <2>2, RelaxFacts
    <3>2. [cost |-> dist[n], node |-> n] \in heap' <=>
            [cost |-> dist[n], node |-> n] \in heap /\ [cost |-> dist[n], node |-> n] # s
      BY <2>2, RelaxFacts
    <3>3. CASE n = s.node
      BY <1>1, <1>2, <1>3, <3>1, <3>2, <3>3 DEF Settled
    <3>4. CASE n # s.node
      <4>1. [cost |-> dist[n], node |-> n] # s
        BY <3>4
      <4> QED
        BY <3>1, <3>2, <3>4, <4>1 DEF Settled
    <3> QED
      BY <3>3, <3>4
  <2> QED
    BY <2>1, <2>2
<1> QED
  BY <1>1, <1>2, <1>3, <1>4, <1>6, <1>7

\* Relaxing keeps what holds of the search.
LEMMA RelaxSearch ==
  ASSUME TypeInv, SearchInv, pc = "search", NEW s \in heap, Cheapest(s),
         s.node # dest, s.cost <= dist[s.node], Relax(s),
         UNCHANGED <<dest, edges, source, total>>
  PROVE  SearchInv'
<1> DEFINE u == s.node
<1>1. /\ u \in Nodes /\ s.cost \in 0 .. MaxCost /\ s.cost = dist[u]
      /\ ~ Settled(u)
  BY RelaxSettles
<1>2. ASSUME NEW n \in Better(s)
      PROVE  /\ n \in Nodes
             /\ edges[<<u, n>>] \in 0 .. MaxCost
             /\ NewCost(s, n) = s.cost + edges[<<u, n>>]
             /\ NewCost(s, n) < dist[n] /\ NewCost(s, n) < MaxCost
             /\ ~ Settled(n) /\ n # u /\ n # source
             /\ NewCost(s, n) \in Int /\ s.cost <= NewCost(s, n) /\ s.cost < MaxCost
  <2>1. /\ n \in Nodes
        /\ edges[<<u, n>>] \in 0 .. MaxCost
        /\ NewCost(s, n) = s.cost + edges[<<u, n>>]
        /\ NewCost(s, n) < dist[n] /\ NewCost(s, n) < MaxCost
        /\ ~ Settled(n) /\ n # u /\ n # source
    BY RelaxSettles
  <2>2. MaxCost \in Int
    BY RouterAssumption
  <2> QED
    BY <1>1, <2>1, <2>2
<1>3. ASSUME NEW n \in Nodes
      PROVE  Settled(n)' <=> Settled(n) \/ (n = u /\ s.cost < MaxCost)
  BY RelaxSettles
<1>4. \A n \in Nodes : dist[n] \in Int /\ dist[n] <= MaxCost
  BY RouterAssumption DEF TypeInv, TypeOK
<1>5. /\ \A n \in Better(s) : dist'[n] = NewCost(s, n) /\ prev'[n] = u
      /\ \A n \in Nodes \ Better(s) : dist'[n] = dist[n] /\ prev'[n] = prev[n]
      /\ \A t \in heap' : \/ t \in heap
                          \/ \E n \in Better(s) : t = [cost |-> NewCost(s, n), node |-> n]
  <2>1. \A n \in Better(s) : n \in Nodes
    BY <1>2
  <2>2. \A n \in Better(s) : dist'[n] = NewCost(s, n) /\ prev'[n] = u
    BY <2>1, RelaxFacts
  <2>3. \A n \in Nodes \ Better(s) : dist'[n] = dist[n] /\ prev'[n] = prev[n]
    BY RelaxFacts
  <2>4. \A t \in heap' : \/ t \in heap
                         \/ \E n \in Better(s) : t = [cost |-> NewCost(s, n), node |-> n]
    BY RelaxFacts
  <2> QED
    BY <2>2, <2>3, <2>4
<1>6. ASSUME NEW n \in Nodes PROVE dist'[n] \in Int /\ dist'[n] <= dist[n]
  <2>1. CASE n \in Better(s)
    <3>1. dist'[n] = NewCost(s, n) /\ NewCost(s, n) \in Int /\ NewCost(s, n) < dist[n]
      BY <1>2, <1>5, <2>1
    <3> QED
      BY <1>4, <3>1
  <2>2. CASE n \notin Better(s)
    BY <1>4, <1>5, <2>2
  <2> QED
    BY <2>1, <2>2
<1>7. ASSUME NEW n \in Nodes, Settled(n)
      PROVE  n \notin Better(s) /\ dist'[n] = dist[n] /\ prev'[n] = prev[n] /\ n # u
             /\ dist[n] <= s.cost
  BY <1>1, <1>2, <1>5, <1>7 DEF SearchInv
<1>8. u \notin Better(s) /\ dist'[u] = s.cost /\ prev'[u] = prev[u]
  BY <1>1, <1>2, <1>5
<1>9. ASSUME NEW t \in heap
      PROVE  t.cost \in Int /\ t.node \in Nodes /\ s.cost <= t.cost
  BY RouterAssumption DEF Cheapest, TypeInv, TypeOK
<1>10. source \in Nodes /\ source \notin Better(s)
  BY <1>2 DEF TypeInv, CallInv
<1>11. ASSUME NEW n \in Nodes, NEW q \in Nodes, prev'[n] = q
       PROVE  /\ Settled(q)'
              /\ dist'[n] < MaxCost
              /\ dist'[n] = dist'[q] + edges[<<q, n>>]
  <2>1. CASE n \in Better(s)
    <3>1. q = u
      BY <1>5, <1>11, <2>1
    <3> QED
      BY <1>2, <1>3, <1>5, <1>8, <2>1, <3>1
  <2>2. CASE n \notin Better(s)
    <3>1. prev[n] = q /\ dist'[n] = dist[n]
      BY <1>5, <1>11, <2>2
    <3>2. Settled(q)
      BY <3>1 DEF SearchInv
    <3>3. dist'[q] = dist[q]
      BY <1>7, <3>2
    <3>4. dist[n] < MaxCost /\ dist[n] = dist[q] + edges[<<q, n>>]
      BY <3>1, RouterAssumption DEF SearchInv, TreeInv
    <3> QED
      BY <1>3, <3>1, <3>2, <3>3, <3>4
  <2> QED
    BY <2>1, <2>2
<1>12. TreeInv'
  <2>1. prev'[source] = NoNode
    BY <1>5, <1>10 DEF SearchInv, TreeInv
  <2>2. ASSUME NEW n \in Nodes, prev'[n] # NoNode
        PROVE  dist'[n] < MaxCost /\ dist'[n] = dist'[prev'[n]] + edges[<<prev'[n], n>>]
    <3>1. prev'[n] \in Nodes
      BY <1>1, <1>5, <2>2 DEF TypeInv, TypeOK
    <3> QED
      BY <1>11, <3>1
  <2>3. ASSUME NEW n \in Nodes, n # source, dist'[n] < MaxCost
        PROVE  prev'[n] # NoNode
    <3>1. CASE n \in Better(s)
      BY <1>1, <1>5, <3>1, RouterAssumption
    <3>2. CASE n \notin Better(s)
      BY <1>5, <2>3, <3>2 DEF SearchInv, TreeInv
    <3> QED
      BY <3>1, <3>2
  <2> QED
    BY <2>1, <2>2, <2>3 DEF TreeInv
<1>13. dist'[source] = total
  BY <1>5, <1>10 DEF SearchInv
<1>14. ASSUME NEW t \in heap'
       PROVE  total <= t.cost /\ dist'[t.node] <= t.cost /\ s.cost <= t.cost
              /\ t.cost \in Int
  <2>0. total \in Int /\ total <= s.cost /\ s.cost \in Int
    BY <1>9 DEF SearchInv, TypeInv, TypeOK
  <2>1. CASE t \in heap
    <3>1. total <= t.cost /\ dist[t.node] <= t.cost
      BY <2>1 DEF SearchInv
    <3> QED
      BY <1>4, <1>6, <1>9, <2>1, <3>1
  <2>2. ASSUME NEW n \in Better(s), t = [cost |-> NewCost(s, n), node |-> n]
        PROVE  total <= t.cost /\ dist'[t.node] <= t.cost /\ s.cost <= t.cost
               /\ t.cost \in Int
    <3>1. t.cost = NewCost(s, n) /\ t.node = n /\ dist'[n] = NewCost(s, n)
      BY <1>5, <2>2
    <3>2. NewCost(s, n) \in Int /\ s.cost <= NewCost(s, n)
      BY <1>2
    <3> HIDE DEF u
    <3> QED
      BY <2>0, <3>1, <3>2
  <2> QED
    BY <1>5, <2>1, <2>2
<1>15. ASSUME NEW n \in Nodes, Settled(n)'
       PROVE  /\ \A t \in heap' : dist'[n] <= t.cost
              /\ \A k \in Nodes : edges[<<n, k>>] # NoEdge =>
                                    dist'[k] <= dist'[n] + edges[<<n, k>>]
  <2>1. CASE Settled(n)
    <3>1. dist'[n] = dist[n] /\ dist[n] <= s.cost
      BY <1>7, <2>1
    <3>2. ASSUME NEW k \in Nodes, edges[<<n, k>>] # NoEdge
          PROVE  dist'[k] <= dist'[n] + edges[<<n, k>>]
      <4>1. dist[k] <= dist[n] + edges[<<n, k>>]
        BY <2>1, <3>2 DEF SearchInv
      <4>2. edges[<<n, k>>] \in Int
        BY EntryFacts DEF TypeInv, TypeOK
      <4> QED
        BY <1>4, <1>6, <3>1, <4>1, <4>2
    <3> QED
      BY <1>1, <1>4, <1>14, <3>1, <3>2
  <2>2. CASE n = u /\ s.cost < MaxCost
    <3>1. ASSUME NEW k \in Nodes, edges[<<u, k>>] # NoEdge
          PROVE  dist'[k] <= s.cost + edges[<<u, k>>]
      <4>1. edges[<<u, k>>] \in 0 .. MaxCost
        BY <1>1, <3>1, EntryFacts DEF TypeInv, TypeOK
      <4>2. NewCost(s, k) \in 0 .. MaxCost /\ NewCost(s, k) <= s.cost + edges[<<u, k>>]
        BY <1>1, <4>1, SaturatingFacts DEF NewCost
      <4>3. CASE k \in Better(s)
        BY <1>5, <4>2, <4>3
      <4>4. CASE k \notin Better(s)
        <5>1. ~ (NewCost(s, k) < dist[k])
          BY <3>1, <4>4 DEF Better
        <5>2. dist[k] <= NewCost(s, k) /\ MaxCost \in Int
          BY <1>4, <4>2, <5>1, RouterAssumption
        <5> QED
          BY <1>1, <1>4, <1>5, <4>1, <4>2, <4>4, <5>2
      <4> QED
        BY <4>3, <4>4
    <3> QED
      BY <1>8, <1>14, <2>2, <3>1
  <2> QED
    BY <1>3, <1>15, <2>1, <2>2
<1>16. \A n \in Nodes : Settled(n)' => n # dest
  BY <1>3 DEF SearchInv
<1>17. SettledInOrder'
  <2>1. PICK rank \in [Nodes -> Nat], top \in Nat : \A n \in Nodes :
          Settled(n) => /\ rank[n] < top
                        /\ prev[n] # NoNode => rank[prev[n]] < rank[n]
    BY DEF SearchInv, SettledInOrder
  <2> DEFINE rank2 == [n \in Nodes |-> IF n = u THEN top ELSE rank[n]]
  <2>2. rank2 \in [Nodes -> Nat] /\ top + 1 \in Nat
    OBVIOUS
  <2>3. rank2[u] = top /\ \A n \in Nodes \ {u} : rank2[n] = rank[n]
    BY <1>1
  <2> HIDE DEF rank2
  <2>4. ASSUME NEW n \in Nodes, NEW q \in Nodes, prev[n] = q
        PROVE  Settled(q) /\ q # u /\ rank2[q] = rank[q] /\ rank[q] < top
    <3>1. Settled(q)
      BY <2>4 DEF SearchInv
    <3> QED
      BY <1>1, <2>1, <2>3, <3>1
  <2>5. ASSUME NEW n \in Nodes, Settled(n)'
        PROVE  /\ rank2[n] < top + 1
               /\ prev'[n] # NoNode => rank2[prev'[n]] < rank2[n]
    <3>0. prev[n] # NoNode => prev[n] \in Nodes
      BY DEF TypeInv, TypeOK
    <3>1. CASE Settled(n)
      <4>1. prev'[n] = prev[n] /\ rank2[n] = rank[n] /\ rank[n] < top
        BY <1>7, <2>1, <2>3, <3>1
      <4>2. prev[n] # NoNode => rank[prev[n]] < rank[n]
        BY <2>1, <3>1
      <4> QED
        BY <2>1, <2>4, <3>0, <4>1, <4>2
    <3>2. CASE n = u
      <4>1. prev'[n] = prev[n] /\ rank2[n] = top
        BY <1>8, <2>3, <3>2
      <4> QED
        BY <2>1, <2>4, <3>0, <4>1
    <3> QED
      BY <1>3, <2>5, <3>1, <3>2
  <2> QED
    BY <2>2, <2>5 DEF SettledInOrder
<1> HIDE DEF u
<1>18. \A n, q \in Nodes : prev'[n] = q => Settled(q)'
  BY <1>11
<1>19. \A t \in heap' : total <= t.cost /\ dist'[t.node] <= t.cost
  BY <1>14
<1> QED
  BY <1>12, <1>13, <1>15, <1>16, <1>17, <1>18, <1>19 DEF SearchInv

----------------------------------------------------------------------------
(* What the search has found *)

\* What a simple path is.
LEMMA SimplePathFacts ==
  ASSUME NEW m, NEW x, NEW y, NEW p \in SimplePaths(m, x, y)
  PROVE  /\ p \in Seq(Nodes) /\ Len(p) \in Nat \ {0}
         /\ p[1] = x /\ p[Len(p)] = y
         /\ \A i \in 1 .. Len(p) : p[i] \in Nodes
         /\ \A i, j \in 1 .. Len(p) : p[i] = p[j] => i = j
         /\ \A i \in 1 .. Len(p) - 1 : m[<<p[i], p[i + 1]>>] # NoEdge
<1>1. PICK k \in 1 .. Cardinality(Nodes) : p \in [1 .. k -> Nodes]
  BY DEF SimplePaths
<1>2. k \in Nat \ {0} /\ Len(p) = k /\ p \in Seq(Nodes)
  BY <1>1, RouterAssumption, FS_CardinalityType
<1>3. /\ p[1] = x /\ p[Len(p)] = y
      /\ \A i, j \in 1 .. Len(p) : p[i] = p[j] => i = j
      /\ \A i \in 1 .. Len(p) - 1 : m[<<p[i], p[i + 1]>>] # NoEdge
  BY DEF SimplePaths
<1> QED
  BY <1>1, <1>2, <1>3

\* A sequence of different nodes along links is a simple path.
LEMMA IsSimplePath ==
  ASSUME NEW m, NEW p \in Seq(Nodes), p # <<>>,
         \A i, j \in 1 .. Len(p) : p[i] = p[j] => i = j,
         \A i \in 1 .. Len(p) - 1 : m[<<p[i], p[i + 1]>>] # NoEdge
  PROVE  p \in SimplePaths(m, p[1], p[Len(p)])
<1> DEFINE n == Len(p)
<1>1. n \in Nat \ {0} /\ p \in [1 .. n -> Nodes]
  OBVIOUS
<1>2. n <= Cardinality(Nodes)
  <2>1. p \in Injection(1 .. n, Nodes)
    BY <1>1 DEF Injection, IsInjective
  <2>2. IsFiniteSet(Nodes) /\ Cardinality(1 .. n) = n
    BY <1>1, RouterAssumption, FS_Interval
  <2> QED
    BY <2>1, <2>2, FS_Injection
<1>3. n \in 1 .. Cardinality(Nodes)
  BY <1>1, <1>2, RouterAssumption, FS_CardinalityType
<1>4. p \in UNION {[1 .. k -> Nodes] : k \in 1 .. Cardinality(Nodes)}
  BY <1>1, <1>3
<1> QED
  BY <1>4 DEF SimplePaths

\* The cost of a simple path is a number.
LEMMA CostIsInt ==
  ASSUME NEW m \in Matrix(Rtts), NEW x, NEW y, NEW p \in SimplePaths(m, x, y)
  PROVE  Cost(m, p) \in Int
<1> DEFINE n == Len(p) - 1
<1>1. n \in Nat /\ Len(p) = n + 1 /\ \A i \in 1 .. n + 1 : p[i] \in Nodes
  BY SimplePathFacts
<1>2. Len(p) - 1 = n
  OBVIOUS
<1> HIDE DEF n
<1>3. ASSUME NEW i \in 1 .. n PROVE m[<<p[i], p[i + 1]>>] \in Int
  <2>1. i \in 1 .. n + 1 /\ i + 1 \in 1 .. n + 1
    BY <1>1
  <2> QED
    BY <1>1, <2>1, EntryFacts
<1>4. [i \in 1 .. n + 1 |-> 0] \in [1 .. n + 1 -> Int]
  OBVIOUS
<1> QED
  BY <1>1, <1>2, <1>3, <1>4, Climb

\* Where the edges out of a node that is nearer than k lead nowhere more
\* cheaply than the distances say, no path costs less than k in all.
LEMMA NoShorterWay ==
  ASSUME NEW m \in Matrix(Rtts), NEW d \in [Nodes -> Nat], NEW k \in Nat,
         \A n \in Nodes : d[n] < k =>
           \A o \in Nodes : m[<<n, o>>] # NoEdge => d[o] <= d[n] + m[<<n, o>>],
         NEW x, NEW y, d[y] >= k, NEW p \in SimplePaths(m, x, y)
  PROVE  Cost(m, p) \in Int /\ k <= d[x] + Cost(m, p)
<1> DEFINE n == Len(p) - 1
           h == [i \in 1 .. n + 1 |-> IF d[p[i]] < k THEN d[p[i]] ELSE k]
<1>1. /\ n \in Nat /\ Len(p) = n + 1 /\ p[1] = x /\ p[n + 1] = y
      /\ \A i \in 1 .. n + 1 : p[i] \in Nodes
      /\ \A i \in 1 .. n : m[<<p[i], p[i + 1]>>] # NoEdge
  BY SimplePathFacts
<1>2. \A i \in 1 .. n + 1 : d[p[i]] \in Nat
  BY <1>1
<1> HIDE DEF n
<1>3. ASSUME NEW i \in 1 .. n
      PROVE  m[<<p[i], p[i + 1]>>] \in Nat
  <2>1. i \in 1 .. n + 1 /\ i + 1 \in 1 .. n + 1
    BY <1>1
  <2>2. m[<<p[i], p[i + 1]>>] \in 0 .. MaxCost
    BY <1>1, <2>1, EntryFacts
  <2> QED
    BY <2>2, RouterAssumption
<1>4. h \in [1 .. n + 1 -> Int]
  BY <1>2
<1>5. ASSUME NEW i \in 1 .. n
      PROVE  h[i + 1] <= h[i] + m[<<p[i], p[i + 1]>>]
  <2>1. i \in 1 .. n + 1 /\ i + 1 \in 1 .. n + 1
    BY <1>1
  <2>2. d[p[i]] \in Nat /\ d[p[i + 1]] \in Nat /\ m[<<p[i], p[i + 1]>>] \in Nat
    BY <1>2, <1>3, <2>1
  <2>3. CASE d[p[i]] < k
    <3>1. d[p[i + 1]] <= d[p[i]] + m[<<p[i], p[i + 1]>>]
      BY <1>1, <2>1, <2>3
    <3>2. h[i] = d[p[i]] /\ h[i + 1] <= d[p[i + 1]] /\ h[i + 1] \in Int
      BY <2>1, <2>2, <2>3
    <3> QED
      BY <2>2, <3>1, <3>2
  <2>4. CASE ~ (d[p[i]] < k)
    <3>1. h[i] = k /\ h[i + 1] <= k /\ h[i + 1] \in Int
      BY <2>1, <2>2, <2>4
    <3> QED
      BY <2>2, <3>1
  <2> QED
    BY <2>3, <2>4
<1>6. 1 \in 1 .. n + 1 /\ n + 1 \in 1 .. n + 1
  BY <1>1
<1>7. h[n + 1] = k /\ h[1] <= d[x] /\ h[1] \in Int /\ d[x] \in Int
  BY <1>1, <1>2, <1>6
<1> HIDE DEF h
<1>8. Cost(m, p) \in Int /\ h[n + 1] <= h[1] + Cost(m, p)
  <2>1. Len(p) - 1 = n /\ \A i \in 1 .. n : m[<<p[i], p[i + 1]>>] \in Int
    BY <1>3 DEF n
  <2> QED
    BY <1>1, <1>4, <1>5, <2>1, Climb
<1> QED
  BY <1>7, <1>8

\* When the destination is popped or the heap is empty, the distance of the
\* destination is that of its shortest way.
LEMMA SearchEnds ==
  ASSUME TypeInv, SearchInv, pc = "search",
         \A t \in heap : dist[dest] <= t.cost
  PROVE  \A k \in Costs(edges, source, dest) : dist[dest] <= dist[source] + k
<1>1. edges \in Matrix(Rtts) /\ dist \in [Nodes -> Nat] /\ dist[dest] \in Nat
      /\ dest \in Nodes
  BY DEF TypeInv, TypeOK
<1>2. ASSUME NEW n \in Nodes, dist[n] < dist[dest]
      PROVE  \A o \in Nodes : edges[<<n, o>>] # NoEdge => dist[o] <= dist[n] + edges[<<n, o>>]
  <2>1. dist[n] < MaxCost
    BY <1>2, RouterAssumption DEF TypeInv, TypeOK
  <2>2. [cost |-> dist[n], node |-> n] \notin heap
    <3>1. [cost |-> dist[n], node |-> n].cost = dist[n]
      OBVIOUS
    <3> QED
      BY <1>1, <1>2, <3>1
  <2>3. Settled(n)
    BY <2>1, <2>2 DEF Settled
  <2> QED
    BY <2>3 DEF SearchInv
<1>3. ASSUME NEW p \in SimplePaths(edges, source, dest)
      PROVE  dist[dest] <= dist[source] + Cost(edges, p)
  BY <1>1, <1>2, NoShorterWay
<1> QED
  BY <1>3 DEF Costs

\* The path of one node is the beginning of the walk.
LEMMA WalkStarts ==
  ASSUME TypeInv, SearchInv, pc = "search",
         \A t \in heap : dist[dest] <= t.cost,
         pc' = "walk", path' = <<dest>>,
         UNCHANGED <<call, dest, edges, source, dist, prev, total>>
  PROVE  WalkInv'
<1>1. TreeInv'
  BY DEF SearchInv, TreeInv
<1>2. \A k \in Costs(edges', source', dest') : dist'[dest'] <= dist'[source'] + k
  BY SearchEnds
<1>3. dist'[source'] = total' /\ (call' = "next_hop" => dist'[source'] = 0)
  BY DEF SearchInv, TypeInv, CallInv
<1>4. PathInOrder'
  <2>1. PICK rank \in [Nodes -> Nat], top \in Nat : \A n \in Nodes :
          Settled(n) => /\ rank[n] < top
                        /\ prev[n] # NoNode => rank[prev[n]] < rank[n]
    BY DEF SearchInv, SettledInOrder
  <2> DEFINE rank2 == [n \in Nodes |-> IF Settled(n) THEN rank[n] ELSE top]
  <2>2. rank2 \in [Nodes -> Nat]
    OBVIOUS
  <2>3. ASSUME NEW n \in Nodes, prev[n] # NoNode PROVE rank2[prev[n]] < rank2[n]
    <3>1. prev[n] \in Nodes
      BY <2>3 DEF TypeInv, TypeOK
    <3>2. Settled(prev[n])
      BY <3>1 DEF SearchInv
    <3>3. rank2[prev[n]] = rank[prev[n]] /\ rank[prev[n]] < top
      BY <2>1, <3>1, <3>2
    <3> QED
      BY <2>1, <2>3, <3>3
  <2>4. \A i, j \in 1 .. Len(path') : ~ (i < j)
    OBVIOUS
  <2> HIDE DEF rank2
  <2> QED
    BY <2>2, <2>3, <2>4 DEF PathInOrder
<1> QED
  BY <1>1, <1>2, <1>3, <1>4 DEF WalkInv

\* Following prev one step further keeps the nodes of the path in order.
LEMMA WalkGoesOn ==
  ASSUME TypeInv, WalkInv, Walk
  PROVE  WalkInv'
<1>1. pc = "walk" /\ pc' = "walk" /\ prev[path[1]] # NoNode
      /\ UNCHANGED <<call, dest, edges, source, dist, prev, total>>
  BY DEF Walk, search
<1>2. path \in Seq(Nodes) /\ path # <<>> /\ path[1] \in Nodes
  BY <1>1 DEF TypeInv, TypeOK, PathInv
<1>3. prev[path[1]] \in Nodes
  BY <1>1, <1>2 DEF TypeInv, TypeOK
<1> DEFINE q == <<prev[path[1]]>> \o path
<1>4. /\ q \in Seq(Nodes) /\ Len(q) = Len(path) + 1
      /\ q[1] = prev[path[1]]
      /\ \A i \in 1 .. Len(path) : q[i + 1] = path[i]
  BY <1>2, <1>3, PrependFacts
<1>5. path' = q
  BY DEF Walk
<1> HIDE DEF q
<1>6. PathInOrder'
  <2>1. PICK rank \in [Nodes -> Nat] :
          /\ \A n \in Nodes : prev[n] # NoNode => rank[prev[n]] < rank[n]
          /\ \A i, j \in 1 .. Len(path) : i < j => rank[path[i]] < rank[path[j]]
    BY <1>1 DEF WalkInv, PathInOrder
  <2>2. rank[q[1]] < rank[path[1]] /\ rank[q[1]] \in Nat /\ rank[path[1]] \in Nat
    BY <1>1, <1>2, <1>3, <1>4, <2>1
  <2>3. ASSUME NEW i \in 1 .. Len(q), NEW j \in 1 .. Len(q), i < j
        PROVE  rank[q[i]] < rank[q[j]]
    <3>1. j - 1 \in 1 .. Len(path) /\ j - 1 + 1 = j
      BY <1>2, <1>4, <2>3
    <3>2. q[j] = path[j - 1] /\ path[j - 1] \in Nodes /\ rank[path[j - 1]] \in Nat
      <4>1. q[j - 1 + 1] = path[j - 1]
        BY <1>4, <3>1
      <4>2. path[j - 1] \in Nodes
        BY <1>2, <3>1
      <4> QED
        BY <3>1, <4>1, <4>2
    <3>3. CASE i = 1
      <4>1. CASE j - 1 = 1
        BY <2>2, <3>2, <3>3, <4>1
      <4>2. CASE j - 1 # 1
        <5>1. 1 < j - 1 /\ 1 \in 1 .. Len(path)
          BY <1>2, <3>1, <4>2
        <5>2. rank[path[1]] < rank[path[j - 1]]
          BY <2>1, <3>1, <5>1
        <5> QED
          BY <2>2, <3>2, <3>3, <5>2
      <4> QED
        BY <4>1, <4>2
    <3>4. CASE i # 1
      <4>1. i - 1 \in 1 .. Len(path) /\ i - 1 + 1 = i /\ i - 1 < j - 1
        BY <1>2, <1>4, <2>3, <3>4
      <4>2. q[i] = path[i - 1]
        BY <1>4, <4>1
      <4> QED
        BY <2>1, <3>1, <3>2, <4>1, <4>2
    <3> QED
      BY <3>3, <3>4
  <2> QED
    BY <1>1, <1>5, <2>1, <2>3 DEF PathInOrder
<1>7. TreeInv'
  BY <1>1 DEF WalkInv, TreeInv
<1> QED
  BY <1>1, <1>6, <1>7 DEF WalkInv

\* The path that has been followed back to the source is a simple path whose
\* cost is the distance of the destination.
LEMMA PathFacts ==
  ASSUME TypeInv, WalkInv, pc \in {"walk", "measure"}, path[1] = source
  PROVE  /\ path \in SimplePaths(edges, source, dest)
         /\ Cost(edges, path) \in Int
         /\ dist[dest] = dist[source] + Cost(edges, path)
<1> DEFINE n == Len(path) - 1
           h == [i \in 1 .. n + 1 |-> dist[path[i]]]
<1>1. /\ path \in Seq(Nodes) /\ path # <<>>
      /\ path[1] = source /\ path[Len(path)] = dest
      /\ \A i \in 1 .. Len(path) - 1 : prev[path[i + 1]] = path[i]
  BY DEF TypeInv, TypeOK, PathInv
<1>2. n \in Nat /\ Len(path) = n + 1 /\ \A i \in 1 .. n + 1 : path[i] \in Nodes
  BY <1>1
<1>3. ASSUME NEW i \in 1 .. n
      PROVE  /\ edges[<<path[i], path[i + 1]>>] # NoEdge
             /\ edges[<<path[i], path[i + 1]>>] \in Int
             /\ dist[path[i + 1]] = dist[path[i]] + edges[<<path[i], path[i + 1]>>]
  <2>1. i \in 1 .. n + 1 /\ i + 1 \in 1 .. n + 1
    BY <1>2
  <2>2. /\ path[i] \in Nodes /\ path[i + 1] \in Nodes
        /\ prev[path[i + 1]] = path[i] /\ prev[path[i + 1]] # NoNode
    BY <1>1, <1>2, <2>1, RouterAssumption
  <2>3. edges[<<path[i], path[i + 1]>>] # NoEdge
    BY <2>2 DEF TypeInv, PathInv
  <2>4. dist[path[i + 1]] = dist[path[i]] + edges[<<path[i], path[i + 1]>>]
    BY <2>2 DEF WalkInv, TreeInv
  <2>5. edges[<<path[i], path[i + 1]>>] \in Int
    BY <2>2, EntryFacts DEF TypeInv, TypeOK
  <2> QED
    BY <2>3, <2>4, <2>5
<1>4. path \in SimplePaths(edges, source, dest)
  <2>1. PICK rank \in [Nodes -> Nat] :
          \A i, j \in 1 .. Len(path) : i < j => rank[path[i]] < rank[path[j]]
    BY DEF WalkInv, PathInOrder
  <2>2. ASSUME NEW i \in 1 .. Len(path), NEW j \in 1 .. Len(path), path[i] = path[j]
        PROVE  i = j
    <3>1. rank[path[i]] \in Nat /\ rank[path[i]] = rank[path[j]]
      BY <1>2, <2>2
    <3>2. ~ (i < j) /\ ~ (j < i)
      BY <2>1, <3>1
    <3>3. i \in Int /\ j \in Int
      BY <1>2
    <3> QED
      BY <3>2, <3>3
  <2> QED
    BY <1>1, <1>3, <2>2, IsSimplePath
<1>5. \A i \in 1 .. n + 1 : dist[path[i]] \in Int
  BY <1>2 DEF TypeInv, TypeOK
<1> HIDE DEF n
<1>6. h \in [1 .. n + 1 -> Int]
  BY <1>5
<1>7. ASSUME NEW i \in 1 .. n
      PROVE  h[i + 1] = h[i] + edges[<<path[i], path[i + 1]>>] /\ h[i + 1] \in Int
  <2>1. i \in 1 .. n + 1 /\ i + 1 \in 1 .. n + 1
    BY <1>2
  <2> QED
    BY <1>3, <1>5, <2>1
<1>8. 1 \in 1 .. n + 1 /\ n + 1 \in 1 .. n + 1
  BY <1>2
<1>9. h[1] = dist[source] /\ h[n + 1] = dist[dest] /\ h[1] \in Int /\ h[n + 1] \in Int
  BY <1>1, <1>2, <1>5, <1>8
<1> HIDE DEF h
<1>10. /\ Cost(edges, path) \in Int
       /\ h[n + 1] <= h[1] + Cost(edges, path)
       /\ h[n + 1] >= h[1] + Cost(edges, path)
  <2>1. Len(path) - 1 = n /\ n \in Nat
    BY <1>2 DEF n
  <2>2. \A i \in 1 .. n : edges[<<path[i], path[i + 1]>>] \in Int
    BY <1>3
  <2>3. \A i \in 1 .. n : /\ h[i + 1] <= h[i] + edges[<<path[i], path[i + 1]>>]
                          /\ h[i + 1] >= h[i] + edges[<<path[i], path[i + 1]>>]
    BY <1>7
  <2> QED
    BY <1>6, <2>1, <2>2, <2>3, Climb
<1>11. \A x, y, z \in Int : x <= y + z /\ x >= y + z => x = y + z
  OBVIOUS
<1>12. h[n + 1] = h[1] + Cost(edges, path)
  BY <1>9, <1>10, <1>11
<1> QED
  BY <1>4, <1>9, <1>10, <1>12

\* Where prev leads nowhere else than to the source, the destination is out of
\* reach.
LEMMA OutOfReach ==
  ASSUME TypeInv, WalkInv, pc = "walk", path[1] # source, prev[path[1]] = NoNode
  PROVE  dist[dest] = MaxCost
<1>1. /\ path \in Seq(Nodes) /\ path # <<>> /\ path[1] \in Nodes
      /\ path[Len(path)] = dest
      /\ \A i \in 1 .. Len(path) - 1 : prev[path[i + 1]] = path[i]
  BY DEF TypeInv, TypeOK, PathInv
<1>2. dist[path[1]] = MaxCost
  <2>1. dist[path[1]] \in 0 .. MaxCost /\ MaxCost \in Nat
    BY <1>1, RouterAssumption DEF TypeInv, TypeOK
  <2>2. ~ (dist[path[1]] < MaxCost)
    BY <1>1 DEF WalkInv, TreeInv
  <2> QED
    BY <2>1, <2>2
<1>3. CASE Len(path) = 1
  BY <1>1, <1>2, <1>3
<1>4. CASE Len(path) # 1
  <2>0. Len(path) \in Nat /\ Len(path) # 0
    BY <1>1
  <2>1. 1 \in 1 .. Len(path) - 1 /\ 2 \in 1 .. Len(path)
    <3>1. \A n \in Nat : n # 0 /\ n # 1 => 1 \in 1 .. n - 1 /\ 2 \in 1 .. n
      OBVIOUS
    <3> QED
      BY <1>4, <2>0, <3>1
  <2>2. prev[path[2]] = path[1] /\ path[2] \in Nodes
    BY <1>1, <2>1
  <2>3. edges[<<path[1], path[2]>>] # NoEdge
    BY <1>1, <2>2, RouterAssumption DEF TypeInv, PathInv
  <2>4. edges[<<path[1], path[2]>>] \in 0 .. MaxCost
    BY <1>1, <2>2, <2>3, EntryFacts DEF TypeInv, TypeOK
  <2>5. dist[path[2]] < MaxCost /\ dist[path[2]] = MaxCost + edges[<<path[1], path[2]>>]
    BY <1>1, <1>2, <2>2, RouterAssumption DEF WalkInv, TreeInv
  <2>6. MaxCost \in Nat
    BY RouterAssumption
  <2> QED
    BY <2>4, <2>5, <2>6
<1> QED
  BY <1>3, <1>4

----------------------------------------------------------------------------
(* next_hop *)

\* What next_hop returns is a shortest path.
LEMMA ReturnsShortest ==
  ASSUME TypeInv, WalkInv, ReturnRoute
  PROVE  NextHopIsShortest'
<1>1. pc = "measure" /\ call = "next_hop" /\ path[1] = source /\ source = LocalNode
      /\ dist[source] = 0
  BY DEF ReturnRoute, TypeInv, TypeOK, CallInv, PathInv, WalkInv
<1>2. /\ path \in SimplePaths(edges, source, dest)
      /\ Cost(edges, path) \in Int
      /\ dist[dest] = dist[source] + Cost(edges, path)
  BY <1>1, PathFacts
<1>3. dist[dest] = Cost(edges, path)
  BY <1>1, <1>2
<1>4. \A k \in Costs(edges, source, dest) : dist[dest] <= dist[source] + k
  BY <1>1 DEF WalkInv
<1>5. ASSUME NEW p \in SimplePaths(edges, source, dest)
      PROVE  Cost(edges, p) \in Int
  BY CostIsInt DEF TypeInv, TypeOK
<1>6. \A k \in Costs(edges, source, dest) : Cost(edges, path) <= k
  <2> SUFFICES ASSUME NEW p \in SimplePaths(edges, source, dest)
               PROVE  Cost(edges, path) <= Cost(edges, p)
    BY DEF Costs
  <2>1. dist[dest] <= dist[source] + Cost(edges, p)
    BY <1>4 DEF Costs
  <2> QED
    BY <1>1, <1>3, <1>5, <2>1
<1>7. path \in Shortest(edges, LocalNode, dest)
  BY <1>1, <1>2, <1>6 DEF Shortest
<1>8. result' = <<[next_hop |-> path[2], total_rtt |-> total, path |-> path]>>
      /\ edges' = edges /\ dest' = dest /\ pc' = "done"
  BY DEF ReturnRoute, Return, search
<1>9. result' # <<>> /\ result'[1].path = path /\ result'[1].next_hop = path[2]
  BY <1>8
<1> QED
  BY <1>7, <1>8, <1>9 DEF NextHopIsShortest

\* When next_hop returns None, no way costs less than MaxCost.
LEMMA ReturnsNone ==
  ASSUME TypeInv, WalkInv, NoPath
  PROVE  NextHopIsShortest'
<1>1. CASE call = "top_paths"
  BY <1>1 DEF NoPath, NextHopIsShortest
<1>2. CASE call = "next_hop" /\ Return(<<>>)
  <2>1. pc = "walk" /\ path[1] # source /\ prev[path[1]] = NoNode
        /\ result' = <<>> /\ edges' = edges /\ dest' = dest
    BY <1>2 DEF NoPath, Return, search
  <2>2. dist[dest] = MaxCost
    BY <2>1, OutOfReach
  <2>3. source = LocalNode /\ dist[source] = 0
    BY <1>2, <2>1 DEF TypeInv, CallInv, WalkInv
  <2>4. ASSUME NEW p \in SimplePaths(edges, LocalNode, dest)
        PROVE  Cost(edges, p) >= MaxCost
    <3>1. dist[dest] <= dist[source] + Cost(edges, p)
      BY <2>1, <2>3 DEF WalkInv, Costs
    <3>2. Cost(edges, p) \in Int
      BY CostIsInt DEF TypeInv, TypeOK
    <3> QED
      BY <2>2, <2>3, <3>1, <3>2, RouterAssumption
  <2>5. \A k \in Costs(edges, LocalNode, dest) : k >= MaxCost
    BY <2>4 DEF Costs
  <2> QED
    BY <2>1, <2>5 DEF NextHopIsShortest
<1> QED
  BY <1>1, <1>2 DEF NoPath

\* Every step keeps what holds of the search, of the walk and of the result.
LEMMA RouterInvNext == RouterInv /\ [Next]_vars => RouterInv'
<1> SUFFICES ASSUME RouterInv, [Next]_vars PROVE RouterInv'
  OBVIOUS
<1>0. TypeInv /\ TypeInv' /\ SearchInv /\ WalkInv /\ NextHopIsShortest
  BY TypeInvNext DEF RouterInv
<1> SUFFICES SearchInv' /\ WalkInv' /\ NextHopIsShortest'
  BY <1>0 DEF RouterInv
<1>1. CASE CallForSelf
  BY <1>1 DEF CallForSelf, Return, SearchInv, WalkInv, NextHopIsShortest
<1>2. CASE NextHop
  <2>1. Begin(LocalNode, 0) /\ 0 \in 0 .. MaxCost /\ LocalNode \in Nodes
        /\ total' = 0 /\ dest' \in Nodes
    BY <1>0, <1>2, RouterAssumption DEF NextHop, TypeInv, CallInv, TypeOK
  <2> QED
    BY <1>0, <2>1, BeginSearch DEF Begin, WalkInv, NextHopIsShortest
<1>3. CASE TopPaths
  BY <1>3 DEF TopPaths, SearchInv, WalkInv, NextHopIsShortest
<1>4. ASSUME NEW v \in todo, PickVia(v) PROVE SearchInv' /\ WalkInv' /\ NextHopIsShortest'
  BY <1>4 DEF PickVia, SearchInv, WalkInv, NextHopIsShortest
<1>5. CASE SearchVia
  <2>1. Begin(source, total) /\ total \in 0 .. MaxCost /\ source \in Nodes
        /\ total' = total /\ dest' \in Nodes
    BY <1>0, <1>5 DEF SearchVia, TypeInv, CallInv, TypeOK
  <2> QED
    BY <1>0, <2>1, BeginSearch DEF Begin, WalkInv, NextHopIsShortest
<1>6. ASSUME NEW s \in heap, Pop(s) PROVE SearchInv' /\ WalkInv' /\ NextHopIsShortest'
  <2>0. /\ pc = "search" /\ Cheapest(s)
        /\ UNCHANGED <<call, dest, edges, source, total>>
    BY <1>6 DEF Pop
  <2>1. CASE s.node = dest /\ heap' = heap \ {s} /\ pc' = "walk" /\ path' = <<dest>>
             /\ UNCHANGED <<dist, prev>>
    <3>1. dist[dest] <= s.cost /\ dist[dest] \in Int /\ s.cost \in Int
      BY <1>0, <2>0, <2>1 DEF SearchInv, TypeInv, TypeOK
    <3>2. ASSUME NEW t \in heap PROVE dist[dest] <= t.cost
      BY <2>0, <3>1, <1>0 DEF Cheapest, TypeInv, TypeOK
    <3>3. WalkInv'
      BY <1>0, <2>0, <2>1, <3>2, WalkStarts
    <3> QED
      BY <2>1, <3>3 DEF SearchInv, NextHopIsShortest
  <2>2. CASE s.cost > dist[s.node] /\ heap' = heap \ {s} /\ UNCHANGED <<pc, path, dist, prev>>
    <3>1. SearchInv'
      BY <1>0, <2>0, <2>2, PopStale
    <3> QED
      BY <2>0, <2>2, <3>1 DEF WalkInv, NextHopIsShortest
  <2>3. CASE s.node # dest /\ s.cost <= dist[s.node] /\ Relax(s) /\ UNCHANGED <<pc, path>>
    <3>1. SearchInv'
      BY <1>0, <2>0, <2>3, RelaxSearch
    <3> QED
      BY <2>0, <2>3, <3>1 DEF WalkInv, NextHopIsShortest
  <2> QED
    BY <1>6, <2>1, <2>2, <2>3 DEF Pop
<1>7. CASE Exhaust
  <2>1. WalkInv'
    BY <1>0, <1>7, WalkStarts DEF Exhaust, search
  <2> QED
    BY <1>7, <2>1 DEF Exhaust, SearchInv, NextHopIsShortest
<1>8. CASE Walk
  BY <1>0, <1>8, WalkGoesOn DEF Walk, SearchInv, NextHopIsShortest
<1>9. CASE NoPath
  <2>1. pc' \in {"done", "pick"}
    BY <1>9 DEF NoPath, Return
  <2> QED
    BY <1>0, <1>9, <2>1, ReturnsNone DEF SearchInv, WalkInv
<1>10. CASE Collect
  BY <1>10 DEF Collect, SearchInv, WalkInv, NextHopIsShortest
<1>11. CASE Found
  <2>1. /\ pc = "walk" /\ pc' = "measure"
        /\ UNCHANGED <<call, dest, edges, source, dist, prev, heap, path>>
    BY <1>11 DEF Found, search
  <2>2. TreeInv' /\ PathInOrder'
    BY <1>0, <2>1 DEF WalkInv, TreeInv, PathInOrder
  <2> QED
    BY <1>0, <2>1, <2>2 DEF SearchInv, WalkInv, NextHopIsShortest
<1>12. CASE AddHop
  <2>1. /\ pc = "measure" /\ pc' = "measure"
        /\ UNCHANGED <<call, dest, edges, source, dist, prev, heap, path>>
    BY <1>12 DEF AddHop, search
  <2>2. TreeInv' /\ PathInOrder'
    BY <1>0, <2>1 DEF WalkInv, TreeInv, PathInOrder
  <2> QED
    BY <1>0, <2>1, <2>2 DEF SearchInv, WalkInv, NextHopIsShortest
<1>13. CASE ReturnRoute
  BY <1>0, <1>13, ReturnsShortest DEF ReturnRoute, Return, SearchInv, WalkInv
<1>14. CASE ReturnTop
  <2>1. pc' = "done" /\ call' = call /\ call # "next_hop"
    BY <1>0, <1>14 DEF ReturnTop, Return, TypeInv, CallInv
  <2> QED
    BY <2>1 DEF SearchInv, WalkInv, NextHopIsShortest
<1>15. CASE UNCHANGED <<call, dest, pc, edges, source, dist, prev, heap, path, total, result>>
  <2>1. (pc \in {"walk", "measure"} => TreeInv' /\ PathInOrder')
    BY <1>0, <1>15 DEF WalkInv, TreeInv, PathInOrder
  <2>2. (pc = "search" => TreeInv' /\ SettledInOrder')
    BY <1>0, <1>15 DEF SearchInv, TreeInv, SettledInOrder, Settled
  <2>3. \A n \in Nodes : Settled(n)' <=> Settled(n)
    BY <1>15 DEF Settled
  <2>4. SearchInv'
    BY <1>0, <1>15, <2>2, <2>3 DEF SearchInv
  <2>5. WalkInv'
    BY <1>0, <1>15, <2>1 DEF WalkInv
  <2>6. NextHopIsShortest'
    BY <1>0, <1>15 DEF NextHopIsShortest
  <2> QED
    BY <2>4, <2>5, <2>6
<1>16. CASE UNCHANGED vars
  BY <1>15, <1>16 DEF vars
<1>17. CASE Probed
  BY <1>15, <1>17 DEF Probed, Update, search
<1> QED
  BY <1>1, <1>2, <1>3, <1>4, <1>5, <1>6, <1>7, <1>8, <1>9, <1>10, <1>11, <1>12,
     <1>13, <1>14, <1>16, <1>17 DEF Next, Step

\* For every network, every latency matrix and whatever the prober writes into
\* it during the call: the path next_hop returns is a cheapest one of the
\* matrix it copied, its next_hop is the path's second node, and None means
\* that every way costs u64::MAX or more.
THEOREM NextHopFindsShortest == Spec => []NextHopIsShortest
<1>1. Init => RouterInv
  BY TypeInvInit DEF Init, RouterInv, SearchInv, WalkInv, NextHopIsShortest
<1>2. RouterInv => NextHopIsShortest
  BY DEF RouterInv
<1> QED
  BY <1>1, <1>2, RouterInvNext, PTL DEF Spec

----------------------------------------------------------------------------
(* top_paths: costs of paths and of their parts *)

\* The cost of a path is that of its first hop and of the rest.
LEMMA ConsCost ==
  ASSUME NEW m, NEW p, NEW q, NEW n \in Nat, Len(q) = n + 1, Len(p) = n + 2,
         \A i \in 1 .. n + 1 : p[i + 1] = q[i],
         \A i \in 1 .. n + 1 : m[<<p[i], p[i + 1]>>] \in Int
  PROVE  Cost(m, q) \in Int /\ Cost(m, p) = m[<<p[1], p[2]>>] + Cost(m, q)
<1> DEFINE w == m[<<p[1], p[2]>>]
<1>1. \A i \in 1 .. n : m[<<q[i], q[i + 1]>>] = m[<<p[i + 1], p[i + 1 + 1]>>]
  <2> SUFFICES ASSUME NEW i \in 1 .. n
               PROVE  m[<<q[i], q[i + 1]>>] = m[<<p[i + 1], p[i + 1 + 1]>>]
    OBVIOUS
  <2>1. i \in 1 .. n + 1 /\ i + 1 \in 1 .. n + 1
    OBVIOUS
  <2>2. q[i] = p[i + 1] /\ q[i + 1] = p[i + 1 + 1]
    BY <2>1
  <2> QED
    BY <2>2
<1>2. \A i \in 1 .. n : m[<<q[i], q[i + 1]>>] \in Int
  <2> SUFFICES ASSUME NEW i \in 1 .. n PROVE m[<<q[i], q[i + 1]>>] \in Int
    OBVIOUS
  <2>1. i + 1 \in 1 .. n + 1
    OBVIOUS
  <2> QED
    BY <1>1, <2>1
<1>3. PICK s \in [0 .. n -> Int] :
        /\ s[0] = 0
        /\ \A i \in 1 .. n : s[i] = s[i - 1] + m[<<q[i], q[i + 1]>>]
        /\ s[n] = Cost(m, q)
  <2>1. Len(q) - 1 = n
    OBVIOUS
  <2> QED
    BY <1>2, <2>1, RunningCost
<1>4. w \in Int
  <2>1. 1 \in 1 .. n + 1 /\ 1 + 1 = 2
    OBVIOUS
  <2> QED
    BY <2>1
<1> HIDE DEF w
<1> DEFINE h == [i \in 1 .. (n + 1) + 1 |-> IF i = 1 THEN 0 - w ELSE s[i - 2]]
<1>5. h \in [1 .. (n + 1) + 1 -> Int]
  BY <1>4
<1>6. ASSUME NEW i \in 1 .. n + 1
      PROVE  h[i + 1] = h[i] + m[<<p[i], p[i + 1]>>] /\ h[i + 1] \in Int /\ h[i] \in Int
  <2>1. CASE i = 1
    <3>1. h[1] = 0 - w /\ h[1 + 1] = s[0] /\ 1 + 1 = 2
      OBVIOUS
    <3>2. m[<<p[i], p[i + 1]>>] = w
      BY <2>1 DEF w
    <3> QED
      BY <1>3, <1>4, <2>1, <3>1, <3>2
  <2>2. CASE i # 1
    <3>1. i - 1 \in 1 .. n /\ i - 1 + 1 = i /\ i - 1 - 1 = i - 2 /\ i - 2 \in 0 .. n
          /\ i - 1 \in 0 .. n
      BY <2>2
    <3>2. h[i] = s[i - 2] /\ h[i + 1] = s[i - 1]
      BY <2>2
    <3>3. s[i - 1] = s[i - 2] + m[<<q[i - 1], q[i]>>]
      BY <1>3, <3>1
    <3>4. m[<<q[i - 1], q[i]>>] = m[<<p[i], p[i + 1]>>]
      BY <1>1, <3>1
    <3> QED
      BY <3>1, <3>2, <3>3, <3>4
  <2> QED
    BY <2>1, <2>2
<1>7. h[1] = 0 - w /\ h[(n + 1) + 1] = s[n] /\ s[n] \in Int
  OBVIOUS
<1> HIDE DEF h
<1>8. /\ Cost(m, p) \in Int
      /\ h[(n + 1) + 1] <= h[1] + Cost(m, p)
      /\ h[(n + 1) + 1] >= h[1] + Cost(m, p)
  <2>1. n + 1 \in Nat /\ Len(p) - 1 = n + 1
    OBVIOUS
  <2>2. \A i \in 1 .. n + 1 : /\ h[i + 1] <= h[i] + m[<<p[i], p[i + 1]>>]
                              /\ h[i + 1] >= h[i] + m[<<p[i], p[i + 1]>>]
    BY <1>6
  <2> QED
    BY <1>5, <2>1, <2>2, Climb
<1>9. \A x, y, z \in Int : x <= 0 - y + z /\ x >= 0 - y + z => z = y + x
  OBVIOUS
<1>10. Cost(m, p) = w + s[n]
  BY <1>4, <1>7, <1>8, <1>9
<1> QED
  BY <1>3, <1>7, <1>10 DEF w

\* The rest of a simple path from any of its nodes on is a simple path, which
\* does not cost more.
LEMMA RestOfPath ==
  ASSUME NEW m \in Matrix(Rtts), NEW x, NEW y, NEW p \in SimplePaths(m, x, y),
         NEW j \in 1 .. Len(p)
  PROVE  \E q \in SimplePaths(m, p[j], y) : Cost(m, q) <= Cost(m, p)
<1> DEFINE n == Len(p) - 1
           k == Len(p) - j
           q == [i \in 1 .. k + 1 |-> p[i + j - 1]]
<1>1. /\ n \in Nat /\ Len(p) = n + 1 /\ p[n + 1] = y
      /\ \A i \in 1 .. n + 1 : p[i] \in Nodes
      /\ \A i, l \in 1 .. n + 1 : p[i] = p[l] => i = l
      /\ \A i \in 1 .. n : m[<<p[i], p[i + 1]>>] # NoEdge
  BY SimplePathFacts
<1>2. k \in Nat /\ k = n + 1 - j /\ j \in 1 .. n + 1
  BY <1>1
<1> HIDE DEF n, k
<1>3. \A i \in 1 .. k + 1 : i + j - 1 \in 1 .. n + 1
  BY <1>1, <1>2
<1>4. q \in [1 .. k + 1 -> Nodes] /\ \A i \in 1 .. k + 1 : q[i] = p[i + j - 1]
  BY <1>1, <1>3
<1> HIDE DEF q
<1>5. q \in Seq(Nodes) /\ Len(q) = k + 1 /\ q # <<>>
  BY <1>2, <1>4
<1>6. ASSUME NEW i \in 1 .. k
      PROVE  /\ q[i] = p[i + j - 1] /\ q[i + 1] = p[i + j - 1 + 1]
             /\ i + j - 1 \in 1 .. n
  <2>1. i \in 1 .. k + 1 /\ i + 1 \in 1 .. k + 1 /\ (i + 1) + j - 1 = i + j - 1 + 1
        /\ i + j - 1 \in 1 .. n
    BY <1>1, <1>2
  <2> QED
    BY <1>4, <2>1
<1>7. ASSUME NEW i \in 1 .. n PROVE m[<<p[i], p[i + 1]>>] \in Nat
  <2>1. i \in 1 .. n + 1 /\ i + 1 \in 1 .. n + 1
    BY <1>1
  <2>2. m[<<p[i], p[i + 1]>>] \in 0 .. MaxCost
    BY <1>1, <2>1, EntryFacts
  <2> QED
    BY <2>2, RouterAssumption
<1>8. q[1] = p[j] /\ q[Len(q)] = y
  <2>1. 1 \in 1 .. k + 1 /\ 1 + j - 1 = j /\ k + 1 \in 1 .. k + 1 /\ (k + 1) + j - 1 = n + 1
    BY <1>1, <1>2
  <2> QED
    BY <1>1, <1>4, <1>5, <2>1
<1>9. q \in SimplePaths(m, p[j], y)
  <2>1. ASSUME NEW i \in 1 .. Len(q), NEW l \in 1 .. Len(q), q[i] = q[l]
        PROVE  i = l
    <3>1. i \in 1 .. k + 1 /\ l \in 1 .. k + 1
      BY <1>5
    <3>2. i + j - 1 = l + j - 1
      BY <1>1, <1>3, <1>4, <2>1, <3>1
    <3> QED
      BY <1>2, <3>1, <3>2
  <2>2. ASSUME NEW i \in 1 .. Len(q) - 1 PROVE m[<<q[i], q[i + 1]>>] # NoEdge
    <3>1. i \in 1 .. k
      BY <1>2, <1>5
    <3> QED
      BY <1>1, <1>6, <3>1
  <2> QED
    BY <1>5, <1>8, <2>1, <2>2, IsSimplePath
<1>10. ASSUME NEW i \in 1 .. k PROVE m[<<q[i], q[i + 1]>>] \in Int
  BY <1>6, <1>7
<1>11. PICK s \in [0 .. k -> Int] :
         /\ s[0] = 0
         /\ \A i \in 1 .. k : s[i] = s[i - 1] + m[<<q[i], q[i + 1]>>]
         /\ s[k] = Cost(m, q)
  <2>1. Len(q) - 1 = k
    BY <1>2, <1>5
  <2> QED
    BY <1>2, <1>10, <2>1, RunningCost
<1> DEFINE h == [i \in 1 .. n + 1 |-> IF i < j THEN 0 ELSE s[i - j]]
<1>12. h \in [1 .. n + 1 -> Int]
  BY <1>1, <1>2
<1>13. ASSUME NEW i \in 1 .. n
       PROVE  h[i + 1] <= h[i] + m[<<p[i], p[i + 1]>>]
  <2>1. m[<<p[i], p[i + 1]>>] \in Nat /\ i \in 1 .. n + 1 /\ i + 1 \in 1 .. n + 1
    BY <1>1, <1>7
  <2>2. CASE i + 1 <= j
    <3>1. h[i] = 0 /\ h[i + 1] = 0
      BY <1>1, <1>2, <1>11, <2>1, <2>2
    <3> QED
      BY <2>1, <3>1
  <2>3. CASE ~ (i + 1 <= j)
    <3>1. i + 1 - j \in 1 .. k /\ i + 1 - j - 1 = i - j /\ i - j \in 0 .. k
          /\ (i + 1 - j) + j - 1 = i /\ ~ (i < j) /\ ~ (i + 1 < j)
      BY <1>1, <1>2, <2>3
    <3>2. h[i] = s[i - j] /\ h[i + 1] = s[i + 1 - j]
      BY <2>1, <3>1
    <3>3. s[i + 1 - j] = s[i - j] + m[<<q[i + 1 - j], q[i + 1 - j + 1]>>]
      <4> DEFINE l == i + 1 - j
      <4>1. l \in 1 .. k /\ l - 1 = i - j
        BY <3>1
      <4> HIDE DEF h, l
      <4>2. s[l] = s[l - 1] + m[<<q[l], q[l + 1]>>]
        BY <1>11, <4>1
      <4>3. s[l] = s[i - j] + m[<<q[l], q[l + 1]>>]
        BY <4>1, <4>2
      <4> QED
        BY <4>3 DEF l
    <3>4. q[i + 1 - j] = p[i] /\ q[i + 1 - j + 1] = p[i + 1]
      BY <1>6, <3>1
    <3>5. s[i - j] \in Int /\ h[i] \in Int /\ m[<<p[i], p[i + 1]>>] \in Int
      BY <2>1, <3>1, <3>2
    <3>6. h[i + 1] = h[i] + m[<<p[i], p[i + 1]>>]
      <4> HIDE DEF h
      <4> QED
        BY <3>2, <3>3, <3>4
    <3>7. \A a, b, w \in Int : a = b + w => a <= b + w
      OBVIOUS
    <3>8. h[i + 1] \in Int
      BY <2>1, <1>12
    <3> HIDE DEF h
    <3> QED
      BY <3>5, <3>6, <3>7, <3>8
  <2> QED
    BY <2>2, <2>3
<1>14. h[1] = 0 /\ h[n + 1] = s[k]
  <2>1. 1 \in 1 .. n + 1 /\ n + 1 \in 1 .. n + 1 /\ ~ (n + 1 < j) /\ (n + 1) - j = k
    BY <1>1, <1>2
  <2>2. CASE 1 < j
    BY <2>1, <2>2
  <2>3. CASE ~ (1 < j)
    <3>1. j = 1
      BY <1>2, <2>3
    <3> QED
      BY <1>11, <2>1, <3>1
  <2> QED
    BY <2>2, <2>3
<1> HIDE DEF h
<1>15. Cost(m, p) \in Int /\ h[n + 1] <= h[1] + Cost(m, p)
  <2>1. Len(p) - 1 = n /\ \A i \in 1 .. n : m[<<p[i], p[i + 1]>>] \in Int
    BY <1>1, <1>7
  <2> QED
    BY <1>1, <1>12, <1>13, <2>1, Climb
<1>16. Cost(m, q) <= Cost(m, p)
  BY <1>11, <1>14, <1>15
<1> QED
  BY <1>9, <1>16

----------------------------------------------------------------------------
(* top_paths *)

\* The neighbours of this node in matrix m.
NextTo(m) == {n \in Nodes : m[<<LocalNode, n>>] # NoEdge}

\* The costs below MaxCost of getting to d through neighbour v.
Via(m, v, d) ==
  {c \in {m[<<LocalNode, v>>] + k : k \in Costs(m, v, d)} : c < MaxCost}

\* The routes rs are one cheapest route for each neighbour of S that leads to d,
\* each with its path.
Collected(m, d, S, rs) ==
  /\ \A r \in rs : IsWay(m, r, d)
  /\ \A r \in rs : /\ r.next_hop \in S
                   /\ r.total_rtt \in Via(m, r.next_hop, d)
                   /\ \A c \in Via(m, r.next_hop, d) : r.total_rtt <= c
  /\ \A r, t \in rs : r.next_hop = t.next_hop => r = t
  /\ \A v \in S : Via(m, v, d) # {} => \E r \in rs : r.next_hop = v

\* The neighbours whose search is over.
Searched == {v \in Neighbours \ todo : pc = "pick" \/ v # source}

\* While the matrix stays as it is: what top_paths is about to search and what
\* it has collected.
TopInv ==
  call = "top_paths" /\ updates = 0 =>
    /\ pc = "start" => routes = {}
    /\ todo \subseteq Neighbours
    /\ pc \in {"via", "search", "walk"} =>
         source \in Neighbours \ todo /\ total = matrix[<<LocalNode, source>>]
    /\ pc \in {"search", "walk"} => edges = matrix
    /\ pc \notin {"start", "done"} => Collected(matrix, dest, Searched, routes)

\* A path to another node costs the first hop and what a way costs from there.
LEMMA FirstHop ==
  ASSUME NEW m \in Matrix(Rtts), NEW y \in Nodes, y # LocalNode,
         NEW p \in SimplePaths(m, LocalNode, y)
  PROVE  \E v \in NextTo(m) : \E k \in Costs(m, v, y) :
           Cost(m, p) = m[<<LocalNode, v>>] + k
<1> DEFINE n == Len(p) - 2
           q == [i \in 1 .. n + 1 |-> p[i + 1]]
<1>1. /\ p \in Seq(Nodes) /\ Len(p) \in Nat \ {0}
      /\ p[1] = LocalNode /\ p[Len(p)] = y
      /\ \A i \in 1 .. Len(p) : p[i] \in Nodes
      /\ \A i, j \in 1 .. Len(p) : p[i] = p[j] => i = j
      /\ \A i \in 1 .. Len(p) - 1 : m[<<p[i], p[i + 1]>>] # NoEdge
  BY SimplePathFacts
<1>2. n \in Nat /\ Len(p) = n + 2 /\ Len(p) - 1 = n + 1
  <2>1. Len(p) # 1
    BY <1>1
  <2>2. \A k \in Nat \ {0} : k # 1 => k - 2 \in Nat /\ k = k - 2 + 2 /\ k - 1 = k - 2 + 1
    OBVIOUS
  <2> QED
    BY <1>1, <2>1, <2>2
<1> HIDE DEF n
<1>3. \A i \in 1 .. n + 1 : i + 1 \in 1 .. n + 2 /\ i \in 1 .. n + 2
  BY <1>2
<1>4. q \in [1 .. n + 1 -> Nodes] /\ \A i \in 1 .. n + 1 : p[i + 1] = q[i]
  BY <1>1, <1>2, <1>3
<1> HIDE DEF q
<1>5. q \in Seq(Nodes) /\ Len(q) = n + 1 /\ q # <<>>
  BY <1>2, <1>4
<1>6. q[1] = p[2] /\ q[Len(q)] = y
  <2>1. 1 \in 1 .. n + 1 /\ 1 + 1 = 2 /\ n + 1 \in 1 .. n + 1 /\ (n + 1) + 1 = n + 2
    BY <1>2
  <2> QED
    BY <1>1, <1>2, <1>4, <1>5, <2>1
<1>7. q \in SimplePaths(m, p[2], y)
  <2>1. ASSUME NEW i \in 1 .. Len(q), NEW l \in 1 .. Len(q), q[i] = q[l]
        PROVE  i = l
    <3>1. i \in 1 .. n + 1 /\ l \in 1 .. n + 1
      BY <1>5
    <3>2. i + 1 = l + 1
      BY <1>1, <1>2, <1>3, <1>4, <2>1, <3>1
    <3> QED
      BY <1>2, <3>1, <3>2
  <2>2. ASSUME NEW i \in 1 .. Len(q) - 1 PROVE m[<<q[i], q[i + 1]>>] # NoEdge
    <3>1. i \in 1 .. n + 1 /\ i + 1 \in 1 .. n + 1
      BY <1>2, <1>5
    <3>2. q[i] = p[i + 1] /\ q[i + 1] = p[i + 1 + 1]
      BY <1>4, <3>1
    <3> QED
      BY <1>1, <1>2, <3>1, <3>2
  <2> QED
    BY <1>5, <1>6, <2>1, <2>2, IsSimplePath
<1>8. p[2] \in NextTo(m)
  <2>1. 1 \in 1 .. n + 1 /\ 2 \in 1 .. n + 2 /\ 1 + 1 = 2
    BY <1>2
  <2> QED
    BY <1>1, <1>2, <2>1 DEF NextTo
<1>9. Cost(m, p) = m[<<LocalNode, p[2]>>] + Cost(m, q)
  <2>1. ASSUME NEW i \in 1 .. n + 1 PROVE m[<<p[i], p[i + 1]>>] \in Int
    BY <1>1, <1>2, <1>3, EntryFacts
  <2>2. /\ n \in Nat /\ Len(q) = n + 1 /\ Len(p) = n + 2
        /\ \A i \in 1 .. n + 1 : p[i + 1] = q[i]
        /\ \A i \in 1 .. n + 1 : m[<<p[i], p[i + 1]>>] \in Int
    BY <1>2, <1>4, <1>5, <2>1
  <2>3. Cost(m, p) = m[<<p[1], p[2]>>] + Cost(m, q)
    BY <2>2, ConsCost
  <2> QED
    BY <1>1, <2>3
<1> QED
  BY <1>7, <1>8, <1>9 DEF Costs

\* A path from a neighbour that does not come back to this node makes, with
\* this node before it, a path from here.
LEMMA FromHere ==
  ASSUME NEW m \in Matrix(Rtts), NEW y, NEW v \in NextTo(m),
         NEW q \in SimplePaths(m, v, y),
         \A i \in 1 .. Len(q) : q[i] # LocalNode
  PROVE  m[<<LocalNode, v>>] + Cost(m, q) \in Costs(m, LocalNode, y)
<1> DEFINE n == Len(q) - 1
           p == <<LocalNode>> \o q
<1>1. /\ q \in Seq(Nodes) /\ Len(q) \in Nat \ {0}
      /\ q[1] = v /\ q[Len(q)] = y
      /\ \A i \in 1 .. Len(q) : q[i] \in Nodes
      /\ \A i, j \in 1 .. Len(q) : q[i] = q[j] => i = j
      /\ \A i \in 1 .. Len(q) - 1 : m[<<q[i], q[i + 1]>>] # NoEdge
  BY SimplePathFacts
<1>2. n \in Nat /\ Len(q) = n + 1
  BY <1>1
<1> HIDE DEF n
<1>3. /\ p \in Seq(Nodes) /\ Len(p) = n + 2 /\ p # <<>>
      /\ p[1] = LocalNode
      /\ \A i \in 1 .. n + 1 : p[i + 1] = q[i]
  <2>1. LocalNode \in Nodes /\ \A k \in Nat : k + 1 + 1 = k + 2
    BY RouterAssumption
  <2>2. /\ p \in Seq(Nodes) /\ Len(p) = Len(q) + 1
        /\ p[1] = LocalNode
        /\ \A i \in 1 .. Len(q) : p[i + 1] = q[i]
    BY <1>1, <2>1, PrependFacts
  <2>3. Len(p) = n + 2
    BY <1>2, <2>2
  <2> HIDE DEF p
  <2>4. p # <<>>
    BY <1>2, <2>3
  <2> QED
    BY <1>2, <2>2, <2>3, <2>4
<1> HIDE DEF p
<1>4. p[2] = v /\ p[Len(p)] = y
  <2>1. 1 \in 1 .. n + 1 /\ 1 + 1 = 2 /\ n + 1 \in 1 .. n + 1 /\ (n + 1) + 1 = n + 2
    BY <1>2
  <2> QED
    BY <1>1, <1>2, <1>3, <2>1
<1>5. \A i \in 1 .. n + 2 : i = 1 \/ \E l \in 1 .. n + 1 : i = l + 1 /\ p[i] = q[l]
  <2> SUFFICES ASSUME NEW i \in 1 .. n + 2, i # 1
               PROVE  \E l \in 1 .. n + 1 : i = l + 1 /\ p[i] = q[l]
    OBVIOUS
  <2>1. i - 1 \in 1 .. n + 1 /\ i = (i - 1) + 1
    BY <1>2
  <2> QED
    BY <1>3, <2>1
<1>6. p \in SimplePaths(m, LocalNode, y)
  <2>1. ASSUME NEW i \in 1 .. Len(p), NEW l \in 1 .. Len(p), p[i] = p[l]
        PROVE  i = l
    <3>1. i \in 1 .. n + 2 /\ l \in 1 .. n + 2
      BY <1>3
    <3>2. \A k \in 1 .. n + 1 : k \in 1 .. Len(q) /\ q[k] # LocalNode
      BY <1>2
    <3>3. CASE i = 1 /\ l = 1
      BY <3>3
    <3>4. CASE i = 1 /\ l # 1
      BY <1>3, <1>5, <2>1, <3>1, <3>2, <3>4
    <3>5. CASE i # 1 /\ l = 1
      BY <1>3, <1>5, <2>1, <3>1, <3>2, <3>5
    <3>6. CASE i # 1 /\ l # 1
      <4>1. PICK a \in 1 .. n + 1 : i = a + 1 /\ p[i] = q[a]
        BY <1>5, <3>1, <3>6
      <4>2. PICK b \in 1 .. n + 1 : l = b + 1 /\ p[l] = q[b]
        BY <1>5, <3>1, <3>6
      <4>3. a = b
        BY <1>1, <2>1, <3>2, <4>1, <4>2
      <4> QED
        BY <4>1, <4>2, <4>3
    <3> QED
      BY <3>3, <3>4, <3>5, <3>6
  <2>2. ASSUME NEW i \in 1 .. Len(p) - 1 PROVE m[<<p[i], p[i + 1]>>] # NoEdge
    <3>1. i \in 1 .. n + 1
      BY <1>2, <1>3
    <3>2. CASE i = 1
      <4>1. m[<<LocalNode, v>>] # NoEdge /\ 1 + 1 = 2
        BY DEF NextTo
      <4> QED
        BY <1>3, <1>4, <3>2, <4>1
    <3>3. CASE i # 1
      <4>1. i - 1 \in 1 .. n /\ (i - 1) + 1 = i /\ i - 1 \in 1 .. n + 1 /\ Len(q) - 1 = n
        BY <1>2, <3>1, <3>3
      <4>2. p[i + 1] = q[i] /\ p[i] = q[i - 1]
        BY <1>3, <3>1, <4>1
      <4> QED
        BY <1>1, <4>1, <4>2
    <3> QED
      BY <3>2, <3>3
  <2> QED
    BY <1>3, <1>4, <2>1, <2>2, IsSimplePath
<1>7. Cost(m, p) = m[<<LocalNode, v>>] + Cost(m, q)
  <2>1. ASSUME NEW i \in 1 .. n + 1 PROVE m[<<p[i], p[i + 1]>>] \in Int
    <3>1. i \in 1 .. Len(p) /\ i + 1 \in 1 .. Len(p)
      BY <1>2, <1>3
    <3> QED
      BY <1>3, <3>1, EntryFacts
  <2> QED
    BY <1>2, <1>3, <1>4, <2>1, ConsCost
<1> QED
  BY <1>6, <1>7 DEF Costs

\* The least of the cheapest ways through each neighbour is the cheapest way.
LEMMA BestRoute ==
  ASSUME NEW m \in Matrix(Rtts), NEW y \in Nodes, y # LocalNode,
         NEW v \in NextTo(m), NEW t \in Via(m, v, y),
         \A w \in NextTo(m) : \A c \in Via(m, w, y) : t <= c
  PROVE  t \in Costs(m, LocalNode, y) /\ \A c \in Costs(m, LocalNode, y) : t <= c
<1>1. PICK q \in SimplePaths(m, v, y) : t = m[<<LocalNode, v>>] + Cost(m, q)
  BY DEF Via, Costs
<1>2. t < MaxCost /\ t \in Int /\ MaxCost \in Int /\ Cost(m, q) \in Int
      /\ m[<<LocalNode, v>>] \in Int /\ m[<<LocalNode, v>>] >= 0
  <2>1. LocalNode \in Nodes /\ v \in Nodes /\ m[<<LocalNode, v>>] # NoEdge
    BY RouterAssumption DEF NextTo
  <2>2. m[<<LocalNode, v>>] \in 0 .. MaxCost /\ MaxCost \in Int
    BY <2>1, EntryFacts, RouterAssumption
  <2>3. Cost(m, q) \in Int
    BY CostIsInt
  <2>4. t < MaxCost
    BY DEF Via
  <2> QED
    BY <1>1, <2>2, <2>3, <2>4
<1>3. ASSUME NEW c \in Costs(m, LocalNode, y) PROVE t <= c
  <2>1. PICK p \in SimplePaths(m, LocalNode, y) : c = Cost(m, p)
    BY DEF Costs
  <2>2. c \in Int
    BY <2>1, CostIsInt, RouterAssumption
  <2>3. PICK w \in NextTo(m) : \E k \in Costs(m, w, y) : c = m[<<LocalNode, w>>] + k
    BY <2>1, FirstHop
  <2>4. CASE c < MaxCost
    BY <2>3, <2>4 DEF Via
  <2>5. CASE ~ (c < MaxCost)
    BY <1>2, <2>2, <2>5
  <2> QED
    BY <2>4, <2>5
<1>4. t \in Costs(m, LocalNode, y)
  <2>1. CASE \A i \in 1 .. Len(q) : q[i] # LocalNode
    BY <1>1, <2>1, FromHere
  <2>2. ASSUME NEW j \in 1 .. Len(q), q[j] = LocalNode
        PROVE  t \in Costs(m, LocalNode, y)
    <3>1. PICK r \in SimplePaths(m, LocalNode, y) : Cost(m, r) <= Cost(m, q)
      BY <2>2, RestOfPath
    <3>2. Cost(m, r) \in Costs(m, LocalNode, y) /\ Cost(m, r) \in Int
      BY CostIsInt DEF Costs
    <3>3. t <= Cost(m, r)
      BY <1>3, <3>2
    <3>4. \A x, z, u, w \in Int :
            x = z + u /\ z >= 0 /\ w <= u /\ x <= w => x = w
      OBVIOUS
    <3>5. t = Cost(m, r)
      BY <1>1, <1>2, <3>1, <3>2, <3>3, <3>4
    <3> QED
      BY <3>2, <3>5
  <2> QED
    BY <2>1, <2>2
<1> QED
  BY <1>3, <1>4

\* The least element of a set of numbers.
LEMMA MinIs ==
  ASSUME NEW T \in SUBSET Int, NEW t \in T, \A x \in T : t <= x
  PROVE  Min(T) = t
<1>1. Min(T) \in T /\ \A x \in T : Min(T) <= x
  BY Zenon DEF Min
<1>2. Min(T) <= t /\ t <= Min(T) /\ Min(T) \in Int
  BY <1>1
<1> QED
  BY <1>2

\* The routes res are what top_paths has to return for destination d.
IsRanking(m, d, res) ==
  LET leading == {v \in NextTo(m) : Via(m, v, d) # {}}
      used    == {res[i].next_hop : i \in 1 .. Len(res)}
  IN /\ Len(res) = Min({TopN, Cardinality(leading)})
     /\ Cardinality(used) = Len(res)
     /\ used \subseteq leading
     /\ \A i \in 1 .. Len(res) : IsWay(m, res[i], d)
     /\ \A i \in 1 .. Len(res) :
          res[i].total_rtt = Min(Via(m, res[i].next_hop, d))
     /\ \A i \in 1 .. Len(res) : \A v \in leading \ used :
          res[i].total_rtt <= Min(Via(m, v, d))
     /\ \A i, j \in 1 .. Len(res) :
          i < j => res[i].total_rtt <= res[j].total_rtt
     /\ res # <<>> =>
          res[1].total_rtt = Min(Costs(m, LocalNode, d))

\* The costs of ways to a node are numbers.
LEMMA CostsAreInts ==
  ASSUME NEW m \in Matrix(Rtts), NEW y
  PROVE  /\ Costs(m, LocalNode, y) \in SUBSET Int
         /\ \A v \in NextTo(m) : Via(m, v, y) \in SUBSET Int
<1>1. Costs(m, LocalNode, y) \in SUBSET Int
  BY CostIsInt DEF Costs
<1>2. ASSUME NEW v \in NextTo(m) PROVE Via(m, v, y) \in SUBSET Int
  <2>1. Costs(m, v, y) \in SUBSET Int
    BY CostIsInt DEF Costs
  <2>2. m[<<LocalNode, v>>] \in Int
    BY EntryFacts, RouterAssumption DEF NextTo
  <2> QED
    BY <2>1, <2>2 DEF Via
<1> QED
  BY <1>1, <1>2

\* The collected routes in order of their cost, cut off after TopN, are what
\* top_paths has to return.
LEMMA SortedIsRanking ==
  ASSUME NEW m \in Matrix(Rtts), NEW y \in Nodes, y # LocalNode,
         NEW rs \in SUBSET Route, IsFiniteSet(rs),
         Collected(m, y, NextTo(m), rs),
         NEW o \in [1 .. Cardinality(rs) -> rs],
         \A i, j \in 1 .. Cardinality(rs) : o[i] = o[j] => i = j,
         Ranked(o)
  PROVE  IsRanking(m, y, SubSeq(o, 1, Min({TopN, Len(o)})))
<1> DEFINE n == Cardinality(rs)
           k == Min({TopN, n})
           res == SubSeq(o, 1, k)
           leading == {v \in NextTo(m) : Via(m, v, y) # {}}
           used == {res[i].next_hop : i \in 1 .. Len(res)}
           f == [r \in rs |-> r.next_hop]
<1>1. n \in Nat /\ Len(o) = n
  BY FS_CardinalityType, FirstOfArray
<1>2. k \in 0 .. n /\ (n > 0 => k = 0 \/ 1 \in 1 .. k)
  BY <1>1, MinOfTwo, RouterAssumption
<1>3. Len(res) = k /\ \A i \in 1 .. k : res[i] = o[i] /\ i \in 1 .. n
  <2>1. n \in Nat /\ k \in 0 .. n /\ o \in [1 .. n -> rs]
    BY <1>1, <1>2
  <2> HIDE DEF n, k
  <2>2. Len(SubSeq(o, 1, k)) = k /\ \A i \in 1 .. k : SubSeq(o, 1, k)[i] = o[i]
    BY <2>1, FirstOfArray
  <2>3. \A i \in 1 .. k : i \in 1 .. n
    BY <2>1
  <2> QED
    BY <2>2, <2>3
<1>4. /\ \A r \in rs : /\ r.next_hop \in NextTo(m)
                       /\ r.total_rtt \in Via(m, r.next_hop, y)
                       /\ \A c \in Via(m, r.next_hop, y) : r.total_rtt <= c
      /\ \A r, t \in rs : r.next_hop = t.next_hop => r = t
      /\ \A v \in NextTo(m) : Via(m, v, y) # {} => \E r \in rs : r.next_hop = v
  BY DEF Collected
<1>5. \A v \in NextTo(m) : Via(m, v, y) \in SUBSET Int
  BY CostsAreInts
<1>5a. \A r \in rs : IsWay(m, r, y)
  BY Zenon DEF Collected
<1>6. \A r \in rs : /\ r.next_hop \in leading
                    /\ r.total_rtt \in Int
                    /\ r.total_rtt = Min(Via(m, r.next_hop, y))
  <2> SUFFICES ASSUME NEW r \in rs
               PROVE  /\ r.next_hop \in leading
                      /\ r.total_rtt \in Int
                      /\ r.total_rtt = Min(Via(m, r.next_hop, y))
    OBVIOUS
  <2>1. /\ Via(m, r.next_hop, y) \in SUBSET Int /\ r.next_hop \in NextTo(m)
        /\ r.total_rtt \in Via(m, r.next_hop, y)
        /\ \A c \in Via(m, r.next_hop, y) : r.total_rtt <= c
    BY <1>4, <1>5
  <2> QED
    BY <2>1, MinIs
<1>7. \A i, j \in 1 .. n : i < j => o[i].total_rtt <= o[j].total_rtt
  BY <1>1 DEF Ranked
<1>8. Cardinality(leading) = n
  <2>1. f \in [rs -> leading]
    BY <1>6
  <2>2. f \in Injection(rs, leading)
    BY <1>4, <2>1 DEF Injection, IsInjective
  <2>3. f \in Surjection(rs, leading)
    <3>1. ASSUME NEW v \in leading PROVE \E r \in rs : f[r] = v
      BY <1>4
    <3> QED
      BY <2>1, <3>1 DEF Surjection
  <2>4. ExistsBijection(rs, leading)
    BY <2>2, <2>3 DEF ExistsBijection, Bijection
  <2> QED
    BY <2>4, FS_Bijection
<1>9. \A r \in rs : \E i \in 1 .. n : o[i] = r
  <2>1. o \in Injection(1 .. n, rs)
    BY DEF Injection, IsInjective
  <2>2. IsFiniteSet(1 .. n) /\ Cardinality(1 .. n) = n
    BY <1>1, FS_Interval
  <2>3. o \in Surjection(1 .. n, rs)
    BY <2>1, <2>2, FS_Injection
  <2> QED
    BY <2>3 DEF Surjection
<1>10. \A i \in 1 .. n : o[i] \in rs
  OBVIOUS
<1> HIDE DEF n, k, res, leading, f
<1>11. \A v \in used : \E i \in 1 .. k : v = o[i].next_hop
  BY <1>3
<1>12. \A i \in 1 .. k : res[i].next_hop \in used
  BY <1>3
<1> HIDE DEF used
<1>13. Cardinality(used) = k
  <2> DEFINE g == [i \in 1 .. k |-> o[i].next_hop]
  <2>1. g \in [1 .. k -> used]
    BY <1>3, <1>12
  <2>2. \A i, j \in 1 .. k : g[i] = g[j] => i = j
    BY <1>3, <1>4, <1>10 DEF n
  <2>3. \A v \in used : \E i \in 1 .. k : g[i] = v
    BY <1>11
  <2> HIDE DEF g
  <2>4. g \in Injection(1 .. k, used) /\ g \in Surjection(1 .. k, used)
    BY <2>1, <2>2, <2>3 DEF Injection, IsInjective, Surjection
  <2>5. IsFiniteSet(1 .. k) /\ Cardinality(1 .. k) = k
    BY <1>1, <1>2, FS_Interval
  <2>6. ExistsBijection(1 .. k, used)
    BY <2>4 DEF ExistsBijection, Bijection
  <2> QED
    BY <2>5, <2>6, FS_Bijection
<1>14. used \subseteq leading
  BY <1>3, <1>6, <1>10, <1>11
<1>15. \A i \in 1 .. k : res[i].total_rtt = Min(Via(m, res[i].next_hop, y))
  BY <1>3, <1>6, <1>10
<1>16. ASSUME NEW i \in 1 .. k, NEW v \in leading \ used
       PROVE  res[i].total_rtt <= Min(Via(m, v, y))
  <2>1. PICK j \in 1 .. n : o[j].next_hop = v
    BY <1>4, <1>9 DEF leading
  <2>2. j \notin 1 .. k
    BY <1>3, <1>12, <2>1
  <2>3. i < j
    BY <1>1, <1>2, <2>2
  <2>4. o[i].total_rtt <= o[j].total_rtt
    BY <1>3, <1>7, <2>3
  <2> QED
    BY <1>3, <1>6, <1>10, <2>1, <2>4
<1>17. \A i, j \in 1 .. k : i < j => res[i].total_rtt <= res[j].total_rtt
  BY <1>3, <1>7
<1>18. ASSUME 1 \in 1 .. k PROVE res[1].total_rtt = Min(Costs(m, LocalNode, y))
  <2> DEFINE t == o[1].total_rtt
             v == o[1].next_hop
  <2>1. 1 \in 1 .. n /\ res[1].total_rtt = t /\ v \in NextTo(m) /\ t \in Via(m, v, y)
        /\ t \in Int
    BY <1>3, <1>4, <1>6, <1>10, <1>18
  <2>2. ASSUME NEW w \in NextTo(m), NEW c \in Via(m, w, y) PROVE t <= c
    <3>1. PICK j \in 1 .. n : o[j].next_hop = w
      BY <1>4, <1>9
    <3>2. o[j].total_rtt <= c /\ o[j].total_rtt \in Int /\ c \in Int
      BY <1>4, <1>5, <1>6, <1>10, <3>1
    <3>3. t <= o[j].total_rtt
      <4>1. 1 < j \/ 1 = j
        BY <1>1
      <4> QED
        BY <1>7, <2>1, <3>2, <4>1
    <3> QED
      BY <2>1, <3>2, <3>3
  <2>3. \A w \in NextTo(m) : \A c \in Via(m, w, y) : t <= c
    BY <2>2
  <2> HIDE DEF t, v
  <2>4. t \in Costs(m, LocalNode, y) /\ \A c \in Costs(m, LocalNode, y) : t <= c
    BY <2>1, <2>3, BestRoute
  <2>5. Costs(m, LocalNode, y) \in SUBSET Int
    BY CostsAreInts
  <2> QED
    BY <2>1, <2>4, <2>5, MinIs
<1>19. res # <<>> => 1 \in 1 .. k
  <2>1. res \in Seq(rs)
    BY <1>1, <1>2, FirstOfArray DEF n, res
  <2>2. k # 0 => 1 \in 1 .. k
    BY <1>1, <1>2
  <2> QED
    BY <1>3, <2>1, <2>2
<1>19a. \A i \in 1 .. k : IsWay(m, res[i], y)
  BY <1>3, <1>5a, <1>10
<1>20. IsRanking(m, y, res)
  BY <1>3, <1>8, <1>13, <1>14, <1>15, <1>16, <1>17, <1>18, <1>19, <1>19a
     DEF IsRanking, leading, used, k
<1>21. SubSeq(o, 1, Min({TopN, Len(o)})) = res
  BY <1>1 DEF res, k
<1> QED
  BY <1>20, <1>21

\* A neighbour that does not lead to the destination adds no route.
LEMMA NoRouteAdded ==
  ASSUME NEW m, NEW y, NEW S, NEW rs, Collected(m, y, S, rs),
         NEW v, Via(m, v, y) = {}
  PROVE  Collected(m, y, S \cup {v}, rs)
BY Zenon DEF Collected

\* A neighbour that leads to the destination adds its cheapest route.
LEMMA RouteAdded ==
  ASSUME NEW m, NEW y, NEW S, NEW rs, Collected(m, y, S, rs),
         NEW r, r.next_hop \notin S, IsWay(m, r, y),
         r.total_rtt \in Via(m, r.next_hop, y),
         \A c \in Via(m, r.next_hop, y) : r.total_rtt <= c
  PROVE  Collected(m, y, S \cup {r.next_hop}, rs \cup {r})
<1> DEFINE T == S \cup {r.next_hop}
           ts == rs \cup {r}
<1>1. ASSUME NEW t \in ts
      PROVE  /\ t.next_hop \in T
             /\ t.total_rtt \in Via(m, t.next_hop, y)
             /\ \A c \in Via(m, t.next_hop, y) : t.total_rtt <= c
  BY Zenon DEF Collected
<1>2. ASSUME NEW t \in ts, NEW u \in ts, t.next_hop = u.next_hop PROVE t = u
  BY <1>2, Zenon DEF Collected
<1>3. ASSUME NEW v \in T, Via(m, v, y) # {} PROVE \E t \in ts : t.next_hop = v
  BY <1>3, Zenon DEF Collected
<1>4. ASSUME NEW t \in ts PROVE IsWay(m, t, y)
  BY Zenon DEF Collected
<1> QED
  BY <1>1, <1>2, <1>3, <1>4 DEF Collected

\* What the search through a neighbour finds is a cheapest way.
LEMMA ViaFound ==
  ASSUME RttsAreShort, TypeInv, WalkInv, pc = "walk", path[1] = source,
         edges = matrix, source \in Neighbours,
         total = matrix[<<LocalNode, source>>]
  PROVE  /\ dist[dest] \in Via(matrix, source, dest)
         /\ \A c \in Via(matrix, source, dest) : dist[dest] <= c
         /\ path \in SimplePaths(matrix, source, dest)
         /\ dist[dest] = matrix[<<LocalNode, source>>] + Cost(matrix, path)
<1>1. /\ path \in SimplePaths(edges, source, dest)
      /\ dist[dest] = dist[source] + Cost(edges, path)
      /\ dist[source] = total
      /\ \A k \in Costs(edges, source, dest) : dist[dest] <= dist[source] + k
  BY PathFacts DEF WalkInv
<1>2. dist[dest] < MaxCost
  <2>1. CASE source = dest
    <3>1. total \in Rtts
      BY RouterAssumption DEF Neighbours, TypeInv, TypeOK, Matrix
    <3> QED
      BY <1>1, <2>1, <3>1 DEF RttsAreShort
  <2>2. CASE source # dest
    <3> DEFINE n == Len(path) - 1
    <3>1. /\ path \in Seq(Nodes) /\ path # <<>> /\ path[Len(path)] = dest
          /\ \A i \in 1 .. n : prev[path[i + 1]] = path[i]
      BY DEF TypeInv, TypeOK, PathInv
    <3>2. n \in Nat /\ Len(path) = n + 1 /\ n # 0
      BY <2>2, <3>1
    <3> HIDE DEF n
    <3>3. prev[dest] = path[n] /\ path[n] \in Nodes /\ dest \in Nodes
      BY <3>1, <3>2 DEF TypeInv, TypeOK
    <3>4. prev[dest] # NoNode
      BY <3>3, RouterAssumption
    <3> QED
      BY <3>3, <3>4 DEF WalkInv, TreeInv
  <2> QED
    BY <2>1, <2>2
<1> QED
  BY <1>1, <1>2 DEF Via, Costs

\* Where the search through a neighbour does not reach the destination, no way
\* leads there.
LEMMA ViaNone ==
  ASSUME TypeInv, WalkInv, pc = "walk", path[1] # source,
         prev[path[1]] = NoNode, edges = matrix,
         total = matrix[<<LocalNode, source>>]
  PROVE  Via(matrix, source, dest) = {}
<1>1. /\ dist[dest] = MaxCost /\ dist[source] = total
      /\ \A k \in Costs(edges, source, dest) : dist[dest] <= dist[source] + k
  BY OutOfReach DEF WalkInv
<1>2. /\ MaxCost \in Int /\ total \in Int
      /\ \A k \in Costs(edges, source, dest) : k \in Int
  BY CostIsInt, RouterAssumption DEF TypeInv, TypeOK, Costs
<1>3. ASSUME NEW k \in Costs(matrix, source, dest)
      PROVE  ~ (matrix[<<LocalNode, source>>] + k < MaxCost)
  BY <1>1, <1>2
<1> QED
  BY <1>3 DEF Via

\* What top_paths returned is what it has to return.
ReturnedRanking ==
  pc = "done" /\ call = "top_paths" /\ dest # LocalNode /\ updates = 0 =>
    IsRanking(matrix, dest, result)

\* Every step that leaves the matrix alone keeps what top_paths knows.
LEMMA TopInvStep ==
  ASSUME RttsAreShort, RouterInv, TopInv, ReturnedRanking, Step,
         call = "top_paths", updates = 0
  PROVE  TopInv' /\ ReturnedRanking'
<1>0. TypeInv /\ WalkInv /\ TypeOK
  BY DEF RouterInv, TypeInv
<1>1. /\ pc = "start" => routes = {}
      /\ todo \subseteq Neighbours
      /\ pc \in {"via", "search", "walk"} =>
           source \in Neighbours \ todo /\ total = matrix[<<LocalNode, source>>]
      /\ pc \in {"search", "walk"} => edges = matrix
      /\ pc \notin {"start", "done"} => Collected(matrix, dest, Searched, routes)
  BY DEF TopInv
<1>2. matrix' = matrix /\ dest' = dest /\ call' = call /\ updates' = updates
      /\ Neighbours' = Neighbours
  BY DEF Step, CallForSelf, NextHop, TopPaths, PickVia, SearchVia, Pop, Exhaust,
         Walk, NoPath, Collect, Found, AddHop, ReturnRoute, ReturnTop, Neighbours
<1>3. CASE CallForSelf
  <2>1. pc' = "done" /\ todo' = todo /\ dest' = LocalNode
    BY <1>3 DEF CallForSelf, Return
  <2> QED
    BY <1>1, <1>2, <2>1 DEF TopInv, ReturnedRanking
<1>4. CASE NextHop
  BY <1>4 DEF NextHop
<1>5. CASE TopPaths
  <2>1. pc' = "pick" /\ todo' = Neighbours /\ routes' = {}
    BY <1>1, <1>5 DEF TopPaths
  <2>2. Searched' = {}
    BY <1>2, <2>1 DEF Searched
  <2>3. Collected(matrix, dest, {}, {})
    BY DEF Collected
  <2> QED
    BY <1>1, <1>2, <2>1, <2>2, <2>3 DEF TopInv, ReturnedRanking
<1>6. ASSUME NEW v \in todo, PickVia(v) PROVE TopInv' /\ ReturnedRanking'
  <2>1. /\ pc = "pick" /\ pc' = "via" /\ todo' = todo \ {v} /\ source' = v
        /\ total' = matrix[<<LocalNode, v>>] /\ routes' = routes
    BY <1>6 DEF PickVia
  <2>2. Searched' = Searched
    BY <1>1, <1>2, <2>1 DEF Searched
  <2> QED
    BY <1>1, <1>2, <2>1, <2>2 DEF TopInv, ReturnedRanking
<1>7. CASE SearchVia
  <2>1. /\ pc = "via" /\ pc' = "search" /\ todo' = todo /\ source' = source
        /\ total' = total /\ routes' = routes /\ edges' = matrix
    BY <1>7 DEF SearchVia, Begin, AllEdges
  <2>2. Searched' = Searched
    BY <1>2, <2>1 DEF Searched
  <2> QED
    BY <1>1, <1>2, <2>1, <2>2 DEF TopInv, ReturnedRanking
<1>8. CASE (\E s \in heap : Pop(s)) \/ Exhaust \/ Walk
  <2>1. /\ pc \in {"search", "walk"} /\ pc' \in {"search", "walk"} /\ todo' = todo
        /\ source' = source /\ total' = total /\ routes' = routes /\ edges' = edges
    BY <1>8 DEF Pop, Exhaust, Walk, search
  <2>2. Searched' = Searched
    BY <1>2, <2>1 DEF Searched
  <2> QED
    BY <1>1, <1>2, <2>1, <2>2 DEF TopInv, ReturnedRanking
<1>9. CASE NoPath
  <2>1. /\ pc = "walk" /\ pc' = "pick" /\ todo' = todo /\ routes' = routes
        /\ path[1] # source /\ prev[path[1]] = NoNode
    BY <1>9 DEF NoPath
  <2>2. Searched' = Searched \cup {source}
    BY <1>1, <1>2, <2>1 DEF Searched
  <2>3. Via(matrix, source, dest) = {}
    BY <1>0, <1>1, <2>1, ViaNone
  <2>4. Collected(matrix, dest, Searched \cup {source}, routes)
    BY <1>1, <2>1, <2>3, NoRouteAdded
  <2> QED
    BY <1>1, <1>2, <2>1, <2>2, <2>4 DEF TopInv, ReturnedRanking
<1>10. CASE Collect
  <2> DEFINE r == [next_hop |-> source, total_rtt |-> dist[dest],
                   path |-> <<LocalNode>> \o path]
  <2>1. /\ pc = "walk" /\ pc' = "pick" /\ todo' = todo /\ routes' = routes \cup {r}
        /\ path[1] = source
    BY <1>10 DEF Collect
  <2>2. Searched' = Searched \cup {source} /\ source \notin Searched
    BY <1>1, <1>2, <2>1 DEF Searched
  <2>3. /\ dist[dest] \in Via(matrix, source, dest)
        /\ \A c \in Via(matrix, source, dest) : dist[dest] <= c
        /\ path \in SimplePaths(matrix, source, dest)
        /\ dist[dest] = matrix[<<LocalNode, source>>] + Cost(matrix, path)
    BY <1>0, <1>1, <2>1, ViaFound
  <2>4. r.next_hop = source /\ r.total_rtt = dist[dest] /\ r.path = <<LocalNode>> \o path
    OBVIOUS
  <2> HIDE DEF r
  <2>4a. IsWay(matrix, r, dest)
    BY <2>3, <2>4, Zenon DEF IsWay
  <2>5. Collected(matrix, dest, Searched \cup {source}, routes \cup {r})
    <3>1. Collected(matrix, dest, Searched, routes)
      BY <1>1, <2>1
    <3>2. /\ r.next_hop \notin Searched /\ r.total_rtt \in Via(matrix, r.next_hop, dest)
          /\ \A c \in Via(matrix, r.next_hop, dest) : r.total_rtt <= c
      BY <2>2, <2>3, <2>4
    <3>3. Collected(matrix, dest, Searched \cup {r.next_hop}, routes \cup {r})
      BY <2>4a, <3>1, <3>2, RouteAdded
    <3> QED
      BY <2>4, <3>3
  <2> QED
    BY <1>1, <1>2, <2>1, <2>2, <2>5 DEF TopInv, ReturnedRanking
<1>11. CASE Found \/ AddHop \/ ReturnRoute
  BY <1>0, <1>11 DEF Found, AddHop, ReturnRoute, TypeInv, CallInv
<1>12. CASE ReturnTop
  <2>1. PICK rs \in Orders :
          Ranked(rs) /\ Return(SubSeq(rs, 1, Min({TopN, Len(rs)})))
    BY <1>12 DEF ReturnTop
  <2>2. pc = "pick" /\ todo = {} /\ todo' = todo /\ pc' = "done"
        /\ result' = SubSeq(rs, 1, Min({TopN, Len(rs)}))
    BY <1>12, <2>1 DEF ReturnTop, Return
  <2>3. /\ matrix \in Matrix(Rtts) /\ dest \in Nodes /\ dest # LocalNode
        /\ routes \in SUBSET Route /\ IsFiniteSet(routes)
    BY <1>0, <2>2 DEF TypeInv, TypeOK, CallInv
  <2>4. Searched = NextTo(matrix)
    BY <2>2 DEF Searched, Neighbours, NextTo
  <2>5. Collected(matrix, dest, NextTo(matrix), routes)
    BY <1>1, <2>2, <2>4
  <2>6. /\ rs \in [1 .. Cardinality(routes) -> routes]
        /\ \A i, j \in 1 .. Cardinality(routes) : rs[i] = rs[j] => i = j
    BY <2>1 DEF Orders
  <2>7. IsRanking(matrix, dest, SubSeq(rs, 1, Min({TopN, Len(rs)})))
    BY <2>1, <2>3, <2>5, <2>6, SortedIsRanking
  <2> QED
    BY <1>1, <1>2, <2>2, <2>7 DEF TopInv, ReturnedRanking
<1> QED
  BY <1>3, <1>4, <1>5, <1>6, <1>7, <1>8, <1>9, <1>10, <1>11, <1>12 DEF Step

\* The same of every step: once the matrix has changed there is nothing to keep.
LEMMA TopInvNext ==
  ASSUME RttsAreShort, RouterInv, TopInv, ReturnedRanking, [Next]_vars
  PROVE  TopInv' /\ ReturnedRanking'
<1>0. updates \in Nat
  BY DEF RouterInv, TypeInv, TypeOK
<1>1. CASE Step
  <2>1. call' = call /\ updates' = updates
    BY <1>1 DEF Step, CallForSelf, NextHop, TopPaths, PickVia, SearchVia, Pop, Exhaust,
         Walk, NoPath, Collect, Found, AddHop, ReturnRoute, ReturnTop
  <2>2. CASE call = "top_paths" /\ updates = 0
    BY <1>1, <2>2, TopInvStep
  <2>3. CASE ~ (call = "top_paths" /\ updates = 0)
    BY <2>1, <2>3 DEF TopInv, ReturnedRanking
  <2> QED
    BY <2>2, <2>3
<1>2. CASE Probed
  <2>1. updates' # 0
    BY <1>0, <1>2 DEF Probed, Update
  <2> QED
    BY <2>1 DEF TopInv, ReturnedRanking
<1>3. CASE UNCHANGED vars
  <2>1. Searched' = Searched /\ Neighbours' = Neighbours
    BY <1>3 DEF vars, search, Searched, Neighbours
  <2> QED
    BY <1>3, <2>1 DEF vars, search, TopInv, ReturnedRanking
<1> QED
  BY <1>1, <1>2, <1>3 DEF Next

\* If no RTT is u64::MAX, then for every network, every matrix that stays as it
\* is during the call and every n: top_paths returns the routes through the n
\* neighbours that lead to the destination most cheaply, in the order of their
\* costs, each with its path: the hop to the neighbour and a cheapest way on from
\* there without a node twice; its first route costs what next_hop's would.
THEOREM TopPathsRanks == RttsAreShort => (Spec => []TopPathsRanked)
<1> SUFFICES ASSUME RttsAreShort PROVE Spec => []TopPathsRanked
  OBVIOUS
<1> DEFINE I == RouterInv /\ TopInv /\ ReturnedRanking
<1>1. Init => I
  BY TypeInvInit DEF Init, RouterInv, SearchInv, WalkInv, NextHopIsShortest, TopInv,
                     ReturnedRanking
<1>2. I /\ [Next]_vars => I'
  BY RouterInvNext, TopInvNext
<1>3. I => TopPathsRanked
  BY DEF ReturnedRanking, IsRanking, TopPathsRanked, ViaCosts, Via, Neighbours, NextTo
<1> QED
  BY <1>1, <1>2, <1>3, PTL DEF Spec
=============================================================================
