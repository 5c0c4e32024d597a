------------------------- MODULE LossyChannelProofs -------------------------
(***************************************************************************)
(* Why the channel hands no payload on twice: payloads are numbered in the  *)
(* order in which they are accepted, every number is in one block at most,  *)
(* at one place of it, and every block is handed on at most once.           *)
(***************************************************************************)
EXTENDS LossyChannel, TLAPS

----------------------------------------------------------------------------
(* The inductive invariant *)

\* Payloads, blocks and the blocks handed on have their types.
Typed ==
  /\ accepted \in Nat
  /\ waiting \in Seq(Nat)
  /\ blocks \in Seq(Seq(Nat))
  /\ handed \in Seq(Nat)
  /\ done \subseteq 1 .. Len(blocks)

\* A sequence of payloads in the order in which they were accepted.
Ascending(s) == \A i, j \in 1 .. Len(s) : i < j => s[i] < s[j]

\* Every payload of s was accepted after every payload of t.
Follows(s, t) ==
  \A i \in 1 .. Len(s), j \in 1 .. Len(t) : t[j] < s[i]

\* The payloads of s have been accepted.
Accepted(s) == \A i \in 1 .. Len(s) : s[i] <= accepted

\* The payloads that wait were accepted after the ones in the blocks.
WaitingInv ==
  /\ Ascending(waiting)
  /\ Accepted(waiting)
  /\ \A g \in 1 .. Len(blocks) : Follows(waiting, blocks[g])

\* The blocks cut the accepted payloads in order.
BlocksInv ==
  \A g \in 1 .. Len(blocks) :
    /\ Ascending(blocks[g])
    /\ Accepted(blocks[g])
    /\ \A h \in 1 .. Len(blocks) : g < h => Follows(blocks[h], blocks[g])

\* What was handed on comes from the blocks that were handed on.
HandedInv ==
  \A m \in 1 .. Len(handed) :
    \E g \in done : \E i \in 1 .. Len(blocks[g]) : handed[m] = blocks[g][i]

\* The inductive invariant.
ChannelInv == Typed /\ WaitingInv /\ BlocksInv /\ HandedInv /\ HandedOnce

----------------------------------------------------------------------------
(* Facts about sequences *)

\* What Append does to length, elements and type.
LEMMA AppendFacts ==
  ASSUME NEW S, NEW q \in Seq(S), NEW e \in S
  PROVE  /\ Append(q, e) \in Seq(S)
         /\ Len(Append(q, e)) = Len(q) + 1
         /\ Append(q, e)[Len(q) + 1] = e
         /\ \A i \in 1 .. Len(q) : Append(q, e)[i] = q[i] /\ q[i] \in S
         /\ Len(q) \in Nat
OBVIOUS

\* What concatenation does to length, elements and type.
LEMMA ConcatFacts ==
  ASSUME NEW q \in Seq(Nat), NEW r \in Seq(Nat)
  PROVE  /\ q \o r \in Seq(Nat)
         /\ Len(q \o r) = Len(q) + Len(r)
         /\ Len(q) \in Nat /\ Len(r) \in Nat
         /\ \A i \in 1 .. Len(q) : (q \o r)[i] = q[i]
         /\ \A i \in 1 .. Len(q) + Len(r) : i > Len(q) =>
              /\ i - Len(q) \in 1 .. Len(r)
              /\ (q \o r)[i] = r[i - Len(q)]
OBVIOUS

\* Every element of a sequence of numbers is a number.
LEMMA ElementsAreNumbers ==
  ASSUME NEW q \in Seq(Nat)
  PROVE  \A i \in 1 .. Len(q) : q[i] \in Nat
OBVIOUS

\* The payload accepted next follows every payload accepted before it.
LEMMA NextPayload ==
  ASSUME Typed, WaitingInv, BlocksInv, NEW w, w = Append(waiting, accepted + 1)
  PROVE  /\ w \in Seq(Nat)
         /\ Ascending(w)
         /\ \A i \in 1 .. Len(w) : w[i] <= accepted + 1
         /\ \A g \in 1 .. Len(blocks) : Follows(w, blocks[g])
<1> DEFINE n == Len(waiting)
<1>1. /\ w \in Seq(Nat) /\ Len(w) = n + 1 /\ n \in Nat
      /\ w[n + 1] = accepted + 1 /\ accepted \in Nat
      /\ \A i \in 1 .. n : w[i] = waiting[i] /\ waiting[i] \in Nat
  BY AppendFacts DEF Typed
<1>2. /\ \A i \in 1 .. n : waiting[i] <= accepted
      /\ \A i, j \in 1 .. n : i < j => waiting[i] < waiting[j]
  BY DEF WaitingInv, Accepted, Ascending
<1> HIDE DEF n
<1>3. ASSUME NEW g \in 1 .. Len(blocks)
      PROVE  Follows(w, blocks[g])
  <2>1. blocks[g] \in Seq(Nat) /\ Accepted(blocks[g]) /\ Follows(waiting, blocks[g])
    BY <1>3 DEF Typed, BlocksInv, WaitingInv
  <2>2. \A j \in 1 .. Len(blocks[g]) : blocks[g][j] \in Nat
    BY <2>1, ElementsAreNumbers
  <2>3. ASSUME NEW i \in 1 .. n + 1, NEW j \in 1 .. Len(blocks[g])
        PROVE  blocks[g][j] < w[i]
    <3>1. CASE i = n + 1
      BY <1>1, <2>1, <2>2, <3>1 DEF Accepted
    <3>2. CASE i \in 1 .. n
      BY <1>1, <2>1, <3>2 DEF Follows, n
    <3> QED
      BY <1>1, <3>1, <3>2
  <2> QED
    BY <1>1, <2>3 DEF Follows
<1>4. Ascending(w) /\ \A i \in 1 .. Len(w) : w[i] <= accepted + 1
  BY <1>1, <1>2 DEF Ascending
<1> QED
  BY <1>1, <1>3, <1>4

\* Payloads that were accepted stay accepted.
LEMMA StillAccepted ==
  ASSUME accepted \in Nat, accepted' = accepted + 1, NEW s \in Seq(Nat), Accepted(s)
  PROVE  Accepted(s)'
<1>1. \A i \in 1 .. Len(s) : s[i] \in Nat
  BY ElementsAreNumbers
<1> QED
  BY <1>1 DEF Accepted

\* A block of payloads that follow all blocks, and after which only waits what
\* follows it, may be closed.
LEMMA CloseKeeps ==
  ASSUME Typed, BlocksInv, HandedInv, HandedOnce, NEW w \in Seq(Nat),
         Ascending(w), \A i \in 1 .. Len(w) : w[i] <= accepted', accepted' \in Nat,
         accepted' = accepted \/ accepted' = accepted + 1,
         \A g \in 1 .. Len(blocks) : Follows(w, blocks[g]),
         blocks' = Append(blocks, w), waiting' = <<>>, UNCHANGED <<handed, done>>
  PROVE  ChannelInv'
<1> DEFINE n == Len(blocks)
<1>1. /\ blocks' \in Seq(Seq(Nat)) /\ Len(blocks') = n + 1 /\ n \in Nat
      /\ blocks'[n + 1] = w
      /\ \A g \in 1 .. n : blocks'[g] = blocks[g] /\ blocks[g] \in Seq(Nat)
  BY AppendFacts DEF Typed
<1>2. Typed'
  BY <1>1 DEF Typed
<1> HIDE DEF n
<1>7. /\ \A g \in 1 .. n : /\ Ascending(blocks[g]) /\ Accepted(blocks[g])
                          /\ Follows(w, blocks[g])
      /\ \A g, h \in 1 .. n : g < h => Follows(blocks[h], blocks[g])
      /\ \A m \in 1 .. Len(handed) : \E g \in done :
           \E i \in 1 .. Len(blocks[g]) : handed[m] = blocks[g][i]
      /\ done \subseteq 1 .. n
      /\ accepted \in Nat
  BY DEF BlocksInv, HandedInv, Typed, n
<1>3. WaitingInv'
  BY DEF WaitingInv, Ascending, Accepted, Follows
<1>4. ASSUME NEW g \in 1 .. n + 1
      PROVE  /\ Ascending(blocks'[g])
             /\ \A i \in 1 .. Len(blocks'[g]) : blocks'[g][i] <= accepted'
             /\ \A h \in 1 .. n + 1 : g < h => Follows(blocks'[h], blocks'[g])
  <2>1. CASE g = n + 1
    BY <1>1, <2>1
  <2>2. CASE g \in 1 .. n
    <3>1. blocks'[g] = blocks[g]
      BY <1>1, <2>2
    <3>2. Ascending(blocks[g])
      BY <1>7, <2>2
    <3>3. \A i \in 1 .. Len(blocks[g]) : blocks[g][i] <= accepted'
      <4> SUFFICES ASSUME NEW i \in 1 .. Len(blocks[g])
                   PROVE  blocks[g][i] <= accepted'
        OBVIOUS
      <4>1. blocks[g][i] \in Nat
        BY <1>1, <2>2, ElementsAreNumbers
      <4>2. blocks[g][i] <= accepted
        BY <1>7, <2>2 DEF Accepted
      <4> QED
        BY <1>7, <4>1, <4>2
    <3>4. ASSUME NEW h \in 1 .. n + 1, g < h
          PROVE  Follows(blocks'[h], blocks[g])
      <4>1. CASE h = n + 1
        BY <1>1, <1>7, <2>2, <4>1
      <4>2. CASE h \in 1 .. n
        BY <1>1, <1>7, <2>2, <3>4, <4>2
      <4> QED
        BY <1>1, <4>1, <4>2
    <3> QED
      BY <3>1, <3>2, <3>3, <3>4
  <2> QED
    BY <1>1, <2>1, <2>2
<1>5. BlocksInv'
  BY <1>1, <1>4 DEF BlocksInv, Accepted, Ascending, Follows
<1>6. HandedInv'
  <2>1. \A g \in done : blocks'[g] = blocks[g]
    BY <1>1, <1>7
  <2> SUFFICES ASSUME NEW m \in 1 .. Len(handed)
               PROVE  \E g \in done :
                        \E i \in 1 .. Len(blocks'[g]) : handed[m] = blocks'[g][i]
    BY DEF HandedInv
  <2>2. PICK g \in done :
          \E i \in 1 .. Len(blocks[g]) : handed[m] = blocks[g][i]
    BY <1>7
  <2> QED
    BY <2>1, <2>2
<1>8. HandedOnce'
  BY DEF HandedOnce
<1> QED
  BY <1>2, <1>3, <1>5, <1>6, <1>8 DEF ChannelInv

\* A block that has not been handed on holds no payload that has.
LEMMA HandOnKeeps ==
  ASSUME ChannelInv, NEW g \in 1 .. Len(blocks), HandOn(g)
  PROVE  ChannelInv'
<1> DEFINE b == blocks[g]
           n == Len(handed)
<1>0. /\ Typed /\ WaitingInv /\ BlocksInv /\ HandedInv /\ HandedOnce
      /\ b \in Seq(Nat) /\ handed \in Seq(Nat) /\ done \subseteq 1 .. Len(blocks)
      /\ Len(blocks) \in Nat
  BY DEF ChannelInv, Typed
<1>1. /\ handed' = handed \o b /\ done' = done \cup {g} /\ g \notin done
      /\ UNCHANGED <<accepted, waiting, blocks>>
  BY DEF HandOn
<1>2. /\ handed' \in Seq(Nat) /\ Len(handed') = n + Len(b)
      /\ n \in Nat /\ Len(b) \in Nat
      /\ \A m \in 1 .. n : handed'[m] = handed[m]
      /\ \A m \in 1 .. n + Len(b) : m > n =>
           m - n \in 1 .. Len(b) /\ handed'[m] = b[m - n]
  BY <1>0, <1>1, ConcatFacts
<1>3. Ascending(b) /\ \A i \in 1 .. Len(b) : b[i] \in Nat
  BY <1>0, ElementsAreNumbers DEF BlocksInv
<1>9. \A m \in 1 .. n : \E h \in done :
        \E i \in 1 .. Len(blocks[h]) : handed[m] = blocks[h][i]
  BY <1>0 DEF HandedInv
<1> HIDE DEF n, b
<1>4. Typed' /\ WaitingInv' /\ BlocksInv'
  BY <1>0, <1>1, <1>2
     DEF Typed, WaitingInv, BlocksInv, Accepted, Ascending, Follows
<1>5. HandedInv'
  <2> SUFFICES ASSUME NEW m \in 1 .. n + Len(b)
               PROVE  \E h \in done \cup {g} :
                        \E i \in 1 .. Len(blocks[h]) : handed'[m] = blocks[h][i]
    <3>1. /\ done' = done \cup {g} /\ blocks' = blocks
          /\ Len(handed') = n + Len(b)
      BY <1>1, <1>2
    <3> QED
      BY <3>1 DEF HandedInv
  <2>1. CASE m \in 1 .. n
    <3>1. PICK h \in done :
            \E i \in 1 .. Len(blocks[h]) : handed[m] = blocks[h][i]
      BY <1>9, <2>1
    <3>2. handed'[m] = handed[m]
      BY <1>2, <2>1
    <3> QED
      BY <3>1, <3>2
  <2>2. CASE m > n
    <3>1. m - n \in 1 .. Len(blocks[g]) /\ handed'[m] = blocks[g][m - n]
      BY <1>2, <2>2 DEF b
    <3> QED
      BY <3>1
  <2> QED
    BY <1>2, <2>1, <2>2
<1>6. ASSUME NEW m \in 1 .. n, NEW i \in 1 .. Len(b)
      PROVE  handed[m] # b[i]
  <2>1. PICK h \in done : \E j \in 1 .. Len(blocks[h]) : handed[m] = blocks[h][j]
    BY <1>6, <1>9
  <2>2. PICK j \in 1 .. Len(blocks[h]) : handed[m] = blocks[h][j]
    BY <2>1
  <2>7. h \in 1 .. Len(blocks) /\ h # g
    BY <1>0, <1>1, <2>1
  <2>3. h \in 1 .. Len(blocks) /\ h # g /\ blocks[h] \in Seq(Nat)
    BY <1>0, <2>7 DEF Typed
  <2>4. blocks[h][j] \in Nat /\ b[i] \in Nat
    BY <1>3, <2>3, ElementsAreNumbers
  <2>5. CASE h < g
    <3>1. blocks[h][j] < b[i]
      BY <1>0, <1>6, <2>2, <2>3, <2>5 DEF BlocksInv, Follows, b
    <3> QED
      BY <2>2, <2>4, <3>1
  <2>6. CASE g < h
    <3>1. b[i] < blocks[h][j]
      BY <1>0, <1>6, <2>2, <2>3, <2>6 DEF BlocksInv, Follows, b
    <3> QED
      BY <2>2, <2>4, <3>1
  <2> QED
    BY <2>3, <2>5, <2>6
<1>7. ASSUME NEW i \in 1 .. Len(b), NEW j \in 1 .. Len(b), i # j
      PROVE  b[i] # b[j]
  BY <1>2, <1>3, <1>7 DEF Ascending
<1>8. HandedOnce'
  <2> SUFFICES ASSUME NEW m \in 1 .. n + Len(b), NEW k \in 1 .. n + Len(b), m # k
               PROVE  handed'[m] # handed'[k]
    BY <1>2 DEF HandedOnce
  <2>1. CASE m \in 1 .. n /\ k \in 1 .. n
    BY <1>0, <1>2, <2>1 DEF HandedOnce, n
  <2>2. CASE m \in 1 .. n /\ k > n
    BY <1>2, <1>6, <2>2
  <2>3. CASE m > n /\ k \in 1 .. n
    <3>1. k \in 1 .. n /\ m - n \in 1 .. Len(b) /\ handed'[m] = b[m - n]
      BY <1>2, <2>3
    <3>2. handed[k] # b[m - n] /\ handed'[k] = handed[k]
      BY <1>2, <1>6, <3>1
    <3> QED
      BY <3>1, <3>2
  <2>4. CASE m > n /\ k > n
    <3>1. /\ m - n \in 1 .. Len(b) /\ handed'[m] = b[m - n]
          /\ k - n \in 1 .. Len(b) /\ handed'[k] = b[k - n]
      BY <1>2, <2>4
    <3>2. m - n # k - n
      BY <1>2, <2>4
    <3> QED
      BY <1>7, <3>1, <3>2
  <2> QED
    BY <1>2, <2>1, <2>2, <2>3, <2>4
<1> QED
  BY <1>4, <1>5, <1>8 DEF ChannelInv

----------------------------------------------------------------------------
(* The theorem *)

\* Every step of the channel keeps the invariant.
LEMMA ChannelInvStep == ASSUME ChannelInv, [Next]_vars PROVE ChannelInv'
<1>0. Typed /\ WaitingInv /\ BlocksInv /\ HandedInv /\ HandedOnce
  BY DEF ChannelInv
<1>1. CASE Accept
  <2>1. /\ waiting' \in Seq(Nat) /\ Ascending(waiting')
        /\ \A i \in 1 .. Len(waiting') : waiting'[i] <= accepted'
        /\ \A g \in 1 .. Len(blocks) : Follows(waiting', blocks[g])
    BY <1>0, <1>1, NextPayload DEF Accept
  <2>2. UNCHANGED <<blocks, handed, done>> /\ accepted' = accepted + 1
    BY <1>1 DEF Accept
  <2>3. Typed'
    BY <1>0, <2>1, <2>2 DEF Typed
  <2>4. WaitingInv'
    BY <2>1, <2>2 DEF WaitingInv, Accepted, Ascending, Follows
  <2>5. \A g \in 1 .. Len(blocks) : blocks[g] \in Seq(Nat)
    BY <1>0 DEF Typed
  <2>6. \A g \in 1 .. Len(blocks) :
          \A i \in 1 .. Len(blocks[g]) : blocks[g][i] <= accepted'
    <3> SUFFICES ASSUME NEW g \in 1 .. Len(blocks), NEW i \in 1 .. Len(blocks[g])
                 PROVE  blocks[g][i] <= accepted'
      OBVIOUS
    <3>1. blocks[g][i] \in Nat /\ blocks[g][i] <= accepted /\ accepted \in Nat
      BY <1>0, <2>5, ElementsAreNumbers DEF BlocksInv, Accepted, Typed
    <3> QED
      BY <2>2, <3>1
  <2>7. BlocksInv'
    BY <1>0, <2>2, <2>6 DEF BlocksInv, Accepted, Ascending, Follows
  <2> QED
    BY <1>0, <2>2, <2>3, <2>4, <2>7 DEF ChannelInv, HandedInv, HandedOnce
<1>2. CASE AcceptAndClose
  <2> DEFINE w == Append(waiting, accepted + 1)
  <2>1. /\ w \in Seq(Nat) /\ Ascending(w)
        /\ \A i \in 1 .. Len(w) : w[i] <= accepted + 1
        /\ \A g \in 1 .. Len(blocks) : Follows(w, blocks[g])
    BY <1>0, NextPayload
  <2>2. /\ blocks' = Append(blocks, w) /\ waiting' = <<>>
        /\ UNCHANGED <<handed, done>> /\ accepted' = accepted + 1
        /\ accepted' \in Nat
    BY <1>0, <1>2 DEF AcceptAndClose, Typed
  <2> HIDE DEF w
  <2>3. \A i \in 1 .. Len(w) : w[i] <= accepted'
    BY <2>1, <2>2
  <2> QED
    BY <1>0, <2>1, <2>2, <2>3, CloseKeeps
<1>3. CASE Close
  <2>1. /\ waiting \in Seq(Nat) /\ Ascending(waiting)
        /\ \A i \in 1 .. Len(waiting) : waiting[i] <= accepted
        /\ \A g \in 1 .. Len(blocks) : Follows(waiting, blocks[g])
    BY <1>0 DEF Typed, WaitingInv, Accepted
  <2>2. /\ blocks' = Append(blocks, waiting) /\ waiting' = <<>>
        /\ UNCHANGED <<accepted, handed, done>>
    BY <1>3 DEF Close
  <2> QED
    BY <1>0, <2>1, <2>2, CloseKeeps DEF Typed
<1>4. CASE Forget
  BY <1>0, <1>4 DEF Forget, ChannelInv, Typed, WaitingInv, BlocksInv, HandedInv,
       HandedOnce, Accepted, Ascending, Follows
<1>5. ASSUME NEW g \in 1 .. Len(blocks), HandOn(g) PROVE ChannelInv'
  BY <1>5, HandOnKeeps
<1>6. CASE UNCHANGED vars
  BY <1>0, <1>6 DEF vars, ChannelInv, Typed, WaitingInv, BlocksInv, HandedInv,
       HandedOnce, Accepted, Ascending, Follows
<1> QED
  BY <1>1, <1>2, <1>3, <1>4, <1>5, <1>6 DEF Next

\* The channel hands no payload on twice.
THEOREM ChannelHandsOnOnce == Spec => []HandedOnce
<1>1. Init => ChannelInv
  BY DEF Init, ChannelInv, Typed, WaitingInv, BlocksInv, HandedInv, HandedOnce,
         Accepted, Ascending, Follows
<1>2. ChannelInv /\ [Next]_vars => ChannelInv'
  BY ChannelInvStep
<1>3. ChannelInv => HandedOnce
  BY DEF ChannelInv
<1> QED
  BY <1>1, <1>2, <1>3, PTL DEF Spec
=============================================================================
