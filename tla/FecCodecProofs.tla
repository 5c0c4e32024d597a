--------------------------- MODULE FecCodecProofs ---------------------------
(***************************************************************************)
(* Proofs about FecCodec for every number of shards, every id space and    *)
(* every bound.                                                            *)
(***************************************************************************)
EXTENDS FecCodec, FiniteSetTheorems, TLAPS

----------------------------------------------------------------------------
(* Facts about the operators *)

\* What Append does to length, elements and type.
LEMMA AppendFacts ==
  ASSUME NEW S, NEW q \in Seq(S), NEW e \in S
  PROVE  /\ Append(q, e) \in Seq(S)
         /\ Len(Append(q, e)) = Len(q) + 1
         /\ Append(q, e)[Len(q) + 1] = e
         /\ \A i \in 1 .. Len(q) : Append(q, e)[i] = q[i] /\ q[i] \in S
         /\ Len(q) \in Nat
OBVIOUS

\* An id counter that is d steps ahead of an id is d + 1 steps ahead of it
\* after one more wrapping_add.
LEMMA WrapArithmetic ==
  ASSUME NEW x \in Ids, NEW b \in Ids, NEW c, c = WrappingAdd(b),
         NEW d \in Int, d >= 1, d + 1 <= IdSpace,
         IF x + d < IdSpace THEN b = x + d ELSE b = x + d - IdSpace
  PROVE  IF x + (d + 1) < IdSpace
         THEN c = x + (d + 1) ELSE c = x + (d + 1) - IdSpace
<1>1. CASE x + (d + 1) < IdSpace
  BY <1>1, FecAssumption DEF Ids, WrappingAdd
<1>2. CASE x + (d + 1) = IdSpace
  BY <1>2, FecAssumption DEF Ids, WrappingAdd
<1>3. CASE x + (d + 1) > IdSpace
  BY <1>3, FecAssumption DEF Ids, WrappingAdd
<1> QED
  BY <1>1, <1>2, <1>3, FecAssumption DEF Ids

\* The empty block, and a block that has just been created, hold no shard.
LEMMA EmptyBlocks ==
  ASSUME now \in Nat
  PROVE  /\ NoBlock \in BlockType /\ NewBlock \in BlockType
         /\ Filled(NoBlock) = {} /\ Filled(NewBlock) = {}
         /\ Cardinality({}) = 0
BY FecAssumption, FS_EmptySet
   DEF NoBlock, NewBlock, BlockType, Filled, NoShard, Idx, Total

\* The slots of a block are finitely many.
LEMMA FilledFinite ==
  ASSUME NEW block
  PROVE  /\ IsFiniteSet(Filled(block))
         /\ Cardinality(Filled(block)) \in Nat
         /\ Cardinality(Filled(block)) <= Total
         /\ Cardinality(Filled(block)) = 0 <=> Filled(block) = {}
<1>1. IsFiniteSet(Idx) /\ Cardinality(Idx) = Total
  BY FecAssumption, FS_Interval DEF Idx, Total
<1>2. Filled(block) \subseteq Idx
  BY DEF Filled
<1> QED
  BY <1>1, <1>2, FS_Subset, FS_CardinalityType, FS_EmptySet

\* The map entry a shard meets is well-typed, and counts its shards.
LEMMA EntryFacts ==
  ASSUME TypeOK, PendingInv, NEW id \in Ids
  PROVE  /\ Entry(id) \in BlockType
         /\ Entry(id).received = Cardinality(Filled(Entry(id)))
         /\ Entry(id).received < DataShards
         /\ Filled(Entry(id)) = Filled(pending[id])
         /\ Filled(pending[id]) # {} => Entry(id) = pending[id]
         /\ Filled(pending[id]) = {} => Entry(id) = NewBlock
<1>1. pending[id] \in BlockType
  BY DEF TypeOK
<1>2. /\ pending[id].received = Cardinality(Filled(pending[id]))
      /\ pending[id].received < DataShards
  BY DEF PendingInv
<1>3. pending[id].received = 0 <=> Filled(pending[id]) = {}
  BY <1>2, FilledFinite
<1>4. now \in Nat
  BY DEF TypeOK
<1>5. NewBlock.received = 0
  BY DEF NewBlock
<1> QED
  BY <1>1, <1>2, <1>3, <1>4, <1>5, EmptyBlocks, FecAssumption DEF Entry

\* PendingBlock::insert adds one shard to the slot if it is free, and keeps
\* the count right.
LEMMA InsertFacts ==
  ASSUME NEW block \in BlockType, NEW i \in Idx, NEW g \in Nat \ {0},
         block.received = Cardinality(Filled(block)),
         block.received < DataShards,
         NEW b, b = Insert(block, i, g)
  PROVE  /\ b \in BlockType
         /\ b.created = block.created
         /\ b.received = Cardinality(Filled(b))
         /\ Filled(b) = Filled(block) \cup {i}
         /\ b.received > 0
         /\ b.received <= DataShards
         /\ i \in Filled(block) => b = block
         /\ i \notin Filled(block) => b.received = block.received + 1
         /\ \A j \in Idx : b.shards[j] =
              IF j = i /\ i \notin Filled(block) THEN g ELSE block.shards[j]
<1>0. block.received \in Nat /\ IsFiniteSet(Filled(block))
  BY FilledFinite
<1>1. CASE i \in Filled(block)
  <2>1. b = block
    BY <1>1 DEF Insert, Filled
  <2>2. block.received > 0
    BY <1>1, FilledFinite
  <2>3. Filled(block) = Filled(block) \cup {i}
    BY <1>1
  <2> QED
    BY <1>0, <1>1, <2>1, <2>2, <2>3, FecAssumption
<1>2. CASE i \notin Filled(block)
  <2>1. b = [block EXCEPT !.shards[i] = g, !.received = @ + 1]
    BY <1>2 DEF Insert, Filled
  <2>2. /\ b.created = block.created
        /\ b.received = block.received + 1
        /\ \A j \in Idx : b.shards[j] = IF j = i THEN g ELSE block.shards[j]
        /\ b.shards \in [Idx -> Nat]
    BY <2>1 DEF BlockType
  <2>3. Filled(b) = Filled(block) \cup {i}
    BY <2>2 DEF Filled, NoShard
  <2>4. Cardinality(Filled(b)) = Cardinality(Filled(block)) + 1
    BY <1>0, <1>2, <2>3, FS_AddElement
  <2>5. b \in BlockType
    <3>1. b.received \in 0 .. Total
      BY <1>0, <2>2, FecAssumption DEF Total
    <3> QED
      BY <2>1, <2>2, <3>1 DEF BlockType
  <2>6. b.received > 0 /\ b.received <= DataShards
    BY <1>0, <2>2, FecAssumption
  <2> QED
    BY <1>2, <2>2, <2>3, <2>4, <2>5, <2>6
<1> QED
  BY <1>1, <1>2

----------------------------------------------------------------------------
(* The part of the invariant that needs no assumption on the link *)

\* Before the first payload the base invariant holds.
LEMMA BaseInit == Init => BaseInv
<1> SUFFICES ASSUME Init PROVE BaseInv
  OBVIOUS
<1> USE DEF Init
<1>1. TypeOK
  BY EmptyBlocks, FecAssumption DEF TypeOK, Ids, Gens, LedgerType, SentType
<1>2. SentInv /\ IdInv
  BY DEF SentInv, IdInv, Gens
<1>5. BootInv
  BY DEF BootInv, Gens
<1>3. BufferInv /\ ClockInv
  BY FecAssumption DEF BufferInv, ClockInv
<1>4. PendingInv
  <2>1. NoBlock.received = 0
    BY DEF NoBlock
  <2>2. Cardinality(Filled(NoBlock)) = 0
    BY EmptyBlocks
  <2>3. \A id \in Ids : pending[id] = NoBlock
    OBVIOUS
  <2> HIDE DEF Init
  <2> QED
    BY <2>1, <2>2, <2>3, FecAssumption DEF PendingInv
<1> QED
  BY <1>1, <1>2, <1>3, <1>4, <1>5 DEF BaseInv

\* Closing a block keeps the invariant, from submit and from flush_partial.
LEMMA FlushBase ==
  ASSUME BaseInv, NEW buf \in Seq(Nat), Len(buf) \in 1 .. DataShards,
         Flush(buf), submitted' \in Nat,
         UNCHANGED <<now, dupCount, receiverVars>>
  PROVE  BaseInv'
<1> DEFINE n == Len(sent)
           blk == [id |-> block_id, payloads |-> buf, at |-> now]
<1>0. /\ TypeOK /\ SentInv /\ BootInv /\ IdInv /\ ClockInv /\ PendingInv
      /\ n \in Nat
      /\ now \in Nat
      /\ now' = now
  BY DEF BaseInv, TypeOK
<1>1. /\ blk \in SentType
      /\ sent' = Append(sent, blk)
      /\ sent' \in Seq(SentType)
      /\ Len(sent') = n + 1
      /\ sent'[n + 1] = blk
      /\ \A g \in 1 .. n : sent'[g] = sent[g]
      /\ \A g \in 1 .. n : sent[g] \in SentType
  <2>1. blk \in SentType
    BY <1>0 DEF SentType, TypeOK
  <2>2. sent \in Seq(SentType) /\ sent' = Append(sent, blk)
    BY <1>0 DEF TypeOK, Flush
  <2> QED
    BY <2>1, <2>2, AppendFacts
<1>10. \A g \in 1 .. n : /\ sent[g].at \in Nat
                          /\ sent[g].id \in 0 .. IdSpace - 1
                          /\ sent[g].payloads \in Seq(Nat)
  BY <1>1 DEF SentType, Ids
<1>11. /\ sent'[n + 1].at = now
       /\ sent'[n + 1].id = block_id
       /\ sent'[n + 1].payloads = buf
  BY <1>1
<1> HIDE DEF n, blk
<1>2. Gens' = 1 .. (n + 1) /\ Gens = 1 .. n
  BY <1>1 DEF Gens, n
<1>3. TypeOK'
  <2>1. net' \subseteq ShardType'
    <3>1. ShardsOf(n + 1) \subseteq ShardType'
      BY <1>0, <1>2, FecAssumption DEF ShardsOf, ShardType, TypeOK
    <3>2. ShardType \subseteq ShardType'
      BY <1>0, <1>2 DEF ShardType
    <3> QED
      BY <1>0, <3>1, <3>2 DEF Flush, TypeOK, n
  <2>2. ledger' \in Seq(LedgerType) /\ Len(ledger') = Len(sent')
    <3>1. NewLedger \in LedgerType
      BY DEF NewLedger, LedgerType
    <3>2. ledger \in Seq(LedgerType) /\ Len(ledger) = n
          /\ ledger' = Append(ledger, NewLedger)
      BY <1>0 DEF TypeOK, Flush, n
    <3> QED
      BY <1>1, <3>1, <3>2, AppendFacts
  <2>3. block_id' \in Ids
    BY <1>0, FecAssumption DEF Flush, TypeOK, WrappingAdd, Ids
  <2>4. buffer' \in Seq(Nat) /\ oldest' \in Nat /\ boot' = boot
    BY DEF Flush
  <2>5. pending' \in [Ids -> BlockType] /\ lastExpiry' \in Nat
        /\ dupCount' \in 0 .. MaxDups
    BY <1>0 DEF TypeOK, receiverVars
  <2> QED
    BY <1>0, <1>1, <2>1, <2>2, <2>3, <2>4, <2>5 DEF TypeOK
<1>4. SentInv'
  <2>1. \A g \in 1 .. n + 1 : /\ sent'[g].at <= now'
                             /\ Len(sent'[g].payloads) \in 1 .. DataShards
    BY <1>0, <1>1, <1>2, <1>11 DEF SentInv
  <2>2. n > 0 => sent[n].at < now
    BY <1>0 DEF Flush, Paced, TypeOK, n
  <2>3. \A g, h \in 1 .. n + 1 :
          g <= h => h - g <= sent'[h].at - sent'[g].at
    <3> SUFFICES ASSUME NEW g \in 1 .. n + 1, NEW h \in 1 .. n + 1, g <= h
                 PROVE  h - g <= sent'[h].at - sent'[g].at
      OBVIOUS
    <3>1. CASE h <= n
      <4>1. /\ g \in Gens /\ h \in Gens
            /\ sent'[g].at = sent[g].at /\ sent'[h].at = sent[h].at
        BY <1>0, <1>1, <1>2, <3>1
      <4> QED
        BY <1>0, <4>1 DEF SentInv
    <3>2. CASE h = n + 1 /\ g = n + 1
      BY <1>0, <1>11, <3>2
    <3>3. CASE h = n + 1 /\ g <= n
      <4>1. sent[n].at \in Nat /\ sent[g].at \in Nat /\ n > 0
        BY <1>0, <1>10, <3>3
      <4>2. n - g <= sent[n].at - sent[g].at
        BY <1>0, <1>2, <3>3 DEF SentInv
      <4>3. sent'[h].at = now /\ sent'[g].at = sent[g].at
        BY <1>0, <1>1, <1>11, <3>3
      <4>4. h \in Int /\ g \in Int /\ h = n + 1
        BY <1>0, <3>3
      <4> QED
        BY <1>0, <2>2, <4>1, <4>2, <4>3, <4>4
    <3> QED
      BY <1>0, <3>1, <3>2, <3>3
  <2> QED
    BY <1>2, <2>1, <2>3 DEF SentInv
<1>5. BufferInv'
  BY FecAssumption DEF BufferInv, Flush
<1>9. /\ boot' = boot /\ boot.up <= now /\ boot.base <= n
      /\ boot.base \in Nat /\ boot.up \in Nat /\ boot.count \in 0 .. MaxRestarts
  BY <1>0 DEF Flush, Up, TypeOK, BootInv, n
<1>12. BootInv'
  <2>1. \A g \in 1 .. n + 1 : IF g <= boot.base
                             THEN sent'[g].at + Downtime <= boot.up
                             ELSE boot.up <= sent'[g].at
    BY <1>0, <1>1, <1>2, <1>9, <1>11 DEF BootInv
  <2>2. boot.base <= n + 1 /\ (boot.count = 0 => boot.base = 0)
    BY <1>0, <1>9 DEF BootInv
  <2> QED
    BY <1>1, <1>2, <1>9, <2>1, <2>2 DEF BootInv
<1>6. IdInv'
  <2>2. block_id \in 0 .. IdSpace - 1
    BY <1>0 DEF TypeOK, Ids
  <2>3. block_id' = IF block_id = IdSpace - 1 THEN 0 ELSE block_id + 1
    BY DEF Flush, WrappingAdd
  <2>4. ASSUME NEW g \in 1 .. n + 1, g > boot.base, (n + 1) + 1 - g <= IdSpace
        PROVE  IF sent'[g].id + ((n + 1) + 1 - g) < IdSpace
               THEN block_id' = sent'[g].id + ((n + 1) + 1 - g)
               ELSE block_id' = sent'[g].id + ((n + 1) + 1 - g) - IdSpace
    <3>1. CASE g = n + 1
      <4>1. (n + 1) + 1 - g = 1 /\ sent'[g].id = block_id
        BY <1>0, <1>11, <3>1
      <4>2. IF block_id + 1 < IdSpace
            THEN block_id' = block_id + 1
            ELSE block_id' = block_id + 1 - IdSpace
        BY <2>2, <2>3, FecAssumption
      <4> QED
        BY <4>1, <4>2
    <3>2. CASE g <= n
      <4>0. /\ n + 1 - g <= IdSpace /\ g \in Gens
            /\ sent'[g].id = sent[g].id
            /\ sent[g].id \in 0 .. IdSpace - 1
        BY <1>0, <1>1, <1>2, <1>10, <2>4, <3>2, FecAssumption
      <4>1. IF sent[g].id + (n + 1 - g) < IdSpace
            THEN block_id = sent[g].id + (n + 1 - g)
            ELSE block_id = sent[g].id + (n + 1 - g) - IdSpace
        BY <1>0, <2>4, <4>0 DEF IdInv, n
      <4>2. PICK d \in Int : d = n + 1 - g
        BY <1>0
      <4>3. (n + 1) + 1 - g = d + 1 /\ d >= 1 /\ d + 1 <= IdSpace
        BY <1>0, <2>4, <3>2, <4>2
      <4>4. IF sent[g].id + d < IdSpace
            THEN block_id = sent[g].id + d
            ELSE block_id = sent[g].id + d - IdSpace
        BY <4>1, <4>2
      <4>5. IF sent[g].id + (d + 1) < IdSpace
            THEN block_id' = sent[g].id + (d + 1)
            ELSE block_id' = sent[g].id + (d + 1) - IdSpace
        <5>1. /\ sent[g].id \in Ids /\ block_id \in Ids
              /\ block_id' = WrappingAdd(block_id)
          BY <2>2, <4>0 DEF Ids, Flush
        <5> QED
          BY <4>3, <4>4, <5>1, WrapArithmetic
      <4> QED
        BY <4>0, <4>3, <4>5
    <3> QED
      BY <1>0, <3>1, <3>2
  <2>5. ASSUME NEW g \in 1 .. n + 1, NEW h \in 1 .. n + 1, g < h,
               sent'[g].id = sent'[h].id
        PROVE  \/ h - g >= IdSpace
               \/ MaxRestarts > 0 /\ sent'[g].at + Downtime <= sent'[h].at
    <3>1. CASE h <= n
      <4>1. /\ g \in Gens /\ h \in Gens /\ sent[g].id = sent[h].id
            /\ sent'[g] = sent[g] /\ sent'[h] = sent[h]
        BY <1>0, <1>1, <1>2, <2>5, <3>1
      <4> QED
        BY <1>0, <2>5, <4>1 DEF IdInv
    <3>2. CASE h = n + 1 /\ g <= boot.base
      <4>1. /\ sent'[g] = sent[g] /\ sent'[h].at = now /\ g \in Gens
        BY <1>0, <1>1, <1>2, <1>11, <2>5, <3>2
      <4>2. sent[g].at + Downtime <= boot.up
        BY <1>0, <3>2, <4>1 DEF BootInv
      <4>3. MaxRestarts > 0
        BY <1>0, <1>9, <3>2, FecAssumption DEF BootInv
      <4>4. sent[g].at \in Nat /\ Downtime \in Nat /\ now \in Nat
        BY <1>0, <1>2, <1>10, <4>1, FecAssumption
      <4>5. sent[g].at + Downtime <= now
        BY <1>9, <4>2, <4>4
      <4> QED
        BY <4>1, <4>3, <4>5
    <3>3. CASE h = n + 1 /\ g > boot.base
      <4>1. sent[g].id = block_id
        BY <1>0, <1>1, <1>11, <2>5, <3>3
      <4>2. (n + 1 - g <= IdSpace) =>
              IF sent[g].id + (n + 1 - g) < IdSpace
              THEN block_id = sent[g].id + (n + 1 - g)
              ELSE block_id = sent[g].id + (n + 1 - g) - IdSpace
        BY <1>0, <1>2, <2>5, <3>3 DEF IdInv, n
      <4> QED
        BY <1>0, <2>2, <2>5, <3>3, <4>1, <4>2, FecAssumption
    <3> QED
      BY <1>0, <1>9, <3>1, <3>2, <3>3
  <2> QED
    BY <1>1, <1>2, <1>9, <2>4, <2>5 DEF IdInv
<1>7. ClockInv'
  <2>1. \A s \in ShardsOf(n + 1) : s.gen = n + 1
    BY DEF ShardsOf
  <2>2. \A s \in net : s.gen \in 1 .. n
    BY <1>0, <1>2 DEF TypeOK, ShardType
  <2> QED
    BY <1>0, <1>1, <1>11, <2>1, <2>2, FecAssumption
       DEF ClockInv, Flush, receiverVars, n
<1>8. PendingInv'
  BY <1>0 DEF PendingInv, receiverVars, Filled
<1> QED
  BY <1>3, <1>4, <1>5, <1>6, <1>7, <1>8, <1>12 DEF BaseInv

\* Replacing one element of a sequence keeps its length and its type.
LEMMA ExceptFacts ==
  ASSUME NEW S, NEW q \in Seq(S), NEW i \in 1 .. Len(q), NEW e \in S
  PROVE  /\ [q EXCEPT ![i] = e] \in Seq(S)
         /\ Len([q EXCEPT ![i] = e]) = Len(q)
OBVIOUS

\* forward_to, FecSender::submit: a payload is buffered or closes a block that
\* has DataShards payloads exactly.
LEMMA SubmitBase == ASSUME BaseInv, Submit PROVE BaseInv'
<1> DEFINE buf == Append(buffer, submitted + 1)
<1>0. TypeOK /\ SentInv /\ BootInv /\ IdInv /\ ClockInv /\ PendingInv /\ BufferInv
  BY DEF BaseInv
<1>1. /\ buf \in Seq(Nat) /\ Len(buf) = Len(buffer) + 1
      /\ Len(buffer) \in Nat /\ submitted' \in Nat
  BY <1>0, AppendFacts DEF TypeOK, Submit
<1>2. UNCHANGED <<now, dupCount, receiverVars>>
  BY DEF Submit
<1>3. CASE Len(buf) >= DataShards /\ Flush(buf)
  <2>1. Len(buf) \in 1 .. DataShards
    BY <1>0, <1>1, <1>3, FecAssumption DEF BufferInv
  <2> QED
    BY <1>1, <1>2, <1>3, <2>1, FlushBase
<1>4. CASE /\ Len(buf) < DataShards
           /\ buffer' = buf
           /\ oldest' = IF buffer = <<>> THEN now ELSE oldest
           /\ UNCHANGED <<block_id, boot, sent, net, ledger>>
  <2>1. TypeOK'
    BY <1>0, <1>1, <1>2, <1>4 DEF TypeOK, receiverVars, ShardType, Gens
  <2>2. SentInv' /\ BootInv' /\ IdInv' /\ ClockInv'
    BY <1>0, <1>2, <1>4 DEF SentInv, BootInv, IdInv, ClockInv, Gens, receiverVars
  <2>3. BufferInv'
    BY <1>4 DEF BufferInv
  <2>4. PendingInv'
    BY <1>0, <1>2 DEF PendingInv, receiverVars, Filled
  <2> QED
    BY <2>1, <2>2, <2>3, <2>4 DEF BaseInv
<1> QED
  BY <1>3, <1>4 DEF Submit

\* flush_fec at the sender closes a block of fewer payloads.
LEMMA FlushPartialBase == ASSUME BaseInv, FlushPartial PROVE BaseInv'
<1>1. /\ buffer \in Seq(Nat) /\ submitted \in Nat
      /\ buffer # <<>> /\ Len(buffer) < DataShards
      /\ Flush(buffer)
      /\ UNCHANGED <<now, submitted, dupCount, receiverVars>>
  BY DEF BaseInv, TypeOK, BufferInv, FlushPartial
<1>2. Len(buffer) \in 1 .. DataShards
  BY <1>1, FecAssumption
<1> QED
  BY <1>1, <1>2, FlushBase

\* Neither the sender's state nor the clock changes.
LEMMA SenderKept ==
  ASSUME BaseInv, UNCHANGED <<now, senderVars>>
  PROVE  SentInv' /\ BootInv' /\ IdInv' /\ BufferInv'
BY DEF BaseInv, SentInv, BootInv, IdInv, BufferInv, Gens, senderVars

\* Crediting an account keeps its type.
LEMMA CreditType ==
  ASSUME NEW a \in LedgerType, NEW taken, NEW completes
  PROVE  /\ Credit(a, taken, completes) \in LedgerType
         /\ Credit(a, taken, completes).lost = a.lost
         /\ Credit(a, taken, completes).expired = a.expired
         /\ Credit(a, taken, completes).dups = a.dups
         /\ Credit(a, taken, completes).ignored =
              IF taken THEN a.ignored + 1 ELSE a.ignored
         /\ Credit(a, taken, completes).used =
              IF completes THEN a.used + DataShards ELSE a.used
<1>1. a.ignored \in Nat /\ a.used \in Nat
  BY DEF LedgerType
<1> DEFINE x == IF taken THEN a.ignored + 1 ELSE a.ignored
           y == IF completes THEN a.used + DataShards ELSE a.used
<1>2. x \in Nat /\ y \in Nat
  BY <1>1, FecAssumption
<1>3. Credit(a, taken, completes) = [a EXCEPT !.ignored = x, !.used = y]
  BY DEF Credit
<1> HIDE DEF x, y
<1>4. /\ [a EXCEPT !.ignored = x, !.used = y] \in LedgerType
      /\ [a EXCEPT !.ignored = x, !.used = y].lost = a.lost
      /\ [a EXCEPT !.ignored = x, !.used = y].expired = a.expired
      /\ [a EXCEPT !.ignored = x, !.used = y].dups = a.dups
      /\ [a EXCEPT !.ignored = x, !.used = y].ignored = x
      /\ [a EXCEPT !.ignored = x, !.used = y].used = y
  BY <1>2 DEF LedgerType
<1> QED
  BY <1>3, <1>4 DEF x, y

\* FecReceiver::receive_shard: the entry it leaves counts its shards, is short
\* of one, and is as young as the entry it found.
LEMMA ReceiveBase ==
  ASSUME BaseInv, NEW s \in net, ReceiveShard(s)
  PROVE  BaseInv'
<1> DEFINE id == sent[s.gen].id
           b == Insert(Entry(id), s.idx, s.gen)
<1>0. TypeOK /\ SentInv /\ BootInv /\ IdInv /\ ClockInv /\ PendingInv /\ BufferInv
  BY DEF BaseInv
<1>1. /\ s.gen \in 1 .. Len(sent) /\ s.gen \in Nat \ {0}
      /\ s.idx \in Idx /\ id \in Ids /\ now \in Nat
  <2>1. s \in ShardType /\ sent \in Seq(SentType) /\ now \in Nat
    BY <1>0 DEF TypeOK
  <2>2. s.gen \in 1 .. Len(sent) /\ s.idx \in Idx /\ Len(sent) \in Nat
    BY <2>1 DEF ShardType, Gens
  <2>3. sent[s.gen] \in SentType
    BY <2>1, <2>2
  <2> QED
    BY <2>1, <2>2, <2>3 DEF SentType
<1>2. /\ net' = net \ {s}
      /\ pending' = [pending EXCEPT ![id] = Retained(b)]
      /\ UNCHANGED <<now, senderVars, dupCount, lastExpiry>>
  BY DEF ReceiveShard
<1>3. /\ b \in BlockType
      /\ b.created = Entry(id).created
      /\ b.received = Cardinality(Filled(b))
      /\ b.received > 0
      /\ b.received <= DataShards
  <2> HIDE DEF id
  <2>1. /\ Entry(id) \in BlockType
        /\ Entry(id).received = Cardinality(Filled(Entry(id)))
        /\ Entry(id).received < DataShards
    BY <1>0, <1>1, EntryFacts
  <2> QED
    BY <1>1, <2>1, InsertFacts
<1>4. /\ Retained(b) \in BlockType
      /\ Retained(b).received = Cardinality(Filled(Retained(b)))
      /\ Retained(b).received < DataShards
      /\ Retained(b).received > 0 => Retained(b) = b
  <2>1. NoBlock.received = 0
    BY DEF NoBlock
  <2>2. Cardinality(Filled(NoBlock)) = 0 /\ NoBlock \in BlockType
    BY <1>1, EmptyBlocks
  <2>3. b.received \in Nat
    BY <1>3 DEF BlockType
  <2> QED
    BY <1>3, <2>1, <2>2, <2>3, FecAssumption DEF Retained, Complete
<1>5. TypeOK'
  <2>1. pending' \in [Ids -> BlockType]
    BY <1>0, <1>1, <1>2, <1>4 DEF TypeOK
  <2>2. ledger' \in Seq(LedgerType) /\ Len(ledger') = Len(ledger)
    <3>1. ledger[s.gen] \in LedgerType /\ s.gen \in 1 .. Len(ledger)
          /\ ledger \in Seq(LedgerType)
      BY <1>0, <1>1 DEF TypeOK
    <3>2. PICK e \in LedgerType : ledger' = [ledger EXCEPT ![s.gen] = e]
      BY <3>1, CreditType DEF ReceiveShard
    <3> QED
      BY <3>1, <3>2, ExceptFacts
  <2> QED
    BY <1>0, <1>2, <2>1, <2>2 DEF TypeOK, senderVars, ShardType, Gens
<1>6. ClockInv'
  BY <1>0, <1>2 DEF ClockInv, senderVars
<1>7. PendingInv'
  <2> SUFFICES ASSUME NEW k \in Ids
               PROVE  /\ pending'[k].received = Cardinality(Filled(pending'[k]))
                      /\ pending'[k].received < DataShards
                      /\ pending'[k].received > 0 =>
                           /\ pending'[k].created <= now'
                           /\ lastExpiry' < pending'[k].created + MaxAge
    BY DEF PendingInv, Filled
  <2>1. CASE k # id
    BY <1>0, <1>1, <1>2, <2>1 DEF PendingInv, TypeOK
  <2>2. CASE k = id
    <3>1. pending'[k] = Retained(b)
      BY <1>0, <1>1, <1>2, <2>2 DEF TypeOK
    <3>2. Entry(id).created <= now /\ lastExpiry < Entry(id).created + MaxAge
      <4>1. CASE pending[id].received = 0
        BY <1>0, <1>1, <4>1, FecAssumption DEF Entry, NewBlock, ClockInv, TypeOK
      <4>2. CASE pending[id].received # 0
        <5>1. pending[id].received > 0
          BY <1>0, <1>1, <4>2 DEF TypeOK, BlockType
        <5> QED
          BY <1>0, <1>1, <4>2, <5>1 DEF Entry, PendingInv
      <4> QED
        BY <4>1, <4>2
    <3> QED
      BY <1>2, <1>3, <1>4, <3>1, <3>2
  <2> QED
    BY <2>1, <2>2
<1> QED
  BY <1>2, <1>5, <1>6, <1>7, SenderKept DEF BaseInv

\* A datagram disappears.
LEMMA LoseBase ==
  ASSUME BaseInv, NEW s \in net, Lose(s)
  PROVE  BaseInv'
<1>0. TypeOK /\ ClockInv /\ PendingInv
  BY DEF BaseInv
<1>1. /\ net' = net \ {s}
      /\ UNCHANGED <<now, senderVars, dupCount, receiverVars>>
  BY DEF Lose
<1>2. ledger' \in Seq(LedgerType) /\ Len(ledger') = Len(ledger)
  <2>1. s.gen \in 1 .. Len(ledger) /\ ledger \in Seq(LedgerType)
    BY <1>0 DEF TypeOK, ShardType, Gens
  <2>2. ledger[s.gen] \in LedgerType
    BY <2>1
  <2>3. [ledger[s.gen] EXCEPT !.lost = @ + 1] \in LedgerType
    BY <2>2 DEF LedgerType
  <2>4. ledger' = [ledger EXCEPT ![s.gen] = [ledger[s.gen] EXCEPT !.lost = @ + 1]]
    BY <2>1 DEF Lose
  <2> QED
    BY <2>1, <2>3, <2>4, ExceptFacts
<1>3. TypeOK'
  BY <1>0, <1>1, <1>2 DEF TypeOK, senderVars, receiverVars, ShardType, Gens
<1>4. ClockInv' /\ PendingInv'
  BY <1>0, <1>1 DEF ClockInv, PendingInv, senderVars, receiverVars, Filled
<1> QED
  BY <1>1, <1>3, <1>4, SenderKept DEF BaseInv

\* A datagram is doubled, with a copy number of its own.
LEMMA DuplicateBase ==
  ASSUME BaseInv, NEW s \in net, Duplicate(s)
  PROVE  BaseInv'
<1> DEFINE c == [s EXCEPT !.copy = dupCount + 1]
<1>0. TypeOK /\ ClockInv /\ PendingInv
  BY DEF BaseInv
<1>1. /\ net' = net \cup {c}
      /\ dupCount < MaxDups /\ dupCount' = dupCount + 1
      /\ UNCHANGED <<now, senderVars, receiverVars>>
  BY DEF Duplicate
<1>2. ledger' \in Seq(LedgerType) /\ Len(ledger') = Len(ledger)
  <2>1. s.gen \in 1 .. Len(ledger) /\ ledger \in Seq(LedgerType)
    BY <1>0 DEF TypeOK, ShardType, Gens
  <2>2. ledger[s.gen] \in LedgerType
    BY <2>1
  <2>3. [ledger[s.gen] EXCEPT !.dups = @ + 1] \in LedgerType
    BY <2>2 DEF LedgerType
  <2>4. ledger' = [ledger EXCEPT ![s.gen] = [ledger[s.gen] EXCEPT !.dups = @ + 1]]
    BY <2>1 DEF Duplicate
  <2> QED
    BY <2>1, <2>3, <2>4, ExceptFacts
<1>3. c \in ShardType /\ c.gen = s.gen
  <2>1. s \in ShardType /\ dupCount \in 0 .. MaxDups
    BY <1>0 DEF TypeOK
  <2>2. dupCount + 1 \in 0 .. MaxDups
    BY <1>1, <2>1, FecAssumption
  <2> QED
    BY <2>1, <2>2 DEF ShardType
<1>4. dupCount' \in 0 .. MaxDups
  <2>1. dupCount \in 0 .. MaxDups
    BY <1>0 DEF TypeOK
  <2> QED
    BY <1>1, <2>1, FecAssumption
<1>5. TypeOK'
  <2>1. ShardType' = ShardType
    BY <1>1 DEF ShardType, Gens, senderVars
  <2> QED
    BY <1>0, <1>1, <1>2, <1>3, <1>4, <2>1 DEF TypeOK, senderVars, receiverVars
<1>6. ClockInv'
  <2> HIDE DEF c
  <2> QED
    BY <1>0, <1>1, <1>3 DEF ClockInv, senderVars, receiverVars
<1>7. PendingInv'
  BY <1>0, <1>1 DEF PendingInv, receiverVars, Filled
<1> QED
  BY <1>1, <1>5, <1>6, <1>7, SenderKept DEF BaseInv

\* The number of shards a pending block holds of a generation.
LEMMA HeldNat ==
  ASSUME NEW g
  PROVE  Held(g) \in Nat
<1>1. IsFiniteSet(Idx)
  BY FecAssumption, FS_Interval DEF Idx, Total
<1>2. {i \in Idx : pending[sent[g].id].shards[i] = g} \subseteq Idx
  OBVIOUS
<1> QED
  BY <1>1, <1>2, FS_Subset, FS_CardinalityType DEF Held

\* FecReceiver::expire_old: what remains is younger than MaxAge at the time of
\* the flush tick.
LEMMA ExpireBase == ASSUME BaseInv, ExpireOld PROVE BaseInv'
<1>0. TypeOK /\ ClockInv /\ PendingInv /\ now \in Nat
  BY DEF BaseInv, TypeOK
<1>1. /\ pending' = [id \in Ids |-> IF Stale(id) THEN NoBlock ELSE pending[id]]
      /\ lastExpiry' = now
      /\ UNCHANGED <<now, senderVars, net, dupCount, routed>>
  BY DEF ExpireOld
<1>2. ledger' \in Seq(LedgerType) /\ Len(ledger') = Len(sent)
  <2> DEFINE F(g) == IF Stale(sent[g].id)
                     THEN [ledger[g] EXCEPT !.expired = @ + Held(g)]
                     ELSE ledger[g]
  <2>1. ledger \in Seq(LedgerType) /\ Gens = 1 .. Len(ledger)
    BY <1>0 DEF TypeOK, Gens
  <2>2. ASSUME NEW g \in Gens PROVE F(g) \in LedgerType
    <3>1. ledger[g] \in LedgerType /\ Held(g) \in Nat
      BY <2>1, HeldNat
    <3>2. [ledger[g] EXCEPT !.expired = @ + Held(g)] \in LedgerType
      BY <3>1 DEF LedgerType
    <3> QED
      BY <3>1, <3>2
  <2>3. ledger' = [g \in Gens |-> F(g)]
    BY DEF ExpireOld
  <2> HIDE DEF F
  <2>4. Len(sent) \in Nat /\ Gens = 1 .. Len(sent)
    BY <1>0 DEF TypeOK, Gens
  <2> QED
    BY <2>2, <2>3, <2>4
<1>3. NoBlock \in BlockType /\ Cardinality(Filled(NoBlock)) = 0
      /\ NoBlock.received = 0
  BY <1>0, EmptyBlocks DEF NoBlock
<1>4. TypeOK'
  BY <1>0, <1>1, <1>2, <1>3 DEF TypeOK, senderVars, ShardType, Gens
<1>5. ClockInv'
  BY <1>0, <1>1, FecAssumption DEF ClockInv, senderVars
<1>6. PendingInv'
  <2> SUFFICES ASSUME NEW k \in Ids
               PROVE  /\ pending'[k].received = Cardinality(Filled(pending'[k]))
                      /\ pending'[k].received < DataShards
                      /\ pending'[k].received > 0 =>
                           /\ pending'[k].created <= now'
                           /\ lastExpiry' < pending'[k].created + MaxAge
    BY DEF PendingInv, Filled
  <2>1. CASE Stale(k)
    BY <1>1, <1>3, <2>1, FecAssumption
  <2>2. CASE ~Stale(k)
    <3>1. pending'[k] = pending[k] /\ pending[k] \in BlockType
      BY <1>0, <1>1, <2>2 DEF TypeOK
    <3>2. pending[k].received > 0 => now - pending[k].created < MaxAge
      BY <1>0, <2>2, <3>1, FecAssumption DEF Stale, BlockType
    <3> QED
      BY <1>0, <1>1, <3>1, <3>2, FecAssumption DEF PendingInv, BlockType
  <2> QED
    BY <2>1, <2>2
<1> QED
  BY <1>1, <1>4, <1>5, <1>6, SenderKept DEF BaseInv

\* Time passes, within the lives of datagrams and the waits for flush ticks.
LEMMA TickBase == ASSUME BaseInv, Tick PROVE BaseInv'
<1>0. TypeOK /\ SentInv /\ BootInv /\ IdInv /\ ClockInv /\ PendingInv /\ BufferInv
  BY DEF BaseInv
<1>1. /\ now \in Nat /\ now' = now + 1
      /\ UNCHANGED <<senderVars, net, dupCount, receiverVars, ledger>>
  BY <1>0 DEF Tick, TypeOK
<1>2. \A g \in Gens : sent[g].at \in Nat
  <2>1. \A g \in Gens : sent[g] \in SentType
    BY <1>0 DEF TypeOK, Gens
  <2> QED
    BY <2>1 DEF SentType
<1>3. TypeOK'
  BY <1>0, <1>1 DEF TypeOK, senderVars, receiverVars, ShardType, Gens
<1>4. SentInv'
  BY <1>0, <1>1, <1>2 DEF SentInv, senderVars, Gens
<1>5. BootInv' /\ IdInv' /\ BufferInv'
  BY <1>0, <1>1 DEF BootInv, IdInv, BufferInv, senderVars, Gens
<1>6. ClockInv'
  <2>1. \A s \in net : s.gen \in Gens
    BY <1>0 DEF TypeOK, ShardType
  <2>2. \A s \in net : now + 1 <= sent[s.gen].at + MaxTransit
    BY <1>1, <1>2, <2>1, FecAssumption DEF Tick
  <2>3. lastExpiry <= now + 1 /\ now + 1 <= lastExpiry + FlushLag
    <3>1. lastExpiry \in Nat /\ lastExpiry <= now
      BY <1>0 DEF TypeOK, ClockInv
    <3>2. now < lastExpiry + FlushLag
      BY DEF Tick
    <3> QED
      BY <1>1, <3>1, <3>2, FecAssumption
  <2> QED
    BY <1>1, <2>2, <2>3 DEF ClockInv, senderVars, receiverVars
<1>7. PendingInv'
  <2>1. \A k \in Ids : pending[k].created \in Nat
    BY <1>0 DEF TypeOK, BlockType
  <2> QED
    BY <1>0, <1>1, <2>1 DEF PendingInv, receiverVars, Filled
<1> QED
  BY <1>3, <1>4, <1>5, <1>6, <1>7 DEF BaseInv

\* The sending node restarts: the blocks closed so far are from before it.
LEMMA RestartBase == ASSUME BaseInv, RestartSender PROVE BaseInv'
<1>0. TypeOK /\ SentInv /\ BootInv /\ IdInv /\ ClockInv /\ PendingInv /\ BufferInv
  BY DEF BaseInv
<1>1. UNCHANGED <<now, submitted, sent, net, dupCount, receiverVars, ledger>>
  BY DEF RestartSender
<1>2. /\ boot'.count = boot.count + 1 /\ boot'.base = Len(sent)
      /\ boot'.up = now + Downtime
      /\ boot' \in [count : 0 .. MaxRestarts, base : Nat, up : Nat]
      /\ boot.count \in Nat
  <2>1. boot.count \in Nat /\ boot.count + 1 \in 0 .. MaxRestarts
    BY <1>0, FecAssumption DEF TypeOK, RestartSender
  <2>2. Len(sent) \in Nat /\ now + Downtime \in Nat
    BY <1>0, FecAssumption DEF TypeOK
  <2> QED
    BY <2>1, <2>2 DEF RestartSender
<1>3. TypeOK'
  BY <1>0, <1>1, <1>2, FecAssumption
     DEF TypeOK, RestartSender, receiverVars, ShardType, Gens, Ids
<1>4. SentInv' /\ ClockInv' /\ PendingInv'
  BY <1>0, <1>1 DEF SentInv, ClockInv, PendingInv, Gens, Filled, receiverVars
<1>5. BufferInv'
  BY FecAssumption DEF BufferInv, RestartSender
<1>6. \A g \in Gens : sent[g].at \in Nat /\ sent[g].at <= now /\ g <= Len(sent)
  <2>1. \A g \in Gens : sent[g] \in SentType
    BY <1>0 DEF TypeOK, Gens
  <2> QED
    BY <1>0, <2>1 DEF SentType, SentInv, Gens
<1>7. BootInv'
  <2>1. now \in Nat /\ Len(sent) \in Nat
    BY <1>0 DEF TypeOK
  <2>2. \A g \in Gens : sent[g].at + Downtime <= now + Downtime
    BY <1>6, <2>1, FecAssumption
  <2> QED
    BY <1>1, <1>2, <1>6, <2>1, <2>2 DEF BootInv, Gens
<1>8. IdInv'
  <2>1. \A g \in Gens : ~(g > Len(sent))
    BY <1>0 DEF TypeOK, Gens
  <2> QED
    BY <1>0, <1>1, <1>2, <2>1 DEF IdInv, Gens
<1> QED
  BY <1>3, <1>4, <1>5, <1>7, <1>8 DEF BaseInv

\* Nothing happens.
LEMMA StutterBase == ASSUME BaseInv, UNCHANGED vars PROVE BaseInv'
<1>1. TypeOK'
  BY DEF BaseInv, TypeOK, vars, ShardType, Gens
<1>2. SentInv' /\ BootInv' /\ IdInv' /\ BufferInv'
  BY SenderKept DEF vars, senderVars
<1>3. ClockInv' /\ PendingInv'
  BY DEF BaseInv, ClockInv, PendingInv, Filled, vars
<1> QED
  BY <1>1, <1>2, <1>3 DEF BaseInv

\* The base invariant is inductive, whatever the constants are.
LEMMA BaseStep == BaseInv /\ [Next]_vars => BaseInv'
BY SubmitBase, FlushPartialBase, ReceiveBase, LoseBase, DuplicateBase,
   ExpireBase, RestartBase, TickBase, StutterBase DEF Next

\* Whatever the constants, the codec keeps its types: the id counter of the
\* sender stays within its width across the wrap, and a pending block never
\* counts more shards than its Vec has slots.
THEOREM TypeCorrect == Spec => []TypeOK
<1>1. BaseInv => TypeOK
  BY DEF BaseInv
<1> QED
  BY <1>1, BaseInit, BaseStep, PTL DEF Spec

----------------------------------------------------------------------------
(* Blocks do not mix *)

\* The generation of a shard, its block and the slots of the entry it meets.
LEMMA ShardFacts ==
  ASSUME BaseInv, NEW s \in net
  PROVE  /\ s.gen \in Gens /\ s.gen \in Nat \ {0} /\ s.idx \in Idx
         /\ sent[s.gen].id \in Ids
         /\ sent[s.gen].at \in Nat
<1>1. s \in ShardType /\ sent \in Seq(SentType)
  BY DEF BaseInv, TypeOK
<1>2. s.gen \in 1 .. Len(sent) /\ s.idx \in Idx /\ Len(sent) \in Nat
  BY <1>1 DEF ShardType, Gens
<1>3. sent[s.gen] \in SentType
  BY <1>1, <1>2
<1> QED
  BY <1>1, <1>2, <1>3 DEF SentType, Gens

\* The heart of the argument: if a shard under way met a shard of another
\* block with the same id, the two blocks would be IdSpace blocks or the
\* downtime of the sender apart, and then the older one would have expired, or
\* the older shard be long lost.
LEMMA NoMixing ==
  ASSUME BaseInv, OriginInv, IdsReturnLate, NEW s \in net,
         NEW i \in Filled(pending[sent[s.gen].id])
  PROVE  pending[sent[s.gen].id].shards[i] = s.gen
<1> DEFINE id == sent[s.gen].id
           blk == pending[id]
           g == blk.shards[i]
           h == s.gen
<1>1. h \in Gens /\ id \in Ids /\ sent[h].at \in Nat
  BY ShardFacts
<1>2. /\ g \in Gens /\ sent[g].id = id
      /\ sent[g].at <= blk.created
      /\ blk.created <= sent[g].at + MaxTransit
  BY <1>1 DEF OriginInv
<1>3. blk \in BlockType /\ now \in Nat /\ lastExpiry \in Nat
  BY <1>1 DEF BaseInv, TypeOK
<1>4. blk.created \in Nat /\ blk.received \in Nat
  BY <1>3 DEF BlockType
<1>5. sent[g].at \in Nat
  <2> HIDE DEF g
  <2>1. sent[g] \in SentType
    BY <1>2 DEF BaseInv, TypeOK, Gens
  <2> QED
    BY <2>1 DEF SentType
<1>6. blk.created <= now /\ lastExpiry < blk.created + MaxAge
  <2>1. blk.received = Cardinality(Filled(blk))
    BY <1>1 DEF BaseInv, PendingInv
  <2>2. blk.received > 0
    BY <1>4, <2>1, FilledFinite
  <2> QED
    BY <1>1, <2>2 DEF BaseInv, PendingInv
<1>7. /\ now <= lastExpiry + FlushLag
      /\ now <= sent[h].at + MaxTransit
      /\ sent[h].at <= now
  BY <1>1 DEF BaseInv, ClockInv, SentInv
<1>8. g \in Int /\ h \in Int
  BY <1>1, <1>2 DEF Gens
<1>9. sent[h].id = id
  OBVIOUS
<1> HIDE DEF g, h, id, blk
<1>10. ASSUME g < h PROVE FALSE
  <2>1. \/ h - g >= IdSpace
        \/ MaxRestarts > 0 /\ sent[g].at + Downtime <= sent[h].at
    BY <1>1, <1>2, <1>9, <1>10 DEF BaseInv, IdInv
  <2>2. h - g <= sent[h].at - sent[g].at
    BY <1>1, <1>2, <1>8, <1>10 DEF BaseInv, SentInv
  <2> QED
    BY <1>1, <1>2, <1>3, <1>4, <1>5, <1>6, <1>7, <1>8, <2>1, <2>2,
       FecAssumption DEF IdsReturnLate, Memory
<1>11. ASSUME h < g PROVE FALSE
  <2>1. \/ g - h >= IdSpace
        \/ MaxRestarts > 0 /\ sent[h].at + Downtime <= sent[g].at
    BY <1>1, <1>2, <1>9, <1>11 DEF BaseInv, IdInv
  <2>2. g - h <= sent[g].at - sent[h].at
    BY <1>1, <1>2, <1>8, <1>11 DEF BaseInv, SentInv
  <2> QED
    BY <1>1, <1>2, <1>3, <1>4, <1>5, <1>6, <1>7, <1>8, <2>1, <2>2,
       FecAssumption DEF IdsReturnLate, Memory
<1>12. g = h
  BY <1>8, <1>10, <1>11
<1> QED
  BY <1>12 DEF g, h, blk, id

\* Steps that leave the receiver alone and do not change a closed block.
LEMMA OriginKept ==
  ASSUME BaseInv, OriginInv, pending' = pending,
         Gens \subseteq Gens', \A g \in Gens : sent'[g] = sent[g]
  PROVE  OriginInv'
BY DEF OriginInv, Filled

\* The block a shard leaves behind holds shards of its own generation only.
LEMMA ReceiveOrigin ==
  ASSUME BaseInv, OriginInv, IdsReturnLate, NEW s \in net,
         NEW b, b = Insert(Entry(sent[s.gen].id), s.idx, s.gen)
  PROVE  /\ \A i \in Filled(b) : b.shards[i] = s.gen
         /\ sent[s.gen].at <= b.created
         /\ b.created <= sent[s.gen].at + MaxTransit
         /\ Filled(b) = Filled(pending[sent[s.gen].id]) \cup {s.idx}
         /\ b.received = Cardinality(Filled(b))
         /\ b.received <= DataShards
         /\ b \in BlockType
<1> DEFINE id == sent[s.gen].id
           e == Entry(id)
<1>1. /\ s.gen \in Gens /\ s.gen \in Nat \ {0} /\ s.idx \in Idx
      /\ id \in Ids /\ sent[s.gen].at \in Nat
  BY ShardFacts
<1>2. /\ e \in BlockType
      /\ e.received = Cardinality(Filled(e))
      /\ e.received < DataShards
      /\ Filled(e) = Filled(pending[id])
      /\ Filled(pending[id]) # {} => e = pending[id]
      /\ Filled(pending[id]) = {} => e = NewBlock
  <2> HIDE DEF id
  <2> QED
    BY <1>1, EntryFacts DEF BaseInv
<1>3. \A i \in Filled(e) : e.shards[i] = s.gen
  BY <1>2, NoMixing
<1>4. sent[s.gen].at <= e.created /\ e.created <= sent[s.gen].at + MaxTransit
  <2>1. CASE Filled(pending[id]) = {}
    <3>1. e.created = now
      BY <1>2, <2>1 DEF NewBlock
    <3> QED
      BY <1>1, <3>1 DEF BaseInv, SentInv, ClockInv
  <2>2. CASE Filled(pending[id]) # {}
    <3>1. PICK i \in Filled(pending[id]) : TRUE
      BY <2>2
    <3>2. pending[id].shards[i] = s.gen
      BY <3>1, NoMixing
    <3> QED
      BY <1>1, <1>2, <2>2, <3>1, <3>2 DEF OriginInv
  <2> QED
    BY <2>1, <2>2
<1> HIDE DEF e, id
<1>5. /\ b \in BlockType
      /\ b.created = e.created
      /\ b.received = Cardinality(Filled(b))
      /\ Filled(b) = Filled(e) \cup {s.idx}
      /\ b.received <= DataShards
      /\ \A j \in Idx : b.shards[j] =
           IF j = s.idx /\ s.idx \notin Filled(e) THEN s.gen ELSE e.shards[j]
  <2>1. b = Insert(e, s.idx, s.gen)
    BY DEF e, id
  <2> QED
    BY <1>1, <1>2, <2>1, InsertFacts
<1>6. \A i \in Filled(b) : b.shards[i] = s.gen
  <2>1. \A i \in Filled(b) : i \in Idx
    BY DEF Filled
  <2> QED
    BY <1>1, <1>3, <1>5, <2>1
<1> QED
  BY <1>2, <1>4, <1>5, <1>6 DEF id

\* Every step keeps the shards of one pending block to one generation: this
\* is where the wrap-around of block_id matters.
LEMMA OriginStep ==
  ASSUME BaseInv, OriginInv, IdsReturnLate, [Next]_vars
  PROVE  OriginInv'
<1>0. sent \in Seq(SentType) /\ Len(sent) \in Nat /\ Gens = 1 .. Len(sent)
  BY DEF BaseInv, TypeOK, Gens
<1>1. ASSUME NEW buf \in Seq(Nat), Flush(buf), pending' = pending
      PROVE  OriginInv'
  <2> DEFINE blk == [id |-> block_id, payloads |-> buf, at |-> now]
  <2>1. blk \in SentType /\ sent' = Append(sent, blk)
    BY <1>1 DEF Flush, SentType, BaseInv, TypeOK
  <2>2. /\ Len(sent') = Len(sent) + 1
        /\ \A g \in 1 .. Len(sent) : sent'[g] = sent[g]
    BY <1>0, <2>1, AppendFacts
  <2>3. Gens \subseteq Gens' /\ \A g \in Gens : sent'[g] = sent[g]
    BY <1>0, <2>2 DEF Gens
  <2> QED
    BY <1>1, <2>3, OriginKept
<1>2. ASSUME UNCHANGED <<sent, pending>> PROVE OriginInv'
  BY <1>2, OriginKept DEF Gens
<1>3. CASE Submit
  <2>1. Append(buffer, submitted + 1) \in Seq(Nat)
    BY AppendFacts DEF BaseInv, TypeOK
  <2> QED
    BY <1>1, <1>2, <1>3, <2>1 DEF Submit, receiverVars
<1>4. CASE FlushPartial
  BY <1>1, <1>4 DEF FlushPartial, receiverVars, BaseInv, TypeOK
<1>5. ASSUME NEW s \in net, ReceiveShard(s) PROVE OriginInv'
  <2> DEFINE id == sent[s.gen].id
             b == Insert(Entry(id), s.idx, s.gen)
  <2>1. /\ pending' = [pending EXCEPT ![id] = Retained(b)]
        /\ sent' = sent
    BY <1>5 DEF ReceiveShard, senderVars
  <2>2. /\ \A i \in Filled(b) : b.shards[i] = s.gen
        /\ sent[s.gen].at <= b.created
        /\ b.created <= sent[s.gen].at + MaxTransit
    BY ReceiveOrigin
  <2>3. s.gen \in Gens /\ id \in Ids /\ now \in Nat
    BY ShardFacts DEF BaseInv, TypeOK
  <2>4. Gens' = Gens
    BY <2>1 DEF Gens
  <2> SUFFICES ASSUME NEW k \in Ids, NEW i \in Filled(pending'[k])
               PROVE  LET g == pending'[k].shards[i]
                      IN /\ g \in Gens
                         /\ sent[g].id = k
                         /\ sent[g].at <= pending'[k].created
                         /\ pending'[k].created <= sent[g].at + MaxTransit
                         /\ \A j \in Filled(pending'[k]) :
                              pending'[k].shards[j] = g
    <3> HIDE DEF id, b
    <3> QED
      BY <2>1, <2>4 DEF OriginInv, Filled
  <2>5. CASE k # id
    <3>1. pending'[k] = pending[k]
      BY <2>1, <2>5 DEF BaseInv, TypeOK
    <3> QED
      BY <3>1 DEF OriginInv
  <2>6. CASE k = id
    <3>1. pending'[k] = Retained(b)
      BY <2>1, <2>3, <2>6 DEF BaseInv, TypeOK
    <3>2. Retained(b) = b
      BY <2>3, <3>1, EmptyBlocks DEF Retained
    <3> HIDE DEF b
    <3> QED
      BY <2>2, <2>3, <2>6, <3>1, <3>2
  <2> QED
    BY <2>5, <2>6
<1>6. ASSUME NEW s \in net, Lose(s) PROVE OriginInv'
  BY <1>2, <1>6 DEF Lose, senderVars, receiverVars
<1>7. ASSUME NEW s \in net, Duplicate(s) PROVE OriginInv'
  BY <1>2, <1>7 DEF Duplicate, senderVars, receiverVars
<1>8. CASE ExpireOld
  <2>1. /\ pending' = [id \in Ids |-> IF Stale(id) THEN NoBlock ELSE pending[id]]
        /\ sent' = sent /\ Gens' = Gens
    BY <1>8 DEF ExpireOld, senderVars, Gens
  <2>2. Filled(NoBlock) = {}
    BY EmptyBlocks DEF BaseInv, TypeOK
  <2>3. \A k \in Ids : Filled(pending'[k]) # {} => pending'[k] = pending[k]
    BY <2>1, <2>2
  <2> QED
    BY <2>1, <2>3 DEF OriginInv, Filled
<1>9. CASE Tick
  BY <1>2, <1>9 DEF Tick, senderVars, receiverVars
<1>10. CASE UNCHANGED vars
  BY <1>2, <1>10 DEF vars
<1>11. CASE RestartSender
  BY <1>2, <1>11 DEF RestartSender, receiverVars
<1> QED
  BY <1>3, <1>4, <1>5, <1>6, <1>7, <1>8, <1>9, <1>10, <1>11 DEF Next

\* At the start no block is pending.
LEMMA OriginInit == Init => OriginInv
BY EmptyBlocks DEF Init, OriginInv

\* Where ids wrap slowly enough the inductive invariant holds throughout.
THEOREM IInvSpec == IdsReturnLate /\ Spec => []IInv
<1> SUFFICES ASSUME IdsReturnLate PROVE Spec => []IInv
  OBVIOUS
<1>1. Init => IInv
  BY BaseInit, OriginInit DEF IInv
<1>2. IInv /\ [Next]_vars => IInv'
  BY BaseStep, OriginStep DEF IInv
<1> QED
  BY <1>1, <1>2, PTL DEF Spec

\* On every link on which ids wrap slowly enough, the shards of two blocks
\* never meet in a pending block, although FecReceiver compares nothing but
\* the 16-bit id and does not remember the blocks it has reconstructed.
THEOREM NoMix == IdsReturnLate /\ Spec => []BlocksDoNotMix
<1> SUFFICES ASSUME IdsReturnLate PROVE Spec => []BlocksDoNotMix
  OBVIOUS
<1>1. IInv => BlocksDoNotMix
  <2> SUFFICES ASSUME IInv, NEW s \in net, NEW i \in Idx,
                      pending[sent[s.gen].id].shards[i] # NoShard
               PROVE  pending[sent[s.gen].id].shards[i] = s.gen
    BY DEF BlocksDoNotMix, Sources
  <2> QED
    BY NoMixing DEF IInv, Filled
<1>2. Spec => []IInv
  BY IInvSpec
<1> QED
  BY <1>1, <1>2, PTL

----------------------------------------------------------------------------
(* Reconstruction gives back the block *)

\* The n-th of the first k slots is slot n - 1.
LEMMA NthOfPrefix ==
  ASSUME NEW k \in Nat, NEW n \in 1 .. k
  PROVE  Nth(0 .. k - 1, n) = n - 1
<1>1. \A i \in 0 .. k - 1 : {j \in 0 .. k - 1 : j < i} = 0 .. i - 1
  OBVIOUS
<1>2. \A i \in 0 .. k - 1 : Cardinality(0 .. i - 1) = i
  BY FS_Interval
<1>3. \A i \in 0 .. k - 1 :
        Cardinality({j \in 0 .. k - 1 : j < i}) = n - 1 <=> i = n - 1
  BY <1>1, <1>2
<1>4. n - 1 \in 0 .. k - 1
  OBVIOUS
<1> QED
  BY <1>3, <1>4 DEF Nth

\* From shards of one block, PendingBlock::reconstruct returns the payloads
\* of that block and nothing else.
LEMMA ReconstructOne ==
  ASSUME NEW block, NEW g \in Gens, Sources(block) = {g},
         \A i \in Idx : block.shards[i] \in {g, NoShard},
         sent[g].payloads \in Seq(Nat),
         Len(sent[g].payloads) \in 1 .. DataShards
  PROVE  Reconstruct(block) = {sent[g].payloads}
<1> DEFINE p == sent[g].payloads
           k == Len(p)
           slot == [i \in Slots |-> SlotOf(g, i)]
<1>1. Cardinality(Sources(block)) = 1
  BY FS_Singleton
<1>2. \A i \in Slots : Recovered(block, i) = {SlotOf(g, i)}
  <2>1. Slots \subseteq Idx
    BY FecAssumption DEF Slots, Idx, Total
  <2> QED
    BY <1>1, <2>1 DEF Recovered
<1>3. {d \in [Slots -> UNION {Recovered(block, i) : i \in Slots}] :
         \A i \in Slots : d[i] \in Recovered(block, i)} = {slot}
  <2>1. slot \in [Slots -> UNION {Recovered(block, i) : i \in Slots}]
    BY <1>2
  <2> QED
    BY <1>2, <2>1
<1>4. Reconstruct(block) = {Payloads(slot)}
  <2> HIDE DEF slot
  <2> QED
    BY <1>1, <1>3 DEF Reconstruct
<1>5. k \in Nat /\ k <= DataShards /\ p \in Seq(Nat)
  OBVIOUS
<1>6. \A i \in Slots : slot[i] = IF i < k THEN p[i + 1] ELSE Pad
  BY DEF SlotOf
<1>7. {i \in Slots : slot[i] # Pad} = 0 .. k - 1
  <2>1. \A i \in 0 .. k - 1 : p[i + 1] \in Nat
    BY <1>5
  <2> HIDE DEF slot, k, p
  <2>2. \A i \in Slots : i < k <=> i \in 0 .. k - 1
    BY <1>5 DEF Slots
  <2>3. \A i \in Slots : slot[i] # Pad <=> i \in 0 .. k - 1
    BY <1>6, <2>1, <2>2 DEF Pad
  <2>4. 0 .. k - 1 \subseteq Slots
    BY <1>5, FecAssumption DEF Slots
  <2> QED
    BY <2>3, <2>4
<1>8. Cardinality(0 .. k - 1) = k
  BY <1>5, FS_Interval
<1>9. Payloads(slot) = [n \in 1 .. k |-> p[n]]
  <2>1. \A n \in 1 .. k : slot[n - 1] = p[n]
    <3> HIDE DEF slot, k, p
    <3> QED
      BY <1>5, <1>6, FecAssumption DEF Slots
  <2>2. Payloads(slot) = [n \in 1 .. k |-> slot[Nth(0 .. k - 1, n)]]
    <3> HIDE DEF slot, k
    <3> QED
      BY <1>7, <1>8 DEF Payloads
  <2> HIDE DEF slot, k, p
  <2> QED
    BY <1>5, <2>1, <2>2, NthOfPrefix
<1>10. [n \in 1 .. k |-> p[n]] = p
  BY <1>5
<1> QED
  BY <1>4, <1>9, <1>10

----------------------------------------------------------------------------
(* Every shard is accounted for *)

\* A block that holds shards of one generation holds as many as it counts.
LEMMA HeldIsReceived ==
  ASSUME NEW block, NEW g \in Nat \ {0},
         \A i \in Filled(block) : block.shards[i] = g
  PROVE  {i \in Idx : block.shards[i] = g} = Filled(block)
BY DEF Filled, NoShard

\* A fresh block has one shard for every index.
LEMMA ShardsOfCount ==
  ASSUME NEW g
  PROVE  IsFiniteSet(ShardsOf(g)) /\ Cardinality(ShardsOf(g)) = Total
<1> DEFINE f == [i \in Idx |-> [gen |-> g, idx |-> i, copy |-> 0]]
<1>1. IsFiniteSet(Idx) /\ Cardinality(Idx) = Total
  BY FecAssumption, FS_Interval DEF Idx, Total
<1>2. f \in Bijection(Idx, ShardsOf(g))
  <2>1. f \in [Idx -> ShardsOf(g)]
    BY DEF ShardsOf
  <2>2. \A x \in ShardsOf(g) : \E i \in Idx : f[i] = x
    BY DEF ShardsOf
  <2>3. ASSUME NEW i \in Idx, NEW j \in Idx, f[i] = f[j] PROVE i = j
    <3>1. f[i].idx = i /\ f[j].idx = j
      OBVIOUS
    <3> QED
      BY <2>3, <3>1
  <2> HIDE DEF f
  <2> QED
    BY <2>1, <2>2, <2>3 DEF Bijection, Injection, Surjection, IsInjective
<1>3. ExistsBijection(Idx, ShardsOf(g))
  BY <1>2 DEF ExistsBijection
<1> QED
  BY <1>1, <1>3, FS_Bijection

\* What the ledger balance needs to know of one generation.
LEMMA CountTypes ==
  ASSUME BaseInv, LedgerInv, NEW g \in Gens
  PROVE  /\ ledger[g] \in LedgerType
         /\ ledger[g].used \in Nat /\ ledger[g].lost \in Nat
         /\ ledger[g].expired \in Nat /\ ledger[g].ignored \in Nat
         /\ ledger[g].dups \in Nat
         /\ Held(g) \in Nat
         /\ IsFiniteSet(InFlight(g)) /\ Cardinality(InFlight(g)) \in Nat
         /\ dupCount \in Nat /\ dupCount <= MaxDups
         /\ Total = DataShards + ParityShards /\ Total \in Nat
<1>1. ledger[g] \in LedgerType
  BY DEF BaseInv, TypeOK, Gens
<1>2. IsFiniteSet(InFlight(g)) /\ Cardinality(InFlight(g)) \in Nat
  <2>1. InFlight(g) \subseteq net
    BY DEF InFlight
  <2> QED
    BY <2>1, FS_Subset, FS_CardinalityType DEF LedgerInv
<1>3. dupCount \in 0 .. MaxDups
  BY DEF BaseInv, TypeOK
<1> QED
  BY <1>1, <1>2, <1>3, HeldNat, FecAssumption DEF LedgerType, Total

\* At the start there is no block to account for.
LEMMA LedgerInit == Init => LedgerInv
BY FS_EmptySet DEF Init, LedgerInv, Gens

\* FecSender::flush opens an account in which every shard is under way; the
\* id of the new block names no shard that the receiver still holds for it.
LEMMA FlushLedger ==
  ASSUME BaseInv, OriginInv, LedgerInv, NEW buf, Flush(buf),
         UNCHANGED <<now, dupCount, receiverVars>>
  PROVE  LedgerInv'
<1> DEFINE n == Len(sent)
           blk == [id |-> block_id, payloads |-> buf, at |-> now]
<1>0. /\ sent \in Seq(SentType) /\ ledger \in Seq(LedgerType)
      /\ Len(ledger) = n /\ n \in Nat /\ Gens = 1 .. n /\ block_id \in Ids
      /\ dupCount \in Nat
  BY DEF BaseInv, TypeOK, Gens
<1>1. /\ sent' = Append(sent, blk)
      /\ ledger' = Append(ledger, NewLedger)
      /\ net' = net \cup ShardsOf(n + 1)
      /\ pending' = pending /\ dupCount' = dupCount
  BY DEF Flush, receiverVars
<1>2. /\ Len(sent') = n + 1 /\ sent'[n + 1].id = block_id
      /\ \A g \in 1 .. n : sent'[g] = sent[g]
  BY <1>0, <1>1
<1>3. /\ ledger'[n + 1] = NewLedger
      /\ \A g \in 1 .. n : ledger'[g] = ledger[g]
  <2>1. NewLedger \in LedgerType
    BY DEF NewLedger, LedgerType
  <2> QED
    BY <1>0, <1>1, <2>1, AppendFacts
<1> HIDE DEF n, blk
<1>4. /\ \A s \in net : s.gen \in 1 .. n
      /\ \A s \in ShardsOf(n + 1) : s.gen = n + 1 /\ s.copy = 0
  BY <1>0 DEF BaseInv, TypeOK, ShardType, ShardsOf
<1>5. IsFiniteSet(net')
  BY <1>1, ShardsOfCount, FS_Union DEF LedgerInv
<1>6. \A s \in net' : s.copy <= dupCount'
  BY <1>0, <1>1, <1>4 DEF LedgerInv
<1>7. ASSUME NEW g \in 1 .. n
      PROVE  InFlight(g)' = InFlight(g) /\ Held(g)' = Held(g)
  <2>1. g # n + 1
    BY <1>0
  <2> QED
    BY <1>1, <1>2, <1>4, <2>1 DEF InFlight, Held
<1>8. ASSUME NEW g \in Nat, g = n + 1
      PROVE  InFlight(g)' = ShardsOf(g)
  <2>1. g \notin 1 .. n
    BY <1>0, <1>8
  <2>2. {s \in net' : s.gen = g} = ShardsOf(g)
    BY <1>1, <1>4, <1>8, <2>1
  <2> QED
    BY <2>2 DEF InFlight
<1>9. ASSUME NEW g \in Nat, g = n + 1
      PROVE  Held(g)' = 0
  <2>1. \A i \in Idx : pending[block_id].shards[i] # g
    <3> SUFFICES ASSUME NEW i \in Idx, pending[block_id].shards[i] = g
                 PROVE  FALSE
      OBVIOUS
    <3>1. i \in Filled(pending[block_id])
      BY <1>0, <1>9 DEF Filled, NoShard
    <3>2. g \in 1 .. n
      BY <1>0, <3>1 DEF OriginInv
    <3> QED
      BY <1>0, <1>9, <3>2
  <2>2. {i \in Idx : pending'[sent'[g].id].shards[i] = g} = {}
    BY <1>1, <1>2, <1>9, <2>1
  <2> QED
    BY <2>2, FS_EmptySet DEF Held
<1>10. Gens' = 1 .. n + 1
  BY <1>2 DEF Gens
<1>11. ASSUME NEW g \in 1 .. n + 1
       PROVE  /\ ledger'[g].used + ledger'[g].lost + ledger'[g].expired
                   + ledger'[g].ignored + Held(g)' + Cardinality(InFlight(g)')
                 = Total + ledger'[g].dups
              /\ ledger'[g].dups <= dupCount'
              /\ ledger'[g].used \in {0, DataShards}
  <2>1. CASE g \in 1 .. n
    BY <1>0, <1>1, <1>3, <1>7, <2>1 DEF LedgerInv
  <2>2. CASE g = n + 1
    <3>1. Held(g)' = 0
      BY <1>0, <1>9, <2>2
    <3>2. Cardinality(InFlight(g)') = Total
      BY <1>0, <1>8, <2>2, ShardsOfCount
    <3>3. /\ ledger'[g].used = 0 /\ ledger'[g].lost = 0
          /\ ledger'[g].expired = 0 /\ ledger'[g].ignored = 0
          /\ ledger'[g].dups = 0
      BY <1>3, <2>2 DEF NewLedger
    <3>4. Total \in Nat
      BY FecAssumption DEF Total
    <3> QED
      BY <1>0, <1>1, <3>1, <3>2, <3>3, <3>4
  <2> QED
    BY <1>0, <2>1, <2>2
<1> QED
  BY <1>5, <1>6, <1>10, <1>11 DEF LedgerInv

\* A shard leaves the network.
LEMMA ShardLeaves ==
  ASSUME BaseInv, LedgerInv, NEW s \in net, net' = net \ {s},
         NEW g \in Gens
  PROVE  /\ IsFiniteSet(net')
         /\ g # s.gen => InFlight(g)' = InFlight(g)
         /\ g = s.gen => /\ Cardinality(InFlight(g)')
                             = Cardinality(InFlight(g)) - 1
                         /\ Cardinality(InFlight(g)) >= 1
<1>1. IsFiniteSet(net')
  BY FS_RemoveElement DEF LedgerInv
<1>2. ASSUME g # s.gen PROVE InFlight(g)' = InFlight(g)
  BY <1>2 DEF InFlight
<1>3. ASSUME g = s.gen
      PROVE  /\ Cardinality(InFlight(g)') = Cardinality(InFlight(g)) - 1
             /\ Cardinality(InFlight(g)) >= 1
  <2>1. InFlight(g)' = InFlight(g) \ {s} /\ s \in InFlight(g)
    BY <1>3 DEF InFlight
  <2>2. IsFiniteSet(InFlight(g)) /\ Cardinality(InFlight(g)) \in Nat
    BY CountTypes
  <2>3. Cardinality(InFlight(g)) # 0
    BY <2>1, <2>2, FS_EmptySet
  <2>4. Cardinality(InFlight(g) \ {s}) = Cardinality(InFlight(g)) - 1
    BY <2>1, <2>2, FS_RemoveElement
  <2> QED
    BY <2>1, <2>2, <2>3, <2>4
<1> QED
  BY <1>1, <1>2, <1>3

\* A generation whose shards are not touched.
LEMMA BalanceKept ==
  ASSUME LedgerInv, NEW g \in Gens, ledger'[g] = ledger[g],
         Held(g)' = Held(g), InFlight(g)' = InFlight(g),
         dupCount \in Nat, dupCount' \in Nat, dupCount <= dupCount',
         ledger[g].dups \in Nat
  PROVE  /\ ledger'[g].used + ledger'[g].lost + ledger'[g].expired
              + ledger'[g].ignored + Held(g)' + Cardinality(InFlight(g)')
            = Total + ledger'[g].dups
         /\ ledger'[g].dups <= dupCount'
         /\ ledger'[g].used \in {0, DataShards}
BY DEF LedgerInv

\* A lost shard moves from the network to the losses of its block.
LEMMA LoseLedger ==
  ASSUME BaseInv, LedgerInv, NEW s \in net, Lose(s)
  PROVE  LedgerInv'
<1>1. /\ net' = net \ {s}
      /\ ledger' = [ledger EXCEPT ![s.gen].lost = @ + 1]
      /\ UNCHANGED <<sent, pending, dupCount>>
  BY DEF Lose, senderVars, receiverVars
<1>2. /\ Gens' = Gens /\ s.gen \in Gens /\ Gens = 1 .. Len(ledger)
      /\ ledger \in Seq(LedgerType) /\ dupCount \in Nat
  BY <1>1, ShardFacts DEF BaseInv, TypeOK, Gens
<1>3. ASSUME NEW g \in Gens
      PROVE  /\ ledger'[g].used + ledger'[g].lost + ledger'[g].expired
                  + ledger'[g].ignored + Held(g)' + Cardinality(InFlight(g)')
                = Total + ledger'[g].dups
             /\ ledger'[g].dups <= dupCount'
             /\ ledger'[g].used \in {0, DataShards}
  <2>1. Held(g)' = Held(g)
    BY <1>1 DEF Held
  <2>2. CASE g # s.gen
    <3>1. ledger'[g] = ledger[g]
      BY <1>1, <1>2, <2>2
    <3>2. InFlight(g)' = InFlight(g) /\ ledger[g].dups \in Nat
      BY <1>1, <2>2, ShardLeaves, CountTypes
    <3>3. dupCount' \in Nat /\ dupCount <= dupCount'
      BY <1>1, <1>2
    <3> QED
      BY <1>2, <2>1, <3>1, <3>2, <3>3, BalanceKept
  <2>3. CASE g = s.gen
    <3>1. ledger'[g] = [ledger[g] EXCEPT !.lost = @ + 1]
      BY <1>1, <1>2, <2>3
    <3>2. /\ ledger'[g].used = ledger[g].used
          /\ ledger'[g].lost = ledger[g].lost + 1
          /\ ledger'[g].expired = ledger[g].expired
          /\ ledger'[g].ignored = ledger[g].ignored
          /\ ledger'[g].dups = ledger[g].dups
      BY <3>1, CountTypes DEF LedgerType
    <3>3. Cardinality(InFlight(g)') = Cardinality(InFlight(g)) - 1
      BY <1>1, <2>3, ShardLeaves
    <3>4. /\ ledger[g].used + ledger[g].lost + ledger[g].expired
               + ledger[g].ignored + Held(g) + Cardinality(InFlight(g))
             = Total + ledger[g].dups
          /\ ledger[g].dups <= dupCount
          /\ ledger[g].used \in {0, DataShards}
      BY DEF LedgerInv
    <3> QED
      BY <1>1, <2>1, <3>2, <3>3, <3>4, CountTypes
  <2> QED
    BY <2>2, <2>3
<1>4. IsFiniteSet(net') /\ \A x \in net' : x.copy <= dupCount'
  BY <1>1, FS_RemoveElement DEF LedgerInv
<1> QED
  BY <1>2, <1>3, <1>4 DEF LedgerInv

\* A copy adds one shard under way and one duplicate to its block.
LEMMA DuplicateLedger ==
  ASSUME BaseInv, LedgerInv, NEW s \in net, Duplicate(s)
  PROVE  LedgerInv'
<1> DEFINE c == [s EXCEPT !.copy = dupCount + 1]
<1>1. /\ net' = net \cup {c}
      /\ ledger' = [ledger EXCEPT ![s.gen].dups = @ + 1]
      /\ dupCount' = dupCount + 1
      /\ UNCHANGED <<sent, pending>>
  BY DEF Duplicate, senderVars, receiverVars
<1>2. /\ Gens' = Gens /\ s.gen \in Gens /\ Gens = 1 .. Len(ledger)
      /\ ledger \in Seq(LedgerType) /\ dupCount \in Nat
  BY <1>1, ShardFacts DEF BaseInv, TypeOK, Gens
<1>3. c.gen = s.gen /\ c.copy = dupCount + 1
  BY DEF BaseInv, TypeOK, ShardType
<1>4. \A x \in net : x.copy <= dupCount /\ x.copy \in Nat
  <2>1. \A x \in net : x \in ShardType
    BY DEF BaseInv, TypeOK
  <2>2. \A x \in net : x.copy \in Nat
    BY <2>1, FecAssumption DEF ShardType
  <2> QED
    BY <2>2 DEF LedgerInv
<1> HIDE DEF c
<1>5. c \notin net
  BY <1>2, <1>3, <1>4
<1>6. IsFiniteSet(net') /\ \A x \in net' : x.copy <= dupCount'
  <2>1. IsFiniteSet(net')
    BY <1>1, FS_AddElement DEF LedgerInv
  <2> QED
    BY <1>1, <1>2, <1>3, <1>4, <2>1
<1>7. ASSUME NEW g \in Gens
      PROVE  /\ ledger'[g].used + ledger'[g].lost + ledger'[g].expired
                  + ledger'[g].ignored + Held(g)' + Cardinality(InFlight(g)')
                = Total + ledger'[g].dups
             /\ ledger'[g].dups <= dupCount'
             /\ ledger'[g].used \in {0, DataShards}
  <2>1. Held(g)' = Held(g)
    BY <1>1 DEF Held
  <2>2. CASE g # s.gen
    <3>1. ledger'[g] = ledger[g]
      BY <1>1, <1>2, <2>2
    <3>2. InFlight(g)' = InFlight(g)
      BY <1>1, <1>3, <2>2 DEF InFlight
    <3>3. dupCount' \in Nat /\ dupCount <= dupCount' /\ ledger[g].dups \in Nat
      BY <1>1, <1>2, CountTypes
    <3> QED
      BY <1>2, <2>1, <3>1, <3>2, <3>3, BalanceKept
  <2>3. CASE g = s.gen
    <3>1. ledger'[g] = [ledger[g] EXCEPT !.dups = @ + 1]
      BY <1>1, <1>2, <2>3
    <3>2. /\ ledger'[g].used = ledger[g].used
          /\ ledger'[g].lost = ledger[g].lost
          /\ ledger'[g].expired = ledger[g].expired
          /\ ledger'[g].ignored = ledger[g].ignored
          /\ ledger'[g].dups = ledger[g].dups + 1
      BY <3>1, CountTypes DEF LedgerType
    <3>3. Cardinality(InFlight(g)') = Cardinality(InFlight(g)) + 1
      <4>1. InFlight(g)' = InFlight(g) \cup {c} /\ c \notin InFlight(g)
        BY <1>1, <1>3, <1>5, <2>3 DEF InFlight
      <4> QED
        BY <4>1, CountTypes, FS_AddElement
    <3>4. /\ ledger[g].used + ledger[g].lost + ledger[g].expired
               + ledger[g].ignored + Held(g) + Cardinality(InFlight(g))
             = Total + ledger[g].dups
          /\ ledger[g].dups <= dupCount
          /\ ledger[g].used \in {0, DataShards}
      BY DEF LedgerInv
    <3> QED
      BY <1>1, <2>1, <3>2, <3>3, <3>4, CountTypes
  <2> QED
    BY <2>2, <2>3
<1> QED
  BY <1>2, <1>6, <1>7 DEF LedgerInv

\* expire_old moves all shards held of a stale block to its expired ones.
LEMMA ExpireLedger ==
  ASSUME BaseInv, LedgerInv, ExpireOld
  PROVE  LedgerInv'
<1>1. /\ pending' = [id \in Ids |-> IF Stale(id) THEN NoBlock ELSE pending[id]]
      /\ ledger' = [g \in Gens |->
                      IF Stale(sent[g].id)
                      THEN [ledger[g] EXCEPT !.expired = @ + Held(g)]
                      ELSE ledger[g]]
      /\ UNCHANGED <<sent, net, dupCount>>
  BY DEF ExpireOld, senderVars
<1>2. Gens' = Gens /\ \A g \in Gens : g # 0
  BY <1>1 DEF Gens
<1>3. ASSUME NEW g \in Gens
      PROVE  /\ ledger'[g].used + ledger'[g].lost + ledger'[g].expired
                  + ledger'[g].ignored + Held(g)' + Cardinality(InFlight(g)')
                = Total + ledger'[g].dups
             /\ ledger'[g].dups <= dupCount'
             /\ ledger'[g].used \in {0, DataShards}
  <2>0. sent[g].id \in Ids
    <3>1. sent[g] \in SentType
      BY DEF BaseInv, TypeOK, Gens
    <3> QED
      BY <3>1 DEF SentType
  <2>1. InFlight(g)' = InFlight(g)
    BY <1>1 DEF InFlight
  <2>2. CASE ~Stale(sent[g].id)
    <3>1. ledger'[g] = ledger[g]
      BY <1>1, <2>2
    <3>2. Held(g)' = Held(g)
      BY <1>1, <2>0, <2>2 DEF Held
    <3> QED
      BY <1>1, <2>1, <3>1, <3>2, CountTypes, BalanceKept
  <2>3. CASE Stale(sent[g].id)
    <3>1. ledger'[g] = [ledger[g] EXCEPT !.expired = @ + Held(g)]
      BY <1>1, <2>3
    <3>2. /\ ledger'[g].used = ledger[g].used
          /\ ledger'[g].lost = ledger[g].lost
          /\ ledger'[g].expired = ledger[g].expired + Held(g)
          /\ ledger'[g].ignored = ledger[g].ignored
          /\ ledger'[g].dups = ledger[g].dups
      BY <3>1, CountTypes DEF LedgerType
    <3>3. Held(g)' = 0
      <4>1. pending'[sent'[g].id] = NoBlock
        BY <1>1, <2>0, <2>3
      <4>2. {i \in Idx : pending'[sent'[g].id].shards[i] = g} = {}
        BY <1>2, <4>1 DEF NoBlock, NoShard
      <4> QED
        BY <4>2, FS_EmptySet DEF Held
    <3>4. /\ ledger[g].used + ledger[g].lost + ledger[g].expired
               + ledger[g].ignored + Held(g) + Cardinality(InFlight(g))
             = Total + ledger[g].dups
          /\ ledger[g].dups <= dupCount
          /\ ledger[g].used \in {0, DataShards}
      BY DEF LedgerInv
    <3> QED
      BY <1>1, <2>1, <3>2, <3>3, <3>4, CountTypes
  <2> QED
    BY <2>2, <2>3
<1> QED
  BY <1>1, <1>2, <1>3 DEF LedgerInv

\* The shards that are left when a block has been used are too few for
\* another block.
LEMMA TooFewLeft ==
  ASSUME LeftoversAreFew,
         NEW l \in Nat, NEW e \in Nat, NEW i \in Nat, NEW f \in Nat,
         NEW d \in Nat, NEW c \in Nat, d <= c, c <= MaxDups, f >= 1,
         NEW u, NEW hd, NEW t,
         u = DataShards, hd = DataShards - 1, t = DataShards + ParityShards,
         u + l + e + i + hd + f = t + d
  PROVE  FALSE
<1>1. DataShards + l + e + i + (DataShards - 1) + f
        = DataShards + ParityShards + d
  OBVIOUS
<1> QED
  BY <1>1, FecAssumption DEF LeftoversAreFew

\* A shard that moves from the network to a pending block keeps the sum.
LEMMA MoveOne ==
  ASSUME NEW u \in Nat, NEW l \in Nat, NEW e \in Nat, NEW i \in Nat,
         NEW h \in Nat, NEW f \in Nat, NEW sum,
         u + l + e + i + h + f = sum
  PROVE  u + l + e + i + (h + 1) + (f - 1) = sum
OBVIOUS

\* A shard arrives: it is ignored, held, or completes the block, which then
\* is the first block completed for its generation.
LEMMA ReceiveLedger ==
  ASSUME BaseInv, OriginInv, LedgerInv, IdsReturnLate, LeftoversAreFew,
         NEW s \in net, ReceiveShard(s),
         NEW id, id = sent[s.gen].id,
         NEW b, b = Insert(Entry(id), s.idx, s.gen)
  PROVE  /\ LedgerInv'
         /\ Complete(b) => ledger[s.gen].used = 0
         /\ Complete(b) => ledger'[s.gen].used = DataShards
         /\ ~Complete(b) => ledger'[s.gen].used = ledger[s.gen].used
         /\ \A g \in Gens : g # s.gen => ledger'[g] = ledger[g]
         /\ Sources(b) = {s.gen}
<1> DEFINE h == s.gen
           taken == Entry(id).shards[s.idx] # NoShard
           completes == Complete(b) /\ Sources(b) = {h}
<1>1. /\ h \in Gens /\ h \in Nat \ {0} /\ s.idx \in Idx /\ id \in Ids
  BY ShardFacts
<1>2. /\ net' = net \ {s}
      /\ pending' = [pending EXCEPT ![id] = Retained(b)]
      /\ ledger' = [ledger EXCEPT ![h] = Credit(ledger[h], taken, completes)]
      /\ sent' = sent /\ dupCount' = dupCount
  BY DEF ReceiveShard, senderVars
<1>3. /\ pending \in [Ids -> BlockType] /\ ledger \in Seq(LedgerType)
      /\ Gens = 1 .. Len(ledger) /\ Gens' = Gens /\ now \in Nat
      /\ dupCount \in Nat
  BY <1>2 DEF BaseInv, TypeOK, Gens
<1>4. /\ Entry(id) \in BlockType
      /\ Entry(id).received = Cardinality(Filled(Entry(id)))
      /\ Entry(id).received < DataShards
      /\ Filled(Entry(id)) = Filled(pending[id])
      /\ Filled(pending[id]) # {} => Entry(id) = pending[id]
  BY <1>1, EntryFacts DEF BaseInv
<1>5. /\ b \in BlockType
      /\ b.received = Cardinality(Filled(b))
      /\ Filled(b) = Filled(pending[id]) \cup {s.idx}
      /\ s.idx \in Filled(pending[id]) => b = Entry(id)
      /\ s.idx \notin Filled(pending[id]) => b.received = Entry(id).received + 1
  BY <1>1, <1>4, InsertFacts
<1>6. \A i \in Filled(b) : b.shards[i] = h
  BY ReceiveOrigin
<1>7. \A i \in Filled(pending[id]) : pending[id].shards[i] = h
  BY NoMixing
<1>8. Sources(b) = {h}
  <2>1. s.idx \in Filled(b) /\ b.shards[s.idx] = h
    BY <1>5, <1>6
  <2> QED
    BY <1>1, <1>6, <2>1 DEF Sources, Filled, NoShard
<1>9. taken <=> s.idx \in Filled(pending[id])
  BY <1>1, <1>4 DEF Filled
<1>10. completes <=> Complete(b)
  BY <1>8
<1>11. /\ b.received \in Nat /\ Entry(id).received \in Nat
       /\ Entry(id).received = pending[id].received
  <2>1. pending[id].received = Cardinality(Filled(pending[id]))
    BY <1>1 DEF BaseInv, PendingInv
  <2> QED
    BY <1>4, <1>5, <2>1, FilledFinite
<1>12. pending'[id] = Retained(b)
  BY <1>1, <1>2, <1>3
<1>13. Held(h) = pending[id].received
  <2>1. {i \in Idx : pending[id].shards[i] = h} = Filled(pending[id])
    BY <1>1, <1>7, HeldIsReceived
  <2> QED
    BY <1>1, <2>1 DEF Held, BaseInv, PendingInv
<1>14. Held(h)' = IF Complete(b) THEN 0 ELSE b.received
  <2>1. CASE Complete(b)
    <3>1. pending'[sent'[h].id] = NoBlock
      BY <1>2, <1>12, <2>1 DEF Retained
    <3>2. {i \in Idx : pending'[sent'[h].id].shards[i] = h} = {}
      BY <1>1, <3>1 DEF NoBlock, NoShard
    <3>3. Held(h)' = Cardinality({i \in Idx : pending'[sent'[h].id].shards[i] = h})
      BY <1>2 DEF Held
    <3> QED
      BY <2>1, <3>2, <3>3, FS_EmptySet
  <2>2. CASE ~Complete(b)
    <3>1. pending'[sent'[h].id] = b
      BY <1>2, <1>12, <2>2 DEF Retained
    <3>2. {i \in Idx : b.shards[i] = h} = Filled(b)
      BY <1>1, <1>6, HeldIsReceived
    <3> QED
      BY <1>5, <2>2, <3>1, <3>2 DEF Held
  <2> QED
    BY <2>1, <2>2
<1>15. /\ ledger[h] \in LedgerType
       /\ ledger'[h] = Credit(ledger[h], taken, completes)
       /\ \A g \in Gens : g # h => ledger'[g] = ledger[g]
  BY <1>1, <1>2, <1>3
<1>16. /\ ledger'[h].used = IF Complete(b) THEN ledger[h].used + DataShards
                            ELSE ledger[h].used
       /\ ledger'[h].ignored = IF s.idx \in Filled(pending[id])
                               THEN ledger[h].ignored + 1
                               ELSE ledger[h].ignored
       /\ ledger'[h].lost = ledger[h].lost
       /\ ledger'[h].expired = ledger[h].expired
       /\ ledger'[h].dups = ledger[h].dups
  <2> HIDE DEF taken, completes
  <2> QED
    BY <1>9, <1>10, <1>15, CreditType
<1> HIDE DEF h, taken, completes
<1>17. /\ IsFiniteSet(net')
       /\ Cardinality(InFlight(h)') = Cardinality(InFlight(h)) - 1
       /\ Cardinality(InFlight(h)) >= 1
  BY <1>1, <1>2, ShardLeaves DEF h
<1>18. /\ ledger[h].used + ledger[h].lost + ledger[h].expired
            + ledger[h].ignored + Held(h) + Cardinality(InFlight(h))
          = Total + ledger[h].dups
       /\ ledger[h].dups <= dupCount
       /\ ledger[h].used \in {0, DataShards}
  BY <1>1 DEF LedgerInv
<1>19. /\ ledger[h].used \in Nat /\ ledger[h].lost \in Nat
       /\ ledger[h].expired \in Nat /\ ledger[h].ignored \in Nat
       /\ ledger[h].dups \in Nat /\ Cardinality(InFlight(h)) \in Nat
       /\ dupCount <= MaxDups
       /\ Total = DataShards + ParityShards
  BY <1>1, CountTypes
<1>20. Complete(b) => /\ s.idx \notin Filled(pending[id])
                      /\ Held(h) = DataShards - 1
                      /\ b.received = DataShards
  BY <1>4, <1>5, <1>11, <1>13, FecAssumption DEF Complete
<1>21. Complete(b) => ledger[h].used = 0
  <2> SUFFICES ASSUME Complete(b), ledger[h].used = DataShards PROVE FALSE
    BY <1>18
  <2> DEFINE l == ledger[h].lost
             e == ledger[h].expired
             i == ledger[h].ignored
             f == Cardinality(InFlight(h))
             d == ledger[h].dups
  <2>1. /\ l \in Nat /\ e \in Nat /\ i \in Nat /\ f \in Nat /\ d \in Nat
        /\ dupCount \in Nat /\ d <= dupCount /\ dupCount <= MaxDups
        /\ f >= 1
    BY <1>3, <1>17, <1>18, <1>19
  <2>2. /\ ledger[h].used = DataShards /\ Held(h) = DataShards - 1
        /\ Total = DataShards + ParityShards
    BY <1>19, <1>20
  <2>3. ledger[h].used + l + e + i + Held(h) + f = Total + d
    BY <1>18
  <2> HIDE DEF l, e, i, f, d
  <2> QED
    BY <2>1, <2>2, <2>3, TooFewLeft
<1>22. /\ ledger'[h].used + ledger'[h].lost + ledger'[h].expired
            + ledger'[h].ignored + Held(h)' + Cardinality(InFlight(h)')
          = Total + ledger'[h].dups
       /\ ledger'[h].dups <= dupCount'
       /\ ledger'[h].used \in {0, DataShards}
  <2>1. CASE Complete(b)
    BY <1>2, <1>14, <1>16, <1>17, <1>18, <1>19, <1>20, <1>21, <2>1, FecAssumption
  <2>2. CASE ~Complete(b) /\ s.idx \in Filled(pending[id])
    <3>1. Held(h)' = Held(h)
      BY <1>5, <1>11, <1>13, <1>14, <2>2
    <3>2. Held(h) \in Nat
      BY <1>11, <1>13
    <3> QED
      BY <1>2, <1>16, <1>17, <1>18, <1>19, <2>2, <3>1, <3>2, FecAssumption
  <2>3. CASE ~Complete(b) /\ s.idx \notin Filled(pending[id])
    <3>1. Held(h)' = Held(h) + 1
      BY <1>5, <1>11, <1>13, <1>14, <2>3
    <3>2. Held(h) \in Nat
      BY <1>11, <1>13
    <3>3. /\ ledger'[h].used = ledger[h].used
          /\ ledger'[h].ignored = ledger[h].ignored
      BY <1>16, <2>3
    <3>4. Cardinality(InFlight(h)') = Cardinality(InFlight(h)) - 1
      BY <1>17
    <3> QED
      BY <1>2, <1>16, <1>18, <1>19, <3>1, <3>2, <3>3, <3>4, MoveOne
  <2> QED
    BY <2>1, <2>2, <2>3
<1>23. ASSUME NEW g \in Gens, g # h
       PROVE  /\ ledger'[g].used + ledger'[g].lost + ledger'[g].expired
                   + ledger'[g].ignored + Held(g)' + Cardinality(InFlight(g)')
                 = Total + ledger'[g].dups
              /\ ledger'[g].dups <= dupCount'
              /\ ledger'[g].used \in {0, DataShards}
  <2>1. Held(g)' = Held(g)
    <3>1. CASE sent[g].id # id
      <4>1. sent[g].id \in Ids
        <5>1. sent[g] \in SentType
          BY DEF BaseInv, TypeOK, Gens
        <5> QED
          BY <5>1 DEF SentType
      <4>2. pending'[sent'[g].id] = pending[sent[g].id]
        BY <1>2, <1>3, <3>1, <4>1
      <4> QED
        BY <1>2, <4>2 DEF Held
    <3>2. CASE sent[g].id = id
      <4>0. g # 0
        BY DEF Gens
      <4>1. {i \in Idx : pending[sent[g].id].shards[i] = g} = {}
        BY <1>7, <1>23, <3>2, <4>0 DEF Filled, NoShard
      <4>2. {i \in Idx : pending'[sent'[g].id].shards[i] = g} = {}
        <5>1. pending'[sent'[g].id] = Retained(b)
          BY <1>2, <1>12, <3>2
        <5>2. \A i \in Idx : b.shards[i] # g
          BY <1>6, <1>23, <4>0 DEF Filled, NoShard
        <5>3. \A i \in Idx : NoBlock.shards[i] # g
          BY <4>0 DEF NoBlock, NoShard
        <5> QED
          BY <5>1, <5>2, <5>3 DEF Retained
      <4> QED
        BY <4>1, <4>2 DEF Held
    <3> QED
      BY <3>1, <3>2
  <2>2. InFlight(g)' = InFlight(g)
    BY <1>2, <1>23, ShardLeaves DEF h
  <2>3. /\ ledger'[g] = ledger[g] /\ ledger[g].dups \in Nat
        /\ dupCount' \in Nat /\ dupCount <= dupCount'
    BY <1>2, <1>3, <1>15, <1>23, CountTypes
  <2> QED
    BY <1>3, <2>1, <2>2, <2>3, BalanceKept
<1>24. \A x \in net' : x.copy <= dupCount'
  BY <1>2 DEF LedgerInv
<1>25. LedgerInv'
  BY <1>3, <1>17, <1>22, <1>23, <1>24 DEF LedgerInv
<1>26. Complete(b) => ledger'[h].used = DataShards
  BY <1>16, <1>21, FecAssumption
<1> QED
  BY <1>8, <1>15, <1>16, <1>21, <1>25, <1>26 DEF h

\* Steps that leave the shards and their accounts alone keep the balance.
LEMMA KeepLedger ==
  ASSUME LedgerInv, UNCHANGED <<sent, net, dupCount, pending, ledger>>
  PROVE  LedgerInv'
BY DEF LedgerInv, Gens, Held, InFlight

\* Every step keeps the balance of shards.
LEMMA LedgerStep ==
  ASSUME IdsReturnLate, LeftoversAreFew, IInv, LedgerInv, [Next]_vars
  PROVE  LedgerInv'
<1> USE DEF IInv
<1>1. CASE Submit
  <2>1. CASE Flush(Append(buffer, submitted + 1))
    BY <1>1, <2>1, FlushLedger DEF Submit
  <2>2. CASE UNCHANGED <<block_id, boot, sent, net, ledger>>
    BY <1>1, <2>2, KeepLedger DEF Submit, receiverVars
  <2> QED
    BY <1>1, <2>1, <2>2 DEF Submit
<1>2. CASE FlushPartial
  BY <1>2, FlushLedger DEF FlushPartial
<1>3. ASSUME NEW s \in net, ReceiveShard(s) PROVE LedgerInv'
  BY <1>3, ReceiveLedger
<1>4. ASSUME NEW s \in net, Lose(s) PROVE LedgerInv'
  BY <1>4, LoseLedger
<1>5. ASSUME NEW s \in net, Duplicate(s) PROVE LedgerInv'
  BY <1>5, DuplicateLedger
<1>6. CASE ExpireOld
  BY <1>6, ExpireLedger
<1>7. CASE Tick
  BY <1>7, KeepLedger DEF Tick, senderVars, receiverVars
<1>8. CASE UNCHANGED vars
  BY <1>8, KeepLedger DEF vars
<1>9. CASE RestartSender
  BY <1>9, KeepLedger DEF RestartSender, receiverVars
<1> QED
  BY <1>1, <1>2, <1>3, <1>4, <1>5, <1>6, <1>7, <1>8, <1>9 DEF Next

\* Every shard that FecSender cuts, and every copy the network makes of it,
\* is under way, held by the receiver, or was used, lost, expired or ignored;
\* and of no block enough shards are used to reconstruct it twice.
THEOREM Accounted ==
  IdsReturnLate /\ LeftoversAreFew /\ Spec => [](IInv /\ LedgerInv)
<1> SUFFICES ASSUME IdsReturnLate, LeftoversAreFew
             PROVE  Spec => [](IInv /\ LedgerInv)
  OBVIOUS
<1>1. Init => LedgerInv
  BY LedgerInit
<1>2. IInv /\ LedgerInv /\ [Next]_vars => LedgerInv'
  BY LedgerStep
<1>3. Spec => []IInv
  BY IInvSpec
<1> QED
  BY <1>1, <1>2, <1>3, PTL DEF Spec

----------------------------------------------------------------------------
(* What is handed on *)

\* A shard that completes a block completes the block it was cut from.
LEMMA ReceiveReconstructs ==
  ASSUME IInv, IdsReturnLate, NEW s \in net,
         NEW b, b = Insert(Entry(sent[s.gen].id), s.idx, s.gen)
  PROVE  Reconstruct(b) = {sent[s.gen].payloads}
<1> DEFINE h == s.gen
<1>0. BaseInv /\ OriginInv
  BY DEF IInv
<1>1. h \in Gens /\ h \in Nat \ {0} /\ s.idx \in Idx
  BY <1>0, ShardFacts
<1>2. /\ \A i \in Filled(b) : b.shards[i] = h
      /\ s.idx \in Filled(b)
  BY <1>0, ReceiveOrigin
<1>3. \A i \in Idx : b.shards[i] \in {h, NoShard}
  BY <1>2 DEF Filled
<1>4. Sources(b) = {h}
  BY <1>1, <1>2, <1>3 DEF Sources, Filled, NoShard
<1>5. sent[h].payloads \in Seq(Nat) /\ Len(sent[h].payloads) \in 1 .. DataShards
  <2>1. sent[h] \in SentType
    BY <1>0, <1>1 DEF BaseInv, TypeOK, Gens
  <2>2. Len(sent[h].payloads) \in 1 .. DataShards
    BY <1>0, <1>1 DEF BaseInv, SentInv
  <2> QED
    BY <2>1, <2>2 DEF SentType
<1> HIDE DEF h
<1>6. Reconstruct(b) = {sent[h].payloads}
  BY <1>1, <1>3, <1>4, <1>5, ReconstructOne
<1> QED
  BY <1>6 DEF h

\* Where ids wrap slowly enough, every step of the receiver that hands
\* payloads to route_data hands on the payloads of one block, whole and in
\* order, even if the network duplicates shards at will.
THEOREM OnlyWholeBlocks == IdsReturnLate /\ Spec => WholeBlocks
<1> SUFFICES ASSUME IdsReturnLate PROVE Spec => WholeBlocks
  OBVIOUS
<1>1. ASSUME IInv, [Next]_vars, routed' # routed
      PROVE  \E g \in Gens : routed' = routed \o sent[g].payloads
  <2>1. PICK s \in net : ReceiveShard(s)
    <3>1. Submit \/ FlushPartial \/ ExpireOld \/ RestartSender \/ Tick
            \/ UNCHANGED vars => routed' = routed
      BY DEF Submit, FlushPartial, ExpireOld, RestartSender, Tick, vars, receiverVars
    <3>2. \A s \in net : Lose(s) \/ Duplicate(s) => routed' = routed
      BY DEF Lose, Duplicate, receiverVars
    <3> QED
      BY <1>1, <3>1, <3>2 DEF Next
  <2> DEFINE b == Insert(Entry(sent[s.gen].id), s.idx, s.gen)
  <2>2. \E out \in Reconstruct(b) : routed' = routed \o out
    BY <1>1, <2>1 DEF ReceiveShard
  <2>3. Reconstruct(b) = {sent[s.gen].payloads}
    BY <1>1, ReceiveReconstructs
  <2>4. s.gen \in Gens
    BY <1>1, ShardFacts DEF IInv
  <2> HIDE DEF b
  <2> QED
    BY <2>2, <2>3, <2>4
<1>2. IInv /\ [Next]_vars =>
        [routed' # routed =>
           \E g \in Gens : routed' = routed \o sent[g].payloads]_vars
  BY <1>1
<1>3. Spec => []IInv
  BY IInvSpec
<1> QED
  BY <1>2, <1>3, PTL DEF Spec, WholeBlocks

----------------------------------------------------------------------------
(* The link implements the channel *)

Blocks == [g \in Gens |-> sent[g].payloads]

\* Closing a block appends it to the blocks of the channel.
LEMMA FlushCloses ==
  ASSUME BaseInv, NEW buf \in Seq(Nat), Flush(buf)
  PROVE  Blocks' = Append(Blocks, buf) /\ Done' = Done
<1> DEFINE n == Len(sent)
           blk == [id |-> block_id, payloads |-> buf, at |-> now]
<1>1. /\ sent \in Seq(SentType) /\ ledger \in Seq(LedgerType)
      /\ Len(ledger) = n /\ n \in Nat /\ Gens = 1 .. n
  BY DEF BaseInv, TypeOK, Gens
<1>2. blk \in SentType
  BY DEF BaseInv, TypeOK, SentType
<1>3. sent' = Append(sent, blk) /\ ledger' = Append(ledger, NewLedger)
  BY DEF Flush
<1>4. /\ Gens' = 1 .. n + 1
      /\ \A g \in 1 .. n : sent'[g] = sent[g]
      /\ sent'[n + 1] = blk
  BY <1>1, <1>2, <1>3, AppendFacts DEF Gens
<1>5. NewLedger \in LedgerType /\ NewLedger.used = 0
  BY DEF NewLedger, LedgerType
<1>6. /\ \A g \in 1 .. n : ledger'[g] = ledger[g]
      /\ ledger'[n + 1] = NewLedger
  BY <1>1, <1>3, <1>5, AppendFacts
<1>7. Done' = Done
  BY <1>1, <1>4, <1>5, <1>6 DEF Done
<1>8. /\ Blocks \in Seq(Seq(Nat)) /\ Len(Blocks) = n
  <2>1. \A g \in 1 .. n : sent[g] \in SentType
    BY <1>1
  <2>2. \A g \in 1 .. n : sent[g].payloads \in Seq(Nat)
    BY <2>1 DEF SentType
  <2> QED
    BY <1>1, <2>2 DEF Blocks
<1>9. /\ Append(Blocks, buf) \in Seq(Seq(Nat))
      /\ Len(Append(Blocks, buf)) = n + 1
      /\ \A g \in 1 .. n : Append(Blocks, buf)[g] = Blocks[g]
      /\ Append(Blocks, buf)[n + 1] = buf
  BY <1>8, AppendFacts
<1>10. Blocks' = [g \in 1 .. n + 1 |-> sent'[g].payloads]
  BY <1>4 DEF Blocks
<1>11. Append(Blocks, buf) = [g \in 1 .. n + 1 |-> Append(Blocks, buf)[g]]
  <2> DEFINE longer == Append(Blocks, buf)
  <2> HIDE DEF longer
  <2>1. longer \in Seq(Seq(Nat)) /\ Len(longer) = n + 1
    BY <1>9 DEF longer
  <2>2. longer = [g \in 1 .. n + 1 |-> longer[g]]
    BY <2>1
  <2> QED
    BY <2>2 DEF longer
<1>12. \A g \in 1 .. n + 1 : sent'[g].payloads = Append(Blocks, buf)[g]
  <2>1. \A g \in 1 .. n : Blocks[g] = sent[g].payloads
    BY <1>1 DEF Blocks
  <2>2. blk.payloads = buf
    OBVIOUS
  <2> HIDE DEF blk
  <2> QED
    BY <1>1, <1>4, <1>9, <2>1, <2>2
<1> QED
  BY <1>7, <1>10, <1>11, <1>12

\* A step that changes neither the sender nor the payloads handed on nor the
\* number of shards used is no step of the channel.
LEMMA ChannelStutters ==
  ASSUME UNCHANGED <<submitted, buffer, sent, routed>>, Done' = Done
  PROVE  UNCHANGED <<submitted, buffer, Blocks, routed, Done>>
BY DEF Blocks, Gens

\* A shard arrives: nothing, or its block is handed on for the first time.
LEMMA ReceiveHandsOn ==
  ASSUME IInv, LedgerInv, IdsReturnLate, LeftoversAreFew,
         NEW s \in net, ReceiveShard(s)
  PROVE  /\ UNCHANGED <<submitted, buffer, Blocks>>
         /\ \/ routed' = routed /\ Done' = Done
            \/ /\ s.gen \notin Done
               /\ routed' = routed \o sent[s.gen].payloads
               /\ Done' = Done \cup {s.gen}
<1> DEFINE h == s.gen
           id == sent[h].id
           b == Insert(Entry(id), s.idx, h)
<1>0. BaseInv /\ OriginInv
  BY DEF IInv
<1>1. h \in Gens /\ h \in Nat \ {0}
  BY <1>0, ShardFacts
<1>2. /\ Complete(b) => ledger[h].used = 0
      /\ Complete(b) => ledger'[h].used = DataShards
      /\ ~Complete(b) => ledger'[h].used = ledger[h].used
      /\ \A g \in Gens : g # h => ledger'[g] = ledger[g]
      /\ Sources(b) = {h}
  BY <1>0, ReceiveLedger
<1>3. /\ UNCHANGED <<submitted, buffer, sent>>
      /\ \/ Complete(b) /\ \E out \in Reconstruct(b) : routed' = routed \o out
         \/ ~Complete(b) /\ UNCHANGED routed
  BY DEF ReceiveShard, senderVars
<1>4. Gens' = Gens /\ UNCHANGED Blocks
  BY <1>3 DEF Gens, Blocks
<1>7. Reconstruct(b) = {sent[h].payloads}
  BY ReceiveReconstructs
<1> HIDE DEF b, h, id
<1>8. CASE Complete(b)
  <2>1. h \notin Done
    BY <1>2, <1>8 DEF Done
  <2>2. routed' = routed \o sent[h].payloads
    BY <1>3, <1>7, <1>8
  <2>3. ledger'[h].used > 0
    BY <1>2, <1>8, FecAssumption
  <2>4. Done' = Done \cup {h}
    BY <1>1, <1>2, <1>4, <2>3 DEF Done
  <2> QED
    BY <1>3, <1>4, <2>1, <2>2, <2>4 DEF h
<1>9. CASE ~Complete(b)
  <2>1. \A g \in Gens : ledger'[g].used = ledger[g].used
    BY <1>2, <1>9
  <2>2. Done' = Done
    BY <1>4, <2>1 DEF Done
  <2> QED
    BY <1>3, <1>4, <1>9, <2>2
<1> QED
  BY <1>8, <1>9

\* Every step of the link is a step of the channel or changes nothing in it.
LEMMA ChannelStep ==
  ASSUME IdsReturnLate, LeftoversAreFew, IInv, LedgerInv, [Next]_vars
  PROVE  [Channel!Next]_(Channel!vars)
<1>0. BaseInv /\ Len(Blocks) = Len(sent)
  <2>1. BaseInv /\ Len(sent) \in Nat
    BY DEF IInv, BaseInv, TypeOK
  <2> QED
    BY <2>1 DEF Blocks, Gens
<1> USE DEF Channel!Next, Channel!vars, Blocks
<1>1. CASE Submit
  <2> DEFINE buf == Append(buffer, submitted + 1)
  <2>0. buf \in Seq(Nat)
    BY <1>0, AppendFacts DEF BaseInv, TypeOK
  <2>1. CASE Flush(buf)
    <3>1. Blocks' = Append(Blocks, buf) /\ Done' = Done
      BY <1>0, <2>0, <2>1, FlushCloses
    <3>2. /\ submitted' = submitted + 1 /\ buffer' = <<>> /\ routed' = routed
      BY <1>1, <2>1 DEF Submit, Flush, receiverVars
    <3>3. Channel!AcceptAndClose
      BY <3>1, <3>2 DEF Channel!AcceptAndClose
    <3> QED
      BY <3>3
  <2>2. CASE buffer' = buf /\ UNCHANGED <<block_id, boot, sent, net, ledger>>
    <3>1. /\ submitted' = submitted + 1 /\ routed' = routed
          /\ Blocks' = Blocks /\ Done' = Done
      BY <1>1, <2>2 DEF Submit, receiverVars, Done, Gens
    <3>2. Channel!Accept
      BY <2>2, <3>1 DEF Channel!Accept
    <3> QED
      BY <3>2
  <2> QED
    BY <1>1, <2>1, <2>2 DEF Submit
<1>2. CASE FlushPartial
  <2>1. buffer \in Seq(Nat) /\ Flush(buffer)
    BY <1>0, <1>2 DEF BaseInv, TypeOK, FlushPartial
  <2>2. Blocks' = Append(Blocks, buffer) /\ Done' = Done
    BY <1>0, <2>1, FlushCloses
  <2>3. /\ buffer # <<>> /\ buffer' = <<>>
        /\ UNCHANGED <<submitted, routed>>
    BY <1>2 DEF FlushPartial, Flush, receiverVars
  <2>4. Channel!Close
    BY <2>2, <2>3 DEF Channel!Close
  <2> QED
    BY <2>4
<1>3. ASSUME NEW s \in net, ReceiveShard(s)
      PROVE  [Channel!Next]_(Channel!vars)
  <2>1. /\ UNCHANGED <<submitted, buffer, Blocks>>
        /\ \/ routed' = routed /\ Done' = Done
           \/ /\ s.gen \notin Done
              /\ routed' = routed \o sent[s.gen].payloads
              /\ Done' = Done \cup {s.gen}
    BY <1>3, ReceiveHandsOn
  <2>2. s.gen \in Gens /\ Blocks[s.gen] = sent[s.gen].payloads
    BY <1>0, <1>3, ShardFacts
  <2>3. CASE routed' = routed /\ Done' = Done
    BY <2>1, <2>3
  <2>4. CASE /\ s.gen \notin Done
             /\ routed' = routed \o sent[s.gen].payloads
             /\ Done' = Done \cup {s.gen}
    <3>1. Channel!HandOn(s.gen)
      BY <2>1, <2>2, <2>4 DEF Channel!HandOn
    <3> QED
      BY <1>0, <2>2, <3>1 DEF Gens
  <2> QED
    BY <2>1, <2>3, <2>4
<1>4. ASSUME UNCHANGED <<senderVars, routed>>, Done' = Done
      PROVE  UNCHANGED Channel!vars
  BY <1>4, ChannelStutters DEF senderVars
<1>5. ASSUME NEW s \in net, Lose(s) \/ Duplicate(s)
      PROVE  UNCHANGED <<senderVars, routed>> /\ Done' = Done
  <2>1. s.gen \in Gens /\ ledger \in Seq(LedgerType) /\ Gens = 1 .. Len(ledger)
    BY <1>0, <1>5, ShardFacts DEF BaseInv, TypeOK, Gens
  <2>2. ASSUME NEW g \in Gens PROVE ledger'[g].used = ledger[g].used
    <3>1. CASE g # s.gen
      BY <1>5, <2>1, <3>1 DEF Lose, Duplicate
    <3>2. CASE g = s.gen
      <4>1. ledger[g] \in LedgerType
        BY <2>1
      <4>2. \/ ledger'[g] = [ledger[g] EXCEPT !.lost = @ + 1]
            \/ ledger'[g] = [ledger[g] EXCEPT !.dups = @ + 1]
        BY <1>5, <2>1, <3>2 DEF Lose, Duplicate
      <4> QED
        BY <4>1, <4>2 DEF LedgerType
    <3> QED
      BY <3>1, <3>2
  <2>3. UNCHANGED <<senderVars, routed>> /\ Gens' = Gens
    BY <1>5 DEF Lose, Duplicate, receiverVars, senderVars, Gens
  <2> QED
    BY <2>2, <2>3 DEF Done
<1>6. ASSUME ExpireOld
      PROVE  UNCHANGED <<senderVars, routed>> /\ Done' = Done
  <2>1. /\ ledger \in Seq(LedgerType) /\ Gens = 1 .. Len(ledger)
    BY <1>0 DEF BaseInv, TypeOK, Gens
  <2>2. \A g \in Gens : ledger'[g].used = ledger[g].used
    BY <1>6, <2>1 DEF ExpireOld, LedgerType
  <2>3. UNCHANGED <<senderVars, routed>> /\ Gens' = Gens
    BY <1>6 DEF ExpireOld, senderVars, Gens
  <2> QED
    BY <2>2, <2>3 DEF Done
<1>7. ASSUME Tick \/ UNCHANGED vars
      PROVE  UNCHANGED <<senderVars, routed>> /\ Done' = Done
  BY <1>7 DEF Tick, vars, senderVars, receiverVars, Done, Gens
<1>8. CASE RestartSender
  <2>1. /\ buffer' = <<>> /\ Blocks' = Blocks /\ Done' = Done
        /\ UNCHANGED <<submitted, routed>>
    BY <1>8 DEF RestartSender, receiverVars, Done, Gens
  <2>2. buffer # <<>> => Channel!Forget
    BY <2>1 DEF Channel!Forget
  <2> QED
    BY <2>1, <2>2
<1> QED
  BY <1>1, <1>2, <1>3, <1>4, <1>5, <1>6, <1>7, <1>8 DEF Next

\* Whatever the network loses, delays, reorders or duplicates within the two
\* hypotheses, the FEC codec implements the channel: the forwarder at the far
\* end is handed whole blocks of payloads, each block at most once.
THEOREM Refinement ==
  IdsReturnLate /\ LeftoversAreFew /\ Spec => RefinesChannel
<1> SUFFICES ASSUME IdsReturnLate, LeftoversAreFew PROVE Spec => RefinesChannel
  OBVIOUS
<1>1. Init => Channel!Init
  BY DEF Init, Channel!Init, Done, Gens
<1>2. IInv /\ LedgerInv /\ [Next]_vars => [Channel!Next]_(Channel!vars)
  BY ChannelStep
<1>3. Spec => [](IInv /\ LedgerInv)
  BY Accounted
<1> QED
  BY <1>1, <1>2, <1>3, PTL DEF Spec, RefinesChannel, Channel!Spec

----------------------------------------------------------------------------
(* What the link inherits from the channel *)

ChannelFacts == INSTANCE LossyChannelProofs WITH
                  accepted <- submitted,
                  waiting  <- buffer,
                  blocks   <- [g \in Gens |-> sent[g].payloads],
                  handed   <- routed,
                  done     <- Done

\* The channel the link implements is the one that LossyChannelProofs is about.
LEMMA SameChannel == Channel!Spec => ChannelFacts!Spec
<1> USE DEF Blocks
<1>1. Channel!Init => ChannelFacts!Init
  BY DEF Channel!Init, ChannelFacts!Init
<1>2. [Channel!Next]_(Channel!vars) => [ChannelFacts!Next]_(ChannelFacts!vars)
  BY DEF Channel!Next, Channel!vars, Channel!Accept, Channel!AcceptAndClose,
         Channel!Close, Channel!Forget, Channel!HandOn,
         ChannelFacts!Next, ChannelFacts!vars, ChannelFacts!Accept,
         ChannelFacts!AcceptAndClose, ChannelFacts!Close, ChannelFacts!Forget,
         ChannelFacts!HandOn
<1> QED
  BY <1>1, <1>2, PTL DEF Channel!Spec, ChannelFacts!Spec

\* The shards that are left over when a block is reconstructed never make the
\* forwarder hand a payload to route_data a second time, whatever the network
\* loses, delays, reorders or duplicates within the two hypotheses.
THEOREM PayloadsArriveOnce ==
  IdsReturnLate /\ LeftoversAreFew /\ Spec => []DeliveredOnce
<1> SUFFICES ASSUME IdsReturnLate, LeftoversAreFew PROVE Spec => []DeliveredOnce
  OBVIOUS
<1>1. Spec => Channel!Spec
  BY Refinement DEF RefinesChannel
<1>2. Channel!Spec => ChannelFacts!Spec
  BY SameChannel
<1>3. ChannelFacts!Spec => []ChannelFacts!HandedOnce
  BY ChannelFacts!ChannelHandsOnOnce
<1>4. ChannelFacts!HandedOnce => DeliveredOnce
  BY DEF ChannelFacts!HandedOnce, DeliveredOnce
<1> QED
  BY <1>1, <1>2, <1>3, <1>4, PTL
----------------------------------------------------------------------------
(* The Reed-Solomon promise end to end *)

\* The slots of generation g that the receiver holds a shard of.
HeldSlots(g) == {i \in Idx : pending[sent[g].id].shards[i] = g}

\* The slots of generation g of which neither the receiver holds the shard
\* nor the network a datagram.
Gone(g) ==
  {i \in Idx : /\ pending[sent[g].id].shards[i] # g
               /\ \A s \in net : s.gen = g => s.idx # i}

\* While a block is not reconstructed, each of its slots that is gone was lost
\* or expired.
RepairInv ==
  \A g \in Gens :
    ledger[g].used = 0 => Cardinality(Gone(g)) <= ledger[g].lost + ledger[g].expired

\* Sets of slots are finite; a smaller one has fewer elements, and adding to one
\* adds at most the number of elements added.
LEMMA SlotSets ==
  ASSUME NEW S \in SUBSET Idx, NEW T \in SUBSET Idx, NEW U \in SUBSET Idx,
         U \subseteq S \cup T
  PROVE  /\ Cardinality(S) \in Nat /\ Cardinality(T) \in Nat
         /\ Cardinality(U) \in Nat
         /\ Cardinality(U) <= Cardinality(S) + Cardinality(T)
<1>1. IsFiniteSet(Idx)
  BY FecAssumption, FS_Interval DEF Idx, Total
<1>2. IsFiniteSet(S) /\ IsFiniteSet(T) /\ IsFiniteSet(U)
  BY <1>1, FS_Subset
<1>3. /\ IsFiniteSet(S \cup T)
      /\ Cardinality(S \cup T)
           = Cardinality(S) + Cardinality(T) - Cardinality(S \cap T)
  BY <1>2, FS_Union
<1>4. IsFiniteSet(S \cap T)
  BY <1>2, FS_Intersection
<1>5. /\ Cardinality(S) \in Nat /\ Cardinality(T) \in Nat
      /\ Cardinality(U) \in Nat /\ Cardinality(S \cap T) \in Nat
  BY <1>2, <1>4, FS_CardinalityType
<1>6. U \in SUBSET (S \cup T)
  OBVIOUS
<1>7. Cardinality(U) <= Cardinality(S \cup T)
  BY <1>3, <1>6, FS_Subset
<1> QED
  BY <1>3, <1>5, <1>7

\* What RepairInv says of a generation goes on to hold when no slot more is
\* gone, and nothing is taken off the account.
LEMMA RepairKept ==
  ASSUME BaseInv, RepairInv, NEW g \in Gens,
         NEW gone \in SUBSET Gone(g), NEW used \in Nat,
         NEW lost \in Nat, NEW expired \in Nat, used >= ledger[g].used,
         lost >= ledger[g].lost, expired >= ledger[g].expired
  PROVE  used = 0 => Cardinality(gone) <= lost + expired
<1>1. ledger[g] \in LedgerType
  BY DEF BaseInv, TypeOK, Gens
<1>2. /\ ledger[g].used \in Nat /\ ledger[g].lost \in Nat
      /\ ledger[g].expired \in Nat
  BY <1>1 DEF LedgerType
<1>3. Gone(g) \in SUBSET Idx /\ gone \in SUBSET Idx
  BY DEF Gone
<1>4. /\ Cardinality(gone) \in Nat /\ Cardinality(Gone(g)) \in Nat
      /\ Cardinality(gone) <= Cardinality(Gone(g)) + Cardinality({})
  BY <1>3, SlotSets
<1>5. Cardinality({}) = 0
  BY FS_EmptySet
<1>6. ledger[g].used = 0 =>
        Cardinality(Gone(g)) <= ledger[g].lost + ledger[g].expired
  BY DEF RepairInv
<1> QED
  BY <1>2, <1>4, <1>5, <1>6

\* FecSender::flush sends a shard for every slot of the block it closes.
LEMMA FlushRepair ==
  ASSUME BaseInv, RepairInv, NEW buf, Flush(buf), pending' = pending
  PROVE  RepairInv'
<1> DEFINE n == Len(sent)
           blk == [id |-> block_id, payloads |-> buf, at |-> now]
<1>0. /\ sent \in Seq(SentType) /\ ledger \in Seq(LedgerType)
      /\ Len(ledger) = n /\ n \in Nat /\ Gens = 1 .. n
  BY DEF BaseInv, TypeOK, Gens
<1>1. /\ sent' = Append(sent, blk)
      /\ ledger' = Append(ledger, NewLedger)
      /\ net' = net \cup ShardsOf(n + 1)
  BY DEF Flush
<1>2. Len(sent') = n + 1 /\ \A g \in 1 .. n : sent'[g] = sent[g]
  BY <1>0, <1>1
<1>3. /\ ledger'[n + 1] = NewLedger
      /\ \A g \in 1 .. n : ledger'[g] = ledger[g]
  <2>1. NewLedger \in LedgerType
    BY DEF NewLedger, LedgerType
  <2> QED
    BY <1>0, <1>1, <2>1, AppendFacts
<1> HIDE DEF n, blk
<1>4. Gens' = 1 .. n + 1
  BY <1>2 DEF Gens
<1>5. ASSUME NEW g \in 1 .. n
      PROVE  ledger'[g].used = 0 =>
               Cardinality(Gone(g)') <= ledger'[g].lost + ledger'[g].expired
  <2>1. Gone(g)' \in SUBSET Gone(g)
    BY <1>1, <1>2 DEF Gone
  <2>2. ledger[g] \in LedgerType /\ g \in Gens
    BY <1>0
  <2>3. /\ ledger[g].used \in Nat /\ ledger[g].lost \in Nat
        /\ ledger[g].expired \in Nat
    BY <2>2 DEF LedgerType
  <2> QED
    BY <1>3, <2>1, <2>2, <2>3, RepairKept
<1>6. ASSUME NEW g \in Nat, g = n + 1
      PROVE  ledger'[g].used = 0 =>
               Cardinality(Gone(g)') <= ledger'[g].lost + ledger'[g].expired
  <2>1. \A i \in Idx : [gen |-> g, idx |-> i, copy |-> 0] \in net'
    BY <1>1, <1>6 DEF ShardsOf
  <2>2. \A i \in Idx : \E s \in net' : s.gen = g /\ s.idx = i
    BY <2>1
  <2>3. Gone(g)' = {}
    BY <2>2 DEF Gone
  <2>4. ledger'[g].lost = 0 /\ ledger'[g].expired = 0
    BY <1>3, <1>6 DEF NewLedger
  <2> QED
    BY <2>3, <2>4, FS_EmptySet
<1>7. \A g \in Gens' : (g \in 1 .. n \/ g = n + 1) /\ g \in Nat
  BY <1>0, <1>4
<1> QED
  BY <1>5, <1>6, <1>7 DEF RepairInv

\* The slot of a lost shard may be gone, and its loss is counted.
LEMMA LoseRepair ==
  ASSUME BaseInv, RepairInv, NEW s \in net, Lose(s)
  PROVE  RepairInv'
<1>1. /\ net' = net \ {s}
      /\ ledger' = [ledger EXCEPT ![s.gen].lost = @ + 1]
      /\ UNCHANGED <<sent, pending>>
  BY DEF Lose, senderVars, receiverVars
<1>2. /\ Gens' = Gens /\ s.gen \in Gens /\ Gens = 1 .. Len(ledger)
      /\ ledger \in Seq(LedgerType) /\ s.idx \in Idx
  BY <1>1, ShardFacts DEF BaseInv, TypeOK, Gens
<1>3. ASSUME NEW g \in Gens
      PROVE  ledger'[g].used = 0 =>
               Cardinality(Gone(g)') <= ledger'[g].lost + ledger'[g].expired
  <2>0. ledger[g] \in LedgerType
    BY <1>2
  <2>1. /\ ledger[g].used \in Nat /\ ledger[g].lost \in Nat
        /\ ledger[g].expired \in Nat
    BY <2>0 DEF LedgerType
  <2>2. CASE g # s.gen
    <3>1. ledger'[g] = ledger[g]
      BY <1>1, <1>2, <2>2
    <3>2. Gone(g)' \in SUBSET Gone(g)
      BY <1>1, <2>2 DEF Gone
    <3> QED
      BY <2>1, <3>1, <3>2, RepairKept
  <2>3. CASE g = s.gen
    <3>1. ledger'[g] = [ledger[g] EXCEPT !.lost = @ + 1]
      BY <1>1, <1>2, <2>3
    <3>2. /\ ledger'[g].used = ledger[g].used
          /\ ledger'[g].lost = ledger[g].lost + 1
          /\ ledger'[g].expired = ledger[g].expired
      BY <2>0, <3>1 DEF LedgerType
    <3>3. Gone(g)' \subseteq Gone(g) \cup {s.idx}
      BY <1>1 DEF Gone
    <3>4. Gone(g) \in SUBSET Idx /\ Gone(g)' \in SUBSET Idx /\ {s.idx} \in SUBSET Idx
      BY <1>2 DEF Gone
    <3>5. /\ Cardinality(Gone(g)) \in Nat /\ Cardinality(Gone(g)') \in Nat
          /\ Cardinality(Gone(g)') <= Cardinality(Gone(g)) + Cardinality({s.idx})
      BY <3>3, <3>4, SlotSets
    <3>6. Cardinality({s.idx}) = 1
      BY FS_Singleton
    <3>7. ledger[g].used = 0 =>
            Cardinality(Gone(g)) <= ledger[g].lost + ledger[g].expired
      BY DEF RepairInv
    <3> QED
      BY <2>1, <3>2, <3>5, <3>6, <3>7
  <2> QED
    BY <2>2, <2>3
<1> QED
  BY <1>2, <1>3 DEF RepairInv

\* A copy brings no slot to lose.
LEMMA DuplicateRepair ==
  ASSUME BaseInv, RepairInv, NEW s \in net, Duplicate(s)
  PROVE  RepairInv'
<1>1. /\ net \subseteq net'
      /\ ledger' = [ledger EXCEPT ![s.gen].dups = @ + 1]
      /\ UNCHANGED <<sent, pending>>
  BY DEF Duplicate, senderVars, receiverVars
<1>2. /\ Gens' = Gens /\ s.gen \in Gens /\ Gens = 1 .. Len(ledger)
      /\ ledger \in Seq(LedgerType)
  BY <1>1, ShardFacts DEF BaseInv, TypeOK, Gens
<1>3. ASSUME NEW g \in Gens
      PROVE  ledger'[g].used = 0 =>
               Cardinality(Gone(g)') <= ledger'[g].lost + ledger'[g].expired
  <2>0. ledger[g] \in LedgerType
    BY <1>2
  <2>1. /\ ledger[g].used \in Nat /\ ledger[g].lost \in Nat
        /\ ledger[g].expired \in Nat
    BY <2>0 DEF LedgerType
  <2>2. \/ ledger'[g] = ledger[g]
        \/ ledger'[g] = [ledger[g] EXCEPT !.dups = @ + 1]
    BY <1>1, <1>2
  <2>3. /\ ledger'[g].used = ledger[g].used
        /\ ledger'[g].lost = ledger[g].lost
        /\ ledger'[g].expired = ledger[g].expired
    BY <2>0, <2>2 DEF LedgerType
  <2>4. Gone(g)' \in SUBSET Gone(g)
    BY <1>1 DEF Gone
  <2>5. /\ ledger'[g].used \in Nat /\ ledger'[g].used >= ledger[g].used
        /\ ledger'[g].lost \in Nat /\ ledger'[g].lost >= ledger[g].lost
        /\ ledger'[g].expired \in Nat /\ ledger'[g].expired >= ledger[g].expired
    BY <2>1, <2>3
  <2> QED
    BY <2>4, <2>5, RepairKept
<1> QED
  BY <1>2, <1>3 DEF RepairInv

\* FecReceiver::expire_old removes shards, and counts the ones it removes.
LEMMA ExpireRepair ==
  ASSUME BaseInv, RepairInv, ExpireOld
  PROVE  RepairInv'
<1>1. /\ pending' = [id \in Ids |-> IF Stale(id) THEN NoBlock ELSE pending[id]]
      /\ ledger' = [g \in Gens |->
                      IF Stale(sent[g].id)
                      THEN [ledger[g] EXCEPT !.expired = @ + Held(g)]
                      ELSE ledger[g]]
      /\ UNCHANGED <<sent, net>>
  BY DEF ExpireOld, senderVars
<1>2. Gens' = Gens
  BY <1>1 DEF Gens
<1>3. ASSUME NEW g \in Gens
      PROVE  ledger'[g].used = 0 =>
               Cardinality(Gone(g)') <= ledger'[g].lost + ledger'[g].expired
  <2>0. ledger[g] \in LedgerType /\ sent[g] \in SentType
    BY DEF BaseInv, TypeOK, Gens
  <2>1. /\ ledger[g].used \in Nat /\ ledger[g].lost \in Nat
        /\ ledger[g].expired \in Nat /\ sent[g].id \in Ids
    BY <2>0 DEF LedgerType, SentType
  <2>2. CASE ~Stale(sent[g].id)
    <3>1. ledger'[g] = ledger[g]
      BY <1>1, <2>2
    <3>2. pending'[sent'[g].id] = pending[sent[g].id]
      BY <1>1, <2>1, <2>2
    <3>3. Gone(g)' \in SUBSET Gone(g)
      BY <1>1, <3>2 DEF Gone
    <3> QED
      BY <2>1, <3>1, <3>3, RepairKept
  <2>3. CASE Stale(sent[g].id)
    <3>1. ledger'[g] = [ledger[g] EXCEPT !.expired = @ + Held(g)]
      BY <1>1, <2>3
    <3>2. /\ ledger'[g].used = ledger[g].used
          /\ ledger'[g].lost = ledger[g].lost
          /\ ledger'[g].expired = ledger[g].expired + Held(g)
      BY <2>0, <3>1, HeldNat DEF LedgerType
    <3>3. Gone(g)' \subseteq Gone(g) \cup HeldSlots(g)
      BY <1>1 DEF Gone, HeldSlots
    <3>4. /\ Gone(g) \in SUBSET Idx /\ Gone(g)' \in SUBSET Idx
          /\ HeldSlots(g) \in SUBSET Idx
      BY DEF Gone, HeldSlots
    <3>5. /\ Cardinality(Gone(g)) \in Nat /\ Cardinality(Gone(g)') \in Nat
          /\ Cardinality(HeldSlots(g)) \in Nat
          /\ Cardinality(Gone(g)') <= Cardinality(Gone(g)) + Cardinality(HeldSlots(g))
      BY <3>3, <3>4, SlotSets
    <3>6. Held(g) = Cardinality(HeldSlots(g))
      BY DEF Held, HeldSlots
    <3>7. ledger[g].used = 0 =>
            Cardinality(Gone(g)) <= ledger[g].lost + ledger[g].expired
      BY DEF RepairInv
    <3> QED
      BY <2>1, <3>2, <3>5, <3>6, <3>7
  <2> QED
    BY <2>2, <2>3
<1> QED
  BY <1>2, <1>3 DEF RepairInv

\* FecReceiver::receive_shard keeps the shard that arrives until its block is
\* reconstructed, and disturbs no shard of another block.
LEMMA ReceiveRepair ==
  ASSUME BaseInv, OriginInv, IdsReturnLate, RepairInv,
         NEW s \in net, ReceiveShard(s)
  PROVE  RepairInv'
<1> DEFINE h == s.gen
           id == sent[h].id
           b == Insert(Entry(id), s.idx, h)
           taken == Entry(id).shards[s.idx] # NoShard
           completes == Complete(b) /\ Sources(b) = {h}
<1>1. /\ h \in Gens /\ h \in Nat \ {0} /\ s.idx \in Idx /\ id \in Ids
  BY ShardFacts
<1>2. /\ net' = net \ {s}
      /\ pending' = [pending EXCEPT ![id] = Retained(b)]
      /\ ledger' = [ledger EXCEPT ![h] = Credit(ledger[h], taken, completes)]
      /\ sent' = sent
  BY DEF ReceiveShard, senderVars
<1>3. /\ pending \in [Ids -> BlockType] /\ ledger \in Seq(LedgerType)
      /\ Gens = 1 .. Len(ledger) /\ Gens' = Gens
  BY <1>2 DEF BaseInv, TypeOK, Gens
<1>4. /\ \A i \in Filled(b) : b.shards[i] = h
      /\ Filled(b) = Filled(pending[id]) \cup {s.idx}
  BY ReceiveOrigin
<1>5. \A i \in Filled(pending[id]) : pending[id].shards[i] = h
  BY NoMixing
<1>6. Sources(b) = {h}
  BY <1>1, <1>4 DEF Sources, Filled, NoShard
<1>7. /\ ledger'[h] = Credit(ledger[h], taken, completes)
      /\ \A g \in Gens : g # h => ledger'[g] = ledger[g]
      /\ pending'[id] = Retained(b)
      /\ \A x \in Ids : x # id => pending'[x] = pending[x]
  BY <1>1, <1>2, <1>3
<1>8. \A g \in Gens : /\ ledger[g].used \in Nat /\ ledger[g].lost \in Nat
                      /\ ledger[g].expired \in Nat /\ sent[g].id \in Ids
                      /\ g \in Nat \ {0} /\ ledger[g] \in LedgerType
  <2>1. \A g \in Gens : /\ ledger[g] \in LedgerType /\ sent[g] \in SentType
                        /\ g \in Nat \ {0}
    BY DEF BaseInv, TypeOK, Gens
  <2> QED
    BY <2>1 DEF LedgerType, SentType
<1> HIDE DEF taken
<1>9. /\ ledger'[h].used = IF Complete(b) THEN ledger[h].used + DataShards
                           ELSE ledger[h].used
      /\ ledger'[h].lost = ledger[h].lost
      /\ ledger'[h].expired = ledger[h].expired
  <2>1. completes <=> Complete(b)
    BY <1>6
  <2> HIDE DEF completes, b, h, id
  <2> QED
    BY <1>1, <1>7, <1>8, <2>1, CreditType
<1> HIDE DEF completes, b
<1> HIDE DEF id, h
<1>10. ASSUME NEW g \in Gens, g # h
       PROVE  Gone(g)' \in SUBSET Gone(g)
  <2>1. \A x \in net : x.gen = g => x \in net'
    BY <1>2, <1>10 DEF h
  <2>2. \A i \in Idx : pending'[sent[g].id].shards[i] # g
                         => pending[sent[g].id].shards[i] # g
    <3>1. CASE sent[g].id # id
      BY <1>7, <1>8, <3>1
    <3>2. CASE sent[g].id = id
      <4>1. g # 0
        BY <1>8
      <4>2. \A i \in Idx : pending[id].shards[i] # g
        BY <1>5, <1>10, <4>1 DEF Filled, NoShard
      <4> QED
        BY <3>2, <4>2
    <3> QED
      BY <3>1, <3>2
  <2> QED
    BY <1>2, <2>1, <2>2 DEF Gone
<1>11. ASSUME ~Complete(b)
       PROVE  Gone(h)' \in SUBSET Gone(h)
  <2>1. pending'[id] = b /\ sent[h].id = id /\ sent' = sent
    BY <1>2, <1>7, <1>11 DEF Retained, id
  <2>2. b.shards[s.idx] = h
    BY <1>4
  <2>3. \A i \in Idx : b.shards[i] # h => pending[id].shards[i] # h
    <3>1. ASSUME NEW i \in Idx, pending[id].shards[i] = h
          PROVE  b.shards[i] = h
      <4>1. i \in Filled(pending[id])
        BY <1>1, <3>1 DEF Filled, NoShard
      <4> QED
        BY <1>4, <4>1
    <3> QED
      BY <3>1
  <2>4. \A x \in net : x \in net' \/ x = s
    BY <1>2
  <2> SUFFICES ASSUME NEW i \in Idx, b.shards[i] # h,
                      \A x \in net' : x.gen = h => x.idx # i
               PROVE  /\ pending[sent[h].id].shards[i] # h
                      /\ \A x \in net : x.gen = h => x.idx # i
    BY <2>1 DEF Gone
  <2>5. s.idx # i
    BY <2>2
  <2> QED
    BY <2>1, <2>3, <2>4, <2>5
<1>12. ASSUME NEW g \in Gens
       PROVE  ledger'[g].used = 0 =>
                Cardinality(Gone(g)') <= ledger'[g].lost + ledger'[g].expired
  <2>1. CASE g # h
    <3>1. ledger'[g] = ledger[g]
      BY <1>7, <2>1
    <3> QED
      BY <1>8, <1>10, <2>1, <3>1, RepairKept
  <2>2. CASE g = h /\ Complete(b)
    BY <1>8, <1>9, <2>2, FecAssumption
  <2>3. CASE g = h /\ ~Complete(b)
    BY <1>8, <1>9, <1>11, <2>3, RepairKept
  <2> QED
    BY <2>1, <2>2, <2>3
<1> QED
  BY <1>3, <1>12 DEF RepairInv

\* Every step keeps the count of what is gone.
LEMMA RepairStep ==
  ASSUME IdsReturnLate, IInv, RepairInv, [Next]_vars
  PROVE  RepairInv'
<1>0. BaseInv /\ OriginInv
  BY DEF IInv
<1>1. ASSUME UNCHANGED <<sent, net, pending, ledger>>
      PROVE  RepairInv'
  BY <1>1 DEF RepairInv, Gone, Gens
<1>2. CASE Submit
  <2>1. CASE Flush(Append(buffer, submitted + 1))
    BY <1>0, <1>2, <2>1, FlushRepair DEF Submit, receiverVars
  <2>2. CASE UNCHANGED <<block_id, boot, sent, net, ledger>>
    BY <1>1, <1>2, <2>2 DEF Submit, receiverVars
  <2> QED
    BY <1>2, <2>1, <2>2 DEF Submit
<1>3. CASE FlushPartial
  BY <1>0, <1>3, FlushRepair DEF FlushPartial, receiverVars
<1>4. ASSUME NEW s \in net, ReceiveShard(s) PROVE RepairInv'
  BY <1>0, <1>4, ReceiveRepair
<1>5. ASSUME NEW s \in net, Lose(s) PROVE RepairInv'
  BY <1>0, <1>5, LoseRepair
<1>6. ASSUME NEW s \in net, Duplicate(s) PROVE RepairInv'
  BY <1>0, <1>6, DuplicateRepair
<1>7. CASE ExpireOld
  BY <1>0, <1>7, ExpireRepair
<1>8. CASE Tick
  BY <1>1, <1>8 DEF Tick, senderVars, receiverVars
<1>9. CASE RestartSender
  BY <1>1, <1>9 DEF RestartSender, receiverVars
<1>10. CASE UNCHANGED vars
  BY <1>1, <1>10 DEF vars
<1> QED
  BY <1>2, <1>3, <1>4, <1>5, <1>6, <1>7, <1>8, <1>9, <1>10 DEF Next

\* A block none of whose shards is under way, and which is not reconstructed,
\* has fewer than DataShards shards at the receiver; the others are gone.
LEMMA RepairSuffices ==
  ASSUME BaseInv, RepairInv
  PROVE  RecoversUpToParity
<1> SUFFICES ASSUME NEW g \in Gens, ledger[g].used = 0, InFlight(g) = {}
             PROVE  ledger[g].lost + ledger[g].expired > ParityShards
  BY DEF RecoversUpToParity
<1>1. ledger[g] \in LedgerType /\ sent[g] \in SentType /\ g \in Nat \ {0}
  BY DEF BaseInv, TypeOK, Gens
<1>2. /\ ledger[g].lost \in Nat /\ ledger[g].expired \in Nat
      /\ sent[g].id \in Ids
  BY <1>1 DEF LedgerType, SentType
<1>3. Gone(g) \in SUBSET Idx /\ HeldSlots(g) \in SUBSET Idx
  BY DEF Gone, HeldSlots
<1>4. Idx \subseteq Gone(g) \cup HeldSlots(g)
  BY DEF Gone, HeldSlots, InFlight
<1>5. /\ Cardinality(Gone(g)) \in Nat /\ Cardinality(HeldSlots(g)) \in Nat
      /\ Cardinality(Idx) <= Cardinality(Gone(g)) + Cardinality(HeldSlots(g))
  BY <1>3, <1>4, SlotSets
<1>6. Cardinality(Idx) = DataShards + ParityShards
  BY FecAssumption, FS_Interval DEF Idx, Total
<1>7. Cardinality(HeldSlots(g)) < DataShards
  <2> DEFINE filled == Filled(pending[sent[g].id])
  <2>1. filled \in SUBSET Idx /\ HeldSlots(g) \subseteq filled \cup {}
    BY <1>1 DEF HeldSlots, Filled, NoShard
  <2>2. Cardinality(filled) < DataShards
    BY <1>2 DEF BaseInv, PendingInv
  <2> HIDE DEF filled
  <2>3. /\ Cardinality(HeldSlots(g)) <= Cardinality(filled) + Cardinality({})
        /\ Cardinality(filled) \in Nat
    BY <1>3, <2>1, SlotSets
  <2>4. Cardinality({}) = 0
    BY FS_EmptySet
  <2> QED
    BY <1>5, <2>2, <2>3, <2>4, FecAssumption
<1>8. Cardinality(Gone(g)) <= ledger[g].lost + ledger[g].expired
  BY DEF RepairInv
<1> QED
  BY <1>2, <1>5, <1>6, <1>7, <1>8, FecAssumption

\* However shards are lost, duplicated, reordered or expire: a block that the
\* receiver never reconstructs has lost more shards than the parity replaces.
THEOREM ParityRecovers == IdsReturnLate /\ Spec => []RecoversUpToParity
<1> SUFFICES ASSUME IdsReturnLate PROVE Spec => []RecoversUpToParity
  OBVIOUS
<1>1. Init => RepairInv
  BY DEF Init, RepairInv, Gens
<1>2. IInv /\ RepairInv /\ [Next]_vars => RepairInv'
  BY RepairStep
<1>3. IInv /\ RepairInv => RecoversUpToParity
  BY RepairSuffices DEF IInv
<1>4. Spec => []IInv
  BY IInvSpec
<1> QED
  BY <1>1, <1>2, <1>3, <1>4, PTL DEF Spec
=============================================================================
