------------------------------ MODULE FecCodec ------------------------------
(***************************************************************************)
(* Block-level forward error correction on one directed link between two  *)
(* PoPs (src/relay/fec_codec.rs): the FecSender of the sending node, the   *)
(* UDP path, and the FecReceiver of the receiving node, as the forwarders  *)
(* at the two ends drive them (src/relay/forwarder.rs).                    *)
(*                                                                         *)
(* A payload is its submission number.  A shard is identified by the       *)
(* generation (1, 2, 3, ... without wrapping) of the block it was cut      *)
(* from; the 16-bit block_id that the header carries wraps, so the         *)
(* receiver cannot see the generation.  The code is Reed-Solomon: any      *)
(* DataShards shards of one generation give back its payloads; shards of   *)
(* two generations give garbage for the slots that have to be recomputed.  *)
(*                                                                         *)
(* Time is discrete.  One tick is the shortest time in which the sender    *)
(* closes one block, so at most one block is closed per tick.              *)
(***************************************************************************)
EXTENDS Integers, Sequences, FiniteSets

CONSTANTS
  DataShards,    \* FecConfig.data_shards   (N)
  ParityShards,  \* FecConfig.parity_shards (K)
  IdSpace,       \* number of block ids: 2^16 in the code
  MaxAge,        \* age at which expire_old drops a block: 500 ms in the code
  FlushLag,      \* longest time between two runs of a forwarder's flush_fec
  MaxTransit,    \* longest time a datagram stays in the network
  Downtime,      \* shortest time in which a node that stopped is up again
  MaxRestarts,   \* bound: restarts of the sending node
  MaxDups,       \* bound: datagrams the network duplicates
  MaxPayloads,   \* bound: payloads submitted
  LastSubmit,    \* bound: last tick at which a payload is submitted
  Horizon        \* bound: last tick

ASSUME FecAssumption ==
  /\ DataShards \in Nat \ {0}
  /\ ParityShards \in Nat \ {0}
  /\ IdSpace \in Nat \ {0}
  /\ MaxAge \in Nat \ {0}
  /\ FlushLag \in Nat \ {0}
  /\ MaxTransit \in Nat
  /\ Downtime \in Nat
  /\ MaxRestarts \in Nat
  /\ MaxDups \in Nat
  /\ MaxPayloads \in Nat
  /\ LastSubmit \in Nat
  /\ Horizon \in Nat

VARIABLES
  now,         \* the clock
  submitted,   \* number of payloads handed to FecSender::submit so far
  buffer,      \* FecSender.buffer
  oldest,      \* when the first payload of the buffer was submitted
  block_id,    \* FecSender.block_id
  boot,        \* the restarts of the sending node: how many, the number of blocks
               \* closed before the last one, and when it is up again
  sent,        \* history: the blocks closed so far, by generation
  net,         \* datagrams in flight
  dupCount,    \* number of datagrams duplicated so far
  pending,     \* FecReceiver.blocks
  lastExpiry,  \* when the receiver's flush_fec last ran expire_old
  routed,      \* the payloads handed to Forwarder::route_data, in order
  ledger       \* history: what became of the shards of each generation

senderVars   == <<submitted, buffer, oldest, block_id, boot, sent>>
receiverVars == <<pending, lastExpiry, routed>>
vars == <<now, submitted, buffer, oldest, block_id, boot, sent, net, dupCount,
          pending, lastExpiry, routed, ledger>>

Total == DataShards + ParityShards
Idx   == 0 .. Total - 1        \* shard_idx of the shard header
Slots == 0 .. DataShards - 1   \* the shards that carry payloads
Ids   == 0 .. IdSpace - 1      \* values of block_id
Gens  == 1 .. Len(sent)

Garbage == 0    \* a payload decoded from shards of different blocks
Pad     == -1   \* an all-zero data shard that fills up a partial block
NoShard == 0    \* None in PendingBlock.shards

----------------------------------------------------------------------------
(* FecSender *)

\* Seeded fault: the counter is not reduced to 16 bits.
WrappingAdd_NoWrap(id) == id + 1

\* u16::wrapping_add(1)
WrappingAdd(id) == IF id = IdSpace - 1 THEN 0 ELSE id + 1

NewLedger == [used |-> 0, lost |-> 0, expired |-> 0, ignored |-> 0,
              dups |-> 0]

\* The sending node runs.
Up == boot.up <= now

\* The pacing that defines a tick: one block per tick.
Paced == sent # <<>> => sent[Len(sent)].at < now

ShardsOf(g) == {[gen |-> g, idx |-> i, copy |-> 0] : i \in Idx}

\* FecSender::flush closes the buffered payloads into a block and the
\* forwarder spawns a task that sends every shard.
Flush(buf) ==
  /\ Up
  /\ Paced
  /\ sent' = Append(sent, [id |-> block_id, payloads |-> buf, at |-> now])
  /\ ledger' = Append(ledger, NewLedger)
  /\ net' = net \cup ShardsOf(Len(sent) + 1)
  /\ block_id' = WrappingAdd(block_id)
  /\ buffer' = <<>>
  /\ oldest' = 0
  /\ UNCHANGED boot

\* forward_to: FecSender::submit under the sender's lock.
Submit ==
  /\ Up
  /\ submitted < MaxPayloads
  /\ now <= LastSubmit
  /\ submitted' = submitted + 1
  /\ LET buf == Append(buffer, submitted + 1)
     IN \/ /\ Len(buf) >= DataShards
           /\ Flush(buf)
        \/ /\ Len(buf) < DataShards
           /\ buffer' = buf
           /\ oldest' = IF buffer = <<>> THEN now ELSE oldest
           /\ UNCHANGED <<block_id, boot, sent, net, ledger>>
  /\ UNCHANGED <<now, dupCount, receiverVars>>

\* Seeded fault: a block with a single payload is left for later.
FlushPartial_SkipsSingle ==
  /\ Len(buffer) > 1
  /\ Flush(buffer)
  /\ UNCHANGED <<now, submitted, dupCount, receiverVars>>

\* flush_fec at the sending node: FecSender::flush_partial.
FlushPartial ==
  /\ buffer # <<>>
  /\ Flush(buffer)
  /\ UNCHANGED <<now, submitted, dupCount, receiverVars>>

\* The sending node stops, for whatever reason, and is started again: a new
\* FecSender is made.  The payloads in the buffer are gone.  (That the receiving
\* node restarts is as if the shards it holds had been lost on the way.)
RestartSender ==
  /\ boot.count < MaxRestarts
  /\ boot' = [count |-> boot.count + 1, base |-> Len(sent), up |-> now + Downtime]
  /\ buffer' = <<>>
  /\ oldest' = 0
  /\ block_id' = 0
  /\ UNCHANGED <<now, submitted, sent, net, dupCount, receiverVars, ledger>>

----------------------------------------------------------------------------
(* FecReceiver *)

\* No entry for the block id.
NoBlock == [shards |-> [i \in Idx |-> NoShard], received |-> 0, created |-> 0]

\* PendingBlock::new
NewBlock == [shards |-> [i \in Idx |-> NoShard], received |-> 0,
             created |-> now]

\* HashMap::entry(block_id).or_insert_with(PendingBlock::new)
Entry(id) == IF pending[id].received = 0 THEN NewBlock ELSE pending[id]

\* PendingBlock::insert: a shard whose slot is taken changes nothing.
Insert(block, idx, g) ==
  IF block.shards[idx] # NoShard
  THEN block
  ELSE [block EXCEPT !.shards[idx] = g, !.received = @ + 1]

\* Seeded fault: one shard more than needed is awaited.
Complete_OffByOne(block) == block.received > DataShards

\* The result of PendingBlock::insert: enough shards to reconstruct.
Complete(block) == block.received >= DataShards

\* Seeded fault: a reconstructed block stays in the map.
Retained_Kept(block) == block

\* The entry receive_shard leaves behind: it removes a complete block.
Retained(block) == IF Complete(block) THEN NoBlock ELSE block

\* Data shard i of generation g: a payload, or padding of a partial block.
SlotOf(g, i) ==
  IF i < Len(sent[g].payloads) THEN sent[g].payloads[i + 1] ELSE Pad

\* The generations whose shards a block holds.
Sources(block) == {block.shards[i] : i \in Idx} \ {NoShard}

\* What data shard i can hold once reconstruction has filled it in.  A shard
\* computed from two generations is arbitrary bytes, whose length prefix
\* makes it a payload or makes the decoder skip it.
Recovered(block, i) ==
  IF block.shards[i] # NoShard
  THEN {SlotOf(block.shards[i], i)}
  ELSE IF Cardinality(Sources(block)) = 1
       THEN {SlotOf(g, i) : g \in Sources(block)}
       ELSE {Garbage, Pad}

\* The n-th smallest element of a set of slots.
Nth(S, n) == CHOOSE i \in S : Cardinality({j \in S : j < i}) = n - 1

\* Seeded fault: padding shards are handed on as payloads.
Payloads_KeepPadding(data) == [n \in 1 .. DataShards |-> data[n - 1]]

\* The data shards in order, without the ones whose length prefix is zero.
Payloads(data) ==
  LET kept == {i \in Slots : data[i] # Pad}
  IN [n \in 1 .. Cardinality(kept) |-> data[Nth(kept, n)]]

\* PendingBlock::reconstruct: the payload sequences it may return.  Shards
\* of different generations may differ in size, and are then rejected.
Reconstruct(block) ==
  {Payloads(data) : data \in
     {d \in [Slots -> UNION {Recovered(block, i) : i \in Slots}] :
        \A i \in Slots : d[i] \in Recovered(block, i)}}
  \cup (IF Cardinality(Sources(block)) > 1 THEN {<<>>} ELSE {})

\* The account of a generation when a shard arrives whose slot is taken, or
\* which completes a block of shards of that generation.
Credit(account, taken, completes) ==
  [account EXCEPT !.ignored = IF taken THEN @ + 1 ELSE @,
                  !.used = IF completes THEN @ + DataShards ELSE @]

\* handle_inbound for a DATA or PARITY packet: FecReceiver::receive_shard,
\* then route_data for every payload of a block that it completes.
ReceiveShard(s) ==
  LET id    == sent[s.gen].id
      block == Insert(Entry(id), s.idx, s.gen)
  IN /\ net' = net \ {s}
     /\ pending' = [pending EXCEPT ![id] = Retained(block)]
     /\ \/ /\ Complete(block)
           /\ \E out \in Reconstruct(block) : routed' = routed \o out
        \/ ~Complete(block) /\ UNCHANGED routed
     /\ ledger' =
          [ledger EXCEPT ![s.gen] =
             Credit(@, Entry(id).shards[s.idx] # NoShard,
                    Complete(block) /\ Sources(block) = {s.gen})]
     /\ UNCHANGED <<now, senderVars, dupCount, lastExpiry>>

\* Seeded fault: a block of exactly the maximal age survives.
Stale_OffByOne(id) ==
  pending[id].received > 0 /\ now - pending[id].created > MaxAge

\* Seeded fault: a block that holds a single shard is taken for a new one.
Stale_KeepsSingle(id) ==
  pending[id].received > 1 /\ now - pending[id].created >= MaxAge

\* The blocks expire_old removes.
Stale(id) == pending[id].received > 0 /\ now - pending[id].created >= MaxAge

\* Shards of generation g that the receiver holds in an incomplete block.
Held(g) == Cardinality({i \in Idx : pending[sent[g].id].shards[i] = g})

\* flush_fec at the receiving node: FecReceiver::expire_old.
ExpireOld ==
  /\ pending' = [id \in Ids |-> IF Stale(id) THEN NoBlock ELSE pending[id]]
  /\ lastExpiry' = now
  /\ ledger' = [g \in Gens |->
                  IF Stale(sent[g].id)
                  THEN [ledger[g] EXCEPT !.expired = @ + Held(g)]
                  ELSE ledger[g]]
  /\ UNCHANGED <<now, senderVars, net, dupCount, routed>>

----------------------------------------------------------------------------
(* The network and the clock *)

\* The network loses a datagram (or tunnel.send fails: the error is dropped).
Lose(s) ==
  /\ net' = net \ {s}
  /\ ledger' = [ledger EXCEPT ![s.gen].lost = @ + 1]
  /\ UNCHANGED <<now, senderVars, dupCount, receiverVars>>

\* The network delivers a datagram once more.
Duplicate(s) ==
  /\ dupCount < MaxDups
  /\ dupCount' = dupCount + 1
  /\ net' = net \cup {[s EXCEPT !.copy = dupCount + 1]}
  /\ ledger' = [ledger EXCEPT ![s.gen].dups = @ + 1]
  /\ UNCHANGED <<now, senderVars, receiverVars>>

\* Time passes: not past the life of a datagram, and not past the moments
\* at which the forwarders at the two ends get round to their flush ticks.
Tick ==
  /\ now < Horizon
  /\ \A s \in net : now < sent[s.gen].at + MaxTransit
  /\ now < lastExpiry + FlushLag
  /\ buffer # <<>> => now < oldest + FlushLag
  /\ now' = now + 1
  /\ UNCHANGED <<senderVars, net, dupCount, receiverVars, ledger>>

Init ==
  /\ now = 0
  /\ submitted = 0
  /\ buffer = <<>>
  /\ oldest = 0
  /\ block_id = 0
  /\ boot = [count |-> 0, base |-> 0, up |-> 0]
  /\ sent = <<>>
  /\ net = {}
  /\ dupCount = 0
  /\ pending = [id \in Ids |-> NoBlock]
  /\ lastExpiry = 0
  /\ routed = <<>>
  /\ ledger = <<>>

Next ==
  \/ Submit
  \/ FlushPartial
  \/ \E s \in net : ReceiveShard(s)
  \/ \E s \in net : Lose(s)
  \/ \E s \in net : Duplicate(s)
  \/ ExpireOld
  \/ RestartSender
  \/ Tick

Spec == Init /\ [][Next]_vars

\* The flush tickers of the two forwarders run, datagrams arrive or are lost,
\* and time passes.  Nothing forces a payload to be submitted.
Fairness ==
  /\ WF_vars(FlushPartial)
  /\ WF_vars(\E s \in net : ReceiveShard(s))
  /\ WF_vars(ExpireOld)
  /\ WF_vars(Tick)

FairSpec == Spec /\ Fairness

----------------------------------------------------------------------------
(* What has to hold *)

ShardType  == [gen : Gens, idx : Idx, copy : 0 .. MaxDups]
BlockType  == [shards : [Idx -> Nat], received : 0 .. Total, created : Nat]
LedgerType == [used : Nat, lost : Nat, expired : Nat, ignored : Nat,
               dups : Nat]
SentType   == [id : Ids, payloads : Seq(Nat), at : Nat]

\* Every variable has its type: in particular the id of the next block stays
\* within the 16 bits of FecSender.block_id, and no pending block counts more
\* shards than it has slots.
TypeOK ==
  /\ now \in Nat
  /\ submitted \in Nat
  /\ buffer \in Seq(Nat)
  /\ oldest \in Nat
  /\ block_id \in Ids
  /\ boot \in [count : 0 .. MaxRestarts, base : Nat, up : Nat]
  /\ sent \in Seq(SentType)
  /\ net \subseteq ShardType
  /\ dupCount \in 0 .. MaxDups
  /\ pending \in [Ids -> BlockType]
  /\ lastExpiry \in Nat
  /\ ledger \in Seq(LedgerType)
  /\ Len(ledger) = Len(sent)

\* The longest time for which the receiver may hold a shard of a block or the
\* network one of its datagrams: a shard travels, its block ages and the next
\* flush tick is awaited.
Memory == MaxTransit + MaxAge + FlushLag

\* What the link has to be like for a 16-bit id to name one block at a time:
\* in that time fewer blocks are closed than there are ids, and no node that
\* stopped is up again.
IdsReturnLate ==
  /\ Memory <= IdSpace
  /\ MaxRestarts > 0 => Memory <= Downtime

\* What the parameters have to be like for the shards that arrive after a
\* block was reconstructed not to suffice for a second reconstruction.
LeftoversAreFew == ParityShards + MaxDups < DataShards

\* A shard under way never meets a pending block that holds a shard of
\* another block, although the receiver knows blocks by an id only, which wraps
\* and starts again when the sender does, and keeps the leftovers of blocks it
\* has reconstructed until they expire.
BlocksDoNotMix ==
  \A s \in net : Sources(pending[sent[s.gen].id]) \subseteq {s.gen}

\* No payload is handed to route_data twice: the shards that are left over
\* when a block is reconstructed never complete a second block.
DeliveredOnce ==
  \A m, n \in 1 .. Len(routed) : m # n => routed[m] # routed[n]

InFlight(g) == {s \in net : s.gen = g}

\* The Reed-Solomon promise end to end: once no shard of a block is under
\* way any more, a block that was not reconstructed has seen more than
\* ParityShards of its shards lost in the network or expire at the receiver.
RecoversUpToParity ==
  \A g \in Gens :
    (ledger[g].used = 0 /\ InFlight(g) = {})
      => ledger[g].lost + ledger[g].expired > ParityShards

\* A step that hands on payloads hands on exactly the payloads of one block
\* of the sender, complete and in order of submission: no padding, no bytes
\* computed from two blocks, no part of a block.
WholeBlocks ==
  [][routed' # routed =>
       \E g \in Gens : routed' = routed \o sent[g].payloads]_vars

\* Payload p left the buffer in a block that was handed on, or of which the
\* network and the expiry have taken more shards than the parity can replace.
Settled(p) ==
  \E g \in Gens :
    /\ \E n \in 1 .. Len(sent[g].payloads) : sent[g].payloads[n] = p
    /\ \/ ledger[g].used > 0
       \/ ledger[g].lost + ledger[g].expired > ParityShards

\* Every payload that is submitted leaves the buffer (a partial block is
\* flushed by the ticker) and arrives, or its block is beyond repair, unless the
\* sending node stops.
EveryPayloadSettles ==
  \A p \in 1 .. MaxPayloads : submitted >= p ~> (Settled(p) \/ boot.count > 0)

\* No incomplete block stays for ever: leftovers of a reconstructed block and
\* blocks with too many losses are removed by a later flush tick.
PendingIsTemporary ==
  \A id \in Ids : pending[id].received > 0 ~> pending[id].received = 0

----------------------------------------------------------------------------
(* Why blocks do not mix: the inductive invariant *)

\* Blocks are closed at different ticks, none in the future.
SentInv ==
  /\ \A g \in Gens : /\ sent[g].at <= now
                     /\ Len(sent[g].payloads) \in 1 .. DataShards
  /\ \A g, h \in Gens : g <= h => h - g <= sent[h].at - sent[g].at

\* The buffer never holds a full block.
BufferInv == Len(buffer) < DataShards

\* The blocks closed since the last restart are numbered from 0 on.  The ones
\* from before it are older by the downtime.
BootInv ==
  /\ boot.base <= Len(sent)
  /\ boot.count = 0 => boot.base = 0
  /\ \A g \in Gens : IF g <= boot.base
                     THEN sent[g].at + Downtime <= boot.up
                     ELSE boot.up <= sent[g].at

\* Two blocks with the same id are at least IdSpace blocks apart, or closed at
\* two sides of a restart.  The first part says how far the id counter is from
\* the id of each recent block.
IdInv ==
  /\ \A g \in Gens :
       LET d == Len(sent) + 1 - g
       IN (g > boot.base /\ d <= IdSpace) =>
            IF sent[g].id + d < IdSpace
            THEN block_id = sent[g].id + d
            ELSE block_id = sent[g].id + d - IdSpace
  /\ \A g, h \in Gens :
       (g < h /\ sent[g].id = sent[h].id) =>
         \/ h - g >= IdSpace
         \/ MaxRestarts > 0 /\ sent[g].at + Downtime <= sent[h].at

\* No datagram outlives MaxTransit; the receiver's flush tick is never late.
ClockInv ==
  /\ \A s \in net : now <= sent[s.gen].at + MaxTransit
  /\ lastExpiry <= now
  /\ now <= lastExpiry + FlushLag

Filled(block) == {i \in Idx : block.shards[i] # NoShard}

\* A pending block counts its shards, is short of at least one, and is young
\* enough to have survived the last flush tick.
PendingInv ==
  \A id \in Ids :
    /\ pending[id].received = Cardinality(Filled(pending[id]))
    /\ pending[id].received < DataShards
    /\ pending[id].received > 0 =>
         pending[id].created <= now /\ lastExpiry < pending[id].created + MaxAge

\* The shards of a pending block come from a block with its id, closed
\* before the first of them arrived, and all from the same one.
OriginInv ==
  \A id \in Ids : \A i \in Filled(pending[id]) :
    LET g == pending[id].shards[i]
    IN /\ g \in Gens
       /\ sent[g].id = id
       /\ sent[g].at <= pending[id].created
       /\ pending[id].created <= sent[g].at + MaxTransit
       /\ \A j \in Filled(pending[id]) : pending[id].shards[j] = g

\* The part that is inductive whatever the constants are.
BaseInv ==
  /\ TypeOK
  /\ SentInv
  /\ BufferInv
  /\ BootInv
  /\ IdInv
  /\ ClockInv
  /\ PendingInv

\* The inductive invariant that, where IdsReturnLate holds, gives BlocksDoNotMix.
IInv == BaseInv /\ OriginInv

\* Every shard and every copy of it is accounted for: it is under way, held
\* in a pending block, or was used, lost, expired or ignored.
LedgerInv ==
  /\ IsFiniteSet(net)
  /\ \A s \in net : s.copy <= dupCount
  /\ \A g \in Gens :
       /\ ledger[g].used + ledger[g].lost + ledger[g].expired
            + ledger[g].ignored + Held(g) + Cardinality(InFlight(g))
          = Total + ledger[g].dups
       /\ ledger[g].dups <= dupCount
       /\ ledger[g].used \in {0, DataShards}

----------------------------------------------------------------------------
(* The channel that the link implements *)

\* The blocks the receiver has reconstructed.
Done == {g \in Gens : ledger[g].used > 0}

Channel == INSTANCE LossyChannel WITH
             accepted <- submitted,
             waiting  <- buffer,
             blocks   <- [g \in Gens |-> sent[g].payloads],
             handed   <- routed,
             done     <- Done

\* The link implements a channel that hands on whole blocks, each at most
\* once, in any order, and never anything else.
RefinesChannel == Channel!Spec
=============================================================================
