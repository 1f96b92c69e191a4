------------------------------ MODULE ClaimNode ------------------------------
(***************************************************************************)
(* One node: the claim registry g_claims, the claim index on disk, the     *)
(* block tree with the per-block claim payments (CBlockIndex::nClaims and  *)
(* queuedClaims), the active tip, and the last flushed image of the tree.  *)
(*                                                                         *)
(* Everything that writes the registry holds cs_main, so at most one       *)
(* operation is in progress; `job' is that operation.  The loops of        *)
(* CheckClaims, ConnectBlock and ApplyClaimSet take one action per         *)
(* iteration, so that a crash can fall between two of them.                *)
(***************************************************************************)
EXTENDS Claim, ChainWalk, Sequences

CONSTANTS
  Genesis,        \* the genesis script: change and markers of a coinstake
  OpReturn,       \* any OP_RETURN script
  Bodies,         \* block contents that peers or this node's minter offer
  Gossip,         \* claims that CLAIM messages and queueclaim calls carry
  ClaimSets,      \* signed claim sets that CLAIMSET messages carry
  GenesisKeyHeld, \* this node holds the genesis key (genesis_key_held)
  MaxBlocks       \* bound on the number of blocks this node ever stores

\* A coinstake output.  `queue' is the payload of an OP_RETURN output.
TxOut == [to : Script \cup {Genesis, OpReturn}, value : Nat, queue : SUBSET Nat]

\* The part of a block that the claim rules read: its claims, the outputs of
\* its coinstake after the empty marker vout[0], whether its transactions all
\* spend a genesis output (CheckClaims runs on each of them, and one that is
\* not a coinstake may not spend one during the claim period), and where its
\* time falls in that period.
Body == [vClaim  : Seq(CClaim),
         vout    : Seq(TxOut),
         genesis : BOOLEAN,
         period  : {"early", "btc", "over"}]

ASSUME NodeAssumption ==
  /\ Genesis \notin Script /\ OpReturn \notin Script /\ Genesis # OpReturn
  /\ Bodies \subseteq Body
  /\ Gossip \subseteq CClaim
  /\ ClaimSets \subseteq Seq(CClaim) \ {<<>>}
  /\ GenesisKeyHeld \in BOOLEAN
  /\ MaxBlocks \in Nat

VARIABLES
  mode,    \* "up", "loading" the claim index at startup, or "down"
  claims,  \* g_claims: source -> entry
  index,   \* the claim index database: source -> entry
  written, \* no write to the claim index has failed so far
  blocks,  \* the block tree: id -> parent and contents; 0 is the genesis block
  nClaims, \* CBlockIndex::nClaims: id -> (source -> amount)
  queued,  \* CBlockIndex::queuedClaims: id -> set of snapshot positions
  valid,   \* blocks raised to BLOCK_VALID_SCRIPTS
  failed,  \* blocks marked BLOCK_FAILED_VALID
  dirty,   \* m_dirty_blockindex
  tip,     \* the active tip
  disk,    \* block index and coins tip as last flushed
  job,     \* the operation that holds cs_main
  pending  \* claims still to be loaded at startup

chain == <<blocks, nClaims, queued, valid, failed, dirty, tip>>
vars == <<mode, claims, index, written, chain, disk, job, pending>>

Entry == [target : Script, seen : BOOLEAN, total : Nat]

Ids == 1 .. Len(blocks)

\* An operation that walks over claims only, or over nothing.
OnlyClaims(cs) == [vClaim |-> cs, vout |-> <<>>, genesis |-> FALSE, period |-> "over"]

Idle == [phase |-> "idle", block |-> 0, just |-> FALSE, body |-> OnlyClaims(<<>>),
         k |-> 1, paid |-> EmptyMap, queue |-> {}, todo |-> {}]

-----------------------------------------------------------------------------
(* Reading the chain. *)

Parent == [b \in Ids |-> blocks[b].prev]

\* What each block paid to source s, and in how many outputs.
PaidBy(s) == [b \in Ids |-> IF s \in DOMAIN nClaims[b] THEN nClaims[b][s] ELSE 0]
OutputsBy(s) == [b \in Ids |-> IF s \in DOMAIN nClaims[b] THEN 1 ELSE 0]

\* Claim::GetTotalReceived: the amount and the number of outputs that the
\* branch ending in block b paid to source s.
GetTotalReceived(s, b) == SumUpTo(Parent, PaidBy(s), b)
GetTotalOutputs(s, b) == SumUpTo(Parent, OutputsBy(s), b)

\* Mutant: only the parent is searched for queued positions.
QueuedUpTo_ParentOnly(b) == IF b = 0 THEN {} ELSE queued[b]

\* The snapshot positions queued by the branch ending in block b.
QueuedUpTo(b) == UNION {queued[i] : i \in BranchOf(Parent, b)}

\* max_pos of ConnectBlock, a uint16_t: the last position of the two snapshot
\* maps.
MaxPos == (Cardinality(Compatible) + Cardinality(Incompatible) - 2) % 2^16

-----------------------------------------------------------------------------
Init ==
  /\ mode = "up"
  /\ claims = EmptyMap /\ index = EmptyMap /\ written = TRUE
  /\ blocks = <<>> /\ nClaims = EmptyMap /\ queued = EmptyMap
  /\ valid = {} /\ failed = {} /\ dirty = {} /\ tip = 0
  /\ disk = [blocks |-> <<>>, nClaims |-> EmptyMap, queued |-> EmptyMap,
             valid |-> {}, failed |-> {}, tip |-> 0]
  /\ job = Idle /\ pending = {}

\* cs_main is free and the node runs.
Free == mode = "up" /\ job.phase = "idle"

\* ClaimIndex::AddClaim: the entry is written, or the write fails.
AddClaim(s, e) ==
  \/ index' = Put(index, s, e) /\ UNCHANGED written
  \/ written' = FALSE /\ UNCHANGED index

\* Claim::Insert followed by AddClaim, for a claim received in a message: the
\* claim is registered even when the index write then fails.
Register(c) ==
  LET e == [target |-> c.target, seen |-> FALSE, total |-> 0]
  IN claims' = Put(claims, c.source, e) /\ AddClaim(c.source, e)

\* CLAIM message.  A Bitcoin claim or an invalid one only costs the peer; a
\* claim whose source is known is relayed without being registered again.
ReceiveClaim(c) ==
  /\ Free
  /\ ~IsBtc(c.source) /\ IsValid(c, 0, TRUE)
  /\ IsUnique(claims, c)
  /\ Register(c)
  /\ UNCHANGED <<mode, chain, disk, job, pending>>

\* queueclaim RPC: the electrum verifier accepted the signature.
QueueClaim(c) ==
  /\ Free
  /\ LookupEnabled /\ IsBtc(c.source) /\ Balance[c.source] # 0
  /\ IsValid(c, 0, TRUE)
  /\ IsUnique(claims, c)
  /\ Register(c)
  /\ UNCHANGED <<mode, chain, disk, job, pending>>

-----------------------------------------------------------------------------
(* CLAIMSET message: ApplyClaimSet, one claim per step. *)

StartClaimSet(cs) ==
  /\ Free /\ ~GenesisKeyHeld
  /\ job' = [Idle EXCEPT !.phase = "claimset", !.body = OnlyClaims(cs)]
  /\ UNCHANGED <<mode, claims, index, written, chain, disk, pending>>

\* Go on with the next claim of the set, or return.
Advance(on) == job' = IF on /\ job.k < Len(job.body.vClaim) THEN [job EXCEPT !.k = @ + 1] ELSE Idle

ApplyClaim ==
  /\ job.phase = "claimset"
  /\ LET c == job.body.vClaim[job.k]
         s == c.source
     IN \E electrum \in BOOLEAN :
        \/ \* an invalid claim ends the loop
           /\ ~IsValid(c, 0, electrum)
           /\ Advance(FALSE) /\ UNCHANGED <<claims, index, written>>
        \/ \* unknown source: Insert, then AddClaim
           /\ IsValid(c, 0, electrum) /\ s \notin DOMAIN claims
           /\ IF IsUnique(claims, c)
              THEN LET e == [target |-> c.target, seen |-> TRUE, total |-> 0]
                   IN /\ claims' = Put(claims, s, e)
                      /\ \/ index' = Put(index, s, e) /\ UNCHANGED written /\ Advance(TRUE)
                         \/ written' = FALSE /\ UNCHANGED index /\ Advance(FALSE)
              ELSE Advance(FALSE) /\ UNCHANGED <<claims, index, written>>
        \/ \* known and seen
           /\ IsValid(c, 0, electrum) /\ s \in DOMAIN claims /\ claims[s].seen
           /\ Advance(TRUE) /\ UNCHANGED <<claims, index, written>>
        \/ \* known, not seen: mark it here, then in the index if it is there
           /\ IsValid(c, 0, electrum) /\ s \in DOMAIN claims /\ ~claims[s].seen
           /\ claims' = [claims EXCEPT ![s].seen = TRUE]
           /\ IF s \in DOMAIN index
              THEN \/ index' = [index EXCEPT ![s].seen = TRUE] /\ UNCHANGED written /\ Advance(TRUE)
                   \/ written' = FALSE /\ UNCHANGED index /\ Advance(FALSE)
              ELSE Advance(FALSE) /\ UNCHANGED <<index, written>>
  /\ UNCHANGED <<mode, chain, disk, pending>>

-----------------------------------------------------------------------------
(* Blocks: ConnectBlock with CheckClaims, for real or with fJustCheck. *)

\* A block arrives and is stored on top of block p.
AcceptBlock(p, body) ==
  /\ Free /\ Len(blocks) < MaxBlocks
  /\ blocks' = Append(blocks, [prev |-> p, body |-> body])
  /\ nClaims' = Put(nClaims, Len(blocks) + 1, EmptyMap)
  /\ queued' = Put(queued, Len(blocks) + 1, {})
  /\ dirty' = dirty \cup {Len(blocks) + 1}
  /\ UNCHANGED <<mode, claims, index, written, valid, failed, tip, disk, job, pending>>

\* ConnectTip on a child of the tip that is not known to be invalid.
StartConnect(b) ==
  /\ Free /\ blocks[b].prev = tip /\ b \notin failed
  /\ job' = [Idle EXCEPT !.phase = "start", !.block = b, !.body = blocks[b].body]
  /\ UNCHANGED <<mode, claims, index, written, chain, disk, pending>>

\* TestBlockValidity: the same checks on a block template, nothing stored.
StartTest(body) ==
  /\ Free
  /\ job' = [Idle EXCEPT !.phase = "start", !.just = TRUE, !.body = body]
  /\ UNCHANGED <<mode, claims, index, written, chain, disk, pending>>

\* ConnectBlock returns false: InvalidBlockFound marks a stored block.
Fail ==
  /\ job' = Idle
  /\ IF job.just THEN UNCHANGED <<failed, dirty>>
     ELSE /\ failed' = failed \cup {job.block}
          /\ dirty' = dirty \cup {job.block}

\* A rule that has nothing to do with claims rejects the block, before or
\* after CheckClaims ran on its coinstake.
Reject ==
  /\ job.phase \in {"start", "finish"}
  /\ Fail
  /\ UNCHANGED <<mode, claims, index, written, blocks, nClaims, queued, valid, tip, disk, pending>>

\* CheckClaims up to taking g_claims_mutex.  vout[0] is not in body.vout.
CheckClaims ==
  /\ job.phase = "start"
  /\ LET body == job.body
         allowed == /\ body.period # "over"
                    /\ body.genesis
                    /\ Len(body.vClaim) <= Len(body.vout) + 1 - 2
     IN \/ /\ body.vClaim = <<>>
           /\ job' = [job EXCEPT !.phase = "finish"] /\ UNCHANGED <<failed, dirty>>
        \/ /\ body.vClaim # <<>> /\ allowed
           /\ job' = [job EXCEPT !.phase = "vclaim"] /\ UNCHANGED <<failed, dirty>>
        \/ body.vClaim # <<>> /\ ~allowed /\ Fail
  /\ UNCHANGED <<mode, claims, index, written, blocks, nClaims, queued, valid, tip, disk, pending>>

\* One vClaim entry: it must be valid, it is registered if it is new, and only
\* then is a Bitcoin claim that comes too early refused.
CheckVClaim ==
  /\ job.phase = "vclaim"
  /\ LET c == job.body.vClaim[job.k]
         next == IF job.k < Len(job.body.vClaim) THEN [job EXCEPT !.k = @ + 1]
                 ELSE [job EXCEPT !.phase = "vout", !.k = 1]
     IN \E electrum \in BOOLEAN :
        \/ ~IsValid(c, 0, electrum) /\ Fail /\ UNCHANGED claims
        \/ /\ IsValid(c, 0, electrum)
           /\ claims' = IF IsUnique(claims, c)
                        THEN Put(claims, c.source, [target |-> c.target, seen |-> FALSE, total |-> 0])
                        ELSE claims
           /\ IF IsBtc(c.source) /\ job.body.period = "early"
              THEN Fail
              ELSE job' = next /\ UNCHANGED <<failed, dirty>>
  /\ UNCHANGED <<mode, index, written, blocks, nClaims, queued, valid, tip, disk, pending>>

\* Mutant: "this is the real check" is missing.
CheckClaimEligibility_NoRealCheck(s, v) ==
  LET total   == IF Unchecked(s) THEN 0 ELSE GetTotalReceived(s, tip)
      outputs == IF Unchecked(s) THEN 0 ELSE GetTotalOutputs(s, tip)
  IN /\ s \notin DOMAIN job.paid
     /\ outputs + 1 <= MAX_POSSIBLE_OUTPUTS
     /\ total + v <= MAX_CLAIM_REWARD

\* Mutant: the output that is about to be paid is not counted.
CheckClaimEligibility_OffByOne(s, v) ==
  LET total   == IF Unchecked(s) THEN 0 ELSE GetTotalReceived(s, tip)
      outputs == IF Unchecked(s) THEN 0 ELSE GetTotalOutputs(s, tip)
  IN /\ s \notin DOMAIN job.paid
     /\ outputs <= MAX_POSSIBLE_OUTPUTS
     /\ total + v <= MAX_CLAIM_REWARD
     /\ ~Unchecked(s) => total + v <= GetEligible(s)

\* CheckClaimEligibility for an output of value v to the claim of source s.
\* A claim that this node cannot check starts from zero every time.
CheckClaimEligibility(s, v) ==
  LET total   == IF Unchecked(s) THEN 0 ELSE GetTotalReceived(s, tip)
      outputs == IF Unchecked(s) THEN 0 ELSE GetTotalOutputs(s, tip)
  IN /\ s \notin DOMAIN job.paid
     /\ IsValid([source |-> s, target |-> claims[s].target, good |-> TRUE], claims[s].total, TRUE)
     /\ ~IsBtc(s) => GetEligible(s) > 0 /\ total <= GetEligible(s)
     /\ outputs + 1 <= MAX_POSSIBLE_OUTPUTS
     /\ GenesisKeyHeld => outputs + 1 <= GetMaxOutputs(s)
     /\ total + v <= MAX_CLAIM_REWARD
     /\ ~Unchecked(s) => total + v <= GetEligible(s)

\* One coinstake output.
CheckVOut ==
  /\ job.phase = "vout" /\ job.k <= Len(job.body.vout)
  /\ LET out == job.body.vout[job.k]
         next == [job EXCEPT !.k = @ + 1]
         payees == {s \in DOMAIN claims : claims[s].target = out.to}
         early == job.body.period = "early"
     IN \/ \* a payment to a registered claim
           \E s \in payees :
              IF CheckClaimEligibility(s, out.value)
              THEN job' = [next EXCEPT !.paid = Put(job.paid, s, out.value)] /\ UNCHANGED <<failed, dirty>>
              ELSE Fail
        \/ \* CheckClaimOutputFormat: nothing else may be paid
           payees = {} /\ out.to \notin {Genesis, OpReturn} /\ Fail
        \/ \* change, or an OP_RETURN once Bitcoin claims are accepted
           /\ payees = {} /\ (out.to = Genesis \/ (out.to = OpReturn /\ out.value = 0 /\ ~early))
           /\ job' = next /\ UNCHANGED <<failed, dirty>>
        \/ /\ payees = {} /\ out.to = OpReturn /\ out.value # 0 /\ Fail
        \/ \* an OP_RETURN that queues snapshot positions
           /\ payees = {} /\ out.to = OpReturn /\ out.value = 0 /\ early
           /\ IF out.queue \cap QueuedUpTo(tip) = {}
              THEN job' = [next EXCEPT !.queue = out.queue] /\ UNCHANGED <<failed, dirty>>
              ELSE Fail
  /\ UNCHANGED <<mode, claims, index, written, blocks, nClaims, queued, valid, tip, disk, pending>>

VOutDone ==
  /\ job.phase = "vout" /\ job.k > Len(job.body.vout)
  /\ job' = [job EXCEPT !.phase = "finish"]
  /\ UNCHANGED <<mode, claims, index, written, chain, disk, pending>>

\* The checks of ConnectBlock on the queued positions, the fJustCheck return,
\* and the first write to the block index.
FinishChecks ==
  /\ job.phase = "finish"
  /\ LET ok == (\A q \in job.queue : q <= MaxPos) /\ job.queue \cap QueuedUpTo(tip) = {}
     IN \/ ~ok /\ Fail /\ UNCHANGED queued
        \/ ok /\ job.just /\ job' = Idle /\ UNCHANGED <<queued, failed, dirty>>
        \/ /\ ok /\ ~job.just
           /\ queued' = [queued EXCEPT ![job.block] = job.queue]
           /\ job' = [job EXCEPT !.phase = "record", !.todo = DOMAIN job.paid]
           /\ UNCHANGED <<failed, dirty>>
  /\ UNCHANGED <<mode, claims, index, written, blocks, nClaims, valid, tip, disk, pending>>

\* Mutant: a new valid block is not marked dirty.
ConnectTip_NotDirty ==
  /\ job.phase = "record" /\ job.todo = {}
  /\ tip' = job.block
  /\ valid' = valid \cup {job.block}
  /\ job' = Idle
  /\ UNCHANGED <<mode, claims, index, written, blocks, nClaims, queued, failed, dirty, disk, pending>>

\* One paid claim is recorded in the block index, the registry and the claim
\* index; ConnectBlock ignores whether the last write succeeds.
RecordClaim(s) ==
  /\ job.phase = "record" /\ s \in job.todo
  /\ LET b == job.block
         e == [claims[s] EXCEPT !.seen = TRUE,
                                !.total = GetTotalReceived(s, tip) + job.paid[s]]
     IN /\ nClaims' = [nClaims EXCEPT ![b] = Put(nClaims[b], s, job.paid[s])]
        /\ claims' = [claims EXCEPT ![s] = e]
        /\ AddClaim(s, e)
  /\ job' = [job EXCEPT !.todo = @ \ {s}]
  /\ UNCHANGED <<mode, blocks, queued, valid, failed, dirty, tip, disk, pending>>

\* ConnectBlock returned true: ConnectTip makes the block the tip.  Its index
\* entry is marked dirty only if it was not valid already.
ConnectTip ==
  /\ job.phase = "record" /\ job.todo = {}
  /\ tip' = job.block
  /\ valid' = valid \cup {job.block}
  /\ dirty' = IF job.block \in valid THEN dirty ELSE dirty \cup {job.block}
  /\ job' = Idle
  /\ UNCHANGED <<mode, claims, index, written, blocks, nClaims, queued, failed, disk, pending>>

\* DisconnectTip: the registry, its totals and nClaims stay as they are.
DisconnectTip ==
  /\ Free /\ tip # 0
  /\ tip' = blocks[tip].prev
  /\ UNCHANGED <<mode, claims, index, written, blocks, nClaims, queued, valid, failed, dirty, disk, job, pending>>

-----------------------------------------------------------------------------
(* Persistence, crash and restart. *)

\* FlushStateToDisk writes the dirty block index entries and, on a full
\* flush, also the coins and with them the tip.
Flush(full) ==
  /\ Free
  /\ LET kept(old, new) == [b \in Ids |-> IF b \in dirty THEN new[b] ELSE old[b]]
     IN disk' = [blocks  |-> kept(disk.blocks, blocks),
                 nClaims |-> kept(disk.nClaims, nClaims),
                 queued  |-> kept(disk.queued, queued),
                 valid   |-> (disk.valid \ dirty) \cup (valid \cap dirty),
                 failed  |-> (disk.failed \ dirty) \cup (failed \cap dirty),
                 tip     |-> IF full THEN tip ELSE disk.tip]
  /\ dirty' = {}
  /\ UNCHANGED <<mode, claims, index, written, blocks, nClaims, queued, valid, failed, tip, job, pending>>

\* The process dies; memory is lost.  A fatal error of a write in the middle
\* of ConnectBlock ends in the same state.
Crash ==
  /\ mode # "down"
  /\ mode' = "down"
  /\ claims' = EmptyMap /\ job' = Idle /\ pending' = {} /\ dirty' = {}
  /\ blocks' = disk.blocks /\ nClaims' = disk.nClaims /\ queued' = disk.queued
  /\ valid' = disk.valid /\ failed' = disk.failed /\ tip' = disk.tip
  /\ UNCHANGED <<index, written, disk>>

\* AppInitMain loads the block index, then the claim index.
Restart ==
  /\ mode = "down"
  /\ mode' = "loading" /\ pending' = DOMAIN index
  /\ UNCHANGED <<claims, index, written, chain, disk, job>>

\* Mutant: a stored claim is met twice.
LoadClaim_Twice(s) ==
  /\ mode = "loading" /\ s \in pending
  /\ claims' = Put(claims, s, [index[s] EXCEPT !.total = GetTotalReceived(s, tip)])
  /\ UNCHANGED <<mode, index, written, chain, disk, job, pending>>

\* Insert(ActiveTip()) of one stored claim: nTotalReceived is computed afresh,
\* the signature of a Bitcoin claim is verified afresh, and a claim that
\* cannot be inserted ends the start.
LoadClaim(s) ==
  /\ mode = "loading" /\ s \in pending
  /\ LET c == [source |-> s, target |-> index[s].target, good |-> TRUE]
         total == GetTotalReceived(s, tip)
     IN \E electrum \in BOOLEAN :
        IF IsValid(c, total, electrum) /\ IsUnique(claims, c)
        THEN /\ claims' = Put(claims, s, [index[s] EXCEPT !.total = total])
             /\ pending' = pending \ {s}
             /\ UNCHANGED mode
        ELSE mode' = "down" /\ claims' = EmptyMap /\ pending' = {}
  /\ UNCHANGED <<index, written, chain, disk, job>>

\* The node is up once every stored claim is loaded.
LoadDone ==
  /\ mode = "loading" /\ pending = {}
  /\ mode' = "up"
  /\ UNCHANGED <<claims, index, written, chain, disk, job, pending>>

-----------------------------------------------------------------------------
\* A node that keeps running.
Running ==
  \/ \E c \in Gossip : ReceiveClaim(c) \/ QueueClaim(c)
  \/ \E cs \in ClaimSets : StartClaimSet(cs)
  \/ ApplyClaim
  \/ \E p \in 0 .. Len(blocks), body \in Bodies : AcceptBlock(p, body)
  \/ \E b \in Ids : StartConnect(b)
  \/ \E body \in Bodies : StartTest(body)
  \/ Reject \/ CheckClaims \/ CheckVClaim \/ CheckVOut \/ VOutDone \/ FinishChecks
  \/ \E s \in Script : RecordClaim(s)
  \/ ConnectTip \/ DisconnectTip

\* Flushes, crashes and restarts.
Persistence ==
  \/ \E full \in BOOLEAN : Flush(full)
  \/ Crash \/ Restart
  \/ \E s \in Script : LoadClaim(s)
  \/ LoadDone

Next == Running \/ Persistence

Spec == Init /\ [][Next]_vars

-----------------------------------------------------------------------------
(* Properties. *)

IsMap(m, D, R) == DOMAIN m \subseteq D /\ m \in [DOMAIN m -> R]

JobOK ==
  /\ job = [phase |-> job.phase, block |-> job.block, just |-> job.just, body |-> job.body,
            k |-> job.k, paid |-> job.paid, queue |-> job.queue, todo |-> job.todo]
  /\ job.phase \in {"idle", "claimset", "start", "vclaim", "vout", "finish", "record"}
  /\ job.block \in 0 .. Len(blocks) /\ job.just \in BOOLEAN /\ job.k \in Nat
  /\ job.body \in Body
  /\ IsMap(job.paid, Script, Nat) /\ job.queue \subseteq Nat
  /\ job.todo \subseteq DOMAIN job.paid

\* A block index, in memory or on disk.
TreeOK(bl, nc, qu, va, fa, tp) ==
  /\ bl \in Seq([prev : Nat, body : Body])
  /\ \A b \in 1 .. Len(bl) : bl[b].prev < b
  /\ DOMAIN nc = 1 .. Len(bl) /\ \A b \in 1 .. Len(bl) : IsMap(nc[b], Script, Nat)
  /\ qu \in [1 .. Len(bl) -> SUBSET Nat]
  /\ va \subseteq 1 .. Len(bl) /\ fa \subseteq 1 .. Len(bl)
  /\ tp \in 0 .. Len(bl)

\* Every variable of the node has its type: the registry and the claim index
\* are maps from scripts to claims, and the block index in memory and the one
\* on disk are trees whose arrays are aligned.
TypeOK ==
  /\ mode \in {"up", "loading", "down"}
  /\ IsMap(claims, Script, Entry) /\ IsMap(index, Script, Entry) /\ written \in BOOLEAN
  /\ TreeOK(blocks, nClaims, queued, valid, failed, tip)
  /\ dirty \subseteq Ids
  /\ disk = [blocks |-> disk.blocks, nClaims |-> disk.nClaims, queued |-> disk.queued,
             valid |-> disk.valid, failed |-> disk.failed, tip |-> disk.tip]
  /\ TreeOK(disk.blocks, disk.nClaims, disk.queued, disk.valid, disk.failed, disk.tip)
  /\ JobOK
  /\ pending \subseteq Script

\* No two claims of m share a target, and no target is a source.
OneToOne(m) ==
  \A s \in DOMAIN m : m[s].target \notin DOMAIN m /\ \A t \in DOMAIN m : m[s].target = m[t].target => s = t

\* g_claims is one-to-one and has no chains, whichever of a CLAIM message, the
\* queueclaim call, a claim set, a block, a failed block or the reload at
\* startup registered its claims.  CheckClaims relies on it when it takes the
\* first claim whose target matches an output.
OneClaimPerTarget == OneToOne(claims)

\* The claims of ix, but for those still to be loaded, are in cl with the same
\* target, and those marked seen are seen there.
Reflects(ix, cl, toLoad) ==
  \A s \in DOMAIN ix \ toLoad :
     s \in DOMAIN cl /\ ix[s].target = cl[s].target /\ (ix[s].seen => cl[s].seen)

\* The claim index can be reloaded: at startup no stored claim is refused for
\* clashing with one loaded before it, whatever crash preceded and however far
\* the tip fell back; nor is one that this node can check refused for having
\* been paid more than it may receive, as long as no write to the index failed.
IndexReloads ==
  mode = "loading" => \A s \in pending :
     LET c == [source |-> s, target |-> index[s].target, good |-> TRUE]
     IN /\ IsUnique(claims, c)
        /\ written /\ ~Unchecked(s) => IsValid(c, GetTotalReceived(s, tip), TRUE)

\* The active chain never pays a claim that this node can check more than its
\* eligible amount, across reorganisations, failed blocks and restarts, as long
\* as no write to the claim index has failed.  (After a failed write a restarted
\* node may book the output of a stored block for another claim.)
PaidWithinEligible ==
  written => \A s \in Script : ~Unchecked(s) => GetTotalReceived(s, tip) <= GetEligible(s)

\* What each block that carries claims pays to script d, read off its outputs.
PaidTo(d) ==
  [b \in Ids |->
     LET vout == blocks[b].body.vout
         value == [j \in DOMAIN vout |-> IF vout[j].to = d THEN vout[j].value ELSE 0]
     IN IF blocks[b].body.vClaim = <<>> THEN 0
        ELSE SumUpTo([j \in DOMAIN vout |-> j - 1], value, Len(vout))]

\* Nor does it pay such a claim in more outputs than MAX_POSSIBLE_OUTPUTS.
OutputsWithinLimit ==
  written => \A s \in Script : ~Unchecked(s) => GetTotalOutputs(s, tip) <= MAX_POSSIBLE_OUTPUTS

\* No snapshot position is queued by two blocks of the active chain.
QueuedOnce ==
  \A a, b \in BranchOf(Parent, tip) : a # b => queued[a] \cap queued[b] = {}

\* As long as no write to the claim index has failed, every claim that the
\* active chain paid is in that index and so survives a restart, and the
\* outputs of the active chain's claim blocks give the target of an indexed
\* claim that this node can check no more than the claim's eligible amount:
\* the coins themselves, whatever nClaims says and however often the block
\* index was lost, reloaded and written again.
PayoutsWithinEligible ==
  written =>
    /\ \A b \in BranchOf(Parent, tip) : \A s \in DOMAIN nClaims[b] : s \in DOMAIN index
    /\ \A s \in DOMAIN index :
          ~Unchecked(s) => SumUpTo(Parent, PaidTo(index[s].target), tip) <= GetEligible(s)

\* What a step keeps of the claims.
KeepsClaims ==
  /\ \A s \in DOMAIN claims \cap DOMAIN claims' : claims'[s].target = claims[s].target
  /\ \A s \in DOMAIN index : s \in DOMAIN index' /\ index'[s].target = index[s].target

\* A step never changes the target of a registered claim, forgets a claim of
\* the index, or changes its target there, although CheckClaims, ApplyClaimSet
\* and ConnectBlock all write over entries that other operations made.
ClaimsAreKept == [][KeepsClaims]_vars
=============================================================================
