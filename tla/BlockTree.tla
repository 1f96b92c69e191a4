------------------------------ MODULE BlockTree ------------------------------
(***************************************************************************)
(* The block index and the choice of the active chain (validation.cpp,     *)
(* node/blockstorage.cpp): headers and blocks arrive (ProcessNewBlock),    *)
(* the best chain is activated, an operator invalidates, reconsiders or    *)
(* prefers a block, the index and the coins are flushed, and the node      *)
(* stops or crashes and starts again.                                      *)
(*                                                                         *)
(* Every operation holds cs_main, so it is one action, except              *)
(* ActivateBestChain and InvalidateBlock: they hold m_chainstate_mutex     *)
(* throughout and release cs_main between their rounds.  job is the one    *)
(* of them that runs and what it remembers between rounds.                 *)
(*                                                                         *)
(* A block is accepted only on a parent whose transactions are known       *)
(* (AcceptBlock), and nothing is pruned: m_blocks_unlinked stays empty and *)
(* "data" stands for BLOCK_HAVE_DATA, BLOCK_VALID_TRANSACTIONS and         *)
(* HaveTxsDownloaded alike.  m_best_header and m_best_invalid only serve   *)
(* header requests and warnings and are left out.                          *)
(***************************************************************************)
EXTENDS Integers

CONSTANTS
  Genesis, Blocks, NoBlock,
  Worlds      \* the scenarios; world is the one a behaviour is in

VARIABLES
  world,
  Work, Chain,     \* of each block that may arrive, its nChainTrust and its ancestors
  flags,           \* nStatus of each block, and "stake" for prevoutStake set
  dirty,           \* m_dirty_blockindex
  disk,            \* the flags and the best block of the coins on disk
  tip,             \* the tip of m_chain
  candidates,      \* setBlockIndexCandidates
  m_failed_blocks,
  setStakeSeen,
  nSequenceId, nBlockSequenceId, nBlockReverseSequenceId, nLastPreciousChainwork,
  addr,            \* the pointer order
  job, want,       \* who holds m_chainstate_mutex; a caller waits to activate
  up,              \* "up", "abort" (AbortNode was called), "stuck"
  refused,         \* the blocks refused as a duplicate proof of stake since the start
  calls, restarts  \* operator calls and restarts left

vars == <<world, Work, Chain, flags, dirty, disk, tip, candidates, m_failed_blocks, setStakeSeen,
          nSequenceId, nBlockSequenceId, nBlockReverseSequenceId, nLastPreciousChainwork, addr, job, want,
          up, refused, calls, restarts>>
tree == <<world, Work, Chain>>
sequence == <<nSequenceId, nBlockSequenceId, nBlockReverseSequenceId, nLastPreciousChainwork, addr>>
bounds == <<tree, calls, restarts>>

All == Blocks \cup {Genesis}
Flag == {"tree", "data", "scripts", "stake", "failed", "child"}

\* The blocks that may arrive, and what the checks of other components say of them.
Parent == world.parent          \* [Blocks -> All]
Kernel == world.kernel          \* [Blocks -> [prevout, time]], the stake of the coinstake
Legacy == world.legacy          \* their coinstake carries its own time (nVersion < 3)
BadStake == world.badStake      \* CheckProofOfStake refuses them
BadScripts == world.badScripts  \* ConnectBlock refuses them
Orders == world.orders          \* the memory layouts, [All -> Nat]
\* The calls the operator makes, how many, how often the node starts again, and
\* whether the write of a block may fail.
Calls == world.calls
MaxCalls == world.maxCalls
MaxRestarts == world.maxRestarts
MayFailWrite == world.mayFailWrite

\* nChainTrust from the GetBlockTrust of each block, and the chain from a block down
\* to the genesis block.
nChainTrust(w) ==
  LET trust[b \in All] == IF b = Genesis THEN 0 ELSE trust[w.parent[b]] + w.trust[b] IN trust
Ancestors(w) ==
  LET chain[b \in All] == IF b = Genesis THEN {b} ELSE {b} \cup chain[w.parent[b]] IN chain

\* Following pprev from any block ends in the genesis block: there is no cycle, and no
\* chain without an end.
Rooted(parent) == \A S \in SUBSET Blocks : S # {} => \E b \in S : parent[b] \notin S

ASSUME TreeAssumption ==
  /\ Genesis \notin Blocks /\ NoBlock \notin All
  /\ \A w \in Worlds :
       /\ w.parent \in [Blocks -> All] /\ Rooted(w.parent)
       /\ w.trust \in [Blocks -> Nat \ {0}]
       /\ \A b \in Blocks : w.kernel[b].time \in Nat \ {0}
       /\ w.legacy \subseteq Blocks /\ w.badScripts \subseteq Blocks
       /\ \A o \in w.orders : o \in [All -> Nat] /\ \A a, b \in All : o[a] = o[b] => a = b
       /\ w.maxCalls \in Nat /\ w.maxRestarts \in Nat /\ w.mayFailWrite \in BOOLEAN

Invalid(fl, b) == fl[b] \cap {"failed", "child"} # {}
IsValidTransactions(fl, b) == "data" \in fl[b] /\ ~Invalid(fl, b)

\* CBlockIndexWorkComparator with sequence numbers id: a sorts before b.
CBlockIndexWorkComparator(id, a, b) ==
  \/ Work[a] < Work[b]
  \/ /\ Work[a] = Work[b]
     /\ \/ id[a] > id[b]
        \/ id[a] = id[b] /\ addr[a] > addr[b]
Worse(a, b) == CBlockIndexWorkComparator(nSequenceId, a, b)

\* PruneBlockIndexCandidates for the tip t.
PruneBlockIndexCandidates(c, t) == {b \in c : ~Worse(b, t)}

With(fl, bs, f) == [b \in All |-> IF b \in bs THEN fl[b] \cup {f} ELSE fl[b]]

\* WriteBlockIndexDB, and a full flush: the index first, then the coins at block t.
WriteBlockIndexDB(fl, d) == [disk EXCEPT !.flags = [b \in All |-> IF b \in d THEN fl[b] ELSE disk.flags[b]]]
CoinsFlush(fl, d, t) == [disk EXCEPT !.tip = t]
FullFlush(fl, d, t) == [WriteBlockIndexDB(fl, d) EXCEPT !.tip = t]

NoJob == [kind |-> "none"]
Activation == [kind |-> "activate", most |-> NoBlock, start |-> NoBlock, connected |-> FALSE,
               locked |-> FALSE]

\* Another thread may take cs_main.
Running == up = "up" /\ (job.kind = "activate" => ~job.locked)
-----------------------------------------------------------------------------
Init ==
  /\ world \in Worlds /\ Work = nChainTrust(world) /\ Chain = Ancestors(world)
  /\ flags = [b \in All |-> IF b = Genesis THEN {"tree", "data", "scripts"} ELSE {}]
  /\ dirty = {}
  /\ disk = [flags |-> flags, tip |-> Genesis]
  /\ tip = Genesis /\ candidates = {Genesis}
  /\ m_failed_blocks = {} /\ setStakeSeen = {} /\ refused = {}
  /\ nSequenceId = [b \in All |-> 0]
  /\ nBlockSequenceId = 1 /\ nBlockReverseSequenceId = -1 /\ nLastPreciousChainwork = 0
  /\ addr \in Orders
  /\ job = NoJob /\ want = FALSE /\ up = "up"
  /\ calls = MaxCalls /\ restarts = MaxRestarts
-----------------------------------------------------------------------------
(* Headers and blocks.  AbortNode asks for a shutdown: nothing that happens       *)
(* between it and the flush of the shutdown is modelled.                         *)

Known(b) == "tree" \in flags[b]

\* AcceptBlockHeader.  The scan of m_failed_blocks is skipped for a parent that
\* was connected once.
FailedAncestors(b) ==
  IF "scripts" \in flags[Parent[b]] THEN {} ELSE m_failed_blocks \cap Chain[Parent[b]]
AcceptsHeader(b) ==
  IF Known(b)
  THEN ~Invalid(flags, b)
  ELSE Known(Parent[b]) /\ ~Invalid(flags, Parent[b]) /\ FailedAncestors(b) = {}

\* A header that descends from a failed block marks the blocks in between.
MarkedByHeader(b) ==
  IF Known(b) \/ ~Known(Parent[b]) \/ Invalid(flags, Parent[b]) THEN {{}}
  ELSE {Chain[Parent[b]] \ Chain[f] : f \in FailedAncestors(b)}

RefuseHeader(b) ==
  /\ ~AcceptsHeader(b)
  /\ \E marked \in MarkedByHeader(b) :
       flags' = With(flags, marked, "child") /\ dirty' = dirty \cup marked
  /\ UNCHANGED <<setStakeSeen, candidates, m_failed_blocks, sequence, want, up, refused>>

\* The index after AddToBlockIndex.
Added(b) == With(flags, {b}, "tree")

\* ProcessNewBlockHeaders with one header.
ProcessNewBlockHeaders(b) ==
  /\ Running
  /\ \/ RefuseHeader(b)
     \/ /\ AcceptsHeader(b)
        /\ flags' = Added(b)
        /\ dirty' = dirty \cup ({b} \ {x \in All : Known(x)})
        /\ UNCHANGED <<setStakeSeen, candidates, m_failed_blocks, sequence, want, up, refused>>
  /\ UNCHANGED <<disk, tip, job, bounds>>

NoStakeTime(b) == <<Kernel[b].prevout, 0>>
\* GetProofOfStake gives the time inside the coinstake, 0 from version 3 on;
\* setStakeSeen is filled with the time of the block.
GetProofOfStake(b) == <<Kernel[b].prevout, IF b \in Legacy THEN Kernel[b].time ELSE 0>>
StakeOf(b) == <<Kernel[b].prevout, Kernel[b].time>>

\* A block that AcceptBlock refuses after its header was accepted.
Fail(b) ==
  /\ flags' = With(Added(b), {b}, "failed") /\ dirty' = dirty \cup {b}
  /\ UNCHANGED <<setStakeSeen, sequence, want>>

\* The last part of InvalidateBlock for b adds every block that is at least as
\* good as the tip, whenever it arrived.
NoneMissed(b) == {}
Missed(b) == {x \in All \ {b} : IsValidTransactions(flags, x) /\ ~Worse(x, tip)}

\* PeercoinContextualBlockChecks finds the stake already in the index entry of
\* this very block.  InvalidateBlock takes m_chainstate_mutex with cs_main held:
\* when another thread has it, both wait for ever.
FailOwnStake(b) ==
  /\ "stake" \in flags[b]
  /\ refused' = refused \cup {b}
  /\ IF job = NoJob
     THEN /\ Fail(b)
          /\ m_failed_blocks' = m_failed_blocks \cup {b}
          /\ candidates' = (candidates \ {b}) \cup Missed(b)
          /\ UNCHANGED up
     ELSE /\ up' = "stuck"
          /\ UNCHANGED <<flags, dirty, setStakeSeen, candidates, m_failed_blocks, sequence, want>>

\* ... or in setStakeSeen.
FailSeenStake(b) ==
  /\ "stake" \notin flags[b]
  /\ GetProofOfStake(b) \in setStakeSeen
  /\ refused' = refused \cup {b}
  /\ Fail(b) /\ UNCHANGED <<candidates, m_failed_blocks, up>>

\* The checks pass: the stake goes into the index and into setStakeSeen, then the
\* block is written and linked (ReceivedBlockTransactions): with the newest
\* sequence number it sorts before a tip of the same work.  A failed write aborts
\* the node with the index entry changed.
StoreBlock(b) ==
  /\ "stake" \notin flags[b] /\ GetProofOfStake(b) \notin setStakeSeen
  /\ setStakeSeen' = setStakeSeen \cup {StakeOf(b)}
  /\ dirty' = dirty \cup {b}
  /\ \/ /\ flags' = With(With(Added(b), {b}, "stake"), {b}, "data")
        /\ nSequenceId' = [nSequenceId EXCEPT ![b] = nBlockSequenceId]
        /\ nBlockSequenceId' = nBlockSequenceId + 1
        /\ candidates' = IF Work[b] > Work[tip] THEN candidates \cup {b} ELSE candidates
        /\ want' = TRUE /\ UNCHANGED up
     \/ /\ MayFailWrite
        /\ flags' = With(Added(b), {b}, "stake")
        /\ up' = "abort"
        /\ UNCHANGED <<nSequenceId, nBlockSequenceId, candidates, want>>
  /\ UNCHANGED <<m_failed_blocks, nBlockReverseSequenceId, nLastPreciousChainwork, addr, refused>>

\* AcceptBlock after its header: blocks on a parent without transactions, blocks
\* already there and unrequested blocks with less work change nothing more.
AcceptBlock(b, fRequested) ==
  /\ AcceptsHeader(b)
  /\ LET orphan == ~IsValidTransactions(flags, Parent[b])
         skipped == "data" \in flags[b] \/ (~fRequested /\ Work[b] < Work[tip])
     IN \/ /\ orphan \/ skipped
           /\ flags' = Added(b)
           /\ dirty' = dirty \cup ({b} \ {x \in All : Known(x)})
           /\ want' = (want \/ ~orphan)
           /\ UNCHANGED <<setStakeSeen, candidates, m_failed_blocks, sequence, up, refused>>
        \/ /\ ~orphan /\ ~skipped
           /\ \/ b \in BadStake /\ Fail(b) /\ UNCHANGED <<candidates, m_failed_blocks, up, refused>>
              \/ b \notin BadStake /\ (FailOwnStake(b) \/ FailSeenStake(b) \/ StoreBlock(b))

\* ProcessNewBlock: every block that is not refused is followed by a call of
\* ActivateBestChain.
ProcessNewBlock(b, fRequested) ==
  /\ Running
  /\ RefuseHeader(b) \/ AcceptBlock(b, fRequested)
  /\ UNCHANGED <<disk, tip, job, bounds>>
-----------------------------------------------------------------------------
(* ActivateBestChain *)

\* FindMostWorkChain: the best candidate whose blocks outside the active chain
\* have not failed.  The better candidates it met are dropped with their chain
\* down to the failed block, and that chain is marked.
NoneFailedOn(c) == {}
FailedOn(c) == {a \in Chain[c] \ Chain[tip] : Invalid(flags, a)}
Usable == {c \in candidates : FailedOn(c) = {}}
First(c) == \A d \in Usable \ {c} : Worse(c, d)
Last(c) == \A d \in Usable \ {c} : Worse(d, c)
LeastWork == IF \E c \in Usable : First(c) THEN CHOOSE c \in Usable : First(c) ELSE NoBlock
MostWork == IF \E c \in Usable : Last(c) THEN CHOOSE c \in Usable : Last(c) ELSE NoBlock
Unusable == {c \in candidates \ Usable : MostWork # NoBlock => Worse(MostWork, c)}
DownToFailed(c) == {a \in Chain[c] : \A f \in FailedOn(c) : Work[a] >= Work[f]}
Dropped == UNION {DownToFailed(c) : c \in Unusable}
FailedChildren == UNION {DownToFailed(c) \ FailedOn(c) : c \in Unusable}

\* ActivateBestChain takes m_chainstate_mutex.
BeginActivation ==
  /\ up = "up" /\ job = NoJob /\ want
  /\ job' = Activation /\ want' = FALSE
  /\ UNCHANGED <<flags, dirty, disk, tip, candidates, m_failed_blocks, setStakeSeen, sequence, up,
                 refused, bounds>>

\* The periodic flush at the end of ActivateBestChain, as its timers decide.
PeriodicFlush(fl, d, t) ==
  \/ disk' = disk /\ dirty' = d
  \/ MaxRestarts > 0 /\ disk' = WriteBlockIndexDB(fl, d) /\ dirty' = {}
  \/ MaxRestarts > 0 /\ disk' = FullFlush(fl, d, t) /\ dirty' = {}

\* There is nothing better than the tip.
NothingToDo(most, cand, fl) ==
  /\ most \in {NoBlock, tip}
  /\ job' = NoJob
  /\ candidates' = cand /\ flags' = fl
  /\ IF job.locked /\ job.connected
     THEN PeriodicFlush(fl, dirty, tip)
     ELSE UNCHANGED <<disk, dirty>>
  /\ UNCHANGED <<tip, m_failed_blocks>>

OneStep(t, start) == FALSE
\* ActivateBestChain keeps cs_main while the tip t is worse than at the start.
StillWorse(t, start) == Worse(t, start)

\* ActivateBestChainStep: disconnect to the fork, then connect until the chain is
\* better than before, or a block fails, or most is reached.  stop is the block
\* that ends it, t the new tip.  A full cache is flushed at any block on the way.
Step(most, cand, fl) ==
  LET path == Chain[most] \ Chain[tip]
      stops == {x \in path : x \in BadScripts \/ Work[x] > Work[tip]} \cup {most}
      stop == CHOOSE x \in stops : \A y \in stops : Work[x] <= Work[y]
      bad == stop \in BadScripts
      t == IF bad THEN Parent[stop] ELSE stop
      connected == Chain[t] \ Chain[tip]
      fl2 == With(fl, connected, "scripts")
      start == IF job.locked THEN job.start ELSE tip
      next == IF bad THEN NoBlock ELSE most
      again == StillWorse(t, start)
      via == {x \in Chain[tip] \ {tip} : \A y \in Chain[tip] \cap Chain[most] : Work[x] >= Work[y]}
               \cup connected
      after == IF bad THEN {stop} ELSE {}
  IN /\ most \notin {NoBlock, tip}
     /\ tip' = t
     /\ flags' = With(fl2, after, "failed")
     /\ m_failed_blocks' = m_failed_blocks \cup after
     /\ candidates' = (IF connected = {} THEN cand ELSE PruneBlockIndexCandidates(cand, t)) \ after
     /\ job' = IF ~again /\ next = t THEN NoJob
               ELSE [Activation EXCEPT !.most = next, !.start = start, !.connected = again, !.locked = again]
     /\ \/ job' # NoJob /\ disk' = disk /\ dirty' = dirty \cup connected \cup after
        \/ job' = NoJob /\ PeriodicFlush(fl2, dirty \cup connected, t)
        \/ /\ MaxRestarts > 0
           /\ \E x \in via :
                /\ disk' = FullFlush(With(fl, connected \cap Chain[x], "scripts"),
                                     dirty \cup (connected \cap Chain[x]), x)
                /\ dirty' = (connected \ Chain[x]) \cup after

ActivateBestChainStep ==
  /\ up = "up" /\ job.kind = "activate"
  /\ LET most == IF job.most = NoBlock THEN MostWork ELSE job.most
         cand == IF job.most = NoBlock THEN candidates \ Dropped ELSE candidates
         fl == IF job.most = NoBlock THEN With(flags, FailedChildren, "child") ELSE flags
     IN NothingToDo(most, cand, fl) \/ Step(most, cand, fl)
  /\ UNCHANGED <<setStakeSeen, sequence, want, up, refused, bounds>>
-----------------------------------------------------------------------------
(* The operator's calls *)

\* InvalidateBlock takes m_chainstate_mutex and remembers the blocks off the
\* active chain that may become candidates.
InvalidateBlock(b) ==
  /\ "invalidateblock" \in Calls /\ Running /\ calls > 0 /\ job = NoJob /\ Known(b)
  /\ job' = [kind |-> "invalidate", block |-> b, mark |-> b,
             cand |-> {c \in All \ Chain[tip] : ~Worse(c, Parent[b]) /\ IsValidTransactions(flags, c)}]
  /\ calls' = calls - 1
  /\ UNCHANGED <<flags, dirty, disk, tip, candidates, m_failed_blocks, setStakeSeen, sequence, want,
                 up, refused, tree, restarts>>

\* One round: DisconnectTip, whose flush comes before the block is marked.
InvalidateTip ==
  /\ up = "up" /\ job.kind = "invalidate" /\ job.block \in Chain[tip]
  /\ LET prev == Parent[tip]
         moved == {c \in job.cand : ~Worse(c, prev)}
         reflag == prev = job.mark /\ "failed" \in flags[job.mark]
     IN /\ tip' = prev
        /\ flags' = [With(flags, {tip}, "failed") EXCEPT
                       ![job.mark] = IF reflag THEN (@ \ {"failed"}) \cup {"child"} ELSE @]
        /\ candidates' = (candidates \ {tip}) \cup {prev} \cup moved
        /\ job' = [job EXCEPT !.mark = tip, !.cand = @ \ moved]
        /\ \/ disk' = disk /\ dirty' = dirty \cup {tip} \cup (IF reflag THEN {job.mark} ELSE {})
           \/ MaxRestarts > 0 /\ disk' = FullFlush(flags, dirty, prev)
              /\ dirty' = {tip} \cup (IF reflag THEN {job.mark} ELSE {})
  /\ UNCHANGED <<m_failed_blocks, setStakeSeen, sequence, want, up, refused, bounds>>

\* The end of InvalidateBlock; invalidateblock then calls ActivateBestChain.
EndInvalidate ==
  /\ up = "up" /\ job.kind = "invalidate" /\ job.block \notin Chain[tip]
  /\ flags' = With(flags, {job.mark}, "failed")
  /\ dirty' = dirty \cup {job.mark}
  /\ m_failed_blocks' = m_failed_blocks \cup {job.mark}
  /\ candidates' = (candidates \ {job.mark}) \cup Missed(job.mark)
  /\ job' = NoJob /\ want' = TRUE
  /\ UNCHANGED <<disk, tip, setStakeSeen, sequence, up, refused, bounds>>

\* reconsiderblock: ResetBlockFailureFlags needs cs_main only.
ReconsiderBlock(b) ==
  /\ "reconsiderblock" \in Calls /\ Running /\ calls > 0 /\ Known(b)
  /\ LET below == {x \in All : b \in Chain[x] /\ Invalid(flags, x)}
         reset == below \cup {x \in Chain[b] : Invalid(flags, x)}
         fl == [x \in All |-> IF x \in reset THEN flags[x] \ {"failed", "child"} ELSE flags[x]]
     IN /\ flags' = fl /\ dirty' = dirty \cup reset
        /\ candidates' = candidates \cup {x \in below : "data" \in flags[x] /\ Worse(tip, x)}
        /\ m_failed_blocks' = m_failed_blocks \ reset
  /\ want' = TRUE /\ calls' = calls - 1
  /\ UNCHANGED <<disk, tip, setStakeSeen, sequence, job, up, refused, tree, restarts>>

\* PreciousBlock: the reverse number starts again once the chain has got longer.
ReverseNumber == IF Work[tip] > nLastPreciousChainwork THEN -1 ELSE nBlockReverseSequenceId

\* preciousblock: the block sorts as if it had come before the others.
PreciousBlock(b) ==
  /\ "preciousblock" \in Calls /\ Running /\ calls > 0 /\ Known(b) /\ Work[b] >= Work[tip]
  /\ LET id == [nSequenceId EXCEPT ![b] = ReverseNumber]
     IN /\ nSequenceId' = id
        /\ nBlockReverseSequenceId' = ReverseNumber - 1
        /\ candidates' = IF IsValidTransactions(flags, b)
             THEN {x \in candidates \cup {b} : ~CBlockIndexWorkComparator(id, x, tip)}
             ELSE candidates \ {b}
  /\ nLastPreciousChainwork' = Work[tip]
  /\ want' = TRUE /\ calls' = calls - 1
  /\ UNCHANGED <<flags, dirty, disk, tip, m_failed_blocks, setStakeSeen, nBlockSequenceId, addr, job,
                 up, refused, tree, restarts>>
-----------------------------------------------------------------------------
(* Stop, crash and start *)

\* The candidates after LoadBlockIndex and the pruning in LoadChainTip: no block
\* has a sequence number, so the pointers decide.
LoadCandidates(fl, t, order) ==
  {b \in All : IsValidTransactions(fl, b)
               /\ (Work[b] > Work[t] \/ (Work[b] = Work[t] /\ order[b] <= order[t]))}

\* LoadBlockIndex and LoadChainTip from what is on disk: descendants of failed
\* blocks are marked, the candidates collected anew, the sequence numbers and the
\* stakes seen are gone.  The start ends with ActivateBestChain.
Load(d) ==
  LET marked == {b \in All : d.flags[b] # {} /\ ~Invalid(d.flags, b)
                             /\ \E a \in Chain[b] : Invalid(d.flags, a)}
      fl == With(d.flags, marked, "child")
  IN /\ flags' = fl /\ dirty' = marked
     /\ disk' = d /\ tip' = d.tip
     /\ addr' \in Orders
     /\ nSequenceId' = [b \in All |-> 0]
     /\ candidates' = LoadCandidates(fl, d.tip, addr')
     /\ nBlockSequenceId' = 1 /\ nBlockReverseSequenceId' = -1 /\ nLastPreciousChainwork' = 0
     /\ m_failed_blocks' = {} /\ setStakeSeen' = {} /\ refused' = {}
     /\ job' = NoJob /\ want' = TRUE /\ up' = "up"
     /\ restarts' = restarts - 1

\* Shutdown ends with ForceFlushStateToDisk.
Restart ==
  /\ restarts > 0 /\ up \in {"up", "abort"} /\ job = NoJob
  /\ Load(FullFlush(flags, dirty, tip))
  /\ UNCHANGED <<tree, calls>>

Crash ==
  /\ restarts > 0
  /\ Load(disk)
  /\ UNCHANGED <<tree, calls>>
-----------------------------------------------------------------------------
Chainstate == BeginActivation \/ ActivateBestChainStep \/ InvalidateTip \/ EndInvalidate

Next ==
  \/ \E b \in Blocks : \/ ProcessNewBlockHeaders(b)
                       \/ \E fRequested \in BOOLEAN : ProcessNewBlock(b, fRequested)
                       \/ InvalidateBlock(b) \/ ReconsiderBlock(b) \/ PreciousBlock(b)
  \/ Chainstate \/ Restart \/ Crash

\* A thread that holds m_chainstate_mutex, or waits for it, goes on when it gets
\* cs_main; peers, the operator and the machine owe nothing.  This is
\* WF_vars(Chainstate) with its ENABLED written out: Ready is when it can go on.
Ready == up = "up" /\ (want \/ job # NoJob)
Fairness == []<>(Ready = FALSE) \/ []<><<Chainstate>>_vars

Spec == Init /\ [][Next]_vars /\ Fairness
-----------------------------------------------------------------------------
(* Properties *)

\* The types of the state.
TypeOK ==
  /\ flags \in [All -> SUBSET Flag] /\ dirty \subseteq All
  /\ disk.flags \in [All -> SUBSET Flag] /\ disk.tip \in All
  /\ tip \in All /\ candidates \subseteq All /\ m_failed_blocks \subseteq All
  /\ setStakeSeen \subseteq {StakeOf(b) : b \in Blocks}
  /\ nSequenceId \in [All -> Int] /\ addr \in Orders
  /\ nBlockSequenceId \in Nat /\ nBlockReverseSequenceId \in -(MaxCalls + 1)..-1 /\ nLastPreciousChainwork \in Nat
  /\ job.kind \in {"none", "activate", "invalidate"}
  /\ job.kind = "activate" => job.most \in All \cup {NoBlock} /\ (job.locked => job.start \in All)
  /\ job.kind = "invalidate" => job.block \in Blocks /\ job.mark \in Blocks /\ job.cand \subseteq All
  /\ want \in BOOLEAN /\ up \in {"up", "abort", "stuck"} /\ refused \subseteq Blocks
  /\ calls \in 0..MaxCalls /\ restarts \in 0..MaxRestarts

FailedChain(b) == \E a \in Chain[b] : "failed" \in flags[a]

\* CheckBlockIndex: a block that has its data, descends from no failed block and
\* sorts at least as good as the tip is a candidate, and so is the tip, whenever
\* a thread can take cs_main, also between the rounds of an activation.  Only
\* while a block is being invalidated may blocks that arrive meanwhile be missing;
\* the end of InvalidateBlock adds them.  reconsiderblock is left out: it clears the
\* marks of the ancestors of its block and makes none of them a candidate again.
CandidatesComplete ==
  Running /\ job.kind # "invalidate" /\ "reconsiderblock" \notin Calls =>
    \A b \in All : "data" \in flags[b] /\ ~FailedChain(b) /\ ~Worse(b, tip) => b \in candidates

\* CheckBlockIndex: no candidate sorts worse than the tip.
CandidatesNotWorse == Running => \A b \in candidates : "data" \in flags[b] /\ ~Worse(b, tip)

\* CheckBlockIndex: a block is marked as failed only below a failed block.
FailedHaveCause == Running => \A b \in All : Invalid(flags, b) => FailedChain(b)

\* PruneBlockIndexCandidates: "Either the current tip or a successor of it we're
\* working towards is left in setBlockIndexCandidates."  Not so after a crash that
\* lost the coins and kept the marks of an invalidateblock.
CandidateLeft == ("invalidateblock" \in Calls => restarts = MaxRestarts) => candidates # {}

\* What CheckBlockIndex and the assertions on the candidates say of the tree, whenever
\* a thread can take cs_main: the candidates are exactly the blocks that could become
\* the tip, one is always left, and every mark has a cause.
CheckBlockIndex ==
  TypeOK /\ CandidatesComplete /\ CandidatesNotWorse /\ CandidateLeft /\ FailedHaveCause

\* Once every call of ActivateBestChain has returned, the active chain has the
\* most work among the chains that have not failed, and has not failed itself,
\* again without reconsiderblock.
BestChainActive ==
  job = NoJob /\ ~want /\ up = "up" /\ "reconsiderblock" \notin Calls =>
    /\ ~FailedChain(tip)
    /\ \A b \in All : "data" \in flags[b] /\ ~FailedChain(b) => Work[b] <= Work[tip]

\* PeercoinContextualBlockChecks: "check for duplicity of stake".  While the node
\* runs, no two blocks with data have the same kernel, if their coinstakes carry
\* their own time.  "duplicate proof-of-stake in block": unless a block could not be
\* written, a block refused as a duplicate has a stake that another block uses.
StakeUsedOnce ==
  /\ restarts = MaxRestarts =>
       \A a, b \in Legacy : a # b /\ {"data"} \subseteq flags[a] \cap flags[b] => StakeOf(a) # StakeOf(b)
  /\ ~MayFailWrite => \A b \in refused : \E a \in Blocks \ {b} : Known(a) /\ StakeOf(a) = StakeOf(b)

\* LoadChainTip finds the best block of the coins in the index, with the data of
\* every block down to the genesis block, whenever the node crashes.
DiskLoads == \A b \in Chain[disk.tip] : "data" \in disk.flags[b]

\* The stored blocks that should be, or be below, the tip.  A node that aborts or is
\* stuck is left out, and reconsiderblock.
Behind == {b \in Blocks : Work[b] > Work[tip] /\ ~FailedChain(b) /\ "data" \in flags[b]
                          /\ up = "up" /\ "reconsiderblock" \notin Calls}

\* Again and again every stored block is no better than the tip, on a failed chain
\* or lost in a crash: activations come to an end, whatever blocks arrive and threads
\* wait meanwhile.
CatchesUp == []<>(Behind = {})

\* The tip moves to a chain with less work only while a block is invalidated, the
\* node starts, or ActivateBestChain goes on with cs_main held, so that no other
\* thread sees it: also a reorganisation that fails half way ends no lower.
NeverLessWork ==
  [][Work[tip'] < Work[tip] => job.kind = "invalidate" \/ restarts' # restarts
                               \/ (job'.kind = "activate" /\ job'.locked)]_vars
=============================================================================
