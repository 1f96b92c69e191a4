------------------------------- MODULE Minter -------------------------------
(***************************************************************************)
(* The stake minter thread (PoSMiner in node/miner.cpp) beside the message *)
(* thread, which connects the blocks of the network, and the thread that   *)
(* shuts the node down.  They share cs_main, the tip, the interrupt of     *)
(* CConnman and the objects of NodeContext.                                *)
(*                                                                         *)
(* A block is the time it was made at, in units the two age limits are     *)
(* counted in.  What CreateNewBlock and the wallet decide is a free choice *)
(* here; module CoinStake has it.  A sleep ends early when the interrupt   *)
(* is set, and the thread then returns.                                    *)
(***************************************************************************)
EXTENDS Integers

CONSTANTS
  SyncAge,       \* age of a tip above which GuessVerificationProgress < 0.996
  MaxTipAge,     \* -maxtipage: the initial download ends with a younger tip
  Nodes,         \* the nodes: delay, -blockdelay is set; peers, MiningRequiresPeers;
                 \* throws, the setup, the creation or the signing of a block may fail;
                 \* teardown, Shutdown goes on after Interrupt
  MaxTime        \* bound on the time

ASSUME TimeAssumption == MaxTime \in Nat

VARIABLES
  node,         \* which of them this is
  pc,           \* where the minter is
  cs_main,      \* TRUE while the minter holds cs_main between two steps
  pindexPrev,
  warning,      \* strMintWarning: "" or the reason
  fNeedToClear,
  prev,         \* hashPrevBlock of the template
  tip,
  ibd,          \* ~m_cached_finished_ibd
  now,
  interrupted,  \* interruptNet
  stage,        \* how far Shutdown is
  destroyed     \* the objects that were reset

minter == <<pc, cs_main, pindexPrev, warning, fNeedToClear, prev>>
chain == <<tip, ibd, now, node>>
ending == <<interrupted, stage, destroyed>>
vars == <<minter, chain, ending>>

Init ==
  /\ node \in Nodes
  /\ pc = "setup"
  /\ cs_main = FALSE
  /\ pindexPrev = 0
  /\ warning = ""
  /\ fNeedToClear = FALSE
  /\ prev = 0
  /\ tip = 0
  /\ ibd = TRUE
  /\ now \in 0..MaxTime
  /\ interrupted = FALSE
  /\ stage = 0
  /\ destroyed = {}

Goto(l) == pc' = l
-----------------------------------------------------------------------------
(* PoSMiner.                                                               *)

\* No wallet or -minting=0 ends the thread; an empty keypool throws, and
\* ThreadStakeMinter calls PoSMiner again.
Setup ==
  /\ pc = "setup"
  /\ \/ Goto("done") /\ warning' \in {warning, "disabled"}
     \/ node.throws /\ Goto("setup") /\ UNCHANGED warning
     \/ Goto("locked") /\ UNCHANGED warning
  /\ UNCHANGED <<cs_main, pindexPrev, fNeedToClear, prev, chain, ending>>

CheckLocked_KeepFlag ==
  /\ pc = "locked"
  /\ \/ /\ Goto("sleep_locked")
        /\ warning' = "locked"
        /\ UNCHANGED fNeedToClear
     \/ /\ Goto("peers")
        /\ UNCHANGED <<warning, fNeedToClear>>
  /\ UNCHANGED <<cs_main, pindexPrev, prev, chain, ending>>
CheckLocked ==
  /\ pc = "locked"
  /\ \/ /\ Goto("sleep_locked")
        /\ warning' = "locked"
        /\ fNeedToClear' = TRUE
     \/ /\ Goto("peers")
        /\ UNCHANGED <<warning, fNeedToClear>>
  /\ UNCHANGED <<cs_main, pindexPrev, prev, chain, ending>>

\* IsInitialBlockDownload: it ends for good with the first tip that is young
\* enough.
InitialBlockDownload == ibd /\ now - tip > MaxTipAge

\* Waits for a peer and for the end of the initial download.
CheckPeers ==
  /\ pc = "peers"
  /\ \/ /\ ~node.peers
        /\ Goto("claims")
        /\ UNCHANGED ibd
     \/ /\ node.peers
        /\ Goto("sleep_peers") \/ (~InitialBlockDownload /\ Goto("claims"))
        /\ ibd' = InitialBlockDownload
  /\ UNCHANGED <<cs_main, pindexPrev, warning, fNeedToClear, prev, tip, now, node, ending>>

\* With the genesis key, waits for five claims.
CheckClaims ==
  /\ pc = "claims"
  /\ Goto("sleep_claims") \/ Goto("lock")
  /\ UNCHANGED <<cs_main, pindexPrev, warning, fNeedToClear, prev, chain, ending>>

LockMain ==
  /\ pc = "lock"
  /\ cs_main' = TRUE
  /\ pindexPrev' = tip
  /\ Goto("sync")
  /\ UNCHANGED <<warning, fNeedToClear, prev, chain, ending>>

Behind(b) == now - b > SyncAge

\* The loop on GuessVerificationProgress, inside the scope of LOCK(cs_main).
CheckSync ==
  /\ pc = "sync"
  /\ \/ /\ Behind(pindexPrev)
        /\ Goto("sleep_sync")
        /\ warning' = "sync"
        /\ fNeedToClear' = TRUE
        /\ UNCHANGED cs_main
     \/ /\ ~Behind(pindexPrev)
        /\ Goto("delay")
        /\ warning' = IF fNeedToClear THEN "" ELSE warning
        /\ fNeedToClear' = FALSE
        /\ cs_main' = FALSE
  /\ UNCHANGED <<pindexPrev, prev, chain, ending>>

\* An unpaid claim skips the delay.
CheckDelay ==
  /\ pc = "delay"
  /\ \/ node.delay /\ Goto("sleep_delay")
     \/ Goto("create")
  /\ UNCHANGED <<cs_main, pindexPrev, warning, fNeedToClear, prev, chain, ending>>

\* CreateNewBlock throws, is cancelled, fails, or returns a block on the tip.
CreateNewBlock ==
  /\ pc = "create"
  /\ \/ node.throws /\ Goto("locked") /\ UNCHANGED <<warning, prev>>
     \/ Goto("sleep_cancel") /\ UNCHANGED <<warning, prev>>
     \/ Goto("sleep_failed") /\ warning' = "failure" /\ UNCHANGED prev
     \/ Goto("sign") /\ prev' = tip /\ UNCHANGED warning
  /\ UNCHANGED <<cs_main, pindexPrev, fNeedToClear, chain, ending>>

SignBlock ==
  /\ pc = "sign"
  /\ (node.throws /\ Goto("locked")) \/ Goto("check")
  /\ UNCHANGED <<cs_main, pindexPrev, warning, fNeedToClear, prev, chain, ending>>

\* ProcessBlockFound: a stale block is dropped; cs_main is released between
\* this test and ProcessNewBlock.
CheckStale ==
  /\ pc = "check"
  /\ IF prev = tip THEN Goto("submit") ELSE Goto("sleep_rest")
  /\ UNCHANGED <<cs_main, pindexPrev, warning, fNeedToClear, prev, chain, ending>>

\* The block is refused, or becomes the tip if it still extends it; an error
\* starts the loop again without a rest.
ProcessNewBlock ==
  /\ pc = "submit"
  /\ Goto("sleep_rest") \/ (node.throws /\ Goto("locked"))
  /\ \/ UNCHANGED tip
     \/ prev = tip /\ now > tip /\ tip' = now
  /\ UNCHANGED <<cs_main, pindexPrev, warning, fNeedToClear, prev, ibd, now, node, ending>>

\* What follows a sleep_for that was not interrupted.
After ==
  [sleep_locked |-> "locked", sleep_peers |-> "peers", sleep_claims |-> "claims",
   sleep_sync |-> "sync", sleep_delay |-> "locked", sleep_cancel |-> "locked",
   sleep_failed |-> "done", sleep_rest |-> "sleep_pause", sleep_pause |-> "locked"]

\* Returning leaves the scope of the lock.
Sleep_Peers ==
  /\ pc \in DOMAIN After
  /\ Goto(IF interrupted /\ pc # "sleep_peers" THEN "done" ELSE After[pc])
  /\ cs_main' = (cs_main /\ ~interrupted)
  /\ UNCHANGED <<pindexPrev, warning, fNeedToClear, prev, chain, ending>>
Sleep ==
  /\ pc \in DOMAIN After
  /\ Goto(IF interrupted THEN "done" ELSE After[pc])
  /\ cs_main' = (cs_main /\ ~interrupted)
  /\ UNCHANGED <<pindexPrev, warning, fNeedToClear, prev, chain, ending>>

\* The objects a step uses, through raw pointers or NodeContext.  On one that
\* was reset the step is undefined, and the model ends there.
Needs(l) ==
  CASE l \in DOMAIN After -> {"connman"}
    [] l = "peers" -> {"connman", "chainman"}
    [] l \in {"lock", "sync", "delay", "check", "submit"} -> {"chainman"}
    [] l \in {"create", "sign"} -> {"chainman", "wallet"}
    [] l \in {"setup", "locked"} -> {"wallet"}
    [] OTHER -> {}

MinterStep ==
  /\ Needs(pc) \cap destroyed = {}
  /\ \/ Setup \/ CheckLocked \/ CheckPeers \/ CheckClaims \/ LockMain \/ CheckSync
     \/ CheckDelay \/ CreateNewBlock \/ SignBlock \/ CheckStale \/ ProcessNewBlock
     \/ Sleep
-----------------------------------------------------------------------------
(* The other threads.                                                      *)

\* The message thread connects the next block of the network, under cs_main.
ConnectBlock ==
  /\ stage < 2
  /\ ~cs_main
  /\ tip < now
  /\ tip' = tip + 1
  /\ UNCHANGED <<minter, ibd, now, node, ending>>

Tick ==
  /\ now < MaxTime
  /\ now' = now + 1
  /\ UNCHANGED <<minter, tip, ibd, node, ending>>

\* Interrupt, then the steps of Shutdown the minter can see: the network
\* threads end, connman goes, the chain state is flushed under cs_main, the
\* wallets go, chainman goes, and only then the minter is joined.
Stage(k) == stage = k /\ stage' = k + 1

Interrupt ==
  /\ Stage(0)
  /\ interrupted' = TRUE
  /\ UNCHANGED <<minter, chain, destroyed>>

ResetConnman ==
  /\ node.teardown
  /\ Stage(1)
  /\ destroyed' = destroyed \cup {"connman"}
  /\ UNCHANGED <<minter, chain, interrupted>>

Flush ==
  /\ Stage(2)
  /\ ~cs_main
  /\ UNCHANGED <<minter, chain, interrupted, destroyed>>

ClearClients ==
  /\ Stage(3)
  /\ destroyed' = destroyed \cup {"wallet"}
  /\ UNCHANGED <<minter, chain, interrupted>>

ResetChainman ==
  /\ Stage(4)
  /\ destroyed' = destroyed \cup {"chainman"}
  /\ UNCHANGED <<minter, chain, interrupted>>

JoinMinter ==
  /\ Stage(5)
  /\ pc = "done"
  /\ UNCHANGED <<minter, chain, interrupted, destroyed>>

Shutdown == ResetConnman \/ Flush \/ ClearClients \/ ResetChainman \/ JoinMinter

Next == MinterStep \/ ConnectBlock \/ Tick \/ Interrupt \/ Shutdown

\* Threads that can run do, and so does a shutdown that began.  Nobody has to
\* begin one, and time may stand still.
Fairness == WF_vars(MinterStep) /\ WF_vars(ConnectBlock) /\ WF_vars(Shutdown)

Spec == Init /\ [][Next]_vars /\ Fairness
-----------------------------------------------------------------------------
(* Properties.                                                             *)

Labels ==
  {"setup", "locked", "peers", "claims", "lock", "sync", "delay", "create", "sign",
   "check", "submit", "done"} \cup DOMAIN After

\* The types of the state.  cs_main stays with the minter only in the loop on
\* the progress of the sync.
TypeOK ==
  /\ pc \in Labels
  /\ warning \in {"", "disabled", "locked", "sync", "failure"}
  /\ cs_main = (pc \in {"sync", "sleep_sync"})
  /\ {tip, pindexPrev, prev} \subseteq 0..now
  /\ stage \in 0..6
  /\ interrupted = (stage > 0)

\* A minter that works shows no warning: each wait that set strMintWarning has
\* fNeedToClear set when it ends, through every continue of the loop.
WarningCleared ==
  pc \in {"delay", "create", "sign", "check", "submit", "sleep_rest"} => warning = ""

\* The minter's state is consistent: the lock is held in the sync loop only, and
\* the warning shown is that of the wait it is in.
MinterSane == TypeOK /\ WarningCleared

\* After Interrupt the thread returns, from whichever wait or step it is in, so
\* that Shutdown can join it.  Only the sleeps look at the interrupt: this needs
\* that the calls of the wallet do not fail for ever, and that what the thread
\* uses is still there.
ThreadEnds ==
  (interrupted = TRUE /\ node.throws = FALSE /\ node.teardown = FALSE) ~> (pc = "done")

\* The warning says minting is suspended while the wallet synchronizes; the
\* chain then gets on, unless the node is shut down.
Synchronizes == (warning = "sync") ~> (~Behind(tip) \/ interrupted)
=============================================================================
