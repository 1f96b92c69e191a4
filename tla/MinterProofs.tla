---------------------------- MODULE MinterProofs ----------------------------
(***************************************************************************)
(* The minter's state is consistent in every reachable state, for every    *)
(* set of nodes, every age limit and every bound on the time.              *)
(***************************************************************************)
EXTENDS Minter, TLAPS

\* The labels between the start of the loop and the end of the sync loop: the
\* ones a warning that is to be cleared may be shown at.
Waits ==
  {"locked", "sleep_locked", "peers", "sleep_peers", "claims", "sleep_claims",
   "lock", "sync", "sleep_sync"}

\* MinterSane says nothing of fNeedToClear, so it is not inductive: a warning of
\* a wait is shown only with the flag set, until the sync loop ends; the other
\* two are those of a thread that returns.
WarningInv ==
  \/ warning = ""
  \/ warning \in {"locked", "sync"} /\ fNeedToClear = TRUE /\ pc \in Waits \cup {"done"}
  \/ warning = "failure" /\ pc \in {"sleep_failed", "done"}
  \/ warning = "disabled" /\ pc = "done"

\* The times are numbers, and none is later than now.
TimeInv ==
  /\ now \in Nat
  /\ tip \in 0..now
  /\ pindexPrev \in 0..now
  /\ prev \in 0..now

\* The lock is held between two steps in the sync loop only.
LockInv ==
  /\ pc \in Labels
  /\ cs_main \in BOOLEAN
  /\ cs_main <=> pc \in {"sync", "sleep_sync"}

\* Shutdown follows Interrupt.
StageInv ==
  /\ stage \in 0..6
  /\ interrupted \in BOOLEAN
  /\ interrupted <=> stage > 0

\* The inductive invariant.
Inv == WarningInv /\ TimeInv /\ LockInv /\ StageInv
-----------------------------------------------------------------------------
\* The sleeps, and what follows each.
LEMMA Sleeps ==
  /\ DOMAIN After = {"sleep_locked", "sleep_peers", "sleep_claims", "sleep_sync",
                     "sleep_delay", "sleep_cancel", "sleep_failed", "sleep_rest",
                     "sleep_pause"}
  /\ After["sleep_locked"] = "locked"
  /\ After["sleep_peers"] = "peers"
  /\ After["sleep_claims"] = "claims"
  /\ After["sleep_sync"] = "sync"
  /\ After["sleep_delay"] = "locked"
  /\ After["sleep_cancel"] = "locked"
  /\ After["sleep_failed"] = "done"
  /\ After["sleep_rest"] = "sleep_pause"
  /\ After["sleep_pause"] = "locked"
BY Zenon DEF After

\* Every step is one of the minter's, or leaves the minter alone.
LEMMA StepCases ==
  ASSUME [Next]_vars
  PROVE  \/ MinterStep
         \/ UNCHANGED minter /\ (ConnectBlock \/ Tick \/ Interrupt \/ Shutdown)
         \/ UNCHANGED vars
BY Zenon DEF Next, ConnectBlock, Tick, Interrupt, Shutdown, ResetConnman, Flush,
       ClearClients, ResetChainman, JoinMinter, minter, chain, ending, vars

\* The steps of the minter keep the warning in line with fNeedToClear: the waits
\* set both, the end of the sync loop clears both, and no other step that goes
\* on comes with a warning to clear.
LEMMA WarningNext ==
  ASSUME WarningInv, LockInv, [Next]_vars
  PROVE  WarningInv'
<1>1. CASE MinterStep
  <2> USE <1>1 DEF WarningInv, Waits, Goto
  <2>1. CASE Setup
    BY <2>1, Zenon DEF Setup
  <2>2. CASE CheckLocked
    BY <2>2, Zenon DEF CheckLocked
  <2>3. CASE CheckPeers
    BY <2>3, Zenon DEF CheckPeers
  <2>4. CASE CheckClaims
    BY <2>4, Zenon DEF CheckClaims
  <2>5. CASE LockMain
    BY <2>5, Zenon DEF LockMain
  <2>6. CASE CheckSync
    BY <2>6, Zenon DEF CheckSync
  <2>7. CASE CheckDelay
    BY <2>7, Zenon DEF CheckDelay
  <2>8. CASE CreateNewBlock
    BY <2>8, Zenon DEF CreateNewBlock
  <2>9. CASE SignBlock
    BY <2>9, Zenon DEF SignBlock
  <2>10. CASE CheckStale
    BY <2>10, Zenon DEF CheckStale
  <2>11. CASE ProcessNewBlock
    BY <2>11, Zenon DEF ProcessNewBlock
  <2>12. CASE Sleep
    BY <2>12, Sleeps, Zenon DEF Sleep
  <2> QED BY <1>1, <2>1, <2>2, <2>3, <2>4, <2>5, <2>6, <2>7, <2>8, <2>9, <2>10, <2>11, <2>12, Zenon DEF MinterStep
<1>2. CASE UNCHANGED minter
  BY <1>2, Zenon DEF WarningInv, minter
<1> QED BY <1>1, <1>2, StepCases, Zenon DEF vars

\* The minter takes cs_main for the sync loop and gives it back when it leaves
\* the loop, by its end or by the interrupt.
LEMMA LockNext ==
  ASSUME LockInv, StageInv, [Next]_vars
  PROVE  LockInv'
<1>1. CASE MinterStep
  <2> USE <1>1, Sleeps DEF LockInv, Labels, Goto
  <2>1. CASE Setup
    BY <2>1, Zenon DEF Setup
  <2>2. CASE CheckLocked
    BY <2>2, Zenon DEF CheckLocked
  <2>3. CASE CheckPeers
    BY <2>3, Zenon DEF CheckPeers
  <2>4. CASE CheckClaims
    BY <2>4, Zenon DEF CheckClaims
  <2>5. CASE LockMain
    BY <2>5, Zenon DEF LockMain
  <2>6. CASE CheckSync
    <3>1. pc = "sync" /\ pc \in {"sync", "sleep_sync"}
      BY <2>6, Zenon DEF CheckSync
    <3>2. CASE pc' = "sleep_sync" /\ cs_main' = cs_main
      BY <3>1, <3>2, Zenon
    <3>3. CASE pc' = "delay" /\ cs_main' = FALSE
      BY <3>3, Zenon
    <3> QED BY <2>6, <3>2, <3>3, Zenon DEF CheckSync
  <2>7. CASE CheckDelay
    BY <2>7, Zenon DEF CheckDelay
  <2>8. CASE CreateNewBlock
    BY <2>8, Zenon DEF CreateNewBlock
  <2>9. CASE SignBlock
    BY <2>9, Zenon DEF SignBlock
  <2>10. CASE CheckStale
    BY <2>10, Zenon DEF CheckStale
  <2>11. CASE ProcessNewBlock
    BY <2>11, Zenon DEF ProcessNewBlock
  <2>12. CASE Sleep
    <3>1. CASE interrupted
      BY <2>12, <3>1, Zenon DEF Sleep
    <3>2. CASE ~interrupted
      <4>1. pc \in DOMAIN After /\ pc' = After[pc] /\ cs_main' = cs_main
        BY <2>12, <3>2, Zenon DEF Sleep
      <4>2. pc' \in Labels /\ (pc' \in {"sync", "sleep_sync"} <=> pc \in {"sync", "sleep_sync"})
        <5> HIDE DEF LockInv
        <5> QED BY <4>1, Zenon
      <4> QED BY <4>1, <4>2, Zenon
    <3> QED BY <3>1, <3>2, Zenon
  <2> QED BY <1>1, <2>1, <2>2, <2>3, <2>4, <2>5, <2>6, <2>7, <2>8, <2>9, <2>10, <2>11, <2>12, Zenon DEF MinterStep
<1>2. CASE UNCHANGED minter
  BY <1>2, Zenon DEF LockInv, minter, Labels
<1> QED BY <1>1, <1>2, StepCases, Zenon DEF vars

\* Blocks are made now and connected up to now, and the time only grows.
LEMMA TimeNext ==
  ASSUME TimeInv, [Next]_vars
  PROVE  TimeInv'
<1> USE DEF TimeInv
<1>1. ASSUME NEW t \in 0..now, NEW n \in {now, now + 1}  PROVE t \in 0..n
  OBVIOUS
<1>2. CASE MinterStep
  <2>1. now' = now
    BY <1>2, Zenon DEF MinterStep, chain, Setup, CheckLocked, CheckPeers, CheckClaims, LockMain, CheckSync,
           CheckDelay, CreateNewBlock, SignBlock, CheckStale, ProcessNewBlock, Sleep
  <2>2. tip' \in {tip, now}
    BY <1>2, Zenon DEF MinterStep, chain, Setup, CheckLocked, CheckPeers, CheckClaims, LockMain, CheckSync,
           CheckDelay, CreateNewBlock, SignBlock, CheckStale, ProcessNewBlock, Sleep
  <2>3. pindexPrev' \in {pindexPrev, tip} /\ prev' \in {prev, tip}
    BY <1>2, Zenon DEF MinterStep, chain, Setup, CheckLocked, CheckPeers, CheckClaims, LockMain, CheckSync,
           CheckDelay, CreateNewBlock, SignBlock, CheckStale, ProcessNewBlock, Sleep
  <2> QED BY <2>1, <2>2, <2>3
<1>3. CASE ConnectBlock
  BY <1>3 DEF ConnectBlock, minter
<1>4. CASE Tick
  BY <1>4, <1>1 DEF Tick, minter
<1>5. CASE Interrupt \/ Shutdown \/ UNCHANGED vars
  <2>1. UNCHANGED <<now, tip, pindexPrev, prev>>
    BY <1>5, Zenon DEF Interrupt, Shutdown, ResetConnman, Flush, ClearClients, ResetChainman,
                JoinMinter, minter, chain, vars
  <2> QED BY <2>1, Zenon
<1> QED BY <1>2, <1>3, <1>4, <1>5, Zenon DEF Next

\* The stages of Shutdown come one after the other, the interrupt with the first.
LEMMA StageNext ==
  ASSUME StageInv, [Next]_vars
  PROVE  StageInv'
<1> USE DEF StageInv
<1>1. CASE MinterStep
  <2>1. UNCHANGED ending
    BY <1>1, Zenon DEF MinterStep, Setup, CheckLocked, CheckPeers, CheckClaims, LockMain,
           CheckSync, CheckDelay, CreateNewBlock, SignBlock, CheckStale, ProcessNewBlock, Sleep
  <2> QED BY <2>1, Zenon DEF ending
<1>2. CASE ConnectBlock \/ Tick \/ UNCHANGED vars
  BY <1>2 DEF ConnectBlock, Tick, ending, vars
<1>3. CASE Interrupt
  BY <1>3 DEF Interrupt, Stage
<1>4. CASE Shutdown
  <2>1. stage \in 1..5 /\ stage' = stage + 1 /\ interrupted' = interrupted
    BY <1>4 DEF Shutdown, ResetConnman, Flush, ClearClients, ResetChainman, JoinMinter, Stage
  <2>2. stage > 0 /\ stage' > 0 /\ stage' \in 0..6
    BY <2>1
  <2> QED BY <2>1, <2>2, Zenon
<1> QED BY <1>1, <1>2, <1>3, <1>4, Zenon DEF Next

\* The invariant implies MinterSane.
LEMMA InvSane == Inv => MinterSane
<1> SUFFICES ASSUME Inv PROVE MinterSane
  BY Zenon
<1>1. WarningCleared /\ warning \in {"", "disabled", "locked", "sync", "failure"}
  <2>1. ASSUME pc \in Waits \cup {"done", "sleep_failed"}
        PROVE  pc \notin {"delay", "create", "sign", "check", "submit", "sleep_rest"}
    BY <2>1, Zenon DEF Waits
  <2>2. warning = "" \/ pc \in Waits \cup {"done", "sleep_failed"}
    BY Zenon DEF Inv, WarningInv
  <2>3. warning \in {"", "disabled", "locked", "sync", "failure"}
    BY Zenon DEF Inv, WarningInv
  <2> QED BY <2>1, <2>2, <2>3, Zenon DEF WarningCleared
<1>2. pc \in Labels /\ cs_main = (pc \in {"sync", "sleep_sync"})
  <2>1. LockInv
    BY Zenon DEF Inv
  <2> QED BY <2>1, SMT DEF LockInv
<1>3. {tip, pindexPrev, prev} \subseteq 0..now
  <2>1. TimeInv
    BY Zenon DEF Inv
  <2> QED BY <2>1, SMT DEF TimeInv
<1>4. stage \in 0..6 /\ interrupted = (stage > 0)
  <2>1. StageInv
    BY Zenon DEF Inv
  <2> QED BY <2>1, SMT DEF StageInv
<1> QED BY <1>1, <1>2, <1>3, <1>4, Zenon DEF MinterSane, TypeOK

\* MinterSane holds in every reachable state: a minter that works shows no
\* warning, whichever waits, failures and continues came before; cs_main is held
\* in the sync loop only, and given back on every way out of it; no block is
\* later than now; and the interrupt is set when Shutdown is under way.
THEOREM MinterStaysSane == Spec => []MinterSane
<1>1. Init => Inv
  <2> SUFFICES ASSUME Init PROVE Inv
    BY Zenon
  <2>1. now \in 0..MaxTime /\ tip = 0 /\ pindexPrev = 0 /\ prev = 0 /\ stage = 0
    BY Zenon DEF Init
  <2>2. WarningInv
    BY Zenon DEF Init, WarningInv
  <2>3. TimeInv
    BY <2>1, TimeAssumption DEF TimeInv
  <2>4. LockInv
    BY Zenon DEF Init, LockInv, Labels
  <2>5. stage \in 0..6 /\ ~(stage > 0)
    BY <2>1
  <2>6. StageInv
    BY <2>5, Zenon DEF Init, StageInv
  <2> QED BY <2>2, <2>3, <2>4, <2>6, Zenon DEF Inv
<1>2. Inv /\ [Next]_vars => Inv'
  BY WarningNext, TimeNext, LockNext, StageNext, Zenon DEF Inv
<1> QED BY <1>1, <1>2, InvSane, PTL DEF Spec
=============================================================================
