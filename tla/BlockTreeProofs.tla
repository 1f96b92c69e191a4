--------------------------- MODULE BlockTreeProofs ---------------------------
(***************************************************************************)
(* The block index and the active chain, for every tree of blocks, every   *)
(* trust, stake and pointer order, and any number of operator calls,       *)
(* crashes and restarts.  Induction over the tree is by a block that       *)
(* breaks a claim and whose parent does not (Rooted).                      *)
(***************************************************************************)
EXTENDS BlockTree, TLAPS

(* The tree of blocks. *)

\* A recursion along pprev, with the values in V, the value v0 at the genesis block
\* and the value s[b, v] at a block b whose parent has the value v.
Recurses(f, D, parent, V, v0, s) ==
  /\ D \subseteq All /\ Genesis \in D /\ f \in [D -> V] /\ f[Genesis] = v0
  /\ \A b \in D \ {Genesis} : parent[b] \in D /\ f[b] = s[<<b, f[parent[b]]>>]

\* A behaviour stays in its world, whose tree has these properties.
TreeInv ==
  /\ world \in Worlds /\ Work \in [All -> Nat] /\ Chain \in [All -> SUBSET All]
  /\ Chain[Genesis] = {Genesis}
  /\ \A b \in Blocks : Work[Parent[b]] < Work[b] /\ Chain[b] = {b} \cup Chain[Parent[b]]

\* What a world consists of.
LEMMA WorldParts ==
  ASSUME TreeInv
  PROVE  /\ Genesis \notin Blocks /\ NoBlock \notin All
         /\ Parent \in [Blocks -> All] /\ Rooted(Parent)
         /\ Legacy \subseteq Blocks /\ BadScripts \subseteq Blocks
         /\ \A b \in Blocks : Kernel[b].time \in Nat \ {0}
         /\ \A o \in Orders : o \in [All -> Nat] /\ \A a, b \in All : o[a] = o[b] => a = b
         /\ MaxCalls \in Nat /\ MaxRestarts \in Nat /\ MayFailWrite \in BOOLEAN
BY TreeAssumption, Zenon DEF TreeInv, Parent, Legacy, BadScripts, Kernel, Orders, MaxCalls, MaxRestarts,
   MayFailWrite

\* nChainTrust and Ancestors compute what TreeInv says: the trust of a block is more than
\* its parent's, and its chain is the block and the chain of its parent.
LEMMA TreeInit ==
  Init => TreeInv
\* Two such functions agree on the blocks that both are defined for.
<1>RecursionUnique.
  ASSUME NEW parent \in [Blocks -> All], Rooted(parent), NEW V, NEW v0, NEW s,
         NEW D, NEW f, Recurses(f, D, parent, V, v0, s),
         NEW E, NEW g, Recurses(g, E, parent, V, v0, s)
  PROVE  \A b \in D \cap E : f[b] = g[b]
  <2> USE <1>RecursionUnique
  <2> DEFINE T == {b \in D \cap E : f[b] # g[b]}
  <2>1. T \subseteq Blocks
    BY Zenon DEF Recurses, All
  <2>2. SUFFICES ASSUME T # {} PROVE FALSE
    BY Zenon
  <2>3. PICK b \in T : parent[b] \notin T
    BY <2>1, <2>2, Zenon DEF Rooted
  <2>4. b \in (D \cap E) \ {Genesis}
    BY <2>3, Zenon DEF Recurses
  <2>5. parent[b] \in D \cap E /\ f[b] = s[<<b, f[parent[b]]>>] /\ g[b] = s[<<b, g[parent[b]]>>]
    BY <2>4, Zenon DEF Recurses
  <2> QED BY <2>3, <2>5, Zenon
\* Every block is in the domain of one.
<1>RecursionReaches.
  ASSUME NEW parent \in [Blocks -> All], Rooted(parent), NEW V, NEW v0 \in V,
         NEW s \in [Blocks \X V -> V]
  PROVE  \A b \in All : \E D, f : b \in D /\ Recurses(f, D, parent, V, v0, s)
  <2> USE <1>RecursionReaches
  <2> DEFINE T == {b \in All : ~ \E D, f : b \in D /\ Recurses(f, D, parent, V, v0, s)}
  <2>1. Recurses([x \in {Genesis} |-> v0], {Genesis}, parent, V, v0, s)
    BY Zenon DEF Recurses, All
  <2>2. T \subseteq Blocks
    BY <2>1 DEF All
  <2>3. SUFFICES ASSUME T # {} PROVE FALSE
    BY Zenon
  <2>4. PICK b \in T : parent[b] \notin T
    BY <2>2, <2>3, Zenon DEF Rooted
  <2>5. b \in Blocks /\ b # Genesis /\ parent[b] \in All
    BY <2>2, <2>4, TreeAssumption, Zenon
  <2>6. PICK D, f : parent[b] \in D /\ Recurses(f, D, parent, V, v0, s)
    BY <2>4, <2>5, Zenon
  <2>7. b \notin D
    BY <2>4, <2>6, Zenon
  <2> DEFINE E == D \cup {b}
             v == s[<<b, f[parent[b]]>>]
             g == [x \in E |-> IF x = b THEN v ELSE f[x]]
  <2>8. v \in V
    BY <2>5, <2>6, Zenon DEF Recurses
  <2>9. g \in [E -> V] /\ E \subseteq All /\ Genesis \in E
    BY <2>5, <2>6, <2>8, Zenon DEF Recurses, All
  <2>10. \A x \in D : g[x] = f[x]
    BY <2>7, Zenon
  <2>11. g[b] = v
    BY Zenon
  <2> HIDE DEF g, E, v
  <2>12. g[Genesis] = v0
    BY <2>6, <2>10, Zenon DEF Recurses
  <2>13. \A x \in E \ {Genesis} : parent[x] \in E /\ g[x] = s[<<x, g[parent[x]]>>]
    <3> SUFFICES ASSUME NEW x \in E \ {Genesis} PROVE parent[x] \in E /\ g[x] = s[<<x, g[parent[x]]>>]
      BY Zenon
    <3>1. CASE x = b
      BY <2>6, <2>10, <2>11, <3>1, Zenon DEF E, v
    <3>2. CASE x \in D
      <4>1. parent[x] \in D /\ f[x] = s[<<x, f[parent[x]]>>]
        BY <2>6, <3>2, Zenon DEF Recurses
      <4>2. g[parent[x]] = f[parent[x]] /\ g[x] = f[x]
        BY <2>10, <3>2, <4>1, Zenon
      <4> QED BY <4>1, <4>2, Zenon DEF E
    <3> QED BY <3>1, <3>2, Zenon DEF E
  <2>14. Recurses(g, E, parent, V, v0, s)
    BY <2>9, <2>12, <2>13, Zenon DEF Recurses
  <2> QED BY <2>4, <2>14, Zenon DEF E
\* There is one for all blocks.
<1>RecursionExists.
  ASSUME NEW parent \in [Blocks -> All], Rooted(parent), NEW V, NEW v0 \in V,
         NEW s \in [Blocks \X V -> V]
  PROVE  \E f : Recurses(f, All, parent, V, v0, s)
  <2> USE <1>RecursionExists
  <2> DEFINE R(f, D) == Recurses(f, D, parent, V, v0, s)
             val(b) == CHOOSE v : \E D, f : b \in D /\ R(f, D) /\ v = f[b]
             g == [b \in All |-> val(b)]
  <2>1. ASSUME NEW D, NEW f, R(f, D), NEW b \in D
        PROVE  g[b] = f[b]
    <3>1. \E v : \E E, h : b \in E /\ R(h, E) /\ v = h[b]
      BY <2>1, Zenon
    <3>2. PICK E, h : b \in E /\ R(h, E) /\ val(b) = h[b]
      BY <3>1, Zenon
    <3>3. h[b] = f[b]
      BY <2>1, <3>2, <1>RecursionUnique
    <3>4. b \in All
      BY <2>1, Zenon DEF Recurses
    <3> HIDE DEF val
    <3> QED BY <3>2, <3>3, <3>4, Zenon
  <2>2. ASSUME NEW b \in All
        PROVE  \E D, f : b \in D /\ R(f, D)
    BY <1>RecursionReaches, Zenon
  <2>3. DOMAIN g = All /\ g = [b \in All |-> g[b]]
    OBVIOUS
  <2> HIDE DEF g
  <2>4. g[Genesis] = v0
    <3>1. PICK D, f : Genesis \in D /\ R(f, D)
      BY <2>2, Zenon DEF All
    <3>2. f[Genesis] = v0
      BY <3>1, Zenon DEF Recurses
    <3> QED BY <2>1, <3>1, <3>2, Zenon
  <2>5. ASSUME NEW b \in All
        PROVE  g[b] \in V
    <3>1. PICK D, f : b \in D /\ R(f, D)
      BY <2>2, Zenon
    <3>2. f[b] \in V
      BY <3>1, Zenon DEF Recurses
    <3> QED BY <2>1, <3>1, <3>2
  <2>6. ASSUME NEW b \in All \ {Genesis}
        PROVE  parent[b] \in All /\ g[b] = s[<<b, g[parent[b]]>>]
    <3>1. PICK D, f : b \in D /\ R(f, D)
      BY <2>2, Zenon
    <3>2. parent[b] \in D /\ f[b] = s[<<b, f[parent[b]]>>] /\ D \subseteq All
      BY <3>1, Zenon DEF Recurses
    <3>3. g[b] = f[b] /\ g[parent[b]] = f[parent[b]]
      BY <2>1, <3>1, <3>2
    <3> QED BY <3>2, <3>3, Zenon
  <2>7. g \in [All -> V] /\ Genesis \in All
    BY <2>3, <2>5, Zenon DEF All
  <2> QED BY <2>4, <2>6, <2>7, Zenon DEF Recurses
\* nChainTrust grows along every chain.
<1>TrustGrows.
  ASSUME NEW w \in Worlds
  PROVE  /\ nChainTrust(w) \in [All -> Nat]
         /\ \A b \in Blocks : nChainTrust(w)[w.parent[b]] < nChainTrust(w)[b]
  <2> USE <1>TrustGrows
  <2> DEFINE step(f) == [b \in All |-> IF b = Genesis THEN 0 ELSE f[w.parent[b]] + w.trust[b]]
             s == [p \in Blocks \X Nat |-> p[2] + w.trust[p[1]]]
             F == nChainTrust(w)
  <2>1. /\ w.parent \in [Blocks -> All] /\ Rooted(w.parent) /\ w.trust \in [Blocks -> Nat \ {0}]
        /\ Genesis \notin Blocks
    BY TreeAssumption, Zenon
  <2>2. s \in [Blocks \X Nat -> Nat]
    BY <2>1
  <2>3. PICK f : Recurses(f, All, w.parent, Nat, 0, s)
    BY <2>1, <2>2, <1>RecursionExists, Zenon
  <2>4. f = step(f)
    <3>1. ASSUME NEW b \in All PROVE f[b] = step(f)[b]
      <4>1. CASE b = Genesis
        BY <2>3, <4>1, Zenon DEF Recurses
      <4>2. CASE b # Genesis
        <5>1. b \in Blocks /\ f[w.parent[b]] \in Nat /\ f[b] = s[<<b, f[w.parent[b]]>>]
          BY <2>1, <2>3, <4>2, Zenon DEF Recurses, All
        <5>2. s[<<b, f[w.parent[b]]>>] = f[w.parent[b]] + w.trust[b]
          BY <5>1, Zenon
        <5> HIDE DEF s
        <5> QED BY <4>2, <5>1, <5>2, Zenon
      <4> QED BY <4>1, <4>2, Zenon
    <3>2. DOMAIN f = All /\ f = [b \in All |-> f[b]]
      BY <2>3, Zenon DEF Recurses
    <3> QED BY <3>1, <3>2, Zenon
  <2>5. F = step(F)
    BY <2>4, Zenon DEF nChainTrust
  <2> HIDE DEF F
  <2>6. F[Genesis] = 0 /\ \A b \in Blocks : F[b] = F[w.parent[b]] + w.trust[b]
    <3>1. \A b \in All : F[b] = IF b = Genesis THEN 0 ELSE F[w.parent[b]] + w.trust[b]
      BY <2>5, Zenon
    <3> QED BY <2>1, <3>1, Zenon DEF All
  <2>7. DOMAIN F = All /\ F = [b \in All |-> F[b]]
    BY <2>5, Zenon
  <2>8. \A b \in All : F[b] \in Nat
    <3> DEFINE T == {b \in Blocks : F[b] \notin Nat}
    <3>1. SUFFICES ASSUME T # {} PROVE FALSE
      BY <2>6 DEF All
    <3>2. PICK b \in T : w.parent[b] \notin T
      BY <2>1, <3>1, Zenon DEF Rooted
    <3>3. F[w.parent[b]] \in Nat /\ w.trust[b] \in Nat
      BY <2>1, <2>6, <3>2 DEF All
    <3> QED BY <2>6, <3>2, <3>3
  <2>9. ASSUME NEW b \in Blocks PROVE F[w.parent[b]] < F[b]
    <3>1. F[w.parent[b]] \in Nat /\ w.trust[b] \in Nat \ {0} /\ F[b] = F[w.parent[b]] + w.trust[b]
      BY <2>1, <2>6, <2>8, Zenon
    <3> QED BY <3>1
  <2>10. F \in [All -> Nat]
    BY <2>7, <2>8, Zenon
  <2> QED BY <2>9, <2>10, Zenon DEF F
\* Ancestors gives the chain of every block.
<1>ChainsGrow.
  ASSUME NEW w \in Worlds
  PROVE  /\ Ancestors(w) \in [All -> SUBSET All]
         /\ Ancestors(w)[Genesis] = {Genesis}
         /\ \A b \in Blocks : Ancestors(w)[b] = {b} \cup Ancestors(w)[w.parent[b]]
  <2> USE <1>ChainsGrow
  <2> DEFINE step(f) == [b \in All |-> IF b = Genesis THEN {b} ELSE {b} \cup f[w.parent[b]]]
             s == [p \in Blocks \X SUBSET All |-> {p[1]} \cup p[2]]
             F == Ancestors(w)
  <2>1. w.parent \in [Blocks -> All] /\ Rooted(w.parent) /\ Genesis \notin Blocks
    BY TreeAssumption, Zenon
  <2>2. s \in [Blocks \X SUBSET All -> SUBSET All] /\ {Genesis} \in SUBSET All
    BY <2>1, Zenon DEF All
  <2>3. PICK f : Recurses(f, All, w.parent, SUBSET All, {Genesis}, s)
    BY <2>1, <2>2, <1>RecursionExists, Zenon
  <2>4. f = step(f)
    <3>1. ASSUME NEW b \in All PROVE f[b] = step(f)[b]
      <4>1. CASE b = Genesis
        BY <2>3, <4>1, Zenon DEF Recurses
      <4>2. CASE b # Genesis
        <5>1. b \in Blocks /\ f[w.parent[b]] \in SUBSET All /\ f[b] = s[<<b, f[w.parent[b]]>>]
          BY <2>1, <2>3, <4>2, Zenon DEF Recurses, All
        <5>2. s[<<b, f[w.parent[b]]>>] = {b} \cup f[w.parent[b]]
          BY <5>1, Zenon
        <5> HIDE DEF s
        <5>3. step(f)[b] = {b} \cup f[w.parent[b]]
          BY <4>2, Zenon
        <5> QED BY <5>1, <5>2, <5>3, Zenon
      <4> QED BY <4>1, <4>2, Zenon
    <3>2. DOMAIN f = All /\ f = [b \in All |-> f[b]]
      BY <2>3, Zenon DEF Recurses
    <3> QED BY <3>1, <3>2, Zenon
  <2>5. F = step(F)
    BY <2>4, Zenon DEF Ancestors
  <2> HIDE DEF F
  <2>6. \A b \in All : F[b] = IF b = Genesis THEN {b} ELSE {b} \cup F[w.parent[b]]
    BY <2>5, Zenon
  <2>7. F[Genesis] = {Genesis} /\ \A b \in Blocks : F[b] = {b} \cup F[w.parent[b]]
    BY <2>1, <2>6, Zenon DEF All
  <2>8. DOMAIN F = All /\ F = [b \in All |-> F[b]]
    BY <2>5, Zenon
  <2>9. \A b \in All : F[b] \subseteq All
    <3> DEFINE T == {b \in Blocks : ~(F[b] \subseteq All)}
    <3>1. SUFFICES ASSUME T # {} PROVE FALSE
      BY <2>7, Zenon DEF All
    <3>2. PICK b \in T : w.parent[b] \notin T
      BY <2>1, <3>1, Zenon DEF Rooted
    <3>3. F[w.parent[b]] \subseteq All
      BY <2>1, <2>7, <3>2, Zenon DEF All
    <3> QED BY <2>7, <3>2, <3>3, Zenon DEF All
  <2>10. F \in [All -> SUBSET All]
    BY <2>8, <2>9, Zenon
  <2> QED BY <2>7, <2>10, Zenon DEF F
<1>Step.
  ASSUME Init
  PROVE  TreeInv
  BY <1>Step, <1>TrustGrows, <1>ChainsGrow, Zenon DEF Init, TreeInv, Parent
<1> QED BY <1>Step, Zenon

\* The tree of a world does not change.
LEMMA TreeSame ==
  ASSUME TreeInv, UNCHANGED tree
  PROVE  TreeInv'
BY Zenon DEF TreeInv, tree, Parent

\* No step changes the world.
LEMMA TreeNext ==
  ASSUME TreeInv, [Next]_vars
  PROVE  TreeInv' /\ UNCHANGED tree
<1>1. UNCHANGED tree
  BY Zenon DEF Next, vars, tree, bounds, ProcessNewBlockHeaders, ProcessNewBlock, InvalidateBlock,
     ReconsiderBlock, PreciousBlock, Chainstate, BeginActivation, ActivateBestChainStep,
     InvalidateTip, EndInvalidate, Restart, Crash
<1> QED BY <1>1, TreeSame, Zenon

\* A chain holds its block and the genesis block, and the chains of its blocks.
LEMMA ChainParts ==
  ASSUME TreeInv, NEW b \in All
  PROVE  /\ b \in Chain[b] /\ Genesis \in Chain[b] /\ Chain[b] \subseteq All
         /\ \A a \in Chain[b] : /\ Chain[a] \subseteq Chain[b] /\ (a \in Blocks => Parent[a] \in Chain[b])
                                /\ Work[a] <= Work[b]
                                /\ a # b => b \in Blocks /\ a \in Chain[Parent[b]] /\ Work[a] < Work[b]
<1> DEFINE P(x) == /\ x \in Chain[x] /\ Genesis \in Chain[x] /\ Chain[x] \subseteq All
                   /\ \A a \in Chain[x] :
                        /\ Chain[a] \subseteq Chain[x] /\ (a \in Blocks => Parent[a] \in Chain[x])
                        /\ Work[a] <= Work[x]
                        /\ a # x => x \in Blocks /\ a \in Chain[Parent[x]] /\ Work[a] < Work[x]
           T == {x \in Blocks : ~P(x)}
<1>1. Genesis \notin Blocks /\ Parent \in [Blocks -> All] /\ Rooted(Parent)
  BY WorldParts, Zenon
<1>2. \A x \in All : Work[x] \in Nat /\ Chain[x] \subseteq All
  BY Zenon DEF TreeInv
<1>3. P(Genesis)
  BY <1>1, <1>2 DEF TreeInv, All
<1>4. ASSUME NEW x \in Blocks, P(Parent[x])
      PROVE  P(x)
  <2>1. /\ Chain[x] = {x} \cup Chain[Parent[x]] /\ Work[Parent[x]] < Work[x] /\ Parent[x] \in All
        /\ x \in All
    BY <1>1, Zenon DEF TreeInv, All
  <2>2. ASSUME NEW a \in Chain[x], a # x
        PROVE  /\ Chain[a] \subseteq Chain[x] /\ (a \in Blocks => Parent[a] \in Chain[x])
               /\ a \in Chain[Parent[x]] /\ Work[a] < Work[x]
    <3>1. a \in Chain[Parent[x]] /\ a \in All
      BY <1>2, <2>1, <2>2, Zenon
    <3>2. /\ Chain[a] \subseteq Chain[Parent[x]] /\ (a \in Blocks => Parent[a] \in Chain[Parent[x]])
          /\ Work[a] <= Work[Parent[x]]
      BY <1>4, <3>1, Zenon
    <3>3. Work[a] < Work[x]
      BY <1>2, <2>1, <3>1, <3>2
    <3> QED BY <2>1, <3>1, <3>2, <3>3, Zenon
  <2>3. x \in Chain[x] /\ Parent[x] \in Chain[x] /\ Genesis \in Chain[x]
    BY <1>4, <2>1, Zenon
  <2>4. ASSUME NEW a \in Chain[x] PROVE Work[a] <= Work[x]
    <3>1. a \in All
      BY <1>2, <2>1, Zenon
    <3> QED BY <1>2, <2>1, <2>2, <3>1
  <2> QED BY <1>2, <2>1, <2>2, <2>3, <2>4, Zenon
<1> HIDE DEF P
<1>5. T = {}
  <2> SUFFICES ASSUME T # {} PROVE FALSE
    BY Zenon
  <2>1. PICK x \in T : Parent[x] \notin T
    BY <1>1, Zenon DEF Rooted
  <2>2. P(Parent[x])
    BY <1>1, <1>3, <2>1, Zenon DEF All
  <2> QED BY <1>4, <2>1, <2>2, Zenon
<1>6. P(b)
  BY <1>3, <1>5, Zenon DEF All
<1> QED BY <1>6, Zenon DEF P

-----------------------------------------------------------------------------
(* The inductive invariant. *)

\* The forms of the work that a thread does while it holds m_chainstate_mutex.
ActivationJob ==
  [kind : {"activate"}, most : All \cup {NoBlock}, start : All \cup {NoBlock}, connected : BOOLEAN,
   locked : BOOLEAN]

InvalidationJob == [kind : {"invalidate"}, block : Blocks, mark : Blocks, cand : SUBSET All]

\* The work that ActivateBestChain does not let go of cs_main for: the tip is no
\* better than the one it began with.
JobInv ==
  /\ job \in {NoJob} \cup ActivationJob \cup InvalidationJob
  /\ job.kind = "activate" /\ job.locked => job.start \in All /\ Work[tip] <= Work[job.start]

\* PreciousBlock counts down once for each call.
CountInv == nBlockReverseSequenceId >= -(MaxCalls - calls + 1)

\* The block index database and the best block of the coins database.
DiskRecord == [flags : [All -> SUBSET Flag], tip : All]

\* The types, with what the numbers of the running jobs and calls need.
TypeInv == TreeInv /\ TypeOK /\ JobInv /\ CountInv /\ disk \in DiskRecord

\* The blocks whose transactions an index entry has.
DataOf(fl) == {b \in All : "data" \in fl[b]}

Closed(D) == Genesis \in D /\ \A b \in D \cap Blocks : Parent[b] \in D

\* A block has its data only if its ancestors have theirs, in memory and on disk;
\* every block whose data is not on disk is dirty; the tips, the candidates and what a
\* thread works on have their data.
DataInv ==
  /\ Closed(DataOf(flags)) /\ Closed(DataOf(disk.flags))
  /\ DataOf(disk.flags) \subseteq DataOf(flags) /\ DataOf(flags) \subseteq DataOf(disk.flags) \cup dirty
  /\ tip \in DataOf(flags) /\ disk.tip \in DataOf(disk.flags)
  /\ candidates \subseteq DataOf(flags)
  /\ job.kind = "activate" => job.most \in DataOf(flags) \cup {NoBlock}
  /\ job.kind = "invalidate" => job.cand \subseteq DataOf(flags)

\* The stakes of the blocks.  Since the first start every stored block has its stake in
\* setStakeSeen; unless a write failed, an index entry has its stake only with its data;
\* each stake seen is that of a block of the index.
StakeInv ==
  /\ restarts = MaxRestarts => \A b \in DataOf(flags) \cap Blocks : StakeOf(b) \in setStakeSeen
  /\ ~MayFailWrite => \A b \in All : /\ "stake" \in flags[b] => "data" \in flags[b]
                                     /\ "stake" \in disk.flags[b] => "data" \in disk.flags[b]
  /\ \A s \in setStakeSeen : \E a \in Blocks : StakeOf(a) = s /\ {"stake", "tree"} \subseteq flags[a]
  /\ StakeUsedOnce

\* The inductive invariant.
Inv == TypeInv /\ DataInv /\ StakeInv

\* The tip only goes back in an invalidation, at a start, or while cs_main stays held.
WorkKept ==
  Work[tip'] < Work[tip] => \/ job.kind = "invalidate" \/ restarts' # restarts
                            \/ job'.kind = "activate" /\ job'.locked

\* The forms of a job.
LEMMA JobParts ==
  ASSUME TypeInv
  PROVE  /\ job.kind \in {"none", "activate", "invalidate"}
         /\ job.kind = "none" <=> job = NoJob
         /\ job.kind = "activate" => job \in ActivationJob
         /\ job.kind = "invalidate" => job \in InvalidationJob
<1>1. NoJob.kind = "none"
  BY Zenon DEF NoJob
<1>2. \A j \in ActivationJob : j.kind = "activate"
  BY Zenon DEF ActivationJob
<1>3. \A j \in InvalidationJob : j.kind = "invalidate"
  BY Zenon DEF InvalidationJob
<1> QED BY <1>1, <1>2, <1>3, Zenon DEF TypeInv, JobInv

\* The types of the variables, for the proofs that need few of them.
LEMMA TypeParts ==
  ASSUME TypeInv
  PROVE  /\ flags \in [All -> SUBSET Flag] /\ dirty \subseteq All /\ tip \in All
         /\ candidates \subseteq All /\ m_failed_blocks \subseteq All
         /\ nSequenceId \in [All -> Int] /\ addr \in [All -> Nat] /\ addr \in Orders
         /\ nBlockSequenceId \in Nat /\ nBlockReverseSequenceId \in Int /\ nLastPreciousChainwork \in Nat
         /\ nBlockReverseSequenceId <= -1
         /\ want \in BOOLEAN /\ up \in {"up", "abort", "stuck"} /\ refused \subseteq Blocks
         /\ disk.flags \in [All -> SUBSET Flag] /\ disk.tip \in All
         /\ calls \in Nat /\ calls <= MaxCalls /\ restarts \in Nat /\ restarts <= MaxRestarts
BY WorldParts DEF TypeInv, TypeOK

\* With adds one flag to some blocks.
LEMMA WithFlags ==
  ASSUME NEW fl \in [All -> SUBSET Flag], NEW bs, NEW f \in Flag
  PROVE  /\ With(fl, bs, f) \in [All -> SUBSET Flag]
         /\ \A x \in All : fl[x] \subseteq With(fl, bs, f)[x]
         /\ \A x \in All, g \in Flag : g # f => (g \in With(fl, bs, f)[x] <=> g \in fl[x])
         /\ \A x \in All \ bs : With(fl, bs, f)[x] = fl[x]
         /\ f # "data" => DataOf(With(fl, bs, f)) = DataOf(fl)
<1>1. \A x \in All : With(fl, bs, f)[x] = IF x \in bs THEN fl[x] \cup {f} ELSE fl[x]
  BY Zenon DEF With
<1>2. With(fl, bs, f) \in [All -> SUBSET Flag]
  BY Zenon DEF With
<1>3. "data" \in Flag
  BY Zenon DEF Flag
<1> QED BY <1>1, <1>2, <1>3, Zenon DEF DataOf

\* A flush keeps the flags typed; if only the entries in d may have new data, it
\* brings the data of all of them to disk.
LEMMA FlushParts ==
  ASSUME TypeInv, NEW fl \in [All -> SUBSET Flag], NEW d, NEW t
  PROVE  /\ WriteBlockIndexDB(fl, d).flags \in [All -> SUBSET Flag]
         /\ FullFlush(fl, d, t).flags = WriteBlockIndexDB(fl, d).flags
         /\ WriteBlockIndexDB(fl, d).tip = disk.tip /\ FullFlush(fl, d, t).tip = t
         /\ \A x \in All : WriteBlockIndexDB(fl, d).flags[x] = IF x \in d THEN fl[x] ELSE disk.flags[x]
         /\ WriteBlockIndexDB(fl, d) \in DiskRecord /\ (t \in All => FullFlush(fl, d, t) \in DiskRecord)
         /\ DataOf(disk.flags) \subseteq DataOf(fl) /\ DataOf(fl) \subseteq DataOf(disk.flags) \cup d =>
              DataOf(WriteBlockIndexDB(fl, d).flags) = DataOf(fl)
<1> DEFINE w == [b \in All |-> IF b \in d THEN fl[b] ELSE disk.flags[b]]
<1>1. disk = [flags |-> disk.flags, tip |-> disk.tip] /\ disk.flags \in [All -> SUBSET Flag] /\ disk.tip \in All
  BY Zenon DEF TypeInv, DiskRecord
<1>2. w \in [All -> SUBSET Flag]
  BY <1>1, Zenon
<1>3. \A x \in All : w[x] = IF x \in d THEN fl[x] ELSE disk.flags[x]
  BY Zenon
<1>4. WriteBlockIndexDB(fl, d) = [disk EXCEPT !.flags = w]
  BY Zenon DEF WriteBlockIndexDB
<1> HIDE DEF w
<1>5. WriteBlockIndexDB(fl, d) = [flags |-> w, tip |-> disk.tip]
  BY <1>1, <1>4, Zenon
<1>6. FullFlush(fl, d, t) = [flags |-> w, tip |-> t]
  BY <1>5 DEF FullFlush
<1>7. DataOf(disk.flags) \subseteq DataOf(fl) /\ DataOf(fl) \subseteq DataOf(disk.flags) \cup d =>
        DataOf(w) = DataOf(fl)
  BY <1>3, Zenon DEF DataOf
<1> QED BY <1>1, <1>2, <1>3, <1>5, <1>6, <1>7 DEF DiskRecord

\* If a block of such a set is in it, its chain is.
LEMMA ClosedChain ==
  ASSUME TreeInv, NEW D, Closed(D), NEW b \in D \cap All
  PROVE  Chain[b] \subseteq D
<1> DEFINE T == {x \in D \cap Blocks : ~(Chain[x] \subseteq D)}
<1>1. Rooted(Parent) /\ T \subseteq Blocks
  BY WorldParts, Zenon
<1>2. T = {}
  <2> SUFFICES ASSUME T # {} PROVE FALSE
    BY Zenon
  <2>1. PICK x \in T : Parent[x] \notin T
    BY <1>1, Zenon DEF Rooted
  <2>2. Parent[x] \in D /\ Parent[x] \in All /\ Chain[x] = {x} \cup Chain[Parent[x]]
    BY <2>1, WorldParts, Zenon DEF Closed, TreeInv
  <2>3. Chain[Parent[x]] \subseteq D
    BY <2>1, <2>2, Zenon DEF All, Closed, TreeInv
  <2> QED BY <2>1, <2>2, <2>3, Zenon
<1> QED BY <1>2, Zenon DEF All, Closed, TreeInv

\* The parts of the invariant, of the next state.
LEMMA TypeAgain ==
  ASSUME TypeInv, UNCHANGED tree,
         flags' \in [All -> SUBSET Flag], dirty' \subseteq All, disk' \in DiskRecord, tip' \in All,
         candidates' \subseteq All, m_failed_blocks' \subseteq All,
         setStakeSeen' \subseteq {StakeOf(b) : b \in Blocks},
         nSequenceId' \in [All -> Int], addr' \in Orders, nBlockSequenceId' \in Nat,
         nBlockReverseSequenceId' \in Int, nBlockReverseSequenceId' < 0,
         nBlockReverseSequenceId' >= -(MaxCalls - calls' + 1), nLastPreciousChainwork' \in Nat,
         job' \in {NoJob} \cup ActivationJob \cup InvalidationJob,
         job'.kind = "activate" /\ job'.locked => job'.start \in All /\ Work[tip'] <= Work[job'.start],
         want' \in BOOLEAN, up' \in {"up", "abort", "stuck"}, refused' \subseteq Blocks,
         calls' \in Nat, calls' <= MaxCalls, restarts' \in Nat, restarts' <= MaxRestarts
  PROVE  TypeInv'
<1>1. TreeInv' /\ Work' = Work /\ world' = world
  BY TreeSame, Zenon DEF tree, TypeInv
<1>2. JobInv'
  BY <1>1, Zenon DEF JobInv
<1>3. CountInv'
  BY <1>1, Zenon DEF CountInv, MaxCalls
<1>4. /\ job'.kind \in {"none", "activate", "invalidate"}
      /\ job'.kind = "activate" => job'.most \in All \cup {NoBlock} /\ (job'.locked => job'.start \in All)
      /\ job'.kind = "invalidate" => job'.block \in Blocks /\ job'.mark \in Blocks /\ job'.cand \subseteq All
  BY DEF NoJob, ActivationJob, InvalidationJob
<1>5. disk'.flags \in [All -> SUBSET Flag] /\ disk'.tip \in All
  BY Zenon DEF DiskRecord
<1>6. nBlockReverseSequenceId' \in -(MaxCalls + 1)..-1 /\ calls' \in 0..MaxCalls /\ restarts' \in 0..MaxRestarts
  BY WorldParts DEF TypeInv
<1>7. TypeOK'
  BY <1>1, <1>4, <1>5, <1>6, Zenon DEF TypeOK, StakeOf, Kernel, Orders, MaxCalls, MaxRestarts
<1> QED BY <1>1, <1>2, <1>3, <1>7, Zenon DEF TypeInv

\* The parts of the invariant, of the next state.
LEMMA DataAgain ==
  ASSUME UNCHANGED tree, NEW D, NEW K, DataOf(flags') = D, DataOf(disk'.flags) = K,
         Closed(D), Closed(K), K \subseteq D, D \subseteq K \cup dirty', tip' \in D, disk'.tip \in K,
         candidates' \subseteq D,
         job'.kind = "activate" => job'.most \in D \cup {NoBlock},
         job'.kind = "invalidate" => job'.cand \subseteq D
  PROVE  DataInv'
<1>1. DataOf(flags)' = D /\ DataOf(disk.flags)' = K
  BY Zenon DEF DataOf
<1>2. Closed(D)' /\ Closed(K)'
  BY Zenon DEF Closed, tree, Parent
<1> QED BY <1>1, <1>2, Zenon DEF DataInv, Closed

\* A flush brings no stake to disk without the data of its block.
LEMMA StakeFlush ==
  ASSUME TypeInv, NEW fl \in [All -> SUBSET Flag], NEW d, NEW t,
         \A b \in All : /\ "stake" \in fl[b] => "data" \in fl[b]
                        /\ "stake" \in disk.flags[b] => "data" \in disk.flags[b]
  PROVE  /\ \A b \in All : "stake" \in WriteBlockIndexDB(fl, d).flags[b]
                             => "data" \in WriteBlockIndexDB(fl, d).flags[b]
         /\ \A b \in All : "stake" \in FullFlush(fl, d, t).flags[b] => "data" \in FullFlush(fl, d, t).flags[b]
<1>1. \A x \in All : WriteBlockIndexDB(fl, d).flags[x] = IF x \in d THEN fl[x] ELSE disk.flags[x]
  BY FlushParts, Zenon
<1>2. FullFlush(fl, d, t).flags = WriteBlockIndexDB(fl, d).flags
  BY FlushParts
<1> QED BY <1>1, <1>2, Zenon

-----------------------------------------------------------------------------
(* Steps that store no block. *)

\* g differs from the index at most in the marks of failed blocks, in what was
\* connected and in new headers.
SameData(g) ==
  /\ g \in [All -> SUBSET Flag] /\ DataOf(g) = DataOf(flags)
  /\ \A x \in All : /\ "stake" \in g[x] <=> "stake" \in flags[x]
                    /\ "tree" \in flags[x] => "tree" \in g[x]

\* The names of the flags.
LEMMA FlagNames ==
  {"tree", "data", "scripts", "stake", "failed", "child"} \subseteq Flag
BY Zenon DEF Flag

\* A mark that says nothing of the data of blocks.
LEMMA MarkSame ==
  ASSUME NEW fl, SameData(fl), NEW bs, NEW f \in Flag \ {"data", "stake"}
  PROVE  SameData(With(fl, bs, f)) /\ \A x \in All : fl[x] \subseteq With(fl, bs, f)[x]
<1>1. "stake" \in Flag
  BY FlagNames, Zenon
<1> QED BY <1>1, WithFlags, Zenon DEF SameData

\* The index has the data it has.
LEMMA FlagsSame ==
  ASSUME TypeInv
  PROVE  SameData(flags)
BY TypeParts, Zenon DEF SameData

\* A step writes nothing, or index entries with all the data that is known, and
\* perhaps the coins at a block of the old or the new chain.
Flushes ==
  \/ disk' = disk /\ dirty \subseteq dirty'
  \/ \E g, d, x : /\ SameData(g) /\ dirty \subseteq d /\ x \in Chain[tip] \cup Chain[tip']
                  /\ disk' = WriteBlockIndexDB(g, d) \/ disk' = FullFlush(g, d, x)

\* What a thread that holds m_chainstate_mutex works on in the next state.
JobNext ==
  /\ job' \in {NoJob} \cup ActivationJob \cup InvalidationJob
  /\ job'.kind = "activate" =>
       /\ job'.most \in DataOf(flags) \cup {NoBlock}
       /\ job'.locked => job'.start \in All /\ Work[tip'] <= Work[job'.start]
  /\ job'.kind = "invalidate" => job'.cand \subseteq DataOf(flags)

\* A step that stores no block and is no start.
Quiet ==
  /\ UNCHANGED <<tree, setStakeSeen, restarts>> /\ SameData(flags') /\ Flushes /\ JobNext
  /\ dirty' \subseteq All /\ m_failed_blocks' \subseteq All
  /\ tip' \in DataOf(flags) /\ candidates' \subseteq DataOf(flags)
  /\ want' \in BOOLEAN /\ up' \in {"up", "abort", "stuck"} /\ refused' \subseteq Blocks
  /\ ~MayFailWrite => \A b \in refused' \ refused :
                        \E a \in Blocks \ {b} : Known(a) /\ StakeOf(a) = StakeOf(b)
  /\ calls' \in Nat
  /\ \/ UNCHANGED sequence /\ calls' <= calls
     \/ /\ UNCHANGED <<nBlockSequenceId, addr>> /\ calls' = calls - 1
        /\ nSequenceId' \in [All -> Int] /\ nLastPreciousChainwork' \in Nat
        /\ nBlockReverseSequenceId' \in Int /\ nBlockReverseSequenceId' < 0
        /\ nBlockReverseSequenceId' >= nBlockReverseSequenceId - 1

\* A job that goes on, or ends.
LEMMA JobKept ==
  ASSUME Inv, tip' = tip, job' = job \/ job' = NoJob
  PROVE  JobNext
<1>1. CASE job' = job
  BY <1>1, Zenon DEF Inv, TypeInv, JobInv, DataInv, JobNext
<1>2. CASE job' = NoJob
  BY <1>2, Zenon DEF JobNext, NoJob
<1> QED BY <1>1, <1>2, Zenon

\* Such a step keeps the invariant.
LEMMA QuietKeeps ==
  Inv /\ Quiet => Inv'
\* What is on disk after a flush.
<1>DiskTyped.
  ASSUME TypeInv, Flushes, tip' \in All
  PROVE  disk' \in DiskRecord
  <2> USE <1>DiskTyped
  <2>1. CASE disk' = disk
    BY <2>1, Zenon DEF TypeInv
  <2>2. CASE disk' # disk
    <3>1. PICK g, d, x : /\ SameData(g) /\ x \in Chain[tip] \cup Chain[tip']
                         /\ disk' = WriteBlockIndexDB(g, d) \/ disk' = FullFlush(g, d, x)
      BY <2>2, Zenon DEF Flushes
    <3>2. x \in All
      BY <3>1, TypeParts, ChainParts, Zenon DEF TypeInv
    <3>3. g \in [All -> SUBSET Flag]
      BY <3>1, Zenon DEF SameData
    <3>4. WriteBlockIndexDB(g, d) \in DiskRecord /\ FullFlush(g, d, x) \in DiskRecord
      BY <3>2, <3>3, FlushParts, Zenon
    <3> QED BY <3>1, <3>4, Zenon
  <2> QED BY <2>1, <2>2, Zenon
\* It keeps the types ...
<1>TypeQuiet.
  ASSUME TypeInv, Quiet
  PROVE  TypeInv'
  <2> USE <1>TypeQuiet
  <2>1. tip' \in All /\ candidates' \subseteq All /\ UNCHANGED tree
    BY Zenon DEF Quiet, DataOf
  <2>2. disk' \in DiskRecord
    BY <2>1, <1>DiskTyped, Zenon DEF Quiet
  <2>3. /\ flags' \in [All -> SUBSET Flag] /\ dirty' \subseteq All /\ m_failed_blocks' \subseteq All
        /\ want' \in BOOLEAN /\ up' \in {"up", "abort", "stuck"} /\ refused' \subseteq Blocks
    BY Zenon DEF Quiet, SameData
  <2>4. setStakeSeen' \subseteq {StakeOf(b) : b \in Blocks}
    BY Zenon DEF Quiet, TypeInv, TypeOK
  <2>5. /\ job' \in {NoJob} \cup ActivationJob \cup InvalidationJob
        /\ job'.kind = "activate" /\ job'.locked => job'.start \in All /\ Work[tip'] <= Work[job'.start]
    BY Zenon DEF Quiet, JobNext
  <2>6. /\ calls' \in Nat /\ restarts' = restarts
        /\ \/ UNCHANGED sequence /\ calls' <= calls
           \/ /\ UNCHANGED <<nBlockSequenceId, addr>> /\ calls' = calls - 1
              /\ nSequenceId' \in [All -> Int] /\ nLastPreciousChainwork' \in Nat
              /\ nBlockReverseSequenceId' \in Int /\ nBlockReverseSequenceId' < 0
              /\ nBlockReverseSequenceId' >= nBlockReverseSequenceId - 1
    BY Zenon DEF Quiet
  <2>7. /\ nSequenceId' \in [All -> Int] /\ addr' \in Orders /\ nBlockSequenceId' \in Nat
        /\ nBlockReverseSequenceId' \in Int /\ nBlockReverseSequenceId' < 0 /\ nLastPreciousChainwork' \in Nat
    BY <2>6, TypeParts DEF sequence
  <2>8. calls' <= MaxCalls /\ restarts' \in Nat /\ restarts' <= MaxRestarts
    BY <2>6, TypeParts, WorldParts DEF TypeInv
  <2>9. nBlockReverseSequenceId' >= -(MaxCalls - calls' + 1)
    <3>1. nBlockReverseSequenceId >= -(MaxCalls - calls + 1) /\ nBlockReverseSequenceId \in Int /\ calls \in Nat
          /\ MaxCalls \in Nat
      BY TypeParts, WorldParts, Zenon DEF TypeInv, CountInv
    <3>2. calls' \in Nat
      BY <2>6, Zenon
    <3>3. CASE nBlockReverseSequenceId' = nBlockReverseSequenceId /\ calls' <= calls
      <4>1. \A m, c, d \in Nat, n \in Int : d <= c /\ n >= -(m - c + 1) => n >= -(m - d + 1)
        OBVIOUS
      <4> QED BY <3>1, <3>2, <3>3, <4>1, Zenon
    <3>4. CASE calls' = calls - 1 /\ nBlockReverseSequenceId' >= nBlockReverseSequenceId - 1
      BY <2>7, <3>1, <3>2, <3>4
    <3> QED BY <2>6, <3>3, <3>4, Zenon DEF sequence
  <2> QED BY <2>1, <2>2, <2>3, <2>4, <2>5, <2>6, <2>7, <2>8, <2>9, TypeAgain, Zenon
\* ... the data of the blocks, in memory and on disk ...
<1>DataQuiet.
  ASSUME TypeInv, DataInv, Quiet
  PROVE  DataInv'
  <2> USE <1>DataQuiet
  <2>0. /\ UNCHANGED tree /\ SameData(flags') /\ Flushes /\ tip' \in DataOf(flags)
        /\ candidates' \subseteq DataOf(flags)
        /\ job'.kind = "activate" => job'.most \in DataOf(flags) \cup {NoBlock}
        /\ job'.kind = "invalidate" => job'.cand \subseteq DataOf(flags)
    BY Zenon DEF Quiet, JobNext
  <2> USE <2>0
  <2> DEFINE D == DataOf(flags)
             K == DataOf(disk.flags)
  <2>1. DataOf(flags') = D
    BY Zenon DEF SameData
  <2>2. Closed(D) /\ Closed(K) /\ K \subseteq D /\ D \subseteq K \cup dirty /\ tip \in D /\ disk.tip \in K
    BY Zenon DEF DataInv
  <2>3. D \subseteq All
    BY Zenon DEF DataOf
  <2> HIDE DEF D, K
  <2>4. CASE disk' = disk /\ dirty \subseteq dirty'
    <3>1. DataOf(disk'.flags) = K /\ D \subseteq K \cup dirty'
      BY <2>2, <2>4, Zenon DEF K
    <3> QED BY <2>1, <2>2, <2>4, <3>1, DataAgain, Zenon DEF D
  <2>5. CASE ~(disk' = disk /\ dirty \subseteq dirty')
    <3>1. PICK g, d, x : /\ SameData(g) /\ dirty \subseteq d /\ x \in Chain[tip] \cup Chain[tip']
                         /\ disk' = WriteBlockIndexDB(g, d) \/ disk' = FullFlush(g, d, x)
      BY <2>5, Zenon DEF Flushes
    <3>2. x \in D
      <4>1. tip \in D \cap All /\ tip' \in D \cap All
        BY <2>2, <2>3, Zenon DEF D
      <4>2. Chain[tip] \subseteq D /\ Chain[tip'] \subseteq D
        BY <2>2, <4>1, ClosedChain, Zenon DEF TypeInv
      <4> QED BY <3>1, <4>2, Zenon
    <3>3. g \in [All -> SUBSET Flag] /\ DataOf(g) = D
      BY <3>1, Zenon DEF SameData, D
    <3>4. D \subseteq K \cup d
      BY <2>2, <3>1, Zenon
    <3>5. DataOf(WriteBlockIndexDB(g, d).flags) = D
      BY <2>2, <3>3, <3>4, FlushParts, Zenon DEF K
    <3>6. DataOf(disk'.flags) = D /\ disk'.tip \in D
      BY <2>2, <3>1, <3>2, <3>3, <3>5, FlushParts
    <3> QED BY <2>1, <2>2, <3>6, DataAgain, Zenon DEF D
  <2> QED BY <2>4, <2>5, Zenon
\* ... and the stakes.
<1>StakeQuiet.
  ASSUME TypeInv, StakeInv, Quiet
  PROVE  StakeInv'
  <2> USE <1>StakeQuiet
  <2>0. /\ UNCHANGED tree /\ SameData(flags') /\ Flushes /\ UNCHANGED <<setStakeSeen, restarts>>
        /\ ~MayFailWrite => \A b \in refused' \ refused :
                              \E a \in Blocks \ {b} : Known(a) /\ StakeOf(a) = StakeOf(b)
    BY Zenon DEF Quiet
  <2> USE <2>0
  <2>7. /\ MayFailWrite' = MayFailWrite /\ MaxRestarts' = MaxRestarts /\ Legacy' = Legacy
        /\ \A x : StakeOf(x)' = StakeOf(x)
    BY Zenon DEF MayFailWrite, MaxRestarts, Legacy, StakeOf, Kernel, tree
  <2>1. /\ flags' \in [All -> SUBSET Flag] /\ DataOf(flags') = DataOf(flags)
        /\ \A x \in All : /\ "data" \in flags'[x] <=> "data" \in flags[x]
                          /\ "stake" \in flags'[x] <=> "stake" \in flags[x]
                          /\ "tree" \in flags[x] => "tree" \in flags'[x]
    BY Zenon DEF SameData, DataOf
  <2>2. (restarts = MaxRestarts => \A b \in DataOf(flags) \cap Blocks : StakeOf(b) \in setStakeSeen)'
    BY <2>7, <2>1, Zenon DEF StakeInv, DataOf
  <2>3. ASSUME ~MayFailWrite
        PROVE  \A b \in All : /\ "stake" \in flags'[b] => "data" \in flags'[b]
                              /\ "stake" \in disk'.flags[b] => "data" \in disk'.flags[b]
    <3>1. \A b \in All : /\ "stake" \in flags[b] => "data" \in flags[b]
                         /\ "stake" \in disk.flags[b] => "data" \in disk.flags[b]
      BY <2>3, Zenon DEF StakeInv
    <3>2. CASE disk' = disk
      BY <2>1, <3>1, <3>2, Zenon
    <3>3. CASE disk' # disk
      <4>1. PICK g, d, x : SameData(g) /\ (disk' = WriteBlockIndexDB(g, d) \/ disk' = FullFlush(g, d, x))
        BY <3>3, Zenon DEF Flushes
      <4>2. g \in [All -> SUBSET Flag] /\ \A b \in All : "stake" \in g[b] => "data" \in g[b]
        BY <3>1, <4>1, Zenon DEF SameData, DataOf
      <4>3. /\ \A b \in All : "stake" \in WriteBlockIndexDB(g, d).flags[b]
                                => "data" \in WriteBlockIndexDB(g, d).flags[b]
            /\ \A b \in All : "stake" \in FullFlush(g, d, x).flags[b] => "data" \in FullFlush(g, d, x).flags[b]
        BY <3>1, <4>2, StakeFlush, Zenon
      <4> QED BY <2>1, <3>1, <4>1, <4>3, Zenon
    <3> QED BY <3>2, <3>3, Zenon
  <2>4. (\A s \in setStakeSeen : \E a \in Blocks : StakeOf(a) = s /\ {"stake", "tree"} \subseteq flags[a])'
    BY <2>7, <2>1, Zenon DEF StakeInv, All
  <2>5. (restarts = MaxRestarts =>
          \A a, b \in Legacy : a # b /\ {"data"} \subseteq flags[a] \cap flags[b] => StakeOf(a) # StakeOf(b))'
    <3>1. Legacy \subseteq All
      BY WorldParts, Zenon DEF TypeInv, All
    <3> QED BY <2>7, <2>1, <3>1 DEF StakeInv, StakeUsedOnce
  <2>6. (~MayFailWrite => \A b \in refused : \E a \in Blocks \ {b} : Known(a) /\ StakeOf(a) = StakeOf(b))'
    <3>1. \A a \in Blocks : Known(a) => Known(a)'
      BY <2>1, Zenon DEF Known, All
    <3>2. ~MayFailWrite => \A b \in refused' : \E a \in Blocks \ {b} : Known(a) /\ StakeOf(a) = StakeOf(b)
      BY Zenon DEF StakeInv, StakeUsedOnce
    <3> QED BY <2>7, <3>1, <3>2, Zenon
  <2> QED BY <2>7, <2>2, <2>3, <2>4, <2>5, <2>6, Zenon DEF StakeInv, StakeUsedOnce
<1>Step.
  ASSUME Inv, Quiet
  PROVE  Inv'
  <2> USE <1>Step
  <2>1. TypeInv' /\ DataInv'
    BY <1>TypeQuiet, <1>DataQuiet, Zenon DEF Inv
  <2>2. StakeInv'
    BY <1>StakeQuiet, Zenon DEF Inv
  <2> QED BY <2>1, <2>2, Zenon DEF Inv
<1> QED BY <1>Step, Zenon

-----------------------------------------------------------------------------
(* Headers and blocks. *)

\* A header, or a block asked for or not, arrives.
Arrives(b) == ProcessNewBlockHeaders(b) \/ \E fRequested \in BOOLEAN : ProcessNewBlock(b, fRequested)

\* A header or block that adds no transactions may mark blocks, and makes only blocks
\* candidates that could be the tip.
Kept(b) ==
  /\ UNCHANGED <<setStakeSeen, sequence>>
  /\ SameData(flags')
  /\ dirty \subseteq dirty' /\ dirty' \subseteq All /\ m_failed_blocks' \subseteq All
  /\ candidates' \subseteq candidates \cup {x \in DataOf(flags) : ~Worse(x, tip)}
  /\ want' \in BOOLEAN /\ up' \in {"up", "abort", "stuck"}
  /\ \/ refused' = refused
     \/ /\ refused' = refused \cup {b} /\ "data" \notin flags[b]
        /\ "stake" \in flags[b] \/ (GetProofOfStake(b) \in setStakeSeen /\ "stake" \notin flags[b])

\* The arrival of a header or a block.
LEMMA ArrivalKeeps ==
  \A b \in Blocks : Inv /\ UNCHANGED tree /\ Arrives(b) => Inv'
\* A new header brings no data.
<1>AddedSame.
  ASSUME TypeInv, NEW b \in Blocks
  PROVE  SameData(Added(b)) /\ SameData(With(Added(b), {b}, "failed"))
  BY <1>AddedSame, FlagsSame, MarkSame, FlagNames, Zenon DEF Added
\* RefuseHeader marks descendants of a failed block.
<1>RefuseKept.
  ASSUME TypeInv, NEW b \in Blocks, RefuseHeader(b)
  PROVE  Kept(b)
  <2> USE <1>RefuseKept
  <2>1. PICK marked \in MarkedByHeader(b) : flags' = With(flags, marked, "child") /\ dirty' = dirty \cup marked
    BY Zenon DEF RefuseHeader
  <2>2. marked \subseteq All
    <3>1. CASE marked = {}
      BY <3>1, Zenon
    <3>2. CASE \E f : marked = Chain[Parent[b]] \ Chain[f]
      <4>1. Parent[b] \in All
        BY WorldParts, Zenon DEF TypeInv
      <4> QED BY <3>2, <4>1, Zenon DEF TypeInv, TreeInv
    <3> QED BY <2>1, <3>1, <3>2, Zenon DEF MarkedByHeader
  <2>4. SameData(flags')
    BY <2>1, FlagNames, FlagsSame, MarkSame, Zenon
  <2>5. UNCHANGED <<setStakeSeen, candidates, m_failed_blocks, sequence, want, up, refused>>
    BY Zenon DEF RefuseHeader
  <2> QED BY <2>1, <2>2, <2>4, <2>5, TypeParts, Zenon DEF Kept
\* An accepted header enters the index.
<1>AddKept.
  ASSUME TypeInv, NEW b \in Blocks, flags' = Added(b),
         dirty' = dirty \cup ({b} \ {x \in All : Known(x)}),
         want' \in BOOLEAN,
         UNCHANGED <<setStakeSeen, candidates, m_failed_blocks, sequence, up, refused>>
  PROVE  Kept(b)
  <2> USE <1>AddKept
  <2>1. SameData(flags')
    BY <1>AddedSame, Zenon
  <2>2. dirty' \subseteq All /\ dirty \subseteq dirty'
    BY TypeParts, Zenon DEF All
  <2> QED BY <2>1, <2>2, TypeParts, Zenon DEF Kept
\* A block that fails its checks is marked.
<1>FailKept.
  ASSUME TypeInv, NEW b \in Blocks, Fail(b)
  PROVE  /\ SameData(flags')
         /\ dirty \subseteq dirty' /\ dirty' \subseteq All
         /\ UNCHANGED <<setStakeSeen, sequence, want>>
  <2> USE <1>FailKept
  <2>1. SameData(flags')
    BY <1>AddedSame, Zenon DEF Fail
  <2> QED BY <2>1, TypeParts, Zenon DEF Fail, All
\* A block that has its own stake in the index is refused.
<1>FailOwnKept.
  ASSUME TypeInv, NEW b \in Blocks, "data" \notin flags[b], FailOwnStake(b)
  PROVE  Kept(b)
  <2> USE <1>FailOwnKept
  <2>1. CASE job = NoJob
    <3>1. /\ Fail(b) /\ m_failed_blocks' = m_failed_blocks \cup {b} /\ UNCHANGED up
          /\ candidates' = (candidates \ {b}) \cup Missed(b)
          /\ refused' = refused \cup {b} /\ "stake" \in flags[b]
      BY <2>1, Zenon DEF FailOwnStake
    <3>2. Missed(b) \subseteq {x \in DataOf(flags) : ~Worse(x, tip)}
      BY Zenon DEF Missed, IsValidTransactions, DataOf
    <3> QED BY <3>1, <3>2, <1>FailKept, TypeParts, Zenon DEF Kept, All
  <2>2. CASE job # NoJob
    <3>1. /\ up' = "stuck" /\ refused' = refused \cup {b} /\ "stake" \in flags[b]
          /\ UNCHANGED <<flags, dirty, setStakeSeen, candidates, m_failed_blocks, sequence, want>>
      BY <2>2, Zenon DEF FailOwnStake
    <3> QED BY <3>1, FlagsSame, TypeParts, Zenon DEF Kept
  <2> QED BY <2>1, <2>2, Zenon
\* What the arrival of a header or a block does.
<1>ArrivalStep.
  ASSUME TypeInv, NEW b \in Blocks, Arrives(b)
  PROVE  /\ Running /\ UNCHANGED <<disk, tip, job, calls, restarts>>
         /\ \/ Kept(b)
            \/ StoreBlock(b) /\ IsValidTransactions(flags, Parent[b]) /\ "data" \notin flags[b]
  <2> USE <1>ArrivalStep
  <2>0. Running /\ UNCHANGED <<disk, tip, job, calls, restarts>>
    BY Zenon DEF Arrives, ProcessNewBlockHeaders, ProcessNewBlock, bounds
  <2>1. CASE ProcessNewBlockHeaders(b)
    <3>1. CASE RefuseHeader(b)
      BY <2>0, <3>1, <1>RefuseKept, Zenon
    <3>2. CASE ~RefuseHeader(b)
      <4>1. /\ flags' = Added(b) /\ dirty' = dirty \cup ({b} \ {x \in All : Known(x)})
            /\ UNCHANGED <<setStakeSeen, candidates, m_failed_blocks, sequence, want, up, refused>>
        BY <2>1, <3>2, Zenon DEF ProcessNewBlockHeaders
      <4> QED BY <2>0, <4>1, <1>AddKept, TypeParts, Zenon
    <3> QED BY <3>1, <3>2, Zenon
  <2>2. CASE \E fRequested \in BOOLEAN : ProcessNewBlock(b, fRequested)
    <3>1. PICK fRequested \in BOOLEAN : ProcessNewBlock(b, fRequested)
      BY <2>2, Zenon
    <3>2. CASE RefuseHeader(b)
      BY <2>0, <3>2, <1>RefuseKept, Zenon
    <3>3. CASE ~RefuseHeader(b)
      <4> DEFINE orphan == ~IsValidTransactions(flags, Parent[b])
                 skipped == "data" \in flags[b] \/ (~fRequested /\ Work[b] < Work[tip])
      <4>1. \/ /\ orphan \/ skipped
               /\ flags' = Added(b)
               /\ dirty' = dirty \cup ({b} \ {x \in All : Known(x)})
               /\ want' = (want \/ ~orphan)
               /\ UNCHANGED <<setStakeSeen, candidates, m_failed_blocks, sequence, up, refused>>
            \/ /\ ~orphan /\ ~skipped
               /\ \/ b \in BadStake /\ Fail(b) /\ UNCHANGED <<candidates, m_failed_blocks, up, refused>>
                  \/ b \notin BadStake /\ (FailOwnStake(b) \/ FailSeenStake(b) \/ StoreBlock(b))
        BY <3>1, <3>3, Zenon DEF ProcessNewBlock, AcceptBlock
      <4>2. CASE /\ flags' = Added(b)
                 /\ dirty' = dirty \cup ({b} \ {x \in All : Known(x)})
                 /\ want' = (want \/ ~orphan)
                 /\ UNCHANGED <<setStakeSeen, candidates, m_failed_blocks, sequence, up, refused>>
        <5>1. want' \in BOOLEAN
          BY <4>2, Zenon
        <5> QED BY <2>0, <4>2, <5>1, <1>AddKept, Zenon
      <4>3. CASE Fail(b) /\ UNCHANGED <<candidates, m_failed_blocks, up, refused>>
        <5>1. Kept(b)
          BY <4>3, <1>FailKept, TypeParts, Zenon DEF Kept
        <5> QED BY <2>0, <5>1, Zenon
      <4>4. CASE ~orphan /\ ~skipped /\ FailOwnStake(b)
        BY <2>0, <4>4, <1>FailOwnKept, Zenon
      <4>5. CASE ~orphan /\ ~skipped /\ FailSeenStake(b)
        <5>1. /\ Fail(b) /\ UNCHANGED <<candidates, m_failed_blocks, up>> /\ refused' = refused \cup {b}
              /\ "stake" \notin flags[b] /\ GetProofOfStake(b) \in setStakeSeen /\ "data" \notin flags[b]
          BY <4>5, Zenon DEF FailSeenStake
        <5>2. Kept(b)
          BY <5>1, <1>FailKept, TypeParts, Zenon DEF Kept
        <5> QED BY <2>0, <5>2, Zenon
      <4>6. CASE ~orphan /\ ~skipped /\ StoreBlock(b)
        BY <2>0, <4>6, Zenon
      <4> HIDE DEF orphan, skipped
      <4> QED BY <4>1, <4>2, <4>3, <4>4, <4>5, <4>6, Zenon
    <3> QED BY <3>1, <3>2, <3>3, Zenon
  <2> QED BY <2>1, <2>2, Zenon DEF Arrives
\* What StoreBlock does, whether or not the block can be written.
<1>StoreParts.
  ASSUME TypeInv, NEW b \in Blocks, StoreBlock(b)
  PROVE  /\ flags' \in [All -> SUBSET Flag] /\ {"tree", "stake"} \subseteq flags'[b]
         /\ \A x \in All \ {b} : flags'[x] = flags[x]
         /\ "stake" \notin flags[b] /\ GetProofOfStake(b) \notin setStakeSeen
         /\ setStakeSeen' = setStakeSeen \cup {StakeOf(b)} /\ dirty' = dirty \cup {b}
         /\ UNCHANGED <<m_failed_blocks, nBlockReverseSequenceId, nLastPreciousChainwork, addr, refused>>
         /\ \/ /\ DataOf(flags') = DataOf(flags) \cup {b}
               /\ nSequenceId' = [nSequenceId EXCEPT ![b] = nBlockSequenceId]
               /\ nBlockSequenceId' = nBlockSequenceId + 1
               /\ \/ candidates' = candidates
                  \/ candidates' = candidates \cup {b} /\ Work[b] > Work[tip]
               /\ want' = TRUE /\ up' = up
            \/ /\ MayFailWrite /\ DataOf(flags') = DataOf(flags) /\ up' = "abort"
               /\ UNCHANGED <<nSequenceId, nBlockSequenceId, candidates, want>>
  <2> USE <1>StoreParts
  <2> DEFINE fl1 == Added(b)
             fl2 == With(fl1, {b}, "stake")
             fl3 == With(fl2, {b}, "data")
  <2>0. flags \in [All -> SUBSET Flag] /\ "tree" \in Flag /\ "stake" \in Flag /\ "data" \in Flag /\ b \in All
    BY TypeParts, FlagNames, Zenon DEF All
  <2>1. fl1 \in [All -> SUBSET Flag] /\ fl2 \in [All -> SUBSET Flag] /\ fl3 \in [All -> SUBSET Flag]
    BY <2>0, WithFlags, Zenon DEF Added
  <2>2. \A x \in All : fl1[x] = IF x = b THEN flags[x] \cup {"tree"} ELSE flags[x]
    BY <2>0, Zenon DEF Added, With
  <2>3. \A x \in All : fl2[x] = IF x = b THEN fl1[x] \cup {"stake"} ELSE fl1[x]
    BY <2>0, Zenon DEF With
  <2>4. \A x \in All : fl3[x] = IF x = b THEN fl2[x] \cup {"data"} ELSE fl2[x]
    BY <2>0, Zenon DEF With
  <2>5. /\ "stake" \notin flags[b] /\ GetProofOfStake(b) \notin setStakeSeen
        /\ setStakeSeen' = setStakeSeen \cup {StakeOf(b)} /\ dirty' = dirty \cup {b}
        /\ UNCHANGED <<m_failed_blocks, nBlockReverseSequenceId, nLastPreciousChainwork, addr, refused>>
        /\ \/ /\ flags' = fl3
              /\ nSequenceId' = [nSequenceId EXCEPT ![b] = nBlockSequenceId]
              /\ nBlockSequenceId' = nBlockSequenceId + 1
              /\ candidates' = IF Work[b] > Work[tip] THEN candidates \cup {b} ELSE candidates
              /\ want' = TRUE /\ up' = up
           \/ /\ MayFailWrite /\ flags' = fl2 /\ up' = "abort"
              /\ UNCHANGED <<nSequenceId, nBlockSequenceId, candidates, want>>
    BY Zenon DEF StoreBlock
  <2>9. DataOf(fl1) = DataOf(flags) /\ DataOf(fl2) = DataOf(fl1)
    BY <2>0, <2>1, WithFlags DEF Added
  <2> HIDE DEF fl1, fl2, fl3
  <2>6. DataOf(fl2) = DataOf(flags) /\ DataOf(fl3) = DataOf(flags) \cup {b}
    <3>1. \A x \in All : "data" \in fl3[x] <=> ("data" \in fl2[x] \/ x = b)
      BY <2>4, Zenon
    <3>2. DataOf(fl3) = DataOf(fl2) \cup {b}
      BY <2>0, <3>1, Zenon DEF DataOf
    <3> QED BY <2>9, <3>2, Zenon
  <2>7. flags' = fl2 \/ flags' = fl3
    BY <2>5, Zenon
  <2>8. /\ flags' \in [All -> SUBSET Flag] /\ {"tree", "stake"} \subseteq flags'[b]
        /\ \A x \in All \ {b} : flags'[x] = flags[x]
    BY <2>0, <2>1, <2>2, <2>3, <2>4, <2>7, Zenon
  <2> QED BY <2>5, <2>6, <2>8, Zenon
\* The stake that setStakeSeen is asked for is, if found there, that of the block.
<1>StakeFound.
  ASSUME TypeInv, NEW b \in Blocks
  PROVE  /\ b \in Legacy => GetProofOfStake(b) = StakeOf(b)
         /\ GetProofOfStake(b) \in {StakeOf(a) : a \in Blocks} => GetProofOfStake(b) = StakeOf(b)
  <2> USE <1>StakeFound
  <2>1. \A a \in Blocks : Kernel[a].time # 0
    BY WorldParts, Zenon DEF TypeInv
  <2> QED BY <2>1, Zenon DEF GetProofOfStake, StakeOf
\* A stored block has a sequence number ...
<1>TypeStore.
  ASSUME TypeInv, UNCHANGED tree, UNCHANGED <<disk, tip, job, calls, restarts>>, NEW b \in Blocks, StoreBlock(b)
  PROVE  TypeInv'
  <2> USE <1>TypeStore
  <2>1. /\ flags' \in [All -> SUBSET Flag]
        /\ setStakeSeen' = setStakeSeen \cup {StakeOf(b)} /\ dirty' = dirty \cup {b}
        /\ UNCHANGED <<m_failed_blocks, nBlockReverseSequenceId, nLastPreciousChainwork, addr, refused>>
        /\ \/ nSequenceId' = [nSequenceId EXCEPT ![b] = nBlockSequenceId] /\ nBlockSequenceId' = nBlockSequenceId + 1
           \/ UNCHANGED <<nSequenceId, nBlockSequenceId>>
        /\ candidates' \subseteq candidates \cup {b}
        /\ want' \in {TRUE, want} /\ up' \in {"abort", up}
    BY <1>StoreParts, Zenon
  <2>2. setStakeSeen' \subseteq {StakeOf(x) : x \in Blocks}
    BY <2>1, Zenon DEF TypeInv, TypeOK
  <2>3. nSequenceId' \in [All -> Int] /\ nBlockSequenceId' \in Nat
    <3>1. nSequenceId \in [All -> Int] /\ nBlockSequenceId \in Nat
      BY TypeParts, Zenon
    <3> QED BY <2>1, <3>1
  <2>4. /\ dirty' \subseteq All /\ candidates' \subseteq All /\ m_failed_blocks' \subseteq All
        /\ up' \in {"up", "abort", "stuck"} /\ refused' \subseteq Blocks
        /\ addr' \in Orders /\ nBlockReverseSequenceId' \in Int /\ nBlockReverseSequenceId' < 0
        /\ nLastPreciousChainwork' \in Nat
    BY <2>1, TypeParts DEF All
  <2>5. /\ disk' \in DiskRecord /\ tip' \in All /\ calls' \in Nat /\ calls' <= MaxCalls
        /\ restarts' \in Nat /\ restarts' <= MaxRestarts
    BY TypeParts, Zenon DEF TypeInv
  <2>6. nBlockReverseSequenceId' >= -(MaxCalls - calls' + 1)
    BY <2>1, Zenon DEF TypeInv, CountInv
  <2>7. want' \in BOOLEAN
    BY <2>1, TypeParts, Zenon
  <2>8. /\ job' \in {NoJob} \cup ActivationJob \cup InvalidationJob
        /\ job'.kind = "activate" /\ job'.locked => job'.start \in All /\ Work[tip'] <= Work[job'.start]
    BY Zenon DEF TypeInv, JobInv
  <2> QED BY <2>1, <2>2, <2>3, <2>4, <2>5, <2>6, <2>7, <2>8, TypeAgain, Zenon
\* ... its parent's data, and a dirty entry.
<1>DataStore.
  ASSUME TypeInv, DataInv, UNCHANGED tree, UNCHANGED <<disk, tip, job>>, NEW b \in Blocks,
         StoreBlock(b), IsValidTransactions(flags, Parent[b])
  PROVE  DataInv'
  <2> USE <1>DataStore
  <2> DEFINE D == DataOf(flags)
             K == DataOf(disk.flags)
  <2>1. /\ dirty' = dirty \cup {b}
        /\ \/ DataOf(flags') = D \cup {b} /\ candidates' \subseteq candidates \cup {b}
           \/ DataOf(flags') = D /\ candidates' = candidates
    BY <1>StoreParts, Zenon
  <2>2. Parent[b] \in D
    BY WorldParts, Zenon DEF IsValidTransactions, DataOf, TypeInv
  <2>3. Closed(D) /\ Closed(K) /\ K \subseteq D /\ D \subseteq K \cup dirty /\ tip \in D /\ disk.tip \in K
        /\ candidates \subseteq D
    BY Zenon DEF DataInv
  <2>4. Closed(D \cup {b})
    BY <2>2, <2>3, Zenon DEF Closed
  <2>5. /\ job'.kind = "activate" => job'.most \in D \cup {NoBlock}
        /\ job'.kind = "invalidate" => job'.cand \subseteq D
    BY Zenon DEF DataInv
  <2>6. DataOf(disk'.flags) = K
    BY Zenon
  <2> HIDE DEF D, K
  <2>7. CASE DataOf(flags') = D /\ candidates' = candidates
    BY <2>1, <2>3, <2>5, <2>6, <2>7, DataAgain, Zenon
  <2>8. CASE DataOf(flags') = D \cup {b} /\ candidates' \subseteq candidates \cup {b}
    BY <2>1, <2>3, <2>4, <2>5, <2>6, <2>8, DataAgain, Zenon
  <2> QED BY <2>1, <2>7, <2>8, Zenon
\* A stored block brings its stake, which no stored block had.
<1>StakeStore.
  ASSUME TypeInv, StakeInv, UNCHANGED tree, UNCHANGED <<disk, restarts>>, NEW b \in Blocks, StoreBlock(b)
  PROVE  StakeInv'
  <2> USE <1>StakeStore
  <2>0. /\ MayFailWrite' = MayFailWrite /\ MaxRestarts' = MaxRestarts /\ Legacy' = Legacy
        /\ \A x : StakeOf(x)' = StakeOf(x)
    BY Zenon DEF MayFailWrite, MaxRestarts, Legacy, StakeOf, Kernel, tree
  <2>1. /\ {"tree", "stake"} \subseteq flags'[b] /\ \A x \in All \ {b} : flags'[x] = flags[x]
        /\ "stake" \notin flags[b] /\ GetProofOfStake(b) \notin setStakeSeen
        /\ setStakeSeen' = setStakeSeen \cup {StakeOf(b)} /\ refused' = refused
        /\ DataOf(flags') = DataOf(flags) \cup {b} \/ (MayFailWrite /\ DataOf(flags') = DataOf(flags))
    BY <1>StoreParts, Zenon
  <2>2. (restarts = MaxRestarts => \A x \in DataOf(flags) \cap Blocks : StakeOf(x) \in setStakeSeen)'
    <3>1. DataOf(flags)' = DataOf(flags')
      BY Zenon DEF DataOf
    <3>2. DataOf(flags') \subseteq DataOf(flags) \cup {b}
      BY <2>1, Zenon
    <3> QED BY <2>0, <2>1, <3>1, <3>2, Zenon DEF StakeInv
  <2>3. ASSUME ~MayFailWrite
        PROVE  \A x \in All : /\ "stake" \in flags'[x] => "data" \in flags'[x]
                              /\ "stake" \in disk'.flags[x] => "data" \in disk'.flags[x]
    <3>1. "data" \in flags'[b]
      BY <2>1, <2>3, Zenon DEF DataOf
    <3> QED BY <2>1, <2>3, <3>1, Zenon DEF StakeInv
  <2>4. (\A s \in setStakeSeen : \E a \in Blocks : StakeOf(a) = s /\ {"stake", "tree"} \subseteq flags[a])'
    <3> SUFFICES ASSUME NEW s \in setStakeSeen'
                 PROVE  \E a \in Blocks : StakeOf(a) = s /\ {"stake", "tree"} \subseteq flags'[a]
      BY <2>0, Zenon
    <3>1. CASE s = StakeOf(b)
      BY <2>1, <3>1, Zenon
    <3>2. CASE s \in setStakeSeen
      <4>1. PICK a \in Blocks : StakeOf(a) = s /\ {"stake", "tree"} \subseteq flags[a]
        BY <3>2, Zenon DEF StakeInv
      <4>2. a \in All \ {b}
        BY <2>1, <4>1, Zenon DEF All
      <4> QED BY <2>1, <4>1, <4>2, Zenon
    <3> QED BY <2>1, <3>1, <3>2, Zenon
  <2>5. ASSUME restarts = MaxRestarts, NEW x \in Legacy, NEW y \in Legacy, x # y,
               "data" \in flags'[x], "data" \in flags'[y]
        PROVE  StakeOf(x) # StakeOf(y)
    <3>1. Legacy \subseteq All /\ Legacy \subseteq Blocks
      BY WorldParts, Zenon DEF TypeInv, All
    <3>2. ASSUME NEW z \in Legacy, z # b, "data" \in flags'[z], b \in Legacy
          PROVE  StakeOf(z) # StakeOf(b)
      <4>1. z \in DataOf(flags) \cap Blocks
        BY <2>1, <3>1, <3>2, Zenon DEF DataOf
      <4>2. StakeOf(z) \in setStakeSeen
        BY <2>5, <4>1, Zenon DEF StakeInv
      <4> QED BY <2>1, <3>2, <4>2, <1>StakeFound, Zenon
    <3>3. CASE x # b /\ y # b
      <4>1. "data" \in flags[x] /\ "data" \in flags[y]
        BY <2>1, <2>5, <3>1, <3>3, Zenon
      <4> QED BY <2>5, <4>1, Zenon DEF StakeInv, StakeUsedOnce
    <3> QED BY <2>5, <3>2, <3>3, Zenon
  <2>6. (~MayFailWrite => \A x \in refused : \E a \in Blocks \ {x} : Known(a) /\ StakeOf(a) = StakeOf(x))'
    <3>1. \A a \in Blocks : Known(a) => Known(a)'
      BY <2>1, Zenon DEF Known, All
    <3>2. ~MayFailWrite => \A x \in refused' : \E a \in Blocks \ {x} : Known(a) /\ StakeOf(a) = StakeOf(x)
      BY <2>1, Zenon DEF StakeInv, StakeUsedOnce
    <3> QED BY <2>0, <3>1, <3>2, Zenon
  <2>7. StakeUsedOnce'
    BY <2>0, <2>5, <2>6, Zenon DEF StakeUsedOnce
  <2> QED BY <2>0, <2>2, <2>3, <2>4, <2>7, Zenon DEF StakeInv
\* A block refused as a duplicate: another block has its stake.
<1>ArrivalQuiet.
  ASSUME Inv, UNCHANGED tree, UNCHANGED <<disk, tip, job, calls, restarts>>, NEW b \in Blocks, Kept(b)
  PROVE  Quiet
  <2> USE <1>ArrivalQuiet
  <2> USE DEF Inv
  <2>1. ASSUME ~MayFailWrite, NEW x \in refused' \ refused
        PROVE  \E a \in Blocks \ {x} : Known(a) /\ StakeOf(a) = StakeOf(x)
    <3>1. /\ x = b /\ "data" \notin flags[b]
          /\ "stake" \in flags[b] \/ (GetProofOfStake(b) \in setStakeSeen /\ "stake" \notin flags[b])
      BY <2>1, Zenon DEF Kept
    <3>2. GetProofOfStake(b) \in setStakeSeen /\ "stake" \notin flags[b]
      BY <2>1, <3>1, Zenon DEF StakeInv, All
    <3>3. PICK a \in Blocks : StakeOf(a) = GetProofOfStake(b) /\ {"stake", "tree"} \subseteq flags[a]
      BY <3>2, Zenon DEF StakeInv
    <3>4. GetProofOfStake(b) = StakeOf(b)
      BY <3>3, <1>StakeFound, Zenon
    <3> QED BY <3>1, <3>2, <3>3, <3>4, Zenon DEF Known
  <2>2. refused' \subseteq Blocks /\ calls' \in Nat /\ calls' <= calls
    BY TypeParts DEF Kept
  <2>3. JobNext
    BY JobKept, Zenon
  <2>4. tip' \in DataOf(flags) /\ candidates' \subseteq DataOf(flags)
    BY Zenon DEF Kept, DataInv
  <2>5. Flushes
    BY Zenon DEF Kept, Flushes
  <2> QED BY <2>1, <2>2, <2>3, <2>4, <2>5, Zenon DEF Kept, Quiet
<1>Step.
  ASSUME NEW b \in Blocks, Inv, UNCHANGED tree, Arrives(b)
  PROVE  Inv'
  <2> USE <1>Step
  <2>1. /\ UNCHANGED <<disk, tip, job, calls, restarts>>
        /\ \/ Kept(b)
           \/ StoreBlock(b) /\ IsValidTransactions(flags, Parent[b]) /\ "data" \notin flags[b]
    BY <1>ArrivalStep, Zenon DEF Inv
  <2>2. CASE Kept(b)
    BY <2>1, <2>2, <1>ArrivalQuiet, QuietKeeps, Zenon
  <2>3. CASE StoreBlock(b) /\ IsValidTransactions(flags, Parent[b])
    BY <2>1, <2>3, <1>TypeStore, <1>DataStore, <1>StakeStore, Zenon DEF Inv
  <2> QED BY <2>1, <2>2, <2>3, Zenon
<1> QED BY <1>Step, Zenon

-----------------------------------------------------------------------------
(* Activation and invalidation. *)

\* What ActivateBestChainStep does when there is something to connect.
MovesTip(most) ==
  /\ most \in All /\ tip' \in Chain[most]
  /\ tip' \in Chain[tip] \/ \A x \in candidates' : ~Worse(x, tip')
  /\ \E start \in All, next \in {NoBlock, most}, again \in BOOLEAN :
       /\ start = (IF job.locked THEN job.start ELSE tip)
       /\ again <=> Worse(tip', start)
       /\ \/ job' = NoJob /\ ~again
          \/ job' = [kind |-> "activate", most |-> next, start |-> start, connected |-> again, locked |-> again]

\* ActivateBestChain.
LEMMA ActivationKeeps ==
  Inv /\ UNCHANGED tree /\ (BeginActivation \/ ActivateBestChainStep) => Inv' /\ WorkKept
\* Of two blocks on one chain, one is an ancestor of the other.
<1>ChainLine.
  ASSUME TreeInv, NEW b \in All, NEW a \in Chain[b], NEW c \in Chain[b]
  PROVE  a \in Chain[c] \/ c \in Chain[a]
  <2> USE <1>ChainLine
  <2> DEFINE P(x) == \A d, e \in Chain[x] : d \in Chain[e] \/ e \in Chain[d]
             T == {x \in Blocks : ~P(x)}
  <2>1. Genesis \notin Blocks /\ Parent \in [Blocks -> All] /\ Rooted(Parent)
    BY WorldParts, Zenon
  <2>2. P(Genesis)
    BY Zenon DEF TreeInv
  <2>3. ASSUME NEW x \in Blocks, P(Parent[x])
        PROVE  P(x)
    <3>1. \A d \in Chain[x] : d = x \/ d \in Chain[Parent[x]]
      BY Zenon DEF TreeInv
    <3>2. \A d \in Chain[x] : d \in Chain[d]
      BY ChainParts, Zenon DEF All
    <3> QED BY <2>3, <3>1, <3>2, Zenon
  <2> HIDE DEF P
  <2>4. T = {}
    <3> SUFFICES ASSUME T # {} PROVE FALSE
      BY Zenon
    <3>1. PICK x \in T : Parent[x] \notin T
      BY <2>1, Zenon DEF Rooted
    <3>2. P(Parent[x])
      BY <2>1, <2>2, <3>1, Zenon DEF All
    <3> QED BY <2>3, <3>1, <3>2, Zenon
  <2>5. P(b)
    BY <2>2, <2>4, Zenon DEF All
  <2> QED BY <2>5, Zenon DEF P
\* Of blocks on one chain, one has the least work.
<1>LowestOn.
  ASSUME TreeInv, NEW b \in All, NEW S \in SUBSET Chain[b], S # {}
  PROVE  \E x \in S : \A y \in S : Work[x] <= Work[y]
  <2> USE <1>LowestOn
  <2>1. Genesis \notin Blocks /\ Parent \in [Blocks -> All] /\ Rooted(Parent) /\ S \subseteq All
    BY WorldParts, ChainParts, Zenon
  <2>2. CASE Genesis \in S
    <3>1. \A y \in S : Work[Genesis] <= Work[y]
      BY <2>1, ChainParts, Zenon
    <3> QED BY <2>2, <3>1, Zenon
  <2>3. CASE Genesis \notin S
    <3> DEFINE U == {x \in Chain[b] \cap Blocks : S \cap Chain[x] # {}}
    <3>1. U # {}
      BY <2>1, <2>3, ChainParts DEF All
    <3>2. PICK x \in U : Parent[x] \notin U
      BY <2>1, <3>1, Zenon DEF Rooted
    <3>3. Parent[x] \in Chain[b] /\ Parent[x] \in All /\ x \in All
      BY <2>1, <3>2, ChainParts, Zenon DEF All
    <3>4. \A y \in S \cap Chain[x] : y = x
      <4> SUFFICES ASSUME NEW y \in S \cap Chain[x], y # x PROVE FALSE
        BY Zenon
      <4>1. y \in Chain[Parent[x]]
        BY <3>3, ChainParts, Zenon
      <4>2. Parent[x] # Genesis
        BY <2>3, <4>1, Zenon DEF TreeInv
      <4> QED BY <3>2, <3>3, <4>1, <4>2, Zenon DEF All
    <3>5. x \in S
      BY <3>2, <3>4, Zenon
    <3>6. ASSUME NEW y \in S PROVE Work[x] <= Work[y]
      <4>1. x \in Chain[y] \/ y \in Chain[x]
        BY <3>2, <1>ChainLine, Zenon
      <4>2. Work[x] \in Nat /\ Work[y] \in Nat
        BY <2>1, <3>3, Zenon DEF TreeInv
      <4>3. CASE x \in Chain[y]
        BY <2>1, <4>3, ChainParts, Zenon
      <4>4. CASE y \in Chain[x]
        BY <3>4, <4>2, <4>4
      <4> QED BY <4>1, <4>3, <4>4, Zenon
    <3> QED BY <3>5, <3>6, Zenon
  <2> QED BY <2>2, <2>3, Zenon
\* FindMostWorkChain returns a candidate.
<1>MostWorkIs.
  MostWork \in candidates \cup {NoBlock}
  <2> USE <1>MostWorkIs
  <2>1. CASE \E c \in Usable : Last(c)
    <3>1. MostWork \in Usable
      BY <2>1, Zenon DEF MostWork
    <3> QED BY <3>1, Zenon DEF Usable
  <2>2. CASE ~ \E c \in Usable : Last(c)
    BY <2>2, Zenon DEF MostWork
  <2> QED BY <2>1, <2>2, Zenon
\* The fields of the work that goes on.
<1>ActivationRecord.
  ASSUME NEW m, NEW s, NEW a
  PROVE  [Activation EXCEPT !.most = m, !.start = s, !.connected = a, !.locked = a]
           = [kind |-> "activate", most |-> m, start |-> s, connected |-> a, locked |-> a]
  <2> USE <1>ActivationRecord
  <2> DEFINE r == [Activation EXCEPT !.most = m, !.start = s, !.connected = a, !.locked = a]
  <2>1. DOMAIN r = {"kind", "most", "start", "connected", "locked"} /\ r = [x \in DOMAIN r |-> r[x]]
    BY Zenon DEF Activation
  <2>2. r.kind = "activate" /\ r.most = m /\ r.start = s /\ r.connected = a /\ r.locked = a
    BY Zenon DEF Activation
  <2> HIDE DEF r
  <2>3. r = [kind |-> "activate", most |-> m, start |-> s, connected |-> a, locked |-> a]
    BY <2>1, <2>2, Zenon
  <2> QED BY <2>3, Zenon DEF r
<1>StepParts.
  ASSUME TypeInv, job \in ActivationJob, NEW most \in All \cup {NoBlock}, NEW cand,
         NEW fl, SameData(fl), Step(most, cand, fl)
  PROVE  /\ MovesTip(most) /\ candidates' \subseteq cand
         /\ SameData(flags') /\ dirty' \subseteq All /\ m_failed_blocks' \subseteq All /\ Flushes
  <2> USE <1>StepParts
  <2> DEFINE path == Chain[most] \ Chain[tip]
             stops == {x \in path : x \in BadScripts \/ Work[x] > Work[tip]} \cup {most}
             stop == CHOOSE x \in stops : \A y \in stops : Work[x] <= Work[y]
             bad == stop \in BadScripts
             t == IF bad THEN Parent[stop] ELSE stop
             connected == Chain[t] \ Chain[tip]
             fl2 == With(fl, connected, "scripts")
             start == IF job.locked THEN job.start ELSE tip
             next == IF bad THEN NoBlock ELSE most
             again == Worse(t, start)
             via == {x \in Chain[tip] \ {tip} : \A y \in Chain[tip] \cap Chain[most] : Work[x] >= Work[y]}
                      \cup connected
             after == IF bad THEN {stop} ELSE {}
  <2>1. /\ most \notin {NoBlock, tip} /\ tip' = t
        /\ flags' = With(fl2, after, "failed") /\ m_failed_blocks' = m_failed_blocks \cup after
        /\ candidates' = (IF connected = {} THEN cand ELSE PruneBlockIndexCandidates(cand, t)) \ after
        /\ job' = IF ~again /\ next = t THEN NoJob
                  ELSE [Activation EXCEPT !.most = next, !.start = start, !.connected = again, !.locked = again]
        /\ \/ job' # NoJob /\ disk' = disk /\ dirty' = dirty \cup connected \cup after
           \/ job' = NoJob /\ PeriodicFlush(fl2, dirty \cup connected, t)
           \/ /\ MaxRestarts > 0
              /\ \E x \in via :
                   /\ disk' = FullFlush(With(fl, connected \cap Chain[x], "scripts"),
                                        dirty \cup (connected \cap Chain[x]), x)
                   /\ dirty' = (connected \ Chain[x]) \cup after
    BY Zenon DEF Step, StillWorse
  <2>2. TreeInv /\ tip \in All /\ dirty \subseteq All /\ m_failed_blocks \subseteq All
    BY TypeParts, Zenon DEF TypeInv
  <2>3. most \in All
    BY <2>1, Zenon
  <2>4. stops \in SUBSET Chain[most] /\ stops # {}
    BY <2>2, <2>3, ChainParts, Zenon
  <2>5. stop \in stops
    <3>1. \E x \in stops : \A y \in stops : Work[x] <= Work[y]
      <4> HIDE DEF stops
      <4> QED BY <2>2, <2>3, <2>4, <1>LowestOn, Zenon
    <3> HIDE DEF stops
    <3> QED BY <3>1, Zenon
  <2> HIDE DEF stop
  <2>6. stop \in Chain[most] /\ stop \in All
    BY <2>2, <2>3, <2>4, <2>5, ChainParts, Zenon
  <2>7. t \in Chain[most] /\ t \in All /\ (bad => stop \in Blocks)
    BY <2>2, <2>3, <2>6, ChainParts, WorldParts, Zenon
  <2> HIDE DEF t
  <2>8. connected \subseteq All /\ after \subseteq All /\ Chain[tip] \subseteq All /\ Chain[most] \subseteq All
    BY <2>2, <2>3, <2>6, <2>7, ChainParts, Zenon
  <2>9. connected = {} => t \in Chain[tip]
    BY <2>2, <2>7, ChainParts, Zenon
  <2> HIDE DEF connected, after, path
  <2>10. SameData(fl2) /\ SameData(With(fl2, after, "failed"))
    BY FlagNames, MarkSame, Zenon
  <2>11. start \in All
    BY <2>2, Zenon DEF TypeInv, JobInv, ActivationJob
  <2> HIDE DEF start
  <2>12. \/ job' = NoJob /\ ~again
         \/ job' = [kind |-> "activate", most |-> next, start |-> start, connected |-> again, locked |-> again]
    <3> HIDE DEF again, next
    <3>1. [Activation EXCEPT !.most = next, !.start = start, !.connected = again, !.locked = again]
           = [kind |-> "activate", most |-> next, start |-> start, connected |-> again, locked |-> again]
      BY <1>ActivationRecord, Zenon
    <3> QED BY <2>1, <3>1, Zenon
  <2>13. again \in BOOLEAN
    BY Zenon DEF Worse, CBlockIndexWorkComparator
  <2>14. MovesTip(most)
    <3>1. t \in Chain[tip] \/ \A x \in candidates' : ~Worse(x, t)
      <4>1. CASE connected = {}
        BY <2>9, <4>1, Zenon
      <4>2. CASE connected # {}
        BY <2>1, <4>2, Zenon DEF PruneBlockIndexCandidates
      <4> QED BY <4>1, <4>2, Zenon
    <3>2. next \in {NoBlock, most}
      BY Zenon
    <3> HIDE DEF next, again
    <3> QED BY <2>1, <2>3, <2>7, <2>11, <2>12, <2>13, <3>1, <3>2, Zenon DEF MovesTip, again, start
  <2>15. candidates' \subseteq cand
    BY <2>1, Zenon DEF PruneBlockIndexCandidates
  <2>16. Flushes /\ dirty' \subseteq All
    <3>0. t \in Chain[tip']
      BY <2>1, <2>2, <2>7, ChainParts, Zenon
    <3>1. CASE disk' = disk /\ dirty' = dirty \cup connected \cup after
      BY <2>2, <2>8, <3>1, Zenon DEF Flushes
    <3>2. CASE PeriodicFlush(fl2, dirty \cup connected, t)
      <4> DEFINE d == dirty \cup connected
      <4>1. dirty \subseteq d /\ d \subseteq All
        BY <2>2, <2>8, Zenon
      <4> HIDE DEF d, fl2
      <4>2. \/ disk' = disk /\ dirty' = d
            \/ (disk' = WriteBlockIndexDB(fl2, d) \/ disk' = FullFlush(fl2, d, t)) /\ dirty' = {}
        BY <3>2, Zenon DEF PeriodicFlush, d
      <4> QED BY <2>10, <3>0, <4>1, <4>2, Zenon DEF Flushes
    <3>3. ASSUME NEW x \in via,
                 disk' = FullFlush(With(fl, connected \cap Chain[x], "scripts"),
                                   dirty \cup (connected \cap Chain[x]), x),
                 dirty' = (connected \ Chain[x]) \cup after
          PROVE  Flushes /\ dirty' \subseteq All
      <4> DEFINE g == With(fl, connected \cap Chain[x], "scripts")
                 d == dirty \cup (connected \cap Chain[x])
      <4>1. SameData(g)
        BY FlagNames, MarkSame, Zenon
      <4>2. dirty \subseteq d /\ disk' = FullFlush(g, d, x)
        BY <3>3, Zenon
      <4>3. x \in Chain[tip] \cup Chain[tip']
        BY <2>1, Zenon DEF connected
      <4> HIDE DEF g, d
      <4>4. Flushes
        BY <4>1, <4>2, <4>3, Zenon DEF Flushes
      <4> QED BY <2>8, <3>3, <4>4, Zenon
    <3> HIDE DEF fl2, via
    <3> QED BY <2>1, <3>1, <3>2, <3>3, Zenon
  <2> QED BY <2>1, <2>2, <2>8, <2>10, <2>14, <2>15, <2>16, Zenon
\* What one round of ActivateBestChain does.
<1>ActivateParts.
  ASSUME TypeInv, ActivateBestChainStep
  PROVE  /\ job \in ActivationJob
         /\ UNCHANGED <<setStakeSeen, sequence, want, up, refused, calls, restarts>>
         /\ SameData(flags') /\ dirty' \subseteq All /\ m_failed_blocks' \subseteq All /\ Flushes
         /\ candidates' \subseteq candidates
         /\ \/ tip' = tip /\ job' = NoJob
            \/ \E most \in candidates \cup {job.most} : MovesTip(most)
  <2> USE <1>ActivateParts
  <2> DEFINE most == IF job.most = NoBlock THEN MostWork ELSE job.most
             cand == IF job.most = NoBlock THEN candidates \ Dropped ELSE candidates
             fl == IF job.most = NoBlock THEN With(flags, FailedChildren, "child") ELSE flags
  <2>1. /\ job.kind = "activate" /\ UNCHANGED <<setStakeSeen, sequence, want, up, refused, calls, restarts>>
        /\ NothingToDo(most, cand, fl) \/ Step(most, cand, fl)
    BY Zenon DEF ActivateBestChainStep, bounds
  <2>2. job \in ActivationJob /\ job.most \in All \cup {NoBlock}
    BY <2>1, JobParts, Zenon DEF ActivationJob
  <2>3. most \in All \cup {NoBlock} /\ most \in candidates \cup {job.most, NoBlock}
    BY <2>2, <1>MostWorkIs, TypeParts, Zenon
  <2>4. cand \subseteq candidates
    BY Zenon
  <2>5. SameData(fl)
    BY FlagsSame, MarkSame, FlagNames, Zenon
  <2> HIDE DEF most, cand, fl
  <2>6. CASE NothingToDo(most, cand, fl)
    <3>1. /\ job' = NoJob /\ candidates' = cand /\ flags' = fl /\ UNCHANGED <<tip, m_failed_blocks>>
          /\ PeriodicFlush(fl, dirty, tip) \/ UNCHANGED <<disk, dirty>>
      BY <2>6, Zenon DEF NothingToDo
    <3>2. tip \in Chain[tip']
      BY <3>1, TypeParts, ChainParts, Zenon DEF TypeInv
    <3>3. \/ disk' = disk /\ dirty' = dirty
          \/ (disk' = WriteBlockIndexDB(fl, dirty) \/ disk' = FullFlush(fl, dirty, tip)) /\ dirty' = {}
      BY <3>1, Zenon DEF PeriodicFlush
    <3>4. Flushes /\ dirty' \subseteq All
      BY <2>5, <3>2, <3>3, TypeParts, Zenon DEF Flushes
    <3> QED BY <2>1, <2>2, <2>4, <2>5, <3>1, <3>4, TypeParts, Zenon
  <2>7. CASE Step(most, cand, fl)
    <3>1. /\ MovesTip(most) /\ candidates' \subseteq cand
          /\ SameData(flags') /\ dirty' \subseteq All /\ m_failed_blocks' \subseteq All /\ Flushes
      BY <2>2, <2>3, <2>5, <2>7, <1>StepParts, Zenon
    <3>2. most \in candidates \cup {job.most}
      BY <2>3, <3>1, WorldParts, Zenon DEF MovesTip, TypeInv
    <3> QED BY <2>1, <2>2, <2>4, <3>1, <3>2, Zenon
  <2> QED BY <2>1, <2>6, <2>7, Zenon
\* The work that ActivateBestChainStep goes on with while it holds cs_main.
<1>MovesJob.
  ASSUME TypeInv, job \in ActivationJob, NEW most, MovesTip(most)
  PROVE  /\ tip' \in All /\ job' \in {NoJob} \cup ActivationJob
         /\ job' # NoJob => job'.most \in {NoBlock, most}
         /\ job'.kind = "activate" /\ job'.locked => job'.start \in All /\ Work[tip'] <= Work[job'.start]
         /\ WorkKept
  <2> USE <1>MovesJob
  <2>1. most \in All /\ tip' \in Chain[most]
    BY Zenon DEF MovesTip
  <2>2. tip' \in All /\ tip \in All /\ Work[tip'] \in Nat /\ Work[tip] \in Nat
    BY <2>1, TypeParts, Zenon DEF TypeInv, TreeInv
  <2>3. PICK start \in All, next \in {NoBlock, most}, again \in BOOLEAN :
          /\ start = (IF job.locked THEN job.start ELSE tip)
          /\ again <=> Worse(tip', start)
          /\ \/ job' = NoJob /\ ~again
             \/ job' = [kind |-> "activate", most |-> next, start |-> start, connected |-> again, locked |-> again]
    BY Zenon DEF MovesTip
  <2>4. Work[start] \in Nat /\ Work[tip] <= Work[start]
    <3>1. Work[start] \in Nat
      BY Zenon DEF TypeInv, TreeInv
    <3>2. CASE job.locked
      <4>1. job.kind = "activate"
        BY Zenon DEF ActivationJob
      <4>2. Work[tip] <= Work[job.start]
        BY <3>2, <4>1, Zenon DEF TypeInv, JobInv
      <4>3. start = job.start
        BY <2>3, <3>2, Zenon
      <4> QED BY <3>1, <4>2, <4>3, Zenon
    <3>3. CASE ~job.locked
      BY <2>2, <2>3, <3>3
    <3> QED BY <3>1, <3>2, <3>3, Zenon
  <2>5. /\ Worse(tip', start) => Work[tip'] <= Work[start]
        /\ Work[tip'] < Work[start] => Worse(tip', start)
    BY <2>2, <2>4 DEF Worse, CBlockIndexWorkComparator
  <2>6. CASE job' = NoJob /\ ~again
    <3>1. ~(Work[tip'] < Work[tip])
      BY <2>2, <2>3, <2>4, <2>5, <2>6
    <3> QED BY <2>2, <2>6, <3>1, Zenon DEF NoJob, WorkKept
  <2>7. CASE job' = [kind |-> "activate", most |-> next, start |-> start, connected |-> again, locked |-> again]
    <3>1. job' \in ActivationJob /\ job'.most = next /\ job'.start = start /\ job'.locked = again
          /\ job'.kind = "activate"
      BY <2>1, <2>7, Zenon DEF ActivationJob
    <3>2. Work[tip'] < Work[tip] => again
      BY <2>2, <2>3, <2>4, <2>5
    <3> QED BY <2>2, <2>3, <2>5, <3>1, <3>2, Zenon DEF WorkKept
  <2> QED BY <2>3, <2>6, <2>7, Zenon
<1>Step.
  ASSUME Inv, UNCHANGED tree, BeginActivation \/ ActivateBestChainStep
  PROVE  Inv' /\ WorkKept
  <2> USE <1>Step
  <2>0. /\ calls \in Nat /\ calls <= calls /\ refused \subseteq Blocks /\ want \in BOOLEAN
        /\ up \in {"up", "abort", "stuck"} /\ m_failed_blocks \subseteq All /\ dirty \subseteq All
        /\ tip \in DataOf(flags) /\ candidates \subseteq DataOf(flags) /\ Closed(DataOf(flags))
        /\ DataOf(flags) \subseteq All /\ TypeInv
    BY TypeParts DEF Inv, DataInv, DataOf
  <2>1. CASE BeginActivation
    <3>1. job' = Activation /\ want' = FALSE
          /\ UNCHANGED <<flags, dirty, disk, tip, candidates, m_failed_blocks, setStakeSeen, sequence, up,
                         refused, calls, restarts>>
      BY <2>1, Zenon DEF BeginActivation, bounds
    <3>2. job' \in ActivationJob /\ ~job'.locked /\ job'.kind = "activate" /\ job'.most = NoBlock
      BY <3>1, Zenon DEF Activation, ActivationJob
    <3>3. SameData(flags') /\ Flushes /\ JobNext
      BY <2>0, <3>1, <3>2, FlagsSame, Zenon DEF Flushes, JobNext
    <3>4. Quiet
      BY <2>0, <3>1, <3>3, Zenon DEF Quiet
    <3>5. WorkKept
      BY <2>0, <3>1 DEF WorkKept, TypeInv, TreeInv
    <3> QED BY <3>4, <3>5, QuietKeeps, Zenon
  <2>2. CASE ActivateBestChainStep
    <3>1. /\ job \in ActivationJob
          /\ UNCHANGED <<setStakeSeen, sequence, want, up, refused, calls, restarts>>
          /\ SameData(flags') /\ dirty' \subseteq All /\ m_failed_blocks' \subseteq All /\ Flushes
          /\ candidates' \subseteq candidates
          /\ \/ tip' = tip /\ job' = NoJob
             \/ \E most \in candidates \cup {job.most} : MovesTip(most)
      BY <2>0, <2>2, <1>ActivateParts, Zenon
    <3>2. tip' \in DataOf(flags) /\ JobNext /\ WorkKept
      <4>1. CASE tip' = tip /\ job' = NoJob
        BY <2>0, <4>1, JobKept DEF WorkKept, TypeInv, TreeInv
      <4>2. CASE \E most \in candidates \cup {job.most} : MovesTip(most)
        <5>1. PICK most \in candidates \cup {job.most} : MovesTip(most)
          BY <4>2, Zenon
        <5>2. job.kind = "activate"
          BY <3>1, Zenon DEF ActivationJob
        <5>3. most \in All /\ tip' \in Chain[most]
          BY <5>1, Zenon DEF MovesTip
        <5>4. most \in DataOf(flags)
          BY <2>0, <5>1, <5>2, <5>3, WorldParts, Zenon DEF DataInv, TypeInv, Inv
        <5>5. tip' \in DataOf(flags)
          BY <2>0, <5>3, <5>4, ClosedChain, Zenon DEF TypeInv
        <5>6. /\ job' \in {NoJob} \cup ActivationJob /\ (job' # NoJob => job'.most \in {NoBlock, most})
              /\ job'.kind = "activate" /\ job'.locked => job'.start \in All /\ Work[tip'] <= Work[job'.start]
              /\ WorkKept
          BY <2>0, <3>1, <5>1, <1>MovesJob, Zenon
        <5>7. JobNext
          <6>1. CASE job' = NoJob
            BY <6>1, Zenon DEF NoJob, JobNext
          <6>2. CASE job' # NoJob
            <7>1. job'.kind = "activate" /\ job' \in ActivationJob
              BY <5>6, <6>2, Zenon DEF ActivationJob
            <7> QED BY <5>4, <5>6, <6>2, <7>1, Zenon DEF JobNext
          <6> QED BY <6>1, <6>2, Zenon
        <5> QED BY <5>5, <5>6, <5>7, Zenon
      <4> QED BY <3>1, <4>1, <4>2, Zenon
    <3>3. Quiet
      BY <2>0, <3>1, <3>2, Zenon DEF Quiet
    <3> QED BY <3>2, <3>3, QuietKeeps, Zenon
  <2> QED BY <2>1, <2>2, Zenon
<1> QED BY <1>Step, Zenon

\* The rounds of InvalidateBlock.
LEMMA InvalidationKeeps ==
  Inv /\ UNCHANGED tree /\ (InvalidateTip \/ EndInvalidate) => Inv'
\* A round of InvalidateBlock changes two fields of its job.
<1>InvalidationRecord.
  ASSUME NEW j \in InvalidationJob, NEW m, NEW c
  PROVE  [j EXCEPT !.mark = m, !.cand = c] = [kind |-> "invalidate", block |-> j.block, mark |-> m, cand |-> c]
  <2> USE <1>InvalidationRecord
  <2> DEFINE r == [j EXCEPT !.mark = m, !.cand = c]
  <2>1. DOMAIN j = {"kind", "block", "mark", "cand"} /\ j.kind = "invalidate" /\ j = [x \in DOMAIN j |-> j[x]]
    BY Zenon DEF InvalidationJob
  <2>2. DOMAIN r = DOMAIN j /\ r = [x \in DOMAIN r |-> r[x]]
    BY Zenon
  <2>3. r.kind = j.kind /\ r.block = j.block /\ r.mark = m /\ r.cand = c
    BY <2>1, Zenon
  <2> HIDE DEF r
  <2>4. r = [kind |-> "invalidate", block |-> j.block, mark |-> m, cand |-> c]
    BY <2>1, <2>2, <2>3, Zenon
  <2> QED BY <2>4, Zenon DEF r
\* One round of InvalidateBlock disconnects the tip.
<1>InvalidateTipParts.
  ASSUME TypeInv, InvalidateTip
  PROVE  /\ job \in InvalidationJob /\ job' \in InvalidationJob /\ job'.cand \subseteq job.cand
         /\ tip \in Blocks /\ tip' = Parent[tip]
         /\ candidates' \subseteq candidates \cup {tip'} \cup {c \in job.cand : ~Worse(c, tip')}
         /\ SameData(flags') /\ dirty' \subseteq All /\ Flushes
         /\ UNCHANGED <<m_failed_blocks, setStakeSeen, sequence, want, up, refused, calls, restarts>>
  <2> USE <1>InvalidateTipParts
  <2> DEFINE prev == Parent[tip]
             moved == {c \in job.cand : ~Worse(c, prev)}
             reflag == prev = job.mark /\ "failed" \in flags[job.mark]
             fl == With(flags, {tip}, "failed")
             both == {tip} \cup (IF reflag THEN {job.mark} ELSE {})
  <2>1. /\ job.kind = "invalidate" /\ job.block \in Chain[tip]
        /\ UNCHANGED <<m_failed_blocks, setStakeSeen, sequence, want, up, refused, calls, restarts>>
        /\ tip' = prev
        /\ flags' = [fl EXCEPT ![job.mark] = IF reflag THEN (@ \ {"failed"}) \cup {"child"} ELSE @]
        /\ candidates' = (candidates \ {tip}) \cup {prev} \cup moved
        /\ job' = [job EXCEPT !.mark = tip, !.cand = @ \ moved]
        /\ \/ disk' = disk /\ dirty' = dirty \cup {tip} \cup (IF reflag THEN {job.mark} ELSE {})
           \/ MaxRestarts > 0 /\ disk' = FullFlush(flags, dirty, prev) /\ dirty' = both
    BY Zenon DEF InvalidateTip, bounds
  <2>2. job \in InvalidationJob /\ job.block \in Blocks /\ job.mark \in Blocks /\ job.cand \subseteq All
    BY <2>1, JobParts, Zenon DEF InvalidationJob
  <2>3. tip \in Blocks
    BY <2>1, <2>2, TypeParts, WorldParts, Zenon DEF TypeInv, TreeInv, All
  <2>4. prev \in All /\ prev \in Chain[tip]
    <3>1. tip \in Chain[tip] /\ tip \in All
      BY TypeParts, ChainParts, Zenon DEF TypeInv
    <3> QED BY <2>3, <3>1, ChainParts, WorldParts, Zenon DEF TypeInv
  <2> HIDE DEF prev
  <2>5. SameData(flags')
    <3>1. SameData(fl) /\ job.mark \in All
      BY <2>2, FlagsSame, MarkSame, FlagNames, Zenon DEF All
    <3> HIDE DEF fl
    <3>2. flags' \in [All -> SUBSET Flag]
      BY <2>1, <3>1, FlagNames, Zenon DEF SameData
    <3>3. \A x \in All : /\ "data" \in flags'[x] <=> "data" \in fl[x]
                         /\ "stake" \in flags'[x] <=> "stake" \in fl[x]
                         /\ "tree" \in flags'[x] <=> "tree" \in fl[x]
      BY <2>1, <3>1, Zenon DEF SameData
    <3> QED BY <3>1, <3>2, <3>3, Zenon DEF SameData, DataOf
  <2>6. job' \in InvalidationJob /\ job'.cand \subseteq job.cand
    <3> DEFINE c2 == job.cand \ moved
    <3>1. c2 \subseteq job.cand
      BY Zenon
    <3>2. job' = [job EXCEPT !.mark = tip, !.cand = c2]
      BY <2>1, Zenon
    <3> HIDE DEF c2
    <3>3. job' = [kind |-> "invalidate", block |-> job.block, mark |-> tip, cand |-> c2]
      BY <2>2, <3>2, <1>InvalidationRecord, Zenon
    <3> QED BY <2>2, <2>3, <3>1, <3>3, Zenon DEF InvalidationJob
  <2>7. both \subseteq All /\ dirty \subseteq All
    BY <2>2, <2>3, TypeParts, Zenon DEF All
  <2> HIDE DEF both, fl
  <2>8. dirty' \subseteq All
    BY <2>1, <2>7, Zenon DEF both
  <2>9. Flushes
    <3>1. CASE disk' = disk /\ dirty' = dirty \cup {tip} \cup (IF reflag THEN {job.mark} ELSE {})
      BY <3>1, Zenon DEF Flushes
    <3>2. CASE disk' = FullFlush(flags, dirty, prev)
      BY <2>4, <3>2, FlagsSame, Zenon DEF Flushes
    <3> QED BY <2>1, <3>1, <3>2, Zenon
  <2>10. candidates' \subseteq candidates \cup {tip'} \cup {c \in job.cand : ~Worse(c, tip')}
    BY <2>1, Zenon
  <2> QED BY <2>1, <2>2, <2>3, <2>5, <2>6, <2>8, <2>9, <2>10, Zenon DEF prev
\* InvalidateBlock ends.
<1>EndInvalidateParts.
  ASSUME TypeInv, EndInvalidate
  PROVE  /\ job' = NoJob /\ want' = TRUE /\ tip' = tip
         /\ candidates' \subseteq candidates \cup {x \in DataOf(flags) : ~Worse(x, tip)}
         /\ SameData(flags') /\ dirty' \subseteq All /\ m_failed_blocks' \subseteq All /\ Flushes
         /\ UNCHANGED <<setStakeSeen, sequence, up, refused, calls, restarts>>
  <2> USE <1>EndInvalidateParts
  <2>1. /\ job.kind = "invalidate" /\ flags' = With(flags, {job.mark}, "failed")
        /\ dirty' = dirty \cup {job.mark} /\ m_failed_blocks' = m_failed_blocks \cup {job.mark}
        /\ candidates' = (candidates \ {job.mark}) \cup Missed(job.mark)
        /\ job' = NoJob /\ want' = TRUE
        /\ UNCHANGED <<disk, tip, setStakeSeen, sequence, up, refused, calls, restarts>>
    BY Zenon DEF EndInvalidate, bounds
  <2>2. job.mark \in All
    BY <2>1, JobParts, Zenon DEF InvalidationJob, All
  <2>3. Missed(job.mark) \subseteq {x \in DataOf(flags) : ~Worse(x, tip)}
    BY Zenon DEF Missed, IsValidTransactions, DataOf
  <2>4. SameData(flags')
    BY <2>1, FlagsSame, MarkSame, FlagNames, Zenon
  <2> QED BY <2>1, <2>2, <2>3, <2>4, TypeParts, Zenon DEF Flushes
<1>Step.
  ASSUME Inv, UNCHANGED tree, InvalidateTip \/ EndInvalidate
  PROVE  Inv'
  <2> USE <1>Step
  <2>0. /\ calls \in Nat /\ calls <= calls /\ refused \subseteq Blocks /\ want \in BOOLEAN
        /\ up \in {"up", "abort", "stuck"} /\ m_failed_blocks \subseteq All
        /\ tip \in DataOf(flags) /\ candidates \subseteq DataOf(flags) /\ Closed(DataOf(flags)) /\ TypeInv
    BY TypeParts DEF Inv, DataInv
  <2>1. CASE InvalidateTip
    <3>1. /\ job \in InvalidationJob /\ job' \in InvalidationJob /\ job'.cand \subseteq job.cand
          /\ tip \in Blocks /\ tip' = Parent[tip]
          /\ candidates' \subseteq candidates \cup {tip'} \cup job.cand
          /\ SameData(flags') /\ dirty' \subseteq All /\ Flushes
          /\ UNCHANGED <<m_failed_blocks, setStakeSeen, sequence, want, up, refused, calls, restarts>>
      BY <2>0, <2>1, <1>InvalidateTipParts, Zenon
    <3>2. job.kind = "invalidate" /\ job'.kind = "invalidate"
      BY <3>1, Zenon DEF InvalidationJob
    <3>3. job.cand \subseteq DataOf(flags) /\ tip' \in DataOf(flags)
      BY <2>0, <3>1, <3>2, Zenon DEF Inv, DataInv, Closed
    <3>4. JobNext
      BY <3>1, <3>2, <3>3, Zenon DEF JobNext
    <3>5. Quiet
      BY <2>0, <3>1, <3>3, <3>4, Zenon DEF Quiet
    <3> QED BY <3>5, QuietKeeps, Zenon
  <2>2. CASE EndInvalidate
    <3>1. /\ job' = NoJob /\ want' = TRUE /\ tip' = tip
          /\ candidates' \subseteq candidates \cup DataOf(flags)
          /\ SameData(flags') /\ dirty' \subseteq All /\ m_failed_blocks' \subseteq All /\ Flushes
          /\ UNCHANGED <<setStakeSeen, sequence, up, refused, calls, restarts>>
      BY <2>0, <2>2, <1>EndInvalidateParts, Zenon
    <3>2. JobNext
      BY <3>1, JobKept, Zenon
    <3>3. Quiet
      BY <2>0, <3>1, <3>2, Zenon DEF Quiet
    <3> QED BY <3>3, QuietKeeps, Zenon
  <2> QED BY <2>1, <2>2, Zenon
<1> QED BY <1>Step, Zenon

\* The operator's calls.
LEMMA CallsKeep ==
  \A b \in Blocks :
    Inv /\ UNCHANGED tree /\ (InvalidateBlock(b) \/ ReconsiderBlock(b) \/ PreciousBlock(b)) => Inv'
\* InvalidateBlock begins.
<1>InvalidateParts.
  ASSUME TypeInv, NEW b \in Blocks, InvalidateBlock(b)
  PROVE  /\ job' \in InvalidationJob /\ job'.cand \subseteq DataOf(flags)
         /\ calls \in Nat \ {0} /\ calls' = calls - 1 /\ job = NoJob
         /\ UNCHANGED <<flags, dirty, disk, tip, candidates, m_failed_blocks, setStakeSeen, sequence, want,
                        up, refused, restarts>>
  <2> USE <1>InvalidateParts
  <2> DEFINE C == {c \in All \ Chain[tip] : ~Worse(c, Parent[b]) /\ IsValidTransactions(flags, c)}
  <2>1. C \subseteq DataOf(flags) /\ C \subseteq All
    BY Zenon DEF DataOf, IsValidTransactions
  <2>2. job' = [kind |-> "invalidate", block |-> b, mark |-> b, cand |-> C]
    BY Zenon DEF InvalidateBlock
  <2>3. /\ calls > 0 /\ calls' = calls - 1 /\ job = NoJob
        /\ UNCHANGED <<flags, dirty, disk, tip, candidates, m_failed_blocks, setStakeSeen, sequence, want,
                       up, refused, restarts>>
    BY Zenon DEF InvalidateBlock
  <2> HIDE DEF C
  <2>4. job' \in InvalidationJob /\ job'.cand = C
    BY <2>1, <2>2, Zenon DEF InvalidationJob
  <2> QED BY <2>1, <2>3, <2>4, TypeParts
\* reconsiderblock takes marks away.
<1>ReconsiderParts.
  ASSUME TypeInv, NEW b \in Blocks, ReconsiderBlock(b)
  PROVE  /\ tip' = tip /\ job' = job /\ want' = TRUE /\ calls \in Nat \ {0} /\ calls' = calls - 1
         /\ candidates' \subseteq candidates \cup {x \in DataOf(flags) : Worse(tip, x)}
         /\ SameData(flags') /\ dirty' \subseteq All /\ m_failed_blocks' \subseteq All /\ Flushes
         /\ UNCHANGED <<setStakeSeen, sequence, up, refused, restarts>> /\ Running
  <2> USE <1>ReconsiderParts
  <2> DEFINE below == {x \in All : b \in Chain[x] /\ Invalid(flags, x)}
             reset == below \cup {x \in Chain[b] : Invalid(flags, x)}
             fl == [x \in All |-> IF x \in reset THEN flags[x] \ {"failed", "child"} ELSE flags[x]]
  <2>1. /\ flags' = fl /\ dirty' = dirty \cup reset
        /\ candidates' = candidates \cup {x \in below : "data" \in flags[x] /\ Worse(tip, x)}
        /\ m_failed_blocks' = m_failed_blocks \ reset
        /\ want' = TRUE /\ calls > 0 /\ calls' = calls - 1 /\ Running
        /\ UNCHANGED <<disk, tip, setStakeSeen, sequence, job, up, refused, restarts>>
    BY Zenon DEF ReconsiderBlock
  <2>2. reset \subseteq All /\ below \subseteq All
    BY ChainParts, Zenon DEF TypeInv, All
  <2> HIDE DEF reset, below
  <2>3. SameData(fl)
    <3>1. flags \in [All -> SUBSET Flag]
      BY TypeParts, Zenon
    <3>2. fl \in [All -> SUBSET Flag]
      BY <3>1, Zenon
    <3>3. \A x \in All : fl[x] = IF x \in reset THEN flags[x] \ {"failed", "child"} ELSE flags[x]
      BY Zenon
    <3> HIDE DEF fl
    <3> QED BY <3>2, <3>3, Zenon DEF SameData, DataOf
  <2>4. candidates' \subseteq candidates \cup {x \in DataOf(flags) : Worse(tip, x)}
    BY <2>1, <2>2, Zenon DEF DataOf
  <2> QED BY <2>1, <2>2, <2>3, <2>4, TypeParts DEF Flushes
\* preciousblock gives a block a new sequence number.
<1>PreciousParts.
  ASSUME TypeInv, NEW b \in Blocks, PreciousBlock(b)
  PROVE  /\ Running /\ calls \in Nat \ {0} /\ calls' = calls - 1 /\ want' = TRUE
         /\ candidates' \subseteq candidates \cup DataOf(flags)
         /\ nSequenceId' \in [All -> Int] /\ nLastPreciousChainwork' \in Nat
         /\ nBlockReverseSequenceId' \in Int /\ nBlockReverseSequenceId' < 0
         /\ nBlockReverseSequenceId' >= nBlockReverseSequenceId - 1
         /\ UNCHANGED <<flags, dirty, disk, tip, m_failed_blocks, setStakeSeen, nBlockSequenceId, addr, job,
                        up, refused, restarts>>
  <2> USE <1>PreciousParts
  <2> DEFINE id == [nSequenceId EXCEPT ![b] = ReverseNumber]
  <2>1. /\ Running /\ calls > 0 /\ calls' = calls - 1 /\ want' = TRUE
        /\ nSequenceId' = id /\ nBlockReverseSequenceId' = ReverseNumber - 1
        /\ nLastPreciousChainwork' = Work[tip]
        /\ candidates' = IF IsValidTransactions(flags, b)
             THEN {x \in candidates \cup {b} : ~CBlockIndexWorkComparator(id, x, tip)}
             ELSE candidates \ {b}
        /\ UNCHANGED <<flags, dirty, disk, tip, m_failed_blocks, setStakeSeen, nBlockSequenceId, addr, job,
                       up, refused, restarts>>
    BY Zenon DEF PreciousBlock
  <2>2. /\ nBlockReverseSequenceId \in Int /\ nBlockReverseSequenceId <= -1 /\ calls \in Nat /\ tip \in All
        /\ nSequenceId \in [All -> Int]
    BY TypeParts, Zenon
  <2>3. ReverseNumber \in Int /\ ReverseNumber <= -1 /\ ReverseNumber >= nBlockReverseSequenceId
    BY <2>2 DEF ReverseNumber
  <2>4. Work[tip] \in Nat
    BY <2>2, Zenon DEF TypeInv, TreeInv
  <2>5. candidates' \subseteq candidates \cup DataOf(flags)
    <3>1. IsValidTransactions(flags, b) => b \in DataOf(flags)
      BY Zenon DEF IsValidTransactions, DataOf, All
    <3>2. candidates' \subseteq candidates \cup (IF IsValidTransactions(flags, b) THEN {b} ELSE {})
      BY <2>1, Zenon
    <3> QED BY <3>1, <3>2, Zenon
  <2>6. id \in [All -> Int]
    BY <2>2, <2>3, Zenon
  <2> HIDE DEF id
  <2> QED BY <2>1, <2>2, <2>3, <2>4, <2>5, <2>6
<1>Step.
  ASSUME NEW b \in Blocks, Inv, UNCHANGED tree, InvalidateBlock(b) \/ ReconsiderBlock(b) \/ PreciousBlock(b)
  PROVE  Inv'
  <2> USE <1>Step
  <2>0. /\ calls \in Nat /\ refused \subseteq Blocks /\ want \in BOOLEAN
        /\ up \in {"up", "abort", "stuck"} /\ m_failed_blocks \subseteq All /\ dirty \subseteq All
        /\ tip \in DataOf(flags) /\ candidates \subseteq DataOf(flags) /\ TypeInv /\ SameData(flags)
    BY TypeParts, FlagsSame, Zenon DEF Inv, DataInv
  <2>1. CASE InvalidateBlock(b)
    <3>1. /\ job' \in InvalidationJob /\ job'.cand \subseteq DataOf(flags) /\ calls' = calls - 1 /\ calls \in Nat \ {0}
          /\ UNCHANGED <<flags, dirty, disk, tip, candidates, m_failed_blocks, setStakeSeen, sequence, want,
                         up, refused, restarts>>
      BY <2>0, <2>1, <1>InvalidateParts, Zenon
    <3>2. calls' \in Nat /\ calls' <= calls
      BY <3>1
    <3>3. Flushes
      BY <3>1, Zenon DEF Flushes
    <3>4. job'.kind = "invalidate"
      BY <3>1, Zenon DEF InvalidationJob
    <3>5. JobNext
      BY <3>1, <3>4, Zenon DEF JobNext
    <3>6. Quiet
      BY <2>0, <3>1, <3>2, <3>3, <3>5, Zenon DEF Quiet
    <3> QED BY <3>6, QuietKeeps, Zenon
  <2>2. CASE ReconsiderBlock(b)
    <3>1. /\ tip' = tip /\ job' = job /\ want' = TRUE /\ calls \in Nat \ {0} /\ calls' = calls - 1
          /\ candidates' \subseteq candidates \cup DataOf(flags)
          /\ SameData(flags') /\ dirty' \subseteq All /\ m_failed_blocks' \subseteq All /\ Flushes
          /\ UNCHANGED <<setStakeSeen, sequence, up, refused, restarts>>
      BY <2>0, <2>2, <1>ReconsiderParts, Zenon
    <3>2. calls' \in Nat /\ calls' <= calls
      BY <3>1
    <3>3. JobNext
      BY <3>1, JobKept, Zenon
    <3>4. Quiet
      BY <2>0, <3>1, <3>2, <3>3, Zenon DEF Quiet
    <3> QED BY <3>4, QuietKeeps, Zenon
  <2>3. CASE PreciousBlock(b)
    <3>1. /\ calls \in Nat \ {0} /\ calls' = calls - 1 /\ want' = TRUE
          /\ candidates' \subseteq candidates \cup DataOf(flags)
          /\ nSequenceId' \in [All -> Int] /\ nLastPreciousChainwork' \in Nat
          /\ nBlockReverseSequenceId' \in Int /\ nBlockReverseSequenceId' < 0
          /\ nBlockReverseSequenceId' >= nBlockReverseSequenceId - 1
          /\ UNCHANGED <<flags, dirty, disk, tip, m_failed_blocks, setStakeSeen, nBlockSequenceId, addr, job,
                         up, refused, restarts>>
      BY <2>0, <2>3, <1>PreciousParts, Zenon
    <3>2. calls' \in Nat
      BY <3>1
    <3>3. Flushes
      BY <3>1, Zenon DEF Flushes
    <3>4. JobNext
      BY <3>1, JobKept, Zenon
    <3>5. Quiet
      BY <2>0, <3>1, <3>2, <3>3, <3>4, Zenon DEF Quiet
    <3> QED BY <3>5, QuietKeeps, Zenon
  <2> QED BY <2>1, <2>2, <2>3, Zenon
<1> QED BY <1>Step, Zenon

\* A start, after a shutdown or a crash.
LEMMA LoadKeeps ==
  Inv /\ UNCHANGED tree /\ (Restart \/ Crash) => Inv' /\ restarts' # restarts
\* A start begins with what is on disk, d.
<1>LoadParts.
  ASSUME TypeInv, NEW d \in DiskRecord, Load(d)
  PROVE  /\ flags' \in [All -> SUBSET Flag] /\ DataOf(flags') = DataOf(d.flags)
         /\ \A x \in All : "stake" \in flags'[x] <=> "stake" \in d.flags[x]
         /\ disk' = d /\ tip' = d.tip /\ dirty' \subseteq All
         /\ candidates' \subseteq DataOf(flags')
         /\ addr' \in Orders /\ nSequenceId' = [b \in All |-> 0]
         /\ nBlockSequenceId' = 1 /\ nBlockReverseSequenceId' = -1 /\ nLastPreciousChainwork' = 0
         /\ m_failed_blocks' = {} /\ setStakeSeen' = {} /\ refused' = {}
         /\ job' = NoJob /\ want' = TRUE /\ up' = "up"
         /\ restarts' = restarts - 1
  <2> USE <1>LoadParts
  <2> DEFINE marked == {b \in All : d.flags[b] # {} /\ ~Invalid(d.flags, b)
                                    /\ \E a \in Chain[b] : Invalid(d.flags, a)}
             fl == With(d.flags, marked, "child")
  <2>1. /\ flags' = fl /\ dirty' = marked /\ disk' = d /\ tip' = d.tip
        /\ addr' \in Orders /\ nSequenceId' = [b \in All |-> 0]
        /\ candidates' = LoadCandidates(fl, d.tip, addr')
        /\ nBlockSequenceId' = 1 /\ nBlockReverseSequenceId' = -1 /\ nLastPreciousChainwork' = 0
        /\ m_failed_blocks' = {} /\ setStakeSeen' = {} /\ refused' = {}
        /\ job' = NoJob /\ want' = TRUE /\ up' = "up"
        /\ restarts' = restarts - 1
    BY Zenon DEF Load
  <2>2. marked \subseteq All /\ d.flags \in [All -> SUBSET Flag]
    BY Zenon DEF DiskRecord
  <2> HIDE DEF marked
  <2>3. "child" \in Flag /\ "stake" \in Flag
    BY FlagNames, Zenon
  <2>4. /\ fl \in [All -> SUBSET Flag] /\ DataOf(fl) = DataOf(d.flags)
        /\ \A x \in All : "stake" \in fl[x] <=> "stake" \in d.flags[x]
    BY <2>2, <2>3, WithFlags, Zenon
  <2> HIDE DEF fl
  <2>5. LoadCandidates(fl, d.tip, addr') \subseteq DataOf(fl)
    BY Zenon DEF LoadCandidates, DataOf, IsValidTransactions
  <2> QED BY <2>1, <2>2, <2>4, <2>5, Zenon
\* Which disk a start reads.
<1>LoadIs.
  ASSUME TypeInv, Restart \/ Crash
  PROVE  /\ restarts > 0 /\ calls' = calls
         /\ \E d \in DiskRecord : d \in {disk, FullFlush(flags, dirty, tip)} /\ Load(d)
  <2> USE <1>LoadIs
  <2>1. flags \in [All -> SUBSET Flag] /\ tip \in All /\ disk \in DiskRecord
    BY TypeParts, Zenon DEF TypeInv
  <2>2. FullFlush(flags, dirty, tip) \in DiskRecord
    BY <2>1, FlushParts, Zenon
  <2> QED BY <2>1, <2>2, Zenon DEF Restart, Crash
\* A start resets what is in memory ...
<1>TypeLoad.
  ASSUME TypeInv, UNCHANGED tree, NEW d \in DiskRecord, Load(d), calls' = calls, restarts > 0
  PROVE  TypeInv'
  <2> USE <1>TypeLoad
  <2>1. /\ flags' \in [All -> SUBSET Flag]
        /\ disk' = d /\ tip' = d.tip /\ dirty' \subseteq All
        /\ candidates' \subseteq DataOf(flags')
        /\ addr' \in Orders /\ nSequenceId' = [b \in All |-> 0]
        /\ nBlockSequenceId' = 1 /\ nBlockReverseSequenceId' = -1 /\ nLastPreciousChainwork' = 0
        /\ m_failed_blocks' = {} /\ setStakeSeen' = {} /\ refused' = {}
        /\ job' = NoJob /\ want' = TRUE /\ up' = "up"
        /\ restarts' = restarts - 1
    BY <1>LoadParts, Zenon
  <2>2. calls \in Nat /\ calls <= MaxCalls /\ restarts \in Nat /\ restarts <= MaxRestarts
        /\ MaxCalls \in Nat /\ MaxRestarts \in Nat
    BY TypeParts, WorldParts, Zenon DEF TypeInv
  <2>3. /\ calls' \in Nat /\ calls' <= MaxCalls /\ restarts' \in Nat /\ restarts' <= MaxRestarts
        /\ nBlockReverseSequenceId' >= -(MaxCalls - calls' + 1)
        /\ nBlockReverseSequenceId' \in Int /\ nBlockReverseSequenceId' < 0
        /\ nBlockSequenceId' \in Nat /\ nLastPreciousChainwork' \in Nat
    BY <2>1, <2>2
  <2>4. candidates' \subseteq All /\ tip' \in All /\ nSequenceId' \in [All -> Int]
    BY <2>1 DEF DataOf, DiskRecord
  <2>5. /\ job' \in {NoJob} \cup ActivationJob \cup InvalidationJob
        /\ job'.kind = "activate" /\ job'.locked => job'.start \in All /\ Work[tip'] <= Work[job'.start]
    BY <2>1, Zenon DEF NoJob
  <2> QED BY <2>1, <2>3, <2>4, <2>5, TypeAgain, Zenon
\* ... reads blocks whose ancestors are there ...
<1>DataLoad.
  ASSUME TypeInv, DataInv, UNCHANGED tree, Restart \/ Crash
  PROVE  DataInv'
  <2> USE <1>DataLoad
  <2>1. PICK d \in DiskRecord : d \in {disk, FullFlush(flags, dirty, tip)} /\ Load(d)
    BY <1>LoadIs, Zenon
  <2>2. /\ DataOf(flags') = DataOf(d.flags) /\ disk' = d /\ tip' = d.tip /\ candidates' \subseteq DataOf(flags')
        /\ job' = NoJob
    BY <2>1, <1>LoadParts, Zenon
  <2>3. Closed(DataOf(d.flags)) /\ d.tip \in DataOf(d.flags)
    <3>1. CASE d = disk
      BY <3>1, Zenon DEF DataInv
    <3>2. CASE d = FullFlush(flags, dirty, tip)
      <4>1. flags \in [All -> SUBSET Flag]
        BY TypeParts, Zenon
      <4>2. d.flags = WriteBlockIndexDB(flags, dirty).flags /\ d.tip = tip
        BY <3>2, <4>1, FlushParts
      <4>3. DataOf(d.flags) = DataOf(flags)
        BY <4>1, <4>2, FlushParts, Zenon DEF DataInv
      <4> QED BY <4>2, <4>3, Zenon DEF DataInv
    <3> QED BY <2>1, <3>1, <3>2, Zenon
  <2> QED BY <2>2, <2>3, DataAgain, Zenon DEF NoJob
\* ... and forgets the stakes seen.
<1>StakeLoad.
  ASSUME TypeInv, StakeInv, UNCHANGED tree, Restart \/ Crash
  PROVE  StakeInv'
  <2> USE <1>StakeLoad
  <2>0. MayFailWrite' = MayFailWrite /\ MaxRestarts' = MaxRestarts
    BY Zenon DEF MayFailWrite, MaxRestarts, tree
  <2>1. PICK d \in DiskRecord : d \in {disk, FullFlush(flags, dirty, tip)} /\ Load(d)
    BY <1>LoadIs, Zenon
  <2>2. /\ DataOf(flags') = DataOf(d.flags) /\ disk' = d /\ setStakeSeen' = {} /\ refused' = {}
        /\ \A x \in All : "stake" \in flags'[x] <=> "stake" \in d.flags[x]
        /\ restarts' = restarts - 1
    BY <2>1, <1>LoadParts, Zenon
  <2>3. restarts' # MaxRestarts
    BY <2>2, TypeParts, WorldParts DEF TypeInv
  <2>4. ASSUME ~MayFailWrite
        PROVE  \A x \in All : /\ "stake" \in flags'[x] => "data" \in flags'[x]
                              /\ "stake" \in disk'.flags[x] => "data" \in disk'.flags[x]
    <3>1. \A x \in All : "stake" \in d.flags[x] => "data" \in d.flags[x]
      <4>1. flags \in [All -> SUBSET Flag]
        BY TypeParts, Zenon
      <4>2. \A x \in All : /\ "stake" \in flags[x] => "data" \in flags[x]
                           /\ "stake" \in disk.flags[x] => "data" \in disk.flags[x]
        BY <2>4, Zenon DEF StakeInv
      <4> QED BY <2>1, <4>1, <4>2, StakeFlush, Zenon
    <3> QED BY <2>2, <3>1, Zenon DEF DataOf
  <2> QED BY <2>0, <2>2, <2>3, <2>4, Zenon DEF StakeInv, StakeUsedOnce
<1>Step.
  ASSUME Inv, UNCHANGED tree, Restart \/ Crash
  PROVE  Inv' /\ restarts' # restarts
  <2> USE <1>Step
  <2>1. TypeInv /\ DataInv /\ StakeInv
    BY Zenon DEF Inv
  <2>2. restarts > 0 /\ calls' = calls /\ \E d \in DiskRecord : d \in {disk, FullFlush(flags, dirty, tip)} /\ Load(d)
    BY <2>1, <1>LoadIs, Zenon
  <2>3. TypeInv'
    BY <2>1, <2>2, <1>TypeLoad, Zenon
  <2>4. DataInv'
    BY <2>1, <1>DataLoad, Zenon
  <2>5. StakeInv'
    BY <2>1, <1>StakeLoad, Zenon
  <2>6. restarts' # restarts
    <3>1. restarts' = restarts - 1
      BY <2>1, <2>2, <1>LoadParts, Zenon
    <3> QED BY <2>1, <3>1, TypeParts
  <2> QED BY <2>3, <2>4, <2>5, <2>6, Zenon DEF Inv
<1> QED BY <1>Step, Zenon

-----------------------------------------------------------------------------
(* The invariant holds in every state. *)

\* A new node, with the genesis block only.
LEMMA InvInit ==
  Init => Inv
\* The types of the first state,
<1>TypeInit.
  ASSUME Init
  PROVE  TypeInv
  <2> USE <1>TypeInit
  <2>1. TreeInv
    BY TreeInit, Zenon
  <2>2. MaxCalls \in Nat /\ MaxRestarts \in Nat /\ Genesis \in All
    BY <2>1, WorldParts, Zenon DEF All
  <2>3. flags \in [All -> SUBSET Flag]
    <3>1. {"tree", "data", "scripts"} \subseteq Flag
      BY FlagNames, Zenon
    <3> QED BY <3>1, Zenon DEF Init
  <2>4. disk \in DiskRecord /\ disk.flags \in [All -> SUBSET Flag] /\ disk.tip \in All
    BY <2>2, <2>3, Zenon DEF Init, DiskRecord
  <2>5. JobInv /\ job.kind = "none"
    BY Zenon DEF Init, JobInv, NoJob
  <2>6. CountInv
    BY <2>2 DEF Init, CountInv
  <2>7. nBlockReverseSequenceId \in -(MaxCalls + 1)..-1 /\ calls \in 0..MaxCalls /\ restarts \in 0..MaxRestarts
    BY <2>2 DEF Init
  <2>8. /\ nSequenceId \in [All -> Int] /\ nBlockSequenceId \in Nat /\ nLastPreciousChainwork \in Nat
        /\ tip \in All /\ candidates \subseteq All
    BY <2>2 DEF Init
  <2>9. want \in BOOLEAN
    BY Zenon DEF Init
  <2>10. TypeOK
    BY <2>3, <2>4, <2>5, <2>7, <2>8, <2>9, Zenon DEF Init, TypeOK
  <2> QED BY <2>1, <2>4, <2>5, <2>6, <2>10, Zenon DEF TypeInv
\* its data
<1>DataInit.
  ASSUME Init
  PROVE  DataInv
  <2> USE <1>DataInit
  <2>1. TreeInv /\ Genesis \in All /\ Genesis \notin Blocks
    BY TreeInit, WorldParts, Zenon DEF All
  <2>2. DataOf(flags) = {Genesis}
    BY <2>1, Zenon DEF Init, DataOf
  <2>3. DataOf(disk.flags) = {Genesis} /\ disk.tip = Genesis
    BY <2>2, Zenon DEF Init
  <2>4. Closed({Genesis})
    BY <2>1, Zenon DEF Closed
  <2> QED BY <2>2, <2>3, <2>4, Zenon DEF DataInv, Init, NoJob
\* and its stakes.
<1>StakeInit.
  ASSUME Init
  PROVE  StakeInv
  <2> USE <1>StakeInit
  <2>1. TreeInv /\ Genesis \in All /\ Genesis \notin Blocks /\ Legacy \subseteq Blocks
    BY TreeInit, WorldParts, Zenon DEF All
  <2>2. /\ \A b \in All : /\ "stake" \notin flags[b] /\ "stake" \notin disk.flags[b]
                          /\ "data" \in flags[b] => b = Genesis
        /\ setStakeSeen = {} /\ refused = {}
    BY Zenon DEF Init
  <2> QED BY <2>1, <2>2, Zenon DEF StakeInv, StakeUsedOnce, DataOf, All
<1>Step.
  ASSUME Init
  PROVE  Inv
  BY <1>Step, <1>TypeInit, <1>DataInit, <1>StakeInit, Zenon DEF Inv
<1> QED BY <1>Step, Zenon

\* Every step keeps the invariant, and the work of the tip where it must.
LEMMA InvNext ==
  ASSUME Inv, [Next]_vars
  PROVE  Inv' /\ WorkKept
<1>1. UNCHANGED tree
  BY TreeNext, Zenon DEF Inv, TypeInv
<1>2. tip' = tip \/ job.kind = "invalidate" \/ restarts' # restarts => WorkKept
  <2>1. Work[tip] \in Nat
    BY TypeParts, Zenon DEF Inv, TypeInv, TreeInv
  <2> QED BY <2>1 DEF WorkKept
<1>3. CASE \E b \in Blocks : Arrives(b)
  <2>1. tip' = tip
    BY <1>3, Zenon DEF Arrives, ProcessNewBlockHeaders, ProcessNewBlock
  <2> QED BY <1>1, <1>2, <1>3, <2>1, ArrivalKeeps, Zenon
<1>4. CASE \E b \in Blocks : InvalidateBlock(b) \/ ReconsiderBlock(b) \/ PreciousBlock(b)
  <2>1. tip' = tip
    BY <1>4, Zenon DEF InvalidateBlock, ReconsiderBlock, PreciousBlock
  <2> QED BY <1>1, <1>2, <1>4, <2>1, CallsKeep, Zenon
<1>5. CASE BeginActivation \/ ActivateBestChainStep
  BY <1>1, <1>5, ActivationKeeps, Zenon
<1>6. CASE InvalidateTip \/ EndInvalidate
  <2>1. job.kind = "invalidate"
    BY <1>6, Zenon DEF InvalidateTip, EndInvalidate
  <2> QED BY <1>1, <1>2, <1>6, <2>1, InvalidationKeeps, Zenon
<1>7. CASE Restart \/ Crash
  BY <1>1, <1>2, <1>7, LoadKeeps, Zenon
<1>8. CASE UNCHANGED vars
  <2>1. UNCHANGED <<flags, dirty, disk, tip, candidates, m_failed_blocks, setStakeSeen, sequence, job, want,
                    up, refused, calls, restarts>>
    BY <1>8, Zenon DEF vars, sequence
  <2>2. SameData(flags') /\ Flushes /\ JobNext
    BY <2>1, FlagsSame, JobKept, Zenon DEF Flushes, Inv
  <2>3. /\ calls \in Nat /\ calls <= calls /\ refused \subseteq Blocks /\ want \in BOOLEAN
        /\ up \in {"up", "abort", "stuck"} /\ m_failed_blocks \subseteq All /\ dirty \subseteq All
        /\ tip \in DataOf(flags) /\ candidates \subseteq DataOf(flags)
    BY TypeParts DEF Inv, DataInv
  <2>4. Quiet
    BY <1>1, <2>1, <2>2, <2>3, Zenon DEF Quiet
  <2> QED BY <1>2, <2>1, <2>4, QuietKeeps, Zenon
<1> QED BY <1>3, <1>4, <1>5, <1>6, <1>7, <1>8, Zenon DEF Next, Arrives, Chainstate

\* The types of the state hold in every behaviour of the block index.
THEOREM TypeCorrect == Spec => []TypeOK
<1>1. Inv => TypeOK
  BY Zenon DEF Inv, TypeInv
<1> QED BY <1>1, InvInit, InvNext, PTL DEF Spec

\* ActivateBestChain: as long as no block is invalidated and the node does not start
\* again, other threads never see the tip on a chain with less work than before: a
\* reorganisation that fails half way ends with cs_main still held, and goes on.
THEOREM TipKeepsItsWork == Spec => NeverLessWork
<1>1. ASSUME Inv, [Next]_vars
      PROVE  [Work[tip'] < Work[tip] => job.kind = "invalidate" \/ restarts' # restarts
                                        \/ (job'.kind = "activate" /\ job'.locked)]_vars
  BY <1>1, InvNext, Zenon DEF WorkKept
<1> QED BY <1>1, InvInit, InvNext, PTL DEF Spec, NeverLessWork

\* LoadChainTip: whenever the node crashes, the best block of the coins is in the index
\* on disk, with the data of every block down to the genesis block.
THEOREM DiskAlwaysLoads == Spec => []DiskLoads
<1>1. ASSUME Inv
      PROVE  DiskLoads
  <2>1. disk.tip \in DataOf(disk.flags) \cap All /\ Closed(DataOf(disk.flags))
    BY <1>1, TypeParts, Zenon DEF Inv, DataInv
  <2>2. Chain[disk.tip] \subseteq DataOf(disk.flags)
    BY <1>1, <2>1, ClosedChain, Zenon DEF Inv, TypeInv
  <2> QED BY <2>2, Zenon DEF DiskLoads, DataOf
<1> QED BY <1>1, InvInit, InvNext, PTL DEF Spec

\* PeercoinContextualBlockChecks: while the node runs no two stored blocks whose
\* coinstakes carry their own time use one kernel, and, unless a block could not be
\* written, a block is refused as a duplicate only if another block of the index has its
\* stake.
THEOREM StakesUsedOnce == Spec => []StakeUsedOnce
<1>1. Inv => StakeUsedOnce
  BY Zenon DEF Inv, StakeInv
<1> QED BY <1>1, InvInit, InvNext, PTL DEF Spec
=============================================================================
