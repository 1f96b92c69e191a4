------------------------- MODULE ClaimPaymentProofs -------------------------
(***************************************************************************)
(* The theorems about a node.  Its types, its registry and the positions   *)
(* its branches queue are right whatever happens.  No branch of valid      *)
(* blocks pays a claim that this node can check more than its eligible     *)
(* amount, in nClaims or in the coins themselves, or in more outputs than  *)
(* allowed, and the claim index can be loaded again, for every value of    *)
(* the constants, as long as no write to the claim index has failed.       *)
(***************************************************************************)
EXTENDS ClaimTypeProofs, WellFoundedInduction
-----------------------------------------------------------------------------
(* What a walk along the pprev pointers computes, for every tree and every *)
(* length of the chain.  The induction is by least counterexample: a set   *)
(* of block numbers that is not empty has a smallest member.               *)

\* f is the running sum of val along every branch of the blocks up to n.
IsWalk(f, prev, val, n) ==
  f = [i \in 0 .. n |-> IF i = 0 THEN 0 ELSE f[prev[i]] + val[i]]

\* The values that GetTotalReceived adds up are amounts.
Amounts(val, n) == \A i \in 1 .. n : val[i] \in Nat

\* V is closed under pprev, and two trees with values agree on it.
AgreeOn(V, prev1, val1, prev2, val2) ==
  /\ \A i \in V : i \in Nat \ {0}
  /\ \A i \in V : prev1[i] = prev2[i] /\ val1[i] = val2[i] /\ prev1[i] \in V \cup {0}

\* A non-empty set of block numbers has a least member.
LEMMA LeastMember ==
  ASSUME NEW T, T \subseteq Nat, T # {}
  PROVE  \E x \in T : \A y \in T : ~(y < x)
<1>1. IsWellFoundedOn(OpToRel(<, Nat), Nat)
  BY NatLessThanWellFounded, Zenon
<1>2. \E x \in T : \A y \in T : ~(<<y, x>> \in OpToRel(<, Nat))
  BY <1>1, WFMin, Zenon
<1>3. QED
  BY <1>2, Zenon DEF OpToRel

\* The recursion of GetTotalReceived is well defined: a walk exists.
LEMMA WalkExists ==
  ASSUME NEW n \in Nat, NEW prev, NEW val, IsTree(prev, n), Amounts(val, n)
  PROVE  \E f : IsWalk(f, prev, val, n)
<1> DEFINE T == {m \in 0 .. n : ~ \E f : IsWalk(f, prev, val, m)}
<1>1. SUFFICES ASSUME T # {} PROVE FALSE
  OBVIOUS
<1>2. T \subseteq Nat
  OBVIOUS
<1>3. PICK m \in T : \A y \in T : ~(y < m)
  <2> HIDE DEF T
  <2> QED BY <1>1, <1>2, LeastMember, Zenon
<1>4. CASE m = 0
  <2> DEFINE g == [i \in 0 .. 0 |-> 0]
  <2>1. IsWalk(g, prev, val, 0)
    BY DEF IsWalk
  <2> QED BY <2>1, <1>4, <1>3, Zenon
<1>5. CASE m # 0
  <2>1. m \in 1 .. n /\ m - 1 \in 0 .. n /\ m - 1 \notin T
    BY <1>5, <1>3
  <2>2. PICK f : IsWalk(f, prev, val, m - 1)
    BY <2>1, Zenon
  <2> DEFINE g == [i \in 0 .. m |-> IF i = m THEN f[prev[m]] + val[m] ELSE f[i]]
  <2>3. ASSUME NEW i \in 0 .. m
        PROVE  g[i] = IF i = 0 THEN 0 ELSE g[prev[i]] + val[i]
    <3>1. CASE i = 0
      BY <3>1, <2>1, <2>2 DEF IsWalk
    <3>2. CASE i \in 1 .. (m - 1)
      <4> DEFINE step(x) == IF x = 0 THEN 0 ELSE f[prev[x]] + val[x]
      <4>0. i \in 0 .. (m - 1) /\ i # 0
        BY <3>2, <2>1
      <4>1. f[i] = f[prev[i]] + val[i]
        <5>1. f = [x \in 0 .. (m - 1) |-> step(x)]
          BY <2>2, Zenon DEF IsWalk
        <5> HIDE DEF step
        <5>2. f[i] = step(i)
          BY <4>0, <5>1, Zenon
        <5> QED BY <4>0, <5>2, Zenon DEF step
      <4>2. prev[i] \in 0 .. (m - 1)
        BY <3>2, <2>1 DEF IsTree
      <4>3. g[i] = f[i] /\ g[prev[i]] = f[prev[i]]
        BY <3>2, <2>1, <4>2
      <4> QED BY <4>1, <4>3, <3>2
    <3>3. CASE i = m
      <4>1. prev[m] \in 0 .. (m - 1)
        BY <2>1, Zenon DEF IsTree
      <4>2. g[prev[m]] = f[prev[m]]
        BY <4>1, <2>1
      <4> QED BY <4>2, <3>3, <2>1
    <3> QED BY <3>1, <3>2, <3>3, <2>1
  <2>4. IsWalk(g, prev, val, m)
    <3> DEFINE h == [i \in 0 .. m |-> IF i = 0 THEN 0 ELSE g[prev[i]] + val[i]]
    <3>1. \A i \in 0 .. m : g[i] = h[i]
      BY <2>3, Zenon
    <3>2. g = h
      BY <3>1, Zenon
    <3> QED BY <3>2, Zenon DEF IsWalk
  <2> QED BY <2>4, <1>3, <2>1, Zenon
<1> QED BY <1>4, <1>5, Zenon

\* The recursive definition of Walk can be unfolded.
LEMMA WalkDef ==
  ASSUME NEW n \in Nat, NEW prev, NEW val, IsTree(prev, n), Amounts(val, n)
  PROVE  IsWalk(Walk(prev, val, n), prev, val, n)
<1>1. \E f : IsWalk(f, prev, val, n)
  BY WalkExists, Zenon
<1> QED BY <1>1, Zenon DEF IsWalk, Walk

\* Every running sum is an amount.
LEMMA WalkNat ==
  ASSUME NEW n \in Nat, NEW prev, NEW val, IsTree(prev, n), Amounts(val, n)
  PROVE  \A i \in 0 .. n : Walk(prev, val, n)[i] \in Nat
<1> DEFINE f == Walk(prev, val, n)
           T == {i \in 0 .. n : f[i] \notin Nat}
<1>1. \A i \in 0 .. n : f[i] = IF i = 0 THEN 0 ELSE f[prev[i]] + val[i]
  <2>1. IsWalk(f, prev, val, n)
    BY WalkDef, Zenon
  <2> HIDE DEF f
  <2> QED BY <2>1, Zenon DEF IsWalk
<1> HIDE DEF f
<1>2. SUFFICES ASSUME T # {} PROVE FALSE
  BY Zenon DEF f
<1>3. PICK m \in T : \A y \in T : ~(y < m)
  <2>1. T \subseteq Nat
    OBVIOUS
  <2> HIDE DEF T
  <2> QED BY <1>2, <2>1, LeastMember, Zenon
<1>4. m # 0
  BY <1>1, <1>3
<1>5. prev[m] \in 0 .. (m - 1) /\ val[m] \in Nat
  BY <1>3, <1>4 DEF IsTree, Amounts
<1>6. prev[m] \in 0 .. n /\ prev[m] \notin T
  BY <1>3, <1>5
<1> QED BY <1>1, <1>3, <1>4, <1>5, <1>6

\* Two walks agree on a set V of blocks that is closed under pprev, if the two
\* trees and the two block values agree on V, however long the chains are.
LEMMA WalksAgree ==
  ASSUME NEW m \in Nat, NEW prev1, NEW val1, IsTree(prev1, m), Amounts(val1, m),
         NEW n \in Nat, NEW prev2, NEW val2, IsTree(prev2, n), Amounts(val2, n),
         NEW V, AgreeOn(V, prev1, val1, prev2, val2)
  PROVE  \A i \in V \cup {0} : i <= m /\ i <= n => Walk(prev1, val1, m)[i] = Walk(prev2, val2, n)[i]
<1> DEFINE f == Walk(prev1, val1, m)
           g == Walk(prev2, val2, n)
           T == {i \in V \cup {0} : i <= m /\ i <= n /\ f[i] # g[i]}
<1>1. \A i \in 0 .. m : f[i] = IF i = 0 THEN 0 ELSE f[prev1[i]] + val1[i]
  <2>1. IsWalk(f, prev1, val1, m)
    BY WalkDef, Zenon
  <2> HIDE DEF f
  <2> QED BY <2>1, Zenon DEF IsWalk
<1>2. \A i \in 0 .. n : g[i] = IF i = 0 THEN 0 ELSE g[prev2[i]] + val2[i]
  <2>1. IsWalk(g, prev2, val2, n)
    BY WalkDef, Zenon
  <2> HIDE DEF g
  <2> QED BY <2>1, Zenon DEF IsWalk
<1> HIDE DEF f, g
<1>3. SUFFICES ASSUME T # {} PROVE FALSE
  BY Zenon DEF f, g
<1>0. \A i \in V : i \in Nat \ {0}
  BY Zenon DEF AgreeOn
<1>4. PICK k \in T : \A y \in T : ~(y < k)
  <2>1. T \subseteq Nat
    BY <1>0
  <2> HIDE DEF T
  <2> QED BY <1>3, <2>1, LeastMember, Zenon
<1>5. k # 0 /\ k \in V
  BY <1>1, <1>2, <1>4
<1>6. prev1[k] \in 0 .. (k - 1) /\ prev1[k] \in V \cup {0} /\ prev1[k] = prev2[k] /\ val1[k] = val2[k]
  BY <1>4, <1>5 DEF IsTree, AgreeOn
<1>7. f[prev1[k]] = g[prev1[k]]
  BY <1>0, <1>4, <1>6
<1> QED BY <1>0, <1>1, <1>2, <1>4, <1>5, <1>6, <1>7

\* A part of a tree is a tree.
LEMMA SubTree ==
  ASSUME NEW n \in Nat, NEW prev, NEW val, IsTree(prev, n), Amounts(val, n), NEW m \in 0 .. n
  PROVE  m \in Nat /\ IsTree(prev, m) /\ Amounts(val, m)
BY DEF IsTree, Amounts

\* GetTotalReceived at block b is an amount.
LEMMA SumNat ==
  ASSUME NEW n \in Nat, NEW prev, NEW val, IsTree(prev, n), Amounts(val, n), NEW b \in 0 .. n
  PROVE  SumUpTo(prev, val, b) \in Nat
BY SubTree, WalkNat DEF SumUpTo

\* At the genesis block nothing has been received.
LEMMA SumZero ==
  ASSUME NEW prev, NEW val
  PROVE  SumUpTo(prev, val, 0) = 0
<1>1. IsTree(prev, 0) /\ Amounts(val, 0)
  BY DEF IsTree, Amounts
<1>2. IsWalk(Walk(prev, val, 0), prev, val, 0)
  BY <1>1, WalkDef, Zenon
<1> HIDE DEF Walk
<1> QED BY <1>2 DEF IsWalk, SumUpTo

\* Two walks that agree on V, a set of blocks closed under parents.
SameWalk(V, m, prev1, val1, n, prev2, val2) ==
  /\ m \in Nat /\ IsTree(prev1, m) /\ Amounts(val1, m) /\ V \subseteq 1 .. m
  /\ n \in Nat /\ IsTree(prev2, n) /\ Amounts(val2, n) /\ V \subseteq 1 .. n
  /\ AgreeOn(V, prev1, val1, prev2, val2)

\* They have the same sums there.
LEMMA SameSums ==
  ASSUME NEW V, NEW m, NEW prev1, NEW val1, NEW n, NEW prev2, NEW val2,
         SameWalk(V, m, prev1, val1, n, prev2, val2), NEW b \in V \cup {0}
  PROVE  SumUpTo(prev1, val1, b) = SumUpTo(prev2, val2, b)
<1>0. /\ m \in Nat /\ IsTree(prev1, m) /\ Amounts(val1, m) /\ V \subseteq 1 .. m
      /\ n \in Nat /\ IsTree(prev2, n) /\ Amounts(val2, n) /\ V \subseteq 1 .. n
      /\ AgreeOn(V, prev1, val1, prev2, val2)
  BY Zenon DEF SameWalk
<1>1. b \in 0 .. m /\ b \in 0 .. n
  BY <1>0
<1>2. b \in Nat /\ IsTree(prev1, b) /\ Amounts(val1, b) /\ IsTree(prev2, b) /\ Amounts(val2, b)
  BY <1>0, <1>1, SubTree, Zenon
<1>3. \A i \in V \cup {0} : i <= b /\ i <= b => Walk(prev1, val1, b)[i] = Walk(prev2, val2, b)[i]
  BY <1>0, <1>2, WalksAgree
<1> HIDE DEF Walk
<1> QED BY <1>2, <1>3 DEF SumUpTo

\* A block adds what it pays to the total of its parent.
LEMMA SumStep ==
  ASSUME NEW n \in Nat, NEW prev, NEW val, IsTree(prev, n), Amounts(val, n), NEW b \in 1 .. n
  PROVE  SumUpTo(prev, val, b) = SumUpTo(prev, val, prev[b]) + val[b]
<1> DEFINE f == Walk(prev, val, b)
<1>1. b \in Nat /\ IsTree(prev, b) /\ Amounts(val, b)
  BY SubTree
<1>2. prev[b] \in 0 .. (b - 1)
  BY Zenon DEF IsTree
<1>3. f[b] = f[prev[b]] + val[b]
  <2>1. IsWalk(f, prev, val, b)
    BY <1>1, WalkDef, Zenon
  <2> HIDE DEF f
  <2> QED BY <2>1 DEF IsWalk
<1>4. f[prev[b]] = Walk(prev, val, prev[b])[prev[b]]
  <2>1. prev[b] \in Nat /\ IsTree(prev, prev[b]) /\ Amounts(val, prev[b])
    BY <1>2, SubTree
  <2> DEFINE V == 1 .. b
  <2>2. AgreeOn(V, prev, val, prev, val)
    BY <1>1 DEF IsTree, AgreeOn
  <2>3. prev[b] \in V \cup {0} /\ prev[b] <= b
    BY <1>2
  <2> HIDE DEF V
  <2> QED BY <1>1, <2>1, <2>2, <2>3, WalksAgree
<1> QED BY <1>3, <1>4, Zenon DEF SumUpTo

\* Of two walks over one tree, the one whose blocks add no less gives no less.
LEMMA SumMono ==
  ASSUME NEW n \in Nat, NEW prev, IsTree(prev, n), NEW val1, Amounts(val1, n), NEW val2, Amounts(val2, n),
         NEW V, V \subseteq 1 .. n, \A i \in V : prev[i] \in V \cup {0} /\ val1[i] <= val2[i],
         NEW b \in V \cup {0}
  PROVE  SumUpTo(prev, val1, b) <= SumUpTo(prev, val2, b)
<1> DEFINE f(i) == SumUpTo(prev, val1, i)
           g(i) == SumUpTo(prev, val2, i)
           T == {i \in V \cup {0} : ~(f(i) <= g(i))}
<1>1. \A i \in 0 .. n : f(i) \in Nat /\ g(i) \in Nat
  BY SumNat, Zenon
<1>2. \A i \in 1 .. n : f(i) = f(prev[i]) + val1[i] /\ g(i) = g(prev[i]) + val2[i]
  BY SumStep
<1>3. f(0) = 0 /\ g(0) = 0
  BY SumZero, Zenon
<1> HIDE DEF f, g
<1>4. SUFFICES ASSUME T # {} PROVE FALSE
  BY Zenon DEF f, g
<1>5. PICK k \in T : \A y \in T : ~(y < k)
  <2>0. V \cup {0} \subseteq Nat
    OBVIOUS
  <2>1. T \subseteq Nat
    BY <2>0, Zenon
  <2> HIDE DEF T
  <2> QED BY <1>4, <2>1, LeastMember, Zenon
<1>6. k # 0 /\ k \in V /\ k \in 1 .. n
  BY <1>3, <1>5
<1>7. prev[k] \in 0 .. (k - 1) /\ prev[k] \in V \cup {0} /\ val1[k] \in Nat /\ val2[k] \in Nat /\ val1[k] <= val2[k]
  BY <1>6, Zenon DEF IsTree, Amounts
<1>8. f(prev[k]) <= g(prev[k])
  BY <1>5, <1>6, <1>7
<1>9. f(prev[k]) \in Nat /\ g(prev[k]) \in Nat
  BY <1>1, <1>6, <1>7
<1> QED BY <1>2, <1>5, <1>6, <1>7, <1>8, <1>9

\* A sum with at most one term that is not zero is at most that term.
LEMMA SumOfOne ==
  ASSUME NEW n \in Nat, NEW prev, \A i \in 1 .. n : prev[i] = i - 1, NEW val, Amounts(val, n),
         NEW c \in Nat, \A i \in 1 .. n : val[i] <= c,
         \A i, j \in 1 .. n : val[i] # 0 /\ val[j] # 0 => i = j
  PROVE  SumUpTo(prev, val, n) <= c
<1> DEFINE f(i) == SumUpTo(prev, val, i)
           T == {i \in 0 .. n : ~(f(i) = 0 \/ (f(i) <= c /\ \E j \in 1 .. i : val[j] # 0))}
<1>0. IsTree(prev, n)
  BY DEF IsTree
<1>1. \A i \in 1 .. n : f(i) = f(i - 1) + val[i]
  BY <1>0, SumStep
<1>2. f(0) = 0
  BY SumZero, Zenon
<1> HIDE DEF f
<1>3. SUFFICES ASSUME T # {} PROVE FALSE
  BY DEF f
<1>4. PICK k \in T : \A y \in T : ~(y < k)
  <2>1. T \subseteq Nat
    OBVIOUS
  <2> HIDE DEF T
  <2> QED BY <1>3, <2>1, LeastMember, Zenon
<1>5. k \in 1 .. n /\ k - 1 \in 0 .. n /\ k - 1 \notin T /\ val[k] \in Nat /\ val[k] <= c
  BY <1>2, <1>4 DEF Amounts
<1>6. f(k) = f(k - 1) + val[k]
  BY <1>1, <1>5, Zenon
<1>7. CASE val[k] = 0
  <2>1. f(k - 1) = 0 \/ (f(k - 1) <= c /\ \E j \in 1 .. (k - 1) : val[j] # 0)
    BY <1>5, Zenon
  <2>2. CASE f(k - 1) = 0
    BY <1>4, <1>6, <1>7, <2>2
  <2>3. CASE f(k - 1) # 0
    <3>1. PICK j \in 1 .. (k - 1) : val[j] # 0
      BY <2>1, <2>3, Zenon
    <3>2. j \in 1 .. k
      BY <1>5
    <3>3. f(k - 1) \in Nat
      BY <1>0, <1>5, SumNat, Zenon DEF f
    <3> QED BY <1>4, <1>6, <1>7, <2>1, <2>3, <3>1, <3>2, <3>3
  <2> QED BY <2>2, <2>3, Zenon
<1>8. CASE val[k] # 0
  <2>1. \A j \in 1 .. (k - 1) : val[j] = 0
    <3> SUFFICES ASSUME NEW j \in 1 .. (k - 1), val[j] # 0 PROVE FALSE
      BY Zenon
    <3>1. j \in 1 .. n /\ j # k
      BY <1>5
    <3> QED BY <1>5, <1>8, <3>1, Zenon
  <2>2. f(k - 1) = 0
    BY <1>5, <2>1, Zenon
  <2>3. f(k) <= c /\ k \in 1 .. k
    BY <1>5, <1>6, <2>2
  <2> QED BY <1>4, <1>8, <2>3, Zenon
<1> QED BY <1>7, <1>8, Zenon

-----------------------------------------------------------------------------
(* Branches. *)

\* f gives the branch of every block up to n.
IsBranches(f, prev, n) == f = [i \in 0 .. n |-> IF i = 0 THEN {} ELSE {i} \cup f[prev[i]]]

\* The recursion of BranchOf is well defined.
LEMMA BranchesExist ==
  ASSUME NEW n \in Nat, NEW prev, IsTree(prev, n)
  PROVE  \E f : IsBranches(f, prev, n)
<1> DEFINE T == {m \in 0 .. n : ~ \E f : IsBranches(f, prev, m)}
<1>1. SUFFICES ASSUME T # {} PROVE FALSE
  OBVIOUS
<1>2. T \subseteq Nat
  OBVIOUS
<1>3. PICK m \in T : \A y \in T : ~(y < m)
  <2> HIDE DEF T
  <2> QED BY <1>1, <1>2, LeastMember, Zenon
<1>4. CASE m = 0
  <2> DEFINE g == [i \in 0 .. 0 |-> {}]
  <2>1. IsBranches(g, prev, 0)
    BY DEF IsBranches
  <2> QED BY <2>1, <1>4, <1>3, Zenon
<1>5. CASE m # 0
  <2>1. m \in 1 .. n /\ m - 1 \in 0 .. n /\ m - 1 \notin T
    BY <1>5, <1>3
  <2>2. PICK f : IsBranches(f, prev, m - 1)
    BY <2>1, Zenon
  <2> DEFINE g == [i \in 0 .. m |-> IF i = m THEN {m} \cup f[prev[m]] ELSE f[i]]
  <2>3. ASSUME NEW i \in 0 .. m
        PROVE  g[i] = IF i = 0 THEN {} ELSE {i} \cup g[prev[i]]
    <3>1. CASE i = 0
      BY <3>1, <2>1, <2>2 DEF IsBranches
    <3>2. CASE i \in 1 .. (m - 1)
      <4> DEFINE step(x) == IF x = 0 THEN {} ELSE {x} \cup f[prev[x]]
      <4>0. i \in 0 .. (m - 1) /\ i # 0
        BY <3>2, <2>1
      <4>1. f[i] = {i} \cup f[prev[i]]
        <5>1. f = [x \in 0 .. (m - 1) |-> step(x)]
          BY <2>2, Zenon DEF IsBranches
        <5> HIDE DEF step
        <5>2. f[i] = step(i)
          BY <4>0, <5>1, Zenon
        <5> QED BY <4>0, <5>2, Zenon DEF step
      <4>2. prev[i] \in 0 .. (m - 1)
        BY <3>2, <2>1 DEF IsTree
      <4>3. g[i] = f[i] /\ g[prev[i]] = f[prev[i]]
        BY <3>2, <2>1, <4>2
      <4> HIDE DEF g
      <4>4. g[i] = {i} \cup g[prev[i]] /\ i # 0
        BY <4>0, <4>1, <4>3, Zenon
      <4> QED BY <4>4, Zenon
    <3>3. CASE i = m
      <4>1. prev[m] \in 0 .. (m - 1)
        BY <2>1, Zenon DEF IsTree
      <4>2. g[prev[m]] = f[prev[m]]
        BY <4>1, <2>1
      <4>3. g[m] = {m} \cup f[prev[m]] /\ m # 0
        BY <2>1
      <4> HIDE DEF g
      <4> QED BY <4>2, <4>3, <3>3, Zenon
    <3> QED BY <3>1, <3>2, <3>3, <2>1
  <2>4. IsBranches(g, prev, m)
    <3> DEFINE h == [i \in 0 .. m |-> IF i = 0 THEN {} ELSE {i} \cup g[prev[i]]]
    <3>1. \A i \in 0 .. m : g[i] = h[i]
      BY <2>3, Zenon
    <3>2. g = h
      BY <3>1, Zenon
    <3> QED BY <3>2, Zenon DEF IsBranches
  <2> QED BY <2>4, <1>3, <2>1, Zenon
<1> QED BY <1>4, <1>5, Zenon

LEMMA BranchesDef ==
  ASSUME NEW n \in Nat, NEW prev, IsTree(prev, n)
  PROVE  IsBranches(Branches(prev, n), prev, n)
<1>1. \E f : IsBranches(f, prev, n)
  BY BranchesExist, Zenon
<1> QED BY <1>1, Zenon DEF IsBranches, Branches

\* The branch of a block does not depend on the blocks after it.
LEMMA BranchesAgree ==
  ASSUME NEW m \in Nat, NEW n \in Nat, m <= n, NEW prev, IsTree(prev, n)
  PROVE  \A i \in 0 .. m : Branches(prev, m)[i] = Branches(prev, n)[i]
<1> DEFINE f == Branches(prev, m)
           g == Branches(prev, n)
           T == {i \in 0 .. m : f[i] # g[i]}
<1>1. \A i \in 0 .. m : f[i] = IF i = 0 THEN {} ELSE {i} \cup f[prev[i]]
  <2>1. IsTree(prev, m)
    BY DEF IsTree
  <2>2. IsBranches(f, prev, m)
    BY <2>1, BranchesDef, Zenon
  <2> HIDE DEF f
  <2> QED BY <2>2, Zenon DEF IsBranches
<1>2. \A i \in 0 .. n : g[i] = IF i = 0 THEN {} ELSE {i} \cup g[prev[i]]
  <2>1. IsBranches(g, prev, n)
    BY BranchesDef, Zenon
  <2> HIDE DEF g
  <2> QED BY <2>1, Zenon DEF IsBranches
<1> HIDE DEF f, g
<1>3. SUFFICES ASSUME T # {} PROVE FALSE
  BY Zenon DEF f, g
<1>4. PICK k \in T : \A y \in T : ~(y < k)
  <2>1. T \subseteq Nat
    OBVIOUS
  <2> HIDE DEF T
  <2> QED BY <1>3, <2>1, LeastMember, Zenon
<1>5. k \in 0 .. m /\ k \in 0 .. n /\ k # 0
  <2>1. 0 \in 0 .. m /\ 0 \in 0 .. n
    OBVIOUS
  <2>2. f[0] = {}
    BY <1>1, <2>1, Zenon
  <2>3. g[0] = {}
    BY <1>2, <2>1, Zenon
  <2> QED BY <1>4, <2>2, <2>3
<1>6. prev[k] \in 0 .. (k - 1)
  BY <1>5 DEF IsTree
<1>7. f[prev[k]] = g[prev[k]]
  BY <1>4, <1>5, <1>6
<1> QED BY <1>1, <1>2, <1>4, <1>5, <1>7, Zenon

\* A branch is its last block on top of the branch of that block's parent.
LEMMA BranchStep ==
  ASSUME NEW n \in Nat, NEW prev, IsTree(prev, n), NEW b \in 1 .. n
  PROVE  BranchOf(prev, b) = {b} \cup BranchOf(prev, prev[b])
<1> DEFINE f == Branches(prev, b)
<1>1. b \in Nat /\ b # 0 /\ IsTree(prev, b) /\ prev[b] \in 0 .. (b - 1)
  BY DEF IsTree
<1>2. f[b] = {b} \cup f[prev[b]]
  <2>1. IsBranches(f, prev, b)
    BY <1>1, BranchesDef, Zenon
  <2> HIDE DEF f
  <2> QED BY <1>1, <2>1 DEF IsBranches
<1>3. f[prev[b]] = Branches(prev, prev[b])[prev[b]]
  <2>1. prev[b] \in Nat /\ prev[b] <= b /\ prev[b] \in 0 .. prev[b]
    BY <1>1
  <2> QED BY <1>1, <2>1, BranchesAgree
<1> QED BY <1>2, <1>3, Zenon DEF BranchOf

\* The branch of the genesis block has no blocks of its own.
LEMMA BranchZero ==
  ASSUME NEW prev
  PROVE  BranchOf(prev, 0) = {}
<1>1. IsTree(prev, 0)
  BY DEF IsTree
<1>2. IsBranches(Branches(prev, 0), prev, 0)
  BY <1>1, BranchesDef, Zenon
<1> HIDE DEF Branches
<1> QED BY <1>2 DEF IsBranches, BranchOf

\* Two trees that agree on V, a set of blocks closed under parents.
SameTree(V, m, prev1, n, prev2) ==
  /\ m \in Nat /\ IsTree(prev1, m) /\ V \subseteq 1 .. m
  /\ n \in Nat /\ IsTree(prev2, n) /\ V \subseteq 1 .. n
  /\ \A i \in V : prev1[i] = prev2[i] /\ prev1[i] \in V \cup {0}

\* They have the same branches there, and these stay in V.
LEMMA SameBranches ==
  ASSUME NEW V, NEW m, NEW prev1, NEW n, NEW prev2, SameTree(V, m, prev1, n, prev2),
         NEW b \in V \cup {0}
  PROVE  BranchOf(prev1, b) = BranchOf(prev2, b) /\ BranchOf(prev1, b) \subseteq V
<1> DEFINE f(i) == BranchOf(prev1, i)
           g(i) == BranchOf(prev2, i)
           T == {i \in V \cup {0} : ~(f(i) = g(i) /\ f(i) \subseteq V)}
<1>0. /\ m \in Nat /\ IsTree(prev1, m) /\ V \subseteq 1 .. m
      /\ n \in Nat /\ IsTree(prev2, n) /\ V \subseteq 1 .. n
      /\ \A i \in V : prev1[i] = prev2[i] /\ prev1[i] \in V \cup {0}
  BY Zenon DEF SameTree
<1>1. \A i \in V : f(i) = {i} \cup f(prev1[i]) /\ g(i) = {i} \cup g(prev2[i])
  BY <1>0, BranchStep
<1>2. f(0) = {} /\ g(0) = {}
  BY BranchZero, Zenon
<1> HIDE DEF f, g
<1>3. SUFFICES ASSUME T # {} PROVE FALSE
  BY Zenon DEF f, g
<1>4. PICK k \in T : \A y \in T : ~(y < k)
  <2>0. V \cup {0} \subseteq Nat
    BY <1>0
  <2>1. T \subseteq Nat
    BY <2>0, Zenon
  <2> HIDE DEF T
  <2> QED BY <1>3, <2>1, LeastMember, Zenon
<1>5. k \in V /\ k \in 1 .. m
  BY <1>0, <1>2, <1>4, Zenon
<1>6. prev1[k] \in 0 .. (k - 1) /\ prev1[k] \in V \cup {0} /\ prev2[k] = prev1[k]
  BY <1>0, <1>5, Zenon DEF IsTree
<1>7. f(prev1[k]) = g(prev1[k]) /\ f(prev1[k]) \subseteq V
  BY <1>0, <1>4, <1>5, <1>6
<1>8. f(k) = {k} \cup f(prev1[k]) /\ g(k) = {k} \cup f(prev1[k])
  BY <1>1, <1>5, <1>6, <1>7, Zenon
<1>9. f(k) = g(k) /\ f(k) \subseteq V
  BY <1>5, <1>7, <1>8, Zenon
<1> QED BY <1>4, <1>9, Zenon
-----------------------------------------------------------------------------
(* The claims of the node.                                                 *)

\* A block tree, in any state, is a tree and its payments are amounts.
LEMMA TreeSums ==
  ASSUME NEW bl, NEW nc, NEW qu, NEW va, NEW fa, NEW tp, TreeOK(bl, nc, qu, va, fa, tp), NEW s
  PROVE  /\ Len(bl) \in Nat
         /\ IsTree([b \in 1 .. Len(bl) |-> bl[b].prev], Len(bl))
         /\ Amounts([b \in 1 .. Len(bl) |-> IF s \in DOMAIN nc[b] THEN nc[b][s] ELSE 0], Len(bl))
<1>1. Len(bl) \in Nat
  BY DEF TreeOK
<1>2. \A b \in 1 .. Len(bl) : bl[b].prev \in Nat /\ bl[b].prev < b
  <2>1. \A b \in 1 .. Len(bl) : bl[b] \in [prev : Nat, body : Body]
    BY SeqElements, Zenon DEF TreeOK
  <2> QED BY <2>1, Zenon DEF TreeOK
<1>3. \A b \in 1 .. Len(bl) : \A x \in DOMAIN nc[b] : nc[b][x] \in Nat
  BY ZenonT(60) DEF TreeOK, IsMap
<1> QED BY <1>1, <1>2, <1>3 DEF IsTree, Amounts

\* The same of the block tree in memory.
LEMMA TreeWalks ==
  ASSUME TreeOK(blocks, nClaims, queued, valid, failed, tip), NEW s
  PROVE  Len(blocks) \in Nat /\ IsTree(Parent, Len(blocks)) /\ Amounts(PaidBy(s), Len(blocks))
<1>1. /\ Len(blocks) \in Nat
      /\ IsTree([b \in 1 .. Len(blocks) |-> blocks[b].prev], Len(blocks))
      /\ Amounts([b \in 1 .. Len(blocks) |-> IF s \in DOMAIN nClaims[b] THEN nClaims[b][s] ELSE 0],
                 Len(blocks))
  BY TreeSums, Zenon
<1> QED BY <1>1, Zenon DEF Parent, PaidBy, Ids

\* GetTotalReceived computes an amount.
LEMMA TotalNat ==
  ASSUME TreeOK(blocks, nClaims, queued, valid, failed, tip), NEW s, NEW b \in 0 .. Len(blocks)
  PROVE  GetTotalReceived(s, b) \in Nat
BY TreeWalks, SumNat, Zenon DEF GetTotalReceived

\* TypeInv is inductive.
LEMMA TypeStep ==
  ASSUME TypeInv, [Next]_vars
  PROVE  TypeInv'
<1>1. TotalsOK
  BY TotalNat, ChainParts, Zenon DEF TotalsOK
<1> QED BY <1>1, TypeNext, Zenon

\* The state of the node, its registry, its claim index, its block index in
\* memory and on disk and the operation in progress, is always well-typed.
THEOREM TypeCorrect == Spec => []TypeOK
<1>1. Init => TypeInv
  BY TypeInit, Zenon
<1>2. TypeInv /\ [Next]_vars => TypeInv'
  BY TypeStep, Zenon
<1>3. TypeInv => TypeOK
  BY Zenon DEF TypeInv
<1> QED BY <1>1, <1>2, <1>3, PTL DEF Spec

\* TypeInv and RegInv together are inductive.
LEMMA RegInvariant == Spec => [](TypeInv /\ RegInv)
<1>1. Init => TypeInv /\ RegInv
  BY TypeInit, RegInit, Zenon
<1>2. TypeInv /\ RegInv /\ [Next]_vars => (TypeInv /\ RegInv)'
  BY TypeStep, RegNext, Zenon
<1> QED BY <1>1, <1>2, PTL DEF Spec

\* g_claims never holds two claims with one target, nor a claim whose target
\* is the source of another, whichever path registered them; and while the node
\* runs, it holds every claim of the index.
THEOREM RegistryIsRight == Spec => []RegistryInv
<1>1. TypeInv /\ RegInv => RegistryInv
  BY Zenon DEF RegInv, RegistryInv
<1> QED BY <1>1, RegInvariant, PTL

\* No step changes the target of a claim or drops a claim from the index.
THEOREM TargetsAreKept == Spec => ClaimsAreKept
<1>1. TypeInv /\ RegInv /\ [Next]_vars => [KeepsClaims]_vars
  BY RegNext, Zenon
<1> QED BY <1>1, RegInvariant, PTL DEF Spec, ClaimsAreKept

\* Nothing is queued in the beginning.
LEMMA QueueInit ==
  ASSUME Init
  PROVE  QueueInv
<1>1. valid = {} /\ tip = 0 /\ job.phase = "idle" /\ job.queue = {} /\ disk.valid = {}
  BY Zenon DEF Init, Idle
<1>2. OnceUpTo(0)
  BY BranchZero, Zenon DEF OnceUpTo
<1>3. JobQueue
  BY <1>1, Zenon DEF JobQueue
<1> QED BY <1>1, <1>2, <1>3, Zenon DEF QueueInv, BlockQueue

\* Every step keeps QueueInv.
LEMMA QueueNext == TypeInv /\ TypeInv' /\ TreeInv /\ QueueInv /\ [Next]_vars => QueueInv'
\* What a block's outputs queue is determined.
<1>QueueUnique.
  ASSUME NEW body, NEW n \in Nat, NEW q, NEW r, QueueIs(body, n, q), QueueIs(body, n, r)
  PROVE  q = r
  <2> USE <1>QueueUnique
  <2> DEFINE outs == {j \in 1 .. n : body.vout[j].to = OpReturn}
  <2>1. CASE body.vClaim = <<>> \/ body.period # "early" \/ outs = {}
    BY <2>1, Zenon DEF QueueIs
  <2>2. CASE ~(body.vClaim = <<>> \/ body.period # "early" \/ outs = {})
    <3>1. PICK j \in outs : q = body.vout[j].queue /\ \A i \in outs : i <= j
      BY <2>2, Zenon DEF QueueIs
    <3>2. PICK k \in outs : r = body.vout[k].queue /\ \A i \in outs : i <= k
      BY <2>2, Zenon DEF QueueIs
    <3>3. j \in Nat /\ k \in Nat /\ j <= k /\ k <= j
      BY <3>1, <3>2
    <3>4. j = k
      BY <3>3
    <3> QED BY <3>1, <3>2, <3>4, Zenon
  <2> QED BY <2>1, <2>2, Zenon
\* One more output: it queues its positions, or nothing.
<1>QueueOneMore.
  ASSUME NEW body, NEW k \in Nat, k >= 1, NEW q, NEW r, QueueIs(body, k - 1, q), body.vClaim # <<>>,
         \/ r = q /\ (body.vout[k].to # OpReturn \/ body.period # "early")
         \/ r = body.vout[k].queue /\ body.vout[k].to = OpReturn /\ body.period = "early"
  PROVE  QueueIs(body, k, r)
  <2> USE <1>QueueOneMore
  <2> DEFINE outs(n) == {j \in 1 .. n : body.vout[j].to = OpReturn}
  <2>1. 1 .. k = 1 .. (k - 1) \cup {k}
    OBVIOUS
  <2>2. CASE body.period # "early"
    BY <2>2, Zenon DEF QueueIs
  <2>3. CASE body.period = "early" /\ r = q /\ body.vout[k].to # OpReturn
    <3>1. outs(k) = outs(k - 1)
      BY <2>1, <2>3, Zenon
    <3> QED BY <2>3, <3>1, Zenon DEF QueueIs
  <2>4. CASE r = body.vout[k].queue /\ body.vout[k].to = OpReturn /\ body.period = "early"
    <3>1. k \in outs(k) /\ \A i \in outs(k) : i <= k
      BY <2>4
    <3>2. \E j \in outs(k) : r = body.vout[j].queue /\ \A i \in outs(k) : i <= j
      BY <2>4, <3>1, Zenon
    <3> QED BY <2>4, <3>1, <3>2, Zenon DEF QueueIs
  <2> QED BY <2>2, <2>3, <2>4, Zenon
\* A step that leaves a set of blocks alone, closed under parents, leaves the
\* branches inside that set alone.
<1>BranchKept.
  ASSUME TypeInv, TypeInv', NEW V, V \subseteq Ids, V \subseteq Ids',
         \A b \in V : blocks[b].prev \in V \cup {0} /\ blocks'[b] = blocks[b],
         NEW b \in V \cup {0}
  PROVE  BranchOf(Parent, b) \subseteq V /\ BranchOf(Parent', b) = BranchOf(Parent, b)
  <2> USE <1>BranchKept
  <2>1. Len(blocks) \in Nat /\ IsTree(Parent, Len(blocks))
    BY TreeWalks, Zenon DEF TypeInv, TypeOK
  <2>2. Len(blocks') \in Nat /\ IsTree(Parent', Len(blocks'))
    <3>1. TreeOK(blocks', nClaims', queued', valid', failed', tip')
      BY Zenon DEF TypeInv, TypeOK
    <3> QED BY <3>1, TreeSums, Zenon DEF Parent, PaidBy, Ids
  <2>3. V \subseteq 1 .. Len(blocks) /\ V \subseteq 1 .. Len(blocks')
    BY Zenon DEF Ids
  <2>4. \A i \in V : Parent[i] = Parent'[i] /\ Parent[i] \in V \cup {0}
    BY Zenon DEF Parent, Ids
  <2> DEFINE m == Len(blocks)
             n == Len(blocks')
             prev1 == Parent
             prev2 == Parent'
  <2>5. SameTree(V, m, prev1, n, prev2)
    BY <2>1, <2>2, <2>3, <2>4, Zenon DEF SameTree
  <2> HIDE DEF m, n, prev1, prev2
  <2>6. BranchOf(prev1, b) = BranchOf(prev2, b) /\ BranchOf(prev1, b) \subseteq V
    BY <2>5, SameBranches, Zenon
  <2> QED BY <2>6, Zenon DEF prev1, prev2
\* Hence what the valid blocks queue stays as it is, as long as they are left alone.
<1>QueueFrame.
  ASSUME TypeInv, TypeInv', QueueInv, NEW V, V \subseteq valid, V \subseteq Ids',
         \A b \in V : blocks[b].prev \in V \cup {0} /\ blocks'[b] = blocks[b] /\ queued'[b] = queued[b]
  PROVE  /\ \A b \in V : QueueIs(blocks'[b].body, Len(blocks'[b].body.vout), queued'[b])
         /\ \A b \in V \cup {0} : OnceUpTo(b)'
         /\ \A b \in V \cup {0} : UNION {queued'[i] : i \in BranchOf(Parent', b)} = QueuedUpTo(b)
  <2> USE <1>QueueFrame
  <2>1. V \subseteq Ids
    BY ChainParts, Zenon
  <2>2. \A b \in V \cup {0} : BranchOf(Parent, b) \subseteq V /\ BranchOf(Parent', b) = BranchOf(Parent, b)
    BY <2>1, <1>BranchKept, Zenon
  <2>3. \A b \in V : QueueIs(blocks'[b].body, Len(blocks'[b].body.vout), queued'[b])
    BY Zenon DEF QueueInv, BlockQueue
  <2>4. \A b \in V \cup {0} : OnceUpTo(b)'
    <3> SUFFICES ASSUME NEW b \in V \cup {0} PROVE OnceUpTo(b)'
      BY Zenon
    <3>1. OnceUpTo(b)
      BY Zenon DEF QueueInv, BlockQueue
    <3> QED BY <2>2, <3>1, Zenon DEF OnceUpTo
  <2>5. \A b \in V \cup {0} : UNION {queued'[i] : i \in BranchOf(Parent', b)} = QueuedUpTo(b)
    <3> SUFFICES ASSUME NEW b \in V \cup {0} PROVE UNION {queued'[i] : i \in BranchOf(Parent', b)} = QueuedUpTo(b)
      BY Zenon
    <3>1. {queued'[i] : i \in BranchOf(Parent', b)} = {queued[i] : i \in BranchOf(Parent, b)}
      BY <2>2, ZenonT(60)
    <3> QED BY <3>1, Zenon DEF QueuedUpTo
  <2> QED BY <2>3, <2>4, <2>5, Zenon
\* A step that leaves the blocks alone has only its job to answer for.
<1>QueueQuiet.
  ASSUME QueueInv, UNCHANGED <<blocks, queued, valid, tip, disk>>, JobQueue'
  PROVE  QueueInv'
  BY <1>QueueQuiet DEF QueueInv, BlockQueue, OnceUpTo, Parent, Ids
\* Without an operation in progress JobQueue says nothing.
<1>QueueIdle.
  ASSUME job'.phase \in {"idle", "claimset", "start", "vclaim"}, job'.queue = {}
  PROVE  JobQueue'
  BY <1>QueueIdle, Zenon DEF JobQueue
\* Claim messages, operations that begin, restart and reload.
<1>QueueStart.
  ASSUME TypeInv, QueueInv,
         \/ \E c \in Gossip : ReceiveClaim(c) \/ QueueClaim(c)
         \/ \E cs \in ClaimSets : StartClaimSet(cs)
         \/ ApplyClaim
         \/ \E b \in Ids : StartConnect(b)
         \/ \E body \in Bodies : StartTest(body)
         \/ Restart \/ LoadDone \/ \E s \in Script : LoadClaim(s)
  PROVE  QueueInv'
  <2> USE <1>QueueStart
  <2>1. UNCHANGED <<chain, disk>>
    BY Zenon DEF ReceiveClaim, QueueClaim, StartClaimSet, ApplyClaim, StartConnect, StartTest, Restart, LoadDone,
           LoadClaim
  <2>2. job'.phase \in {"idle", "claimset", "start", "vclaim"} /\ job'.queue = {}
    <3>1. CASE \E c \in Gossip : ReceiveClaim(c) \/ QueueClaim(c)
      BY <3>1, Zenon DEF ReceiveClaim, QueueClaim, Free, QueueInv, JobQueue
    <3>2. CASE (\E cs \in ClaimSets : StartClaimSet(cs)) \/ (\E b \in Ids : StartConnect(b))
               \/ (\E body \in Bodies : StartTest(body))
      BY <3>2, Zenon DEF StartClaimSet, StartConnect, StartTest, Idle
    <3>3. CASE ApplyClaim
      <4>1. job.phase = "claimset" /\ (job' = Idle \/ job' = [job EXCEPT !.k = @ + 1])
        BY <3>3, Zenon DEF ApplyClaim, Advance
      <4>2. CASE job' = Idle
        BY <4>2, Zenon DEF Idle
      <4>3. CASE job' = [job EXCEPT !.k = @ + 1]
        BY <4>1, <4>3, JobParts, ZenonT(60) DEF JobOK, QueueInv, JobQueue
      <4> QED BY <4>1, <4>2, <4>3, Zenon
    <3>4. CASE Restart \/ LoadDone \/ \E s \in Script : LoadClaim(s)
      <4>1. mode # "up" /\ job' = job
        BY <3>4, Zenon DEF Restart, LoadDone, LoadClaim
      <4> QED BY <4>1, JobParts DEF ShapeInv, Idle
    <3> QED BY <3>1, <3>2, <3>3, <3>4, Zenon
  <2> QED BY <2>1, <2>2, <1>QueueIdle, <1>QueueQuiet, Zenon DEF chain
\* A job that goes on: what it has queued so far, and the place it has reached.
<1>QueueCheck.
  ASSUME TypeInv, TypeInv', QueueInv, Reject \/ CheckClaims \/ CheckVClaim \/ CheckVOut \/ VOutDone
  PROVE  QueueInv'
  <2> USE <1>QueueCheck
  <2>1. UNCHANGED <<blocks, queued, valid, tip, disk>> /\ JobOK /\ JobQueue /\ ShapeInv
    BY JobParts, Zenon DEF Reject, CheckClaims, CheckVClaim, CheckVOut, VOutDone, chain, QueueInv
  <2>2. job.k \in Nat /\ job.k >= 1 /\ Len(job.body.vout) \in Nat
    <3>1. job.body \in Body
      BY JobParts, Zenon
    <3> QED BY <2>1, <3>1, BodyParts, SeqElements, Zenon DEF ShapeInv, JobOK
  <2>3. CASE Fail
    <3>1. job' = Idle
      BY <2>3, Zenon DEF Fail
    <3>2. JobQueue'
      BY <3>1, <1>QueueIdle, Zenon DEF Idle
    <3> QED BY <2>1, <3>2, <1>QueueQuiet, Zenon
  <2>4. CASE CheckClaims /\ ~Fail
    <3>1. /\ job.phase = "start"
          /\ \/ job.body.vClaim = <<>> /\ job' = [job EXCEPT !.phase = "finish"]
             \/ job' = [job EXCEPT !.phase = "vclaim"]
      BY <2>4, Zenon DEF CheckClaims
    <3>2. /\ job'.queue = {} /\ job'.body = job.body
          /\ job'.phase = "vclaim" \/ (job'.phase = "finish" /\ job.body.vClaim = <<>>)
      BY <2>1, <3>1, Zenon DEF JobOK, JobQueue
    <3>3. JobQueue'
      BY <3>2, Zenon DEF JobQueue, QueueIs
    <3> QED BY <2>1, <3>3, <1>QueueQuiet, Zenon
  <2>5. CASE CheckVClaim /\ ~Fail
    <3>1. /\ job.phase = "vclaim"
          /\ \/ job' = [job EXCEPT !.k = @ + 1]
             \/ job' = [job EXCEPT !.phase = "vout", !.k = 1]
      BY <2>5, Zenon DEF CheckVClaim
    <3>2. /\ job'.queue = {} /\ job'.body = job.body
          /\ job'.phase = "vclaim" \/ (job'.phase = "vout" /\ job'.k = 1)
      BY <2>1, <3>1, Zenon DEF JobOK, JobQueue
    <3>3. job.body.vClaim # <<>>
      BY <2>1, <2>2, <3>1 DEF ShapeInv
    <3>4. QueueIs(job.body, 0, {})
      BY DEF QueueIs
    <3>5. JobQueue'
      <4>1. CASE job'.phase = "vclaim"
        BY <3>2, <4>1, <1>QueueIdle, Zenon
      <4>2. CASE job'.phase = "vout" /\ job'.k = 1
        BY <2>2, <3>2, <3>3, <3>4, <4>2 DEF JobQueue
      <4> QED BY <3>2, <4>1, <4>2, Zenon
    <3> QED BY <2>1, <3>5, <1>QueueQuiet, Zenon
  <2>6. CASE CheckVOut /\ ~Fail
    <3> DEFINE out == job.body.vout[job.k]
    <3>1. /\ job.phase = "vout" /\ job.k <= Len(job.body.vout)
          /\ \/ \E s \in DOMAIN claims :
                   claims[s].target = out.to
                   /\ job' = [[job EXCEPT !.k = @ + 1] EXCEPT !.paid = Put(job.paid, s, out.value)]
             \/ /\ out.to = Genesis \/ job.body.period # "early"
                /\ job' = [job EXCEPT !.k = @ + 1]
             \/ /\ out.to = OpReturn /\ job.body.period = "early"
                /\ job' = [[job EXCEPT !.k = @ + 1] EXCEPT !.queue = out.queue]
      BY <2>6, Zenon DEF CheckVOut
    <3>2. /\ job'.phase = "vout" /\ job'.k = job.k + 1 /\ job'.body = job.body
          /\ \/ job'.queue = job.queue /\ (out.to # OpReturn \/ job.body.period # "early")
             \/ job'.queue = out.queue /\ out.to = OpReturn /\ job.body.period = "early"
      <4>1. \A s \in DOMAIN claims : claims[s].target \in Script
        BY JobParts, ClaimParts, Zenon DEF IsMap
      <4>2. \A s \in DOMAIN claims : claims[s].target # OpReturn
        BY <4>1, NodeAssumption, Zenon
      <4>3. Genesis # OpReturn
        BY NodeAssumption, Zenon
      <4>4. CASE \E s \in DOMAIN claims :
                    claims[s].target = out.to
                    /\ job' = [[job EXCEPT !.k = @ + 1] EXCEPT !.paid = Put(job.paid, s, out.value)]
        BY <2>1, <3>1, <4>2, <4>4, Zenon DEF JobOK
      <4>5. CASE (out.to = Genesis \/ job.body.period # "early") /\ job' = [job EXCEPT !.k = @ + 1]
        BY <2>1, <3>1, <4>3, <4>5, Zenon DEF JobOK
      <4>6. CASE /\ out.to = OpReturn /\ job.body.period = "early"
                 /\ job' = [[job EXCEPT !.k = @ + 1] EXCEPT !.queue = out.queue]
        BY <2>1, <3>1, <4>6, Zenon DEF JobOK
      <4> QED BY <3>1, <4>4, <4>5, <4>6, Zenon
    <3>3. job.body.vClaim # <<>> /\ QueueIs(job.body, job.k - 1, job.queue)
      BY <2>1, <3>1, Zenon DEF JobQueue
    <3>4. QueueIs(job.body, job.k, job'.queue)
      BY <2>2, <3>2, <3>3, <1>QueueOneMore, Zenon
    <3>5. JobQueue'
      <4>1. job'.k = job.k + 1 /\ job'.body = job.body
        BY <3>2, Zenon
      <4>2. job.k <= Len(job.body.vout)
        BY <3>1, Zenon
      <4>3. job'.k - 1 = job.k /\ job'.k <= Len(job.body.vout) + 1
        BY <2>2, <4>1, <4>2
      <4> QED BY <3>2, <3>3, <3>4, <4>1, <4>3, Zenon DEF JobQueue
    <3> QED BY <2>1, <3>5, <1>QueueQuiet, Zenon
  <2>7. CASE VOutDone
    <3>1. job.phase = "vout" /\ job.k > Len(job.body.vout) /\ job' = [job EXCEPT !.phase = "finish"]
      BY <2>7, Zenon DEF VOutDone
    <3>2. job'.phase = "finish" /\ job'.body = job.body /\ job'.queue = job.queue
      BY <2>1, <3>1, Zenon DEF JobOK
    <3>3. job.k - 1 = Len(job.body.vout)
      BY <2>1, <2>2, <3>1 DEF JobQueue
    <3>4. QueueIs(job.body, Len(job.body.vout), job.queue)
      BY <2>1, <3>1, <3>3, Zenon DEF JobQueue
    <3>5. JobQueue'
      BY <3>2, <3>4, Zenon DEF JobQueue
    <3> QED BY <2>1, <3>5, <1>QueueQuiet, Zenon
  <2> QED BY <2>3, <2>4, <2>5, <2>6, <2>7, Zenon DEF Reject
\* The first write to the block index: a block that is valid already gets the
\* positions it has.
<1>QueueFinishChecks.
  ASSUME TypeInv, TypeInv', TreeInv, QueueInv, FinishChecks
  PROVE  QueueInv'
  <2> USE <1>QueueFinishChecks
  <2> DEFINE b == job.block
  <2>1. /\ job.phase = "finish" /\ UNCHANGED <<blocks, valid, tip, disk>> /\ JobOK /\ JobQueue /\ BlockQueue
    BY JobParts, Zenon DEF FinishChecks, QueueInv
  <2>2. CASE Fail /\ UNCHANGED queued
    <3>1. job' = Idle
      BY <2>2, Zenon DEF Fail
    <3>2. JobQueue'
      BY <3>1, <1>QueueIdle, Zenon DEF Idle
    <3> QED BY <2>1, <2>2, <3>2, <1>QueueQuiet, Zenon
  <2>3. CASE job' = Idle /\ UNCHANGED queued
    <3>1. JobQueue'
      BY <2>3, <1>QueueIdle, Zenon DEF Idle
    <3> QED BY <2>1, <2>3, <3>1, <1>QueueQuiet, Zenon
  <2>4. CASE /\ job.queue \cap QueuedUpTo(tip) = {} /\ ~job.just
             /\ queued' = [queued EXCEPT ![b] = job.queue]
             /\ job' = [job EXCEPT !.phase = "record", !.todo = DOMAIN job.paid]
    <3>1. Connecting /\ b \in Ids /\ blocks[b].body = job.body
      BY <2>1, <2>4, JobParts, Zenon DEF Connecting, ShapeInv, TreeInv
    <3>2. /\ job'.phase = "record" /\ job'.body = job.body /\ job'.block = b /\ job'.queue = job.queue
      BY <2>1, <2>4, Zenon DEF JobOK
    <3>3. QueueIs(job.body, Len(job.body.vout), job.queue) /\ Len(job.body.vout) \in Nat
      BY <2>1, JobParts, BodyParts, SeqElements, Zenon DEF JobQueue
    <3>4. DOMAIN queued = Ids /\ valid \subseteq Ids /\ Ids' = Ids
      BY <2>1, ChainParts, Zenon DEF Ids
    <3>5. queued'[b] = job.queue /\ \A x \in Ids : x # b => queued'[x] = queued[x]
      BY <2>4, <3>1, <3>4, Zenon
    <3>6. b \in valid => queued[b] = job.queue
      <4> SUFFICES ASSUME b \in valid PROVE queued[b] = job.queue
        BY Zenon
      <4>1. QueueIs(job.body, Len(job.body.vout), queued[b])
        BY <2>1, <3>1, Zenon DEF BlockQueue
      <4> QED BY <3>3, <4>1, <1>QueueUnique, Zenon
    <3>7. \A x \in valid : queued'[x] = queued[x]
      BY <3>4, <3>5, <3>6, Zenon
    <3>8. /\ \A x \in valid : QueueIs(blocks'[x].body, Len(blocks'[x].body.vout), queued'[x])
          /\ \A x \in valid \cup {0} : OnceUpTo(x)'
          /\ \A x \in valid \cup {0} : UNION {queued'[i] : i \in BranchOf(Parent', x)} = QueuedUpTo(x)
      BY <2>1, <3>4, <3>7, <1>QueueFrame, Zenon DEF TreeInv
    <3>9. QueuedUpTo(tip)' = QueuedUpTo(tip)
      BY <2>1, <3>8, Zenon DEF TreeInv, QueuedUpTo
    <3>10. JobQueue'
      BY <2>4, <3>2, <3>3, <3>5, <3>9, Zenon DEF JobQueue
    <3>11. \A x \in disk.valid : disk.queued[x] = queued'[x]
      BY <2>1, <3>7, Zenon DEF BlockQueue, TreeInv
    <3>12. BlockQueue'
      BY <2>1, <3>8, <3>11, Zenon DEF BlockQueue
    <3> QED BY <3>10, <3>12, Zenon DEF QueueInv
  <2> QED BY <2>2, <2>3, <2>4, Zenon DEF FinishChecks
\* A block that is recorded becomes the tip: its positions are new to its branch.
<1>QueueConnectTip.
  ASSUME TypeInv, TypeInv', TreeInv, QueueInv, ConnectTip
  PROVE  QueueInv'
  <2> USE <1>QueueConnectTip
  <2> DEFINE b == job.block
  <2>1. /\ job.phase = "record" /\ tip' = b /\ valid' = valid \cup {b} /\ job' = Idle
        /\ UNCHANGED <<blocks, queued, disk>> /\ JobQueue /\ BlockQueue
    BY Zenon DEF ConnectTip, QueueInv
  <2>2. Connecting /\ b \in Ids /\ blocks[b].body = job.body /\ blocks[b].prev = tip /\ tip \in valid \cup {0}
    BY <2>1, JobParts, Zenon DEF Connecting, ShapeInv, TreeInv
  <2>3. queued[b] = job.queue /\ job.queue \cap QueuedUpTo(tip) = {} /\ QueueIs(job.body, Len(job.body.vout), job.queue)
    BY <2>1, Zenon DEF JobQueue
  <2>4. \A x \in valid' : QueueIs(blocks[x].body, Len(blocks[x].body.vout), queued[x])
    BY <2>1, <2>2, <2>3, Zenon DEF BlockQueue
  <2>5. OnceUpTo(b)
    <3>1. BranchOf(Parent, b) = {b} \cup BranchOf(Parent, tip)
      <4>1. Len(blocks) \in Nat /\ IsTree(Parent, Len(blocks))
        BY TreeWalks, Zenon DEF TypeInv, TypeOK
      <4>2. b \in 1 .. Len(blocks) /\ Parent[b] = tip
        BY <2>2, Zenon DEF Ids, Parent
      <4>3. BranchOf(Parent, b) = {b} \cup BranchOf(Parent, Parent[b])
        BY <4>1, <4>2, BranchStep
      <4> QED BY <4>2, <4>3, Zenon
    <3>2. OnceUpTo(tip)
      BY <2>1, <2>2, Zenon DEF BlockQueue
    <3>3. \A x \in BranchOf(Parent, tip) : queued[b] \cap queued[x] = {}
      BY <2>3, Zenon DEF QueuedUpTo
    <3> QED BY <3>1, <3>2, <3>3, Zenon DEF OnceUpTo
  <2>6. \A x \in valid' \cup {0} : OnceUpTo(x)
    BY <2>1, <2>5, Zenon DEF BlockQueue
  <2>7. \A x \in valid' \cup {0} : OnceUpTo(x)'
    <3>1. \A x : OnceUpTo(x) => OnceUpTo(x)'
      BY <2>1 DEF OnceUpTo, Parent, Ids
    <3> QED BY <2>6, <3>1, Zenon
  <2>8. JobQueue'
    BY <2>1, <1>QueueIdle, Zenon DEF Idle
  <2>9. BlockQueue'
    BY <2>1, <2>4, <2>7, Zenon DEF BlockQueue
  <2> QED BY <2>8, <2>9, Zenon DEF QueueInv
\* The other steps on the block index.
<1>QueueChain.
  ASSUME TypeInv, TypeInv', TreeInv, QueueInv,
         \/ DisconnectTip
         \/ \E s \in Script : RecordClaim(s)
         \/ \E p \in 0 .. Len(blocks), body \in Bodies : AcceptBlock(p, body)
         \/ \E full \in BOOLEAN : Flush(full)
         \/ Crash
  PROVE  QueueInv'
  <2> USE <1>QueueChain
  <2>0. JobQueue /\ BlockQueue /\ valid \subseteq Ids /\ disk.valid \subseteq valid
    BY ChainParts, Zenon DEF QueueInv, TreeInv
  <2>1. CASE DisconnectTip
    <3>1. job.phase = "idle" /\ UNCHANGED <<blocks, queued, valid, disk, job>>
      BY <2>1, Zenon DEF DisconnectTip, Free
    <3>2. JobQueue'
      BY <2>0, <3>1, <1>QueueIdle, ZenonT(60) DEF JobQueue
    <3>3. BlockQueue'
      BY <2>0, <3>1 DEF BlockQueue, OnceUpTo, Parent, Ids
    <3> QED BY <3>2, <3>3, Zenon DEF QueueInv
  <2>2. CASE \E s \in Script : RecordClaim(s)
    <3>1. PICK s \in Script : RecordClaim(s)
      BY <2>2, Zenon
    <3>2. /\ job.phase = "record" /\ UNCHANGED <<blocks, queued, valid, tip, disk>>
          /\ job' = [job EXCEPT !.todo = @ \ {s}]
      BY <3>1, Zenon DEF RecordClaim
    <3>3. job'.phase = "record" /\ job'.body = job.body /\ job'.block = job.block /\ job'.queue = job.queue
      BY <3>2, JobParts, Zenon DEF JobOK
    <3>4. QueuedUpTo(tip)' = QueuedUpTo(tip)
      BY <3>2 DEF QueuedUpTo, Parent, Ids
    <3>5. JobQueue'
      BY <2>0, <3>2, <3>3, <3>4, Zenon DEF JobQueue
    <3> QED BY <3>2, <3>5, <1>QueueQuiet, Zenon
  <2>3. CASE \E p \in 0 .. Len(blocks), body \in Bodies : AcceptBlock(p, body)
    <3>1. PICK p \in 0 .. Len(blocks), body \in Bodies : AcceptBlock(p, body)
      BY <2>3, Zenon
    <3>2. job.phase = "idle" /\ UNCHANGED <<valid, tip, disk, job>>
      BY <3>1, Zenon DEF AcceptBlock, Free
    <3>3. \A b \in Ids : b \in Ids' /\ blocks'[b] = blocks[b] /\ queued'[b] = queued[b]
      BY <3>1, TreeAcceptBlock, Zenon
    <3>4. /\ \A x \in valid : QueueIs(blocks'[x].body, Len(blocks'[x].body.vout), queued'[x])
          /\ \A x \in valid \cup {0} : OnceUpTo(x)'
      <4>1. /\ valid \subseteq Ids'
            /\ \A b \in valid : blocks[b].prev \in valid \cup {0} /\ blocks'[b] = blocks[b] /\ queued'[b] = queued[b]
        BY <2>0, <3>3, Zenon DEF TreeInv
      <4> QED BY <4>1, <1>QueueFrame, Zenon
    <3>5. \A b \in disk.valid : disk.queued[b] = queued'[b]
      BY <2>0, <3>3, Zenon DEF BlockQueue
    <3>6. BlockQueue'
      BY <3>2, <3>4, <3>5, Zenon DEF BlockQueue
    <3>7. JobQueue'
      BY <2>0, <3>2, <1>QueueIdle, Zenon DEF JobQueue
    <3> QED BY <3>6, <3>7, Zenon DEF QueueInv
  <2>4. CASE \E full \in BOOLEAN : Flush(full)
    <3>1. PICK full \in BOOLEAN : Flush(full)
      BY <2>4, Zenon
    <3>2. /\ job.phase = "idle" /\ UNCHANGED <<blocks, queued, valid, tip, job>>
          /\ disk'.queued = [b \in Ids |-> IF b \in dirty THEN queued[b] ELSE disk.queued[b]]
      BY <3>1, Zenon DEF Flush, Free
    <3>3. disk'.valid = valid
      BY <3>1, TreeFlush, Zenon
    <3>4. \A b \in valid : disk'.queued[b] = queued[b]
      BY <2>0, <3>2, Zenon DEF BlockQueue, TreeInv
    <3>5. \A b \in valid \cup {0} : OnceUpTo(b)'
      <4>1. Parent' = Parent /\ queued' = queued
        BY <3>2, Zenon DEF Parent, Ids
      <4> QED BY <2>0, <4>1, Zenon DEF BlockQueue, OnceUpTo
    <3>6. BlockQueue'
      BY <2>0, <3>2, <3>3, <3>4, <3>5, Zenon DEF BlockQueue
    <3>7. JobQueue'
      BY <2>0, <3>2, <1>QueueIdle, Zenon DEF JobQueue
    <3> QED BY <3>6, <3>7, Zenon DEF QueueInv
  <2>5. CASE Crash
    <3>1. job' = Idle /\ queued' = disk.queued /\ UNCHANGED disk
      BY <2>5, Zenon DEF Crash
    <3>2. /\ valid' = disk.valid /\ disk.valid \subseteq Ids'
          /\ \A b \in disk.valid : blocks'[b] = blocks[b] /\ blocks[b].prev \in disk.valid \cup {0}
      BY <2>5, TreeCrash, Zenon
    <3>3. \A b \in disk.valid : queued'[b] = queued[b]
      BY <2>0, <3>1, Zenon DEF BlockQueue
    <3>4. /\ \A x \in disk.valid : QueueIs(blocks'[x].body, Len(blocks'[x].body.vout), queued'[x])
          /\ \A x \in disk.valid \cup {0} : OnceUpTo(x)'
      BY <2>0, <3>2, <3>3, <1>QueueFrame, Zenon
    <3>5. BlockQueue'
      BY <3>1, <3>2, <3>4, Zenon DEF BlockQueue
    <3>6. JobQueue'
      BY <3>1, <1>QueueIdle, Zenon DEF Idle
    <3> QED BY <3>5, <3>6, Zenon DEF QueueInv
  <2> QED BY <2>1, <2>2, <2>3, <2>4, <2>5, Zenon
<1>Step.
  ASSUME TypeInv, TypeInv', TreeInv, QueueInv, [Next]_vars
  PROVE  QueueInv'
  <2> USE <1>Step
  <2>1. CASE UNCHANGED vars
    <3>1. UNCHANGED <<blocks, queued, valid, dirty, tip, disk, job>>
      BY <2>1, Zenon DEF vars, chain
    <3>2. QueuedUpTo(tip)' = QueuedUpTo(tip)
      BY <3>1 DEF QueuedUpTo, Parent, Ids
    <3>3. JobQueue'
      BY <3>1, <3>2, Zenon DEF QueueInv, JobQueue
    <3> QED BY <3>1, <3>3, <1>QueueQuiet, Zenon
  <2>2. CASE \/ \E c \in Gossip : ReceiveClaim(c) \/ QueueClaim(c)
             \/ \E cs \in ClaimSets : StartClaimSet(cs)
             \/ ApplyClaim
             \/ \E b \in Ids : StartConnect(b)
             \/ \E body \in Bodies : StartTest(body)
             \/ Restart \/ LoadDone \/ \E s \in Script : LoadClaim(s)
    BY <2>2, <1>QueueStart, Zenon
  <2>3. CASE Reject \/ CheckClaims \/ CheckVClaim \/ CheckVOut \/ VOutDone
    BY <2>3, <1>QueueCheck, Zenon
  <2>4. CASE FinishChecks
    BY <2>4, <1>QueueFinishChecks, Zenon
  <2>5. CASE ConnectTip
    BY <2>5, <1>QueueConnectTip, Zenon
  <2>6. CASE \/ \E p \in 0 .. Len(blocks), body \in Bodies : AcceptBlock(p, body)
             \/ \E s \in Script : RecordClaim(s)
             \/ DisconnectTip \/ (\E full \in BOOLEAN : Flush(full)) \/ Crash
    BY <2>6, <1>QueueChain, Zenon
  <2> QED BY <2>1, <2>2, <2>3, <2>4, <2>5, <2>6, Zenon DEF Next, Running, Persistence
<1> QED BY <1>Step

LEMMA TreeInvariant == Spec => [](TypeInv /\ RegInv /\ TreeInv /\ QueueInv)
<1>1. Init => TreeInv /\ QueueInv
  BY TreeInit, QueueInit, Zenon
<1>2. (TypeInv /\ RegInv) /\ (TypeInv /\ RegInv)' /\ (TreeInv /\ QueueInv) /\ [Next]_vars => (TreeInv /\ QueueInv)'
  BY TreeNext, QueueNext, Zenon
<1> QED BY <1>1, <1>2, RegInvariant, PTL DEF Spec

\* No snapshot position is queued by two blocks of the active chain, although the
\* check in CheckClaims and the write in ConnectBlock look at different states of
\* the index, blocks are connected again after a reorganisation, and what a block
\* queued may be lost in a crash.
THEOREM PositionsQueuedOnce == Spec => []QueuedOnce
<1>1. TypeInv /\ RegInv /\ TreeInv /\ QueueInv => QueuedOnce
  BY Zenon DEF TreeInv, QueueInv, BlockQueue, OnceUpTo, QueuedOnce
<1> QED BY <1>1, TreeInvariant, PTL

-----------------------------------------------------------------------------
(* Totals. *)

\* The step leaves what the branch of block b has paid alone.
SameTotals(b) ==
  \A s : /\ GetTotalReceived(s, b)' = GetTotalReceived(s, b)
         /\ GetTotalOutputs(s, b)' = GetTotalOutputs(s, b)

-----------------------------------------------------------------------------
\* The limits are amounts, and no claim is eligible for more than the greatest
\* reward.
LEMMA Limits ==
  /\ MAX_POSSIBLE_OUTPUTS \in Nat
  /\ \A s \in Script : GetEligible(s) \in Nat /\ GetEligible(s) <= MAX_CLAIM_REWARD
<1>1. \A a \in Nat, b \in Nat \ {0} : CeilDiv(a, b) \in Nat
  <2> SUFFICES ASSUME NEW a \in Nat, NEW b \in Nat \ {0} PROVE (a + b - 1) \div b \in Nat
    BY Zenon DEF CeilDiv
  <2> QED OBVIOUS
<1>2. CeilDiv(MAX_CLAIM_REWARD, GenesisOutputsAmount) \in Nat
  BY <1>1, ClaimAssumption, Zenon
<1>3. MAX_POSSIBLE_OUTPUTS \in Nat
  BY <1>2, ClaimAssumption DEF MAX_POSSIBLE_OUTPUTS, Least
<1>4. \A b \in Nat : CalculateEligible(b) \in Nat /\ CalculateEligible(b) <= MAX_CLAIM_REWARD
  BY ClaimAssumption DEF CalculateEligible, Least
<1>5. \A b \in Nat : CalculateEligibleBTC(b) \in Nat /\ CalculateEligibleBTC(b) <= MAX_CLAIM_REWARD
  BY ClaimAssumption DEF CalculateEligibleBTC
<1>6. \A s \in Script : Balance[s] \in Nat /\ GetBitcoinBalance(s) \in Nat
  BY ClaimAssumption, Zenon DEF GetBitcoinBalance
<1> QED BY <1>3, <1>4, <1>5, <1>6, Zenon DEF GetEligible

\* The payment invariant holds in the beginning.
LEMMA PayInit ==
  ASSUME Init
  PROVE  PaymentInv
<1>1. /\ blocks = <<>> /\ nClaims = EmptyMap /\ valid = {} /\ dirty = {} /\ tip = 0 /\ job = Idle
      /\ disk.blocks = <<>> /\ disk.valid = {} /\ disk.tip = 0
  BY Zenon DEF Init
<1>2. Ids = {} /\ 1 .. Len(disk.blocks) = {}
  BY <1>1 DEF Ids
<1>3. DOMAIN job.paid = {} /\ job.phase = "idle"
  BY <1>1, EmptyIsMap, Zenon DEF Idle
<1>4. JobInv
  BY <1>3, Zenon DEF JobInv, Passed
<1>5. BlockInv
  BY <1>1, <1>2, Zenon DEF BlockInv
<1>6. DiskInv
  BY <1>1, <1>2, ZenonT(60) DEF DiskInv
<1>7. TotalInv
  <2>1. \A s : GetTotalReceived(s, 0) = 0 /\ GetTotalOutputs(s, 0) = 0
    BY SumZero, Zenon DEF GetTotalReceived, GetTotalOutputs
  <2> QED BY <1>1, <2>1, Limits DEF TotalInv
<1> QED BY <1>4, <1>5, <1>6, <1>7, Zenon DEF PaymentInv

\* Every step keeps the payments within bounds.
LEMMA PayNext ==
  written' /\ TypeInv /\ TypeInv' /\ RegInv /\ TreeInv /\ QueueInv /\ PaymentInv /\ KeepsClaims
    /\ [Next]_vars => PaymentInv'
\* The outputs that pay a claim are counted along a tree as well.
<1>OutputWalks.
  ASSUME TypeInv, NEW s
  PROVE  Amounts(OutputsBy(s), Len(blocks))
  BY <1>OutputWalks, Zenon DEF Amounts, OutputsBy, Ids
<1>OutputsNat.
  ASSUME TypeInv, NEW s, NEW b \in 0 .. Len(blocks)
  PROVE  GetTotalOutputs(s, b) \in Nat
  BY <1>OutputsNat, <1>OutputWalks, TreeWalks, SumNat, Zenon DEF GetTotalOutputs, TypeInv, TypeOK
\* A step that leaves a set of blocks alone, closed under parents, leaves the
\* totals of every branch inside that set alone.
<1>TotalsAgree.
  ASSUME TypeInv, TypeInv', NEW V, V \subseteq Ids, V \subseteq Ids',
         \A b \in V : blocks[b].prev \in V \cup {0} /\ blocks'[b] = blocks[b] /\ nClaims'[b] = nClaims[b]
  PROVE  \A b \in V \cup {0} : SameTotals(b)
  <2> USE <1>TotalsAgree
  <2> SUFFICES ASSUME NEW b \in V \cup {0}, NEW s
               PROVE  /\ GetTotalReceived(s, b)' = GetTotalReceived(s, b)
                      /\ GetTotalOutputs(s, b)' = GetTotalOutputs(s, b)
    BY Zenon DEF SameTotals
  <2> DEFINE m == Len(blocks)
             n == Len(blocks')
             prev1 == Parent
             prev2 == Parent'
             paid1 == PaidBy(s)
             paid2 == PaidBy(s)'
             outs1 == OutputsBy(s)
             outs2 == OutputsBy(s)'
  <2>1. m \in Nat /\ IsTree(prev1, m) /\ Amounts(paid1, m) /\ Amounts(outs1, m)
    BY TreeWalks, <1>OutputWalks, Zenon DEF TypeInv, TypeOK
  <2>2. n \in Nat /\ IsTree(prev2, n) /\ Amounts(paid2, n) /\ Amounts(outs2, n)
    <3>1. TreeOK(blocks', nClaims', queued', valid', failed', tip')
      BY Zenon DEF TypeInv, TypeOK
    <3>2. n \in Nat /\ IsTree(prev2, n) /\ Amounts(paid2, n)
      BY <3>1, TreeSums, Zenon DEF Parent, PaidBy, Ids
    <3>3. Amounts(outs2, n)
      BY Zenon DEF Amounts, OutputsBy, Ids
    <3> QED BY <3>2, <3>3, Zenon
  <2>3. AgreeOn(V, prev1, paid1, prev2, paid2) /\ AgreeOn(V, prev1, outs1, prev2, outs2)
    <3>1. AgreeOn(V, prev1, paid1, prev2, paid2)
      BY <2>1, <2>2, SMTT(30) DEF AgreeOn, Parent, PaidBy, Ids
    <3>2. AgreeOn(V, prev1, outs1, prev2, outs2)
      BY <2>1, <2>2 DEF AgreeOn, Parent, OutputsBy, Ids
    <3> QED BY <3>1, <3>2, ZenonT(60)
  <2>4. V \subseteq 1 .. m /\ V \subseteq 1 .. n
    BY Zenon DEF Ids
  <2>5. GetTotalReceived(s, b)' = SumUpTo(prev2, paid2, b) /\ GetTotalReceived(s, b) = SumUpTo(prev1, paid1, b)
    BY Zenon DEF GetTotalReceived
  <2>6. GetTotalOutputs(s, b)' = SumUpTo(prev2, outs2, b) /\ GetTotalOutputs(s, b) = SumUpTo(prev1, outs1, b)
    BY Zenon DEF GetTotalOutputs
  <2> HIDE DEF m, n, prev1, prev2, paid1, paid2, outs1, outs2
  <2>7. SameWalk(V, m, prev1, paid1, n, prev2, paid2) /\ SameWalk(V, m, prev1, outs1, n, prev2, outs2)
    BY <2>1, <2>2, <2>3, <2>4, ZenonT(60) DEF SameWalk
  <2>8. SumUpTo(prev1, paid1, b) = SumUpTo(prev2, paid2, b)
    BY <2>7, SameSums, SMTT(30)
  <2>9. SumUpTo(prev1, outs1, b) = SumUpTo(prev2, outs2, b)
    BY <2>7, SameSums
  <2> QED BY <2>5, <2>6, <2>8, <2>9, Zenon
\* Hence the totals of valid blocks stay within bounds as long as the valid
\* blocks are left alone.
<1>TotalFrame.
  ASSUME TypeInv, TypeInv', TreeInv, TotalInv, valid' \subseteq valid, valid \subseteq Ids',
         \A b \in valid : blocks'[b] = blocks[b] /\ nClaims'[b] = nClaims[b]
  PROVE  TotalInv' /\ \A b \in valid \cup {0} : SameTotals(b)
  <2> USE <1>TotalFrame
  <2>1. valid \subseteq Ids
    BY ChainParts, Zenon
  <2>2. \A b \in valid \cup {0} : SameTotals(b)
    BY <2>1, <1>TotalsAgree, Zenon DEF TreeInv
  <2> QED BY <2>2, Zenon DEF TotalInv, SameTotals
\* A block pays on top of what its parent's branch paid.
<1>TotalStep.
  ASSUME TypeInv, NEW b \in Ids, NEW s
  PROVE  /\ GetTotalReceived(s, b) =
              GetTotalReceived(s, blocks[b].prev) + (IF s \in DOMAIN nClaims[b] THEN nClaims[b][s] ELSE 0)
         /\ GetTotalOutputs(s, b) =
              GetTotalOutputs(s, blocks[b].prev) + (IF s \in DOMAIN nClaims[b] THEN 1 ELSE 0)
  <2> USE <1>TotalStep
  <2>1. /\ Len(blocks) \in Nat /\ IsTree(Parent, Len(blocks))
        /\ Amounts(PaidBy(s), Len(blocks)) /\ Amounts(OutputsBy(s), Len(blocks))
    BY TreeWalks, <1>OutputWalks, Zenon DEF TypeInv, TypeOK
  <2>2. b \in 1 .. Len(blocks)
    BY Zenon DEF Ids
  <2>3. SumUpTo(Parent, PaidBy(s), b) = SumUpTo(Parent, PaidBy(s), Parent[b]) + PaidBy(s)[b]
    BY <2>1, <2>2, SumStep
  <2>4. SumUpTo(Parent, OutputsBy(s), b) = SumUpTo(Parent, OutputsBy(s), Parent[b]) + OutputsBy(s)[b]
    BY <2>1, <2>2, SumStep
  <2>5. Parent[b] = blocks[b].prev /\ PaidBy(s)[b] = IF s \in DOMAIN nClaims[b] THEN nClaims[b][s] ELSE 0
    BY Zenon DEF Parent, PaidBy
  <2>6. OutputsBy(s)[b] = IF s \in DOMAIN nClaims[b] THEN 1 ELSE 0
    BY ZenonT(60) DEF OutputsBy
  <2> QED BY <2>3, <2>4, <2>5, <2>6, Zenon DEF GetTotalReceived, GetTotalOutputs
\* Recorded blocks stay recorded while the claims of the index are kept.
<1>RecordedFrame.
  ASSUME NEW b, Recorded(b), KeepsClaims, blocks'[b] = blocks[b], nClaims'[b] = nClaims[b]
  PROVE  Recorded(b)'
  BY <1>RecordedFrame DEF Recorded, KeepsClaims
\* A job that has paid nothing yet and is not past the first output.
<1>JobFresh.
  ASSUME job'.paid = EmptyMap, job'.body \in Body,
         \/ job'.phase \in {"idle", "claimset", "start", "vclaim"}
         \/ job'.phase = "vout" /\ job'.k = 1 /\ job'.body.vClaim # <<>>
         \/ job'.phase = "finish" /\ job'.body.vClaim = <<>>
  PROVE  JobInv'
  <2> USE <1>JobFresh
  <2>1. DOMAIN job'.paid = {} /\ job'.phase # "record"
    BY EmptyIsMap, Zenon
  <2>2. \A j \in DOMAIN job'.body.vout : ~Passed(j)'
    <3>1. DOMAIN job'.body.vout = 1 .. Len(job'.body.vout) /\ Len(job'.body.vout) \in Nat
      BY BodyParts, SeqElements, Zenon
    <3> QED BY <3>1 DEF Passed
  <2> QED BY <2>1, <2>2, Zenon DEF JobInv
\* Without an operation in progress JobInv says nothing.
<1>JobIdle.
  ASSUME job' = Idle
  PROVE  JobInv'
  <2> USE <1>JobIdle
  <2>1. job'.paid = EmptyMap /\ job'.phase = "idle" /\ job'.body = OnlyClaims(<<>>)
    BY Zenon DEF Idle
  <2> QED BY <2>1, IdleOK, <1>JobFresh, Zenon
\* A step that leaves the block index and the tip alone, while no block is
\* being recorded, has only its job to answer for.
<1>PayQuiet.
  ASSUME TypeInv, TypeInv', TreeInv, QueueInv, PaymentInv, KeepsClaims, JobInv', job.phase # "record",
         UNCHANGED <<blocks, nClaims, valid, tip, disk>>
  PROVE  PaymentInv'
  <2> USE <1>PayQuiet
  <2>1. valid \subseteq Ids /\ Ids' = Ids
    BY Zenon DEF TypeInv, TypeOK, TreeOK, Ids
  <2>2. BlockInv'
    <3>1. \A b \in valid : Recorded(b)'
      BY <1>RecordedFrame, Zenon DEF PaymentInv, BlockInv
    <3>2. \A b \in Ids \ valid : DOMAIN nClaims[b] = {}
      BY Zenon DEF PaymentInv, BlockInv
    <3> QED BY <2>1, <3>1, <3>2, Zenon DEF PaymentInv, BlockInv
  <2>3. DiskInv'
    BY Zenon DEF PaymentInv, DiskInv
  <2>4. TotalInv'
    BY <2>1, <1>TotalFrame, Zenon DEF PaymentInv
  <2> QED BY <2>2, <2>3, <2>4, Zenon DEF PaymentInv
\* CLAIM messages and queueclaim calls.
<1>PayReceive.
  ASSUME TypeInv, TypeInv', TreeInv, QueueInv, PaymentInv, KeepsClaims, NEW c \in Gossip, ReceiveClaim(c) \/ QueueClaim(c)
  PROVE  PaymentInv'
  <2> USE <1>PayReceive
  <2>1. job.phase = "idle" /\ UNCHANGED <<mode, chain, disk, job, pending>>
    BY Zenon DEF ReceiveClaim, QueueClaim, Free
  <2>2. job.paid = EmptyMap /\ job.body \in Body
    BY <2>1, JobParts, Zenon DEF ShapeInv
  <2>3. JobInv'
    BY <2>1, <2>2, <1>JobFresh, Zenon
  <2> QED BY <2>1, <2>3, <1>PayQuiet, Zenon DEF chain
\* A claim of a claim set.
<1>PayApplyClaim.
  ASSUME TypeInv, TypeInv', TreeInv, QueueInv, PaymentInv, KeepsClaims, ApplyClaim
  PROVE  PaymentInv'
  <2> USE <1>PayApplyClaim
  <2>1. job.phase = "claimset" /\ UNCHANGED <<mode, chain, disk, pending>>
    BY Zenon DEF ApplyClaim
  <2>2. job' = Idle \/ job' = [job EXCEPT !.k = @ + 1]
    BY Zenon DEF ApplyClaim, Advance
  <2>3. JobOK /\ job.paid = EmptyMap /\ job.body \in Body
    BY <2>1, JobParts, Zenon DEF ShapeInv
  <2>4. CASE job' = [job EXCEPT !.k = @ + 1]
    <3>1. job'.phase = "claimset" /\ job'.paid = EmptyMap /\ job'.body \in Body
      BY <2>1, <2>3, <2>4, Zenon DEF JobOK
    <3>2. JobInv'
      BY <3>1, <1>JobFresh, Zenon
    <3> QED BY <2>1, <3>2, <1>PayQuiet, Zenon DEF chain
  <2>5. CASE job' = Idle
    <3>1. JobInv'
      BY <2>5, <1>JobIdle, Zenon
    <3> QED BY <2>1, <3>1, <1>PayQuiet, Zenon DEF chain
  <2> QED BY <2>2, <2>4, <2>5, Zenon
\* Operations that begin.
<1>PayStart.
  ASSUME TypeInv, TypeInv', TreeInv, QueueInv, PaymentInv, KeepsClaims,
         \/ \E cs \in ClaimSets : StartClaimSet(cs)
         \/ \E b \in Ids : StartConnect(b)
         \/ \E body \in Bodies : StartTest(body)
  PROVE  PaymentInv'
  <2> USE <1>PayStart
  <2>1. job.phase = "idle" /\ UNCHANGED <<chain, disk>>
    BY Zenon DEF StartClaimSet, StartConnect, StartTest, Free
  <2>2. job'.paid = EmptyMap /\ job'.phase \in {"claimset", "start"}
    BY Zenon DEF StartClaimSet, StartConnect, StartTest, Idle
  <2>3. job'.body \in Body
    BY Zenon DEF TypeInv, TypeOK, JobOK
  <2>4. JobInv'
    BY <2>2, <2>3, <1>JobFresh, Zenon
  <2> QED BY <2>1, <2>4, <1>PayQuiet, Zenon DEF chain
\* A block that fails.
<1>PayFail.
  ASSUME TypeInv, TypeInv', TreeInv, QueueInv, PaymentInv, KeepsClaims, Fail, job.phase # "record",
         UNCHANGED <<blocks, nClaims, valid, tip, disk>>
  PROVE  PaymentInv'
  <2> USE <1>PayFail
  <2>1. job' = Idle
    BY Zenon DEF Fail
  <2> QED BY <2>1, <1>JobIdle, <1>PayQuiet, Zenon
\* The steps before the output loop.
<1>PayCheckClaims.
  ASSUME TypeInv, TypeInv', TreeInv, QueueInv, PaymentInv, KeepsClaims, Reject \/ CheckClaims \/ CheckVClaim
  PROVE  PaymentInv'
  <2> USE <1>PayCheckClaims
  <2>1. /\ job.phase \in {"start", "vclaim", "finish"}
        /\ UNCHANGED <<blocks, nClaims, valid, tip, disk>>
    BY Zenon DEF Reject, CheckClaims, CheckVClaim
  <2>2. CASE Fail
    BY <2>1, <2>2, <1>PayFail, Zenon
  <2>3. CASE CheckClaims /\ ~Fail
    <3>1. /\ job.phase = "start" /\ UNCHANGED dirty
          /\ \/ job.body.vClaim = <<>> /\ job' = [job EXCEPT !.phase = "finish"]
             \/ job' = [job EXCEPT !.phase = "vclaim"]
      BY <2>3, Zenon DEF CheckClaims
    <3>2. JobOK /\ job.paid = EmptyMap /\ job.body \in Body /\ JobInv
      BY <3>1, JobParts, Zenon DEF ShapeInv, PaymentInv
    <3>3. /\ job'.paid = EmptyMap /\ job'.body = job.body
          /\ job'.phase = "vclaim" \/ (job'.phase = "finish" /\ job.body.vClaim = <<>>)
      BY <3>1, <3>2, Zenon DEF JobOK
    <3>4. JobInv'
      BY <3>2, <3>3, <1>JobFresh, Zenon
    <3> QED BY <2>1, <3>1, <3>4, <1>PayQuiet, Zenon
  <2>4. CASE CheckVClaim /\ ~Fail
    <3>1. /\ job.phase = "vclaim" /\ UNCHANGED dirty
          /\ \/ job' = [job EXCEPT !.k = @ + 1]
             \/ job' = [job EXCEPT !.phase = "vout", !.k = 1]
      BY <2>4, Zenon DEF CheckVClaim
    <3>2. JobOK /\ job.paid = EmptyMap /\ job.body \in Body /\ JobInv
      BY <3>1, JobParts, Zenon DEF ShapeInv, PaymentInv
    <3>3. job.body.vClaim # <<>>
      <4>1. job.k \in Nat /\ job.k >= 1 /\ job.k <= Len(job.body.vClaim)
        BY <3>1, JobParts, Zenon DEF ShapeInv
      <4> QED BY <4>1
    <3>4. /\ job'.paid = EmptyMap /\ job'.body = job.body
          /\ job'.phase = "vclaim" \/ (job'.phase = "vout" /\ job'.k = 1)
      BY <3>1, <3>2, Zenon DEF JobOK
    <3>5. JobInv'
      BY <3>2, <3>3, <3>4, <1>JobFresh, Zenon
    <3> QED BY <2>1, <3>1, <3>5, <1>PayQuiet, Zenon
  <2> QED BY <2>2, <2>3, <2>4, Zenon DEF Reject
\* The output loop: every output it lets pass is a payment within bounds to a
\* registered claim, or goes to no script that could be a claim's target.
<1>PayCheckVOut.
  ASSUME TypeInv, TypeInv', RegInv, TreeInv, QueueInv, PaymentInv, KeepsClaims, CheckVOut
  PROVE  PaymentInv'
  <2> USE <1>PayCheckVOut
  <2> DEFINE out == job.body.vout[job.k]
  <2>1. /\ job.phase = "vout" /\ job.k <= Len(job.body.vout)
        /\ UNCHANGED <<blocks, nClaims, valid, tip, disk, claims>>
    BY Zenon DEF CheckVOut
  <2>2. JobOK /\ job.body \in Body /\ job.k \in Nat /\ job.k >= 1 /\ JobInv /\ IsMap(job.paid, Script, Nat)
    BY JobParts, Zenon DEF PaymentInv, JobOK
  <2>3. job.k \in DOMAIN job.body.vout /\ out \in TxOut /\ DOMAIN job.body.vout = 1 .. Len(job.body.vout)
    <3>1. job.body.vout \in Seq(TxOut)
      BY <2>2, BodyParts, Zenon
    <3>2. Len(job.body.vout) \in Nat /\ DOMAIN job.body.vout = 1 .. Len(job.body.vout)
      BY <3>1, SeqElements, Zenon
    <3>3. job.k \in 1 .. Len(job.body.vout)
      BY <2>1, <2>2, <3>2
    <3> QED BY <3>1, <3>2, <3>3, SeqElements, Zenon
  <2>4. CASE Fail
    BY <2>1, <2>4, <1>PayFail, Zenon
  <2>5. ASSUME ~Fail
        PROVE  \/ \E s \in DOMAIN claims :
                     /\ claims[s].target = out.to /\ CheckClaimEligibility(s, out.value)
                     /\ job' = [[job EXCEPT !.k = @ + 1] EXCEPT !.paid = Put(job.paid, s, out.value)]
               \/ /\ out.to \in {Genesis, OpReturn}
                  /\ \/ job' = [job EXCEPT !.k = @ + 1]
                     \/ job' = [[job EXCEPT !.k = @ + 1] EXCEPT !.queue = out.queue]
    BY <2>5, Zenon DEF CheckVOut
  <2>6. job.body.vClaim # <<>>
    BY <2>1, Zenon DEF QueueInv, JobQueue
  <2>7. \A j \in DOMAIN job.body.vout : Passed(j) <=> j < job.k
    BY <2>1, <2>6, ZenonT(60) DEF Passed
  <2>8. /\ \A j \in DOMAIN job.body.vout : j <= job.k => Passed(j) \/ j = job.k
        /\ \A j \in DOMAIN job.body.vout : Passed(j) => j <= job.k
        /\ job.k <= job.k
    BY <2>2, <2>3, <2>7
  <2>9. SameTotals(tip)
    BY <2>1, Zenon DEF SameTotals, GetTotalReceived, GetTotalOutputs, Parent, PaidBy, OutputsBy, Ids
  <2>10. ASSUME job'.phase = "vout", job'.k = job.k + 1, job'.body = job.body
         PROVE  \A j \in DOMAIN job.body.vout : Passed(j)' <=> j <= job.k
    BY <2>2, <2>3, <2>6, <2>10 DEF Passed
  <2>11. ASSUME NEW s \in DOMAIN claims, claims[s].target = out.to, CheckClaimEligibility(s, out.value),
                job' = [[job EXCEPT !.k = @ + 1] EXCEPT !.paid = Put(job.paid, s, out.value)]
         PROVE  JobInv'
    <3>1. /\ job'.phase = "vout" /\ job'.k = job.k + 1 /\ job'.body = job.body
          /\ job'.paid = Put(job.paid, s, out.value)
      BY <2>1, <2>2, <2>11, Zenon DEF JobOK
    <3>2. \A j \in DOMAIN job.body.vout : Passed(j)' <=> j <= job.k
      BY <2>10, <3>1, Zenon
    <3>3. /\ s \notin DOMAIN job.paid
          /\ ~Unchecked(s) => /\ GetTotalReceived(s, tip) + out.value <= GetEligible(s)
                              /\ GetTotalOutputs(s, tip) + 1 <= MAX_POSSIBLE_OUTPUTS
      BY <2>11, Zenon DEF CheckClaimEligibility
    <3>4. /\ DOMAIN job'.paid = DOMAIN job.paid \cup {s} /\ job'.paid[s] = out.value
          /\ \A t \in DOMAIN job.paid : job'.paid[t] = job.paid[t]
      BY <3>1, <3>3, Zenon DEF Put
    <3>5. ASSUME NEW t \in DOMAIN job'.paid PROVE PaidRight(t)'
      <4>1. CASE t = s
        <5>1. job'.paid[t] = out.value /\ claims[t].target = out.to
          BY <2>11, <3>4, <4>1, Zenon
        <5>2. \E j \in DOMAIN job'.body.vout :
                 Passed(j)' /\ job'.body.vout[j].to = claims'[t].target /\ job'.body.vout[j].value = job'.paid[t]
          BY <2>1, <2>3, <2>8, <3>1, <3>2, <5>1, Zenon
        <5>3. ~Unchecked(t) => /\ GetTotalReceived(t, tip)' + job'.paid[t] <= GetEligible(t)
                               /\ GetTotalOutputs(t, tip)' + 1 <= MAX_POSSIBLE_OUTPUTS
          BY <2>9, <3>3, <4>1, <5>1, Zenon DEF SameTotals
        <5> QED BY <5>2, <5>3, Zenon DEF PaidRight
      <4>2. CASE t # s
        <5>1. t \in DOMAIN job.paid /\ job'.paid[t] = job.paid[t] /\ PaidRight(t)
          BY <2>2, <3>4, <4>2, Zenon DEF JobInv
        <5>2. \E j \in DOMAIN job'.body.vout :
                 Passed(j)' /\ job'.body.vout[j].to = claims'[t].target /\ job'.body.vout[j].value = job'.paid[t]
          BY <2>1, <2>8, <3>1, <3>2, <5>1, Zenon DEF PaidRight
        <5>3. ~Unchecked(t) => /\ GetTotalReceived(t, tip)' + job'.paid[t] <= GetEligible(t)
                               /\ GetTotalOutputs(t, tip)' + 1 <= MAX_POSSIBLE_OUTPUTS
          BY <2>9, <5>1, Zenon DEF SameTotals, PaidRight
        <5> QED BY <5>2, <5>3, Zenon DEF PaidRight
      <4> QED BY <4>1, <4>2, Zenon
    <3>6. \A j \in DOMAIN job.body.vout : Passed(j) => job.body.vout[j].to # out.to
      <4> SUFFICES ASSUME NEW j \in DOMAIN job.body.vout, Passed(j), job.body.vout[j].to = out.to PROVE FALSE
        BY Zenon
      <4>1. out.to \in Script
        BY <2>11, JobParts, ClaimParts, ZenonT(60) DEF IsMap
      <4>2. PICK t \in DOMAIN job.paid : claims[t].target = out.to
        BY <2>2, <4>1 DEF JobInv, BookedRight
      <4>3. t \in DOMAIN claims
        BY JobParts, Zenon DEF ShapeInv
      <4>4. t = s
        BY <2>11, <4>2, <4>3, Zenon DEF RegInv, OneClaimPerTarget, OneToOne
      <4> QED BY <3>3, <4>2, <4>4, Zenon
    <3>7. ASSUME NEW j \in DOMAIN job.body.vout, j <= job.k PROVE BookedRight(j)'
      <4>1. CASE j = job.k
        <5>1. \E t \in DOMAIN job'.paid :
                 claims'[t].target = job'.body.vout[j].to /\ job'.paid[t] = job'.body.vout[j].value
          BY <2>1, <2>11, <3>1, <3>4, <4>1, Zenon
        <5>2. \A i \in DOMAIN job'.body.vout : Passed(i)' /\ job'.body.vout[i].to = job'.body.vout[j].to => i = j
          BY <2>8, <3>1, <3>2, <3>6, <4>1, Zenon
        <5> QED BY <5>1, <5>2, Zenon DEF BookedRight
      <4>2. CASE j # job.k
        <5>1. Passed(j) /\ BookedRight(j)
          BY <2>2, <2>8, <3>7, <4>2, Zenon DEF JobInv
        <5>2. job.body.vout[j].to \in Script =>
                 \E t \in DOMAIN job'.paid :
                    claims'[t].target = job'.body.vout[j].to /\ job'.paid[t] = job'.body.vout[j].value
          BY <2>1, <3>1, <3>4, <5>1, Zenon DEF BookedRight
        <5>3. job.body.vout[j].to \in Script =>
                 \A i \in DOMAIN job.body.vout : Passed(i)' /\ job.body.vout[i].to = job.body.vout[j].to => i = j
          BY <2>8, <3>2, <3>6, <5>1, Zenon DEF BookedRight
        <5> QED BY <3>1, <5>2, <5>3, Zenon DEF BookedRight
      <4> QED BY <4>1, <4>2, Zenon
    <3> QED BY <3>1, <3>2, <3>5, <3>7, Zenon DEF JobInv
  <2>12. ASSUME out.to \in {Genesis, OpReturn},
                \/ job' = [job EXCEPT !.k = @ + 1]
                \/ job' = [[job EXCEPT !.k = @ + 1] EXCEPT !.queue = out.queue]
         PROVE  JobInv'
    <3>1. /\ job'.phase = "vout" /\ job'.k = job.k + 1 /\ job'.body = job.body /\ job'.paid = job.paid
      BY <2>1, <2>2, <2>12, Zenon DEF JobOK
    <3>2. \A j \in DOMAIN job.body.vout : Passed(j)' <=> j <= job.k
      BY <2>10, <3>1, Zenon
    <3>3. out.to \notin Script
      BY <2>12, NodeAssumption, Zenon
    <3>4. ASSUME NEW t \in DOMAIN job.paid PROVE PaidRight(t)'
      <4>1. PaidRight(t)
        BY <2>2, Zenon DEF JobInv
      <4>2. \E j \in DOMAIN job'.body.vout :
               Passed(j)' /\ job'.body.vout[j].to = claims'[t].target /\ job'.body.vout[j].value = job'.paid[t]
        BY <2>1, <2>8, <3>1, <3>2, <4>1, Zenon DEF PaidRight
      <4>3. ~Unchecked(t) => /\ GetTotalReceived(t, tip)' + job'.paid[t] <= GetEligible(t)
                             /\ GetTotalOutputs(t, tip)' + 1 <= MAX_POSSIBLE_OUTPUTS
        BY <2>9, <3>1, <4>1, Zenon DEF SameTotals, PaidRight
      <4> QED BY <4>2, <4>3, Zenon DEF PaidRight
    <3>5. ASSUME NEW j \in DOMAIN job.body.vout, j <= job.k, job.body.vout[j].to \in Script PROVE BookedRight(j)'
      <4>1. Passed(j) /\ BookedRight(j)
        BY <2>2, <2>8, <3>3, <3>5, Zenon DEF JobInv
      <4>2. \A i \in DOMAIN job.body.vout : Passed(i)' /\ job.body.vout[i].to = job.body.vout[j].to => i = j
        BY <2>8, <3>2, <3>3, <3>5, <4>1, Zenon DEF BookedRight
      <4> QED BY <2>1, <3>1, <3>5, <4>1, <4>2, Zenon DEF BookedRight
    <3>6. \A j \in DOMAIN job'.body.vout : Passed(j)' => BookedRight(j)'
      BY <3>1, <3>2, <3>5, Zenon DEF BookedRight
    <3> QED BY <3>1, <3>4, <3>6, Zenon DEF JobInv
  <2>13. ASSUME ~Fail PROVE JobInv'
    BY <2>5, <2>11, <2>12, <2>13, Zenon
  <2> QED BY <2>1, <2>4, <2>13, <1>PayQuiet, Zenon
\* A job that only moves to a later phase, past the same outputs.
<1>JobMove.
  ASSUME TypeInv, JobInv, UNCHANGED <<blocks, nClaims, tip, claims, index>>,
         job.phase \in {"vout", "finish"}, job'.phase \in {"finish", "record"},
         job'.body = job.body, job'.paid = job.paid,
         job'.phase = "record" => job'.todo = DOMAIN job.paid,
         \A j \in DOMAIN job.body.vout : Passed(j) <=> Passed(j)'
  PROVE  JobInv'
  <2> USE <1>JobMove
  <2>1. SameTotals(tip)
    BY Zenon DEF SameTotals, GetTotalReceived, GetTotalOutputs, Parent, PaidBy, OutputsBy, Ids
  <2>2. \A s : PaidRight(s) => PaidRight(s)'
    BY <2>1, Zenon DEF PaidRight, SameTotals
  <2>3. \A j \in DOMAIN job.body.vout : BookedRight(j) => BookedRight(j)'
    BY Zenon DEF BookedRight
  <2> QED BY <2>2, <2>3, Zenon DEF JobInv
\* The end of the output loop.
<1>PayVOutDone.
  ASSUME TypeInv, TypeInv', TreeInv, QueueInv, PaymentInv, KeepsClaims, VOutDone
  PROVE  PaymentInv'
  <2> USE <1>PayVOutDone
  <2>1. /\ job.phase = "vout" /\ job.k > Len(job.body.vout) /\ job' = [job EXCEPT !.phase = "finish"]
        /\ UNCHANGED <<claims, index, chain, disk>>
    BY Zenon DEF VOutDone
  <2>2. JobOK /\ job.body \in Body /\ job.k \in Nat /\ JobInv
    BY JobParts, Zenon DEF PaymentInv
  <2>3. /\ job'.phase = "finish" /\ job'.body = job.body /\ job'.block = job.block
        /\ job'.just = job.just /\ job'.paid = job.paid
    BY <2>1, <2>2, Zenon DEF JobOK
  <2>4. \A j \in DOMAIN job.body.vout : j < job.k
    <3>1. DOMAIN job.body.vout = 1 .. Len(job.body.vout) /\ Len(job.body.vout) \in Nat
      BY <2>2, BodyParts, SeqElements, Zenon
    <3> QED BY <2>1, <2>2, <3>1
  <2>5. \A j \in DOMAIN job.body.vout : Passed(j) <=> Passed(j)'
    BY <2>1, <2>3, <2>4, Zenon DEF Passed
  <2>6. JobInv'
    BY <2>1, <2>2, <2>3, <2>5, <1>JobMove, Zenon DEF chain
  <2> QED BY <2>1, <2>6, <1>PayQuiet, Zenon DEF chain
\* The checks on queued positions and the first write to the block index.
<1>PayFinishChecks.
  ASSUME TypeInv, TypeInv', TreeInv, QueueInv, PaymentInv, KeepsClaims, FinishChecks
  PROVE  PaymentInv'
  <2> USE <1>PayFinishChecks
  <2>1. job.phase = "finish" /\ UNCHANGED <<claims, index, blocks, nClaims, valid, tip, disk>>
    BY Zenon DEF FinishChecks
  <2>2. JobOK /\ JobInv
    BY JobParts, Zenon DEF PaymentInv
  <2>3. CASE Fail
    BY <2>1, <2>3, <1>PayFail, Zenon
  <2>4. CASE job' = Idle /\ UNCHANGED dirty
    BY <2>1, <2>4, <1>JobIdle, <1>PayQuiet, Zenon
  <2>5. CASE job' = [job EXCEPT !.phase = "record", !.todo = DOMAIN job.paid] /\ UNCHANGED dirty
    <3>1. /\ job'.phase = "record" /\ job'.body = job.body /\ job'.block = job.block
          /\ job'.just = job.just /\ job'.paid = job.paid /\ job'.todo = DOMAIN job.paid
      BY <2>2, <2>5, Zenon DEF JobOK
    <3>2. \A j \in DOMAIN job.body.vout : Passed(j) <=> Passed(j)'
      BY <2>1, <3>1, Zenon DEF Passed
    <3>3. JobInv'
      BY <2>1, <2>2, <3>1, <3>2, <1>JobMove, Zenon
    <3> QED BY <2>1, <2>5, <3>3, <1>PayQuiet, Zenon
  <2> QED BY <2>3, <2>4, <2>5, Zenon DEF FinishChecks
\* In a block that is valid already, the payment of claim s is recorded: the
\* output it came from was recorded for a claim with the same target, and the
\* registry holds one claim per target.
<1>RecordAgain.
  ASSUME TypeInv, RegInv, TreeInv, PaymentInv, job.phase = "record", job.block \in valid,
         NEW s \in DOMAIN job.paid
  PROVE  s \in DOMAIN nClaims[job.block] /\ nClaims[job.block][s] = job.paid[s]
  <2> USE <1>RecordAgain
  <2> DEFINE b == job.block
  <2>1. mode = "up" /\ ~job.just /\ JobInv /\ Recorded(b) /\ DOMAIN job.paid \subseteq DOMAIN claims
    BY JobParts, Zenon DEF ShapeInv, PaymentInv, BlockInv
  <2>2. IsMap(claims, Script, Entry)
    BY JobParts, Zenon
  <2>3. blocks[b].body = job.body
    BY <2>1, Zenon DEF TreeInv, Connecting
  <2>4. PICK j \in DOMAIN job.body.vout :
           Passed(j) /\ job.body.vout[j].to = claims[s].target /\ job.body.vout[j].value = job.paid[s]
    BY <2>1, Zenon DEF JobInv, PaidRight
  <2>5. job.body.vClaim # <<>>
    BY <2>4, Zenon DEF Passed
  <2>6. claims[s].target \in Script
    BY <2>1, <2>2, ClaimParts, ZenonT(60) DEF IsMap
  <2>7. PICK t \in DOMAIN nClaims[b] :
           index[t].target = job.body.vout[j].to /\ nClaims[b][t] = job.body.vout[j].value
    BY <2>1, <2>3, <2>4, <2>5, <2>6 DEF Recorded
  <2>8. t \in DOMAIN claims /\ index[t].target = claims[t].target
    BY <2>1, <2>7, Zenon DEF Recorded, RegInv, LoadInv, Reflects
  <2>9. t = s
    BY <2>1, <2>4, <2>7, <2>8, Zenon DEF RegInv, OneClaimPerTarget, OneToOne
  <2> QED BY <2>4, <2>7, <2>9, Zenon
\* One paid claim is recorded; no valid block changes by it.
<1>PayRecordClaim.
  ASSUME written', TypeInv, TypeInv', RegInv, TreeInv, QueueInv, PaymentInv, KeepsClaims, NEW s \in Script, RecordClaim(s)
  PROVE  PaymentInv'
  <2> USE <1>PayRecordClaim
  <2> DEFINE b == job.block
             v == job.paid[s]
  <2>1. /\ job.phase = "record" /\ s \in job.todo
        /\ nClaims' = [nClaims EXCEPT ![b] = Put(nClaims[b], s, v)]
        /\ DOMAIN claims' = DOMAIN claims
        /\ s \in DOMAIN index'
        /\ job' = [job EXCEPT !.todo = @ \ {s}]
        /\ UNCHANGED <<blocks, valid, dirty, tip, disk>>
    BY Zenon DEF RecordClaim, AddClaim, Put
  <2>2. /\ JobOK /\ JobInv /\ BlockInv /\ TotalInv /\ DiskInv
        /\ s \in DOMAIN job.paid /\ DOMAIN job.paid \subseteq DOMAIN claims
    BY <2>1, JobParts, Zenon DEF PaymentInv, JobOK, ShapeInv
  <2>3. /\ job'.phase = "record" /\ job'.body = job.body /\ job'.block = b
        /\ job'.just = job.just /\ job'.paid = job.paid /\ job'.todo = job.todo \ {s}
    BY <2>1, <2>2, ZenonT(60) DEF JobOK
  <2>4. /\ b \in Ids /\ DOMAIN nClaims = Ids /\ valid \subseteq Ids /\ Ids' = Ids
        /\ IsMap(nClaims[b], Script, Nat)
    <3>1. b \in Ids
      BY <2>1, JobParts, Zenon DEF ShapeInv, Connecting
    <3> QED BY <2>1, <3>1, Zenon DEF TypeInv, TypeOK, TreeOK, Ids
  <2>5. /\ nClaims'[b] = Put(nClaims[b], s, v)
        /\ \A x \in Ids : x # b => nClaims'[x] = nClaims[x]
    BY <2>1, <2>4, Zenon
  <2>6. /\ DOMAIN nClaims'[b] = DOMAIN nClaims[b] \cup {s} /\ nClaims'[b][s] = v
        /\ \A t \in DOMAIN nClaims[b] : t # s => nClaims'[b][t] = nClaims[b][t]
    BY <2>5, Zenon DEF Put
  <2>7. \A x \in valid : nClaims'[x] = nClaims[x]
    <3>1. ASSUME b \in valid PROVE nClaims'[b] = nClaims[b]
      <4>1. s \in DOMAIN nClaims[b] /\ nClaims[b][s] = v
        BY <2>1, <2>2, <3>1, <1>RecordAgain, Zenon
      <4> QED BY <2>4, <2>5, <4>1, Zenon DEF IsMap, Put
    <3> QED BY <2>4, <2>5, <3>1, Zenon
  <2>8. TotalInv' /\ SameTotals(tip)
    <3>1. TotalInv' /\ \A x \in valid \cup {0} : SameTotals(x)
      BY <2>1, <2>2, <2>4, <2>7, <1>TotalFrame, Zenon
    <3> QED BY <2>1, <3>1, Zenon DEF TreeInv, SameTotals, GetTotalReceived, GetTotalOutputs
  <2>9. BlockInv'
    <3>1. \A x \in valid : Recorded(x)'
      BY <2>1, <2>2, <2>7, <1>RecordedFrame, ZenonT(60) DEF BlockInv
    <3>2. \A x \in Ids \ valid : \A t \in DOMAIN nClaims'[x] : x = b /\ t \in DOMAIN job.paid \ job'.todo
      BY <2>2, <2>3, <2>5, <2>6 DEF BlockInv
    <3> QED BY <2>1, <2>2, <2>3, <2>4, <3>1, <3>2 DEF BlockInv
  <2>10. DiskInv'
    BY <2>1, <2>2, <2>7, Zenon DEF DiskInv, TreeInv
  <2>11. JobInv'
    <3>1. \A t \in DOMAIN job.paid : claims'[t].target = claims[t].target
      BY <2>1, <2>2, Zenon DEF KeepsClaims
    <3>2. \A j : Passed(j)' <=> Passed(j)
      BY <2>1, <2>3, Zenon DEF Passed
    <3>3. \A t \in DOMAIN job.paid \ job'.todo :
             t \in DOMAIN nClaims'[b] /\ nClaims'[b][t] = job.paid[t] /\ t \in DOMAIN index'
      <4> SUFFICES ASSUME NEW t \in DOMAIN job.paid \ job'.todo
                   PROVE  t \in DOMAIN nClaims'[b] /\ nClaims'[b][t] = job.paid[t] /\ t \in DOMAIN index'
        BY Zenon
      <4>1. CASE t = s
        BY <2>1, <2>6, <4>1, Zenon
      <4>2. CASE t # s
        <5>1. t \in DOMAIN job.paid \ job.todo
          BY <2>3, <4>2, Zenon
        <5>2. t \in DOMAIN nClaims[b] /\ nClaims[b][t] = job.paid[t] /\ t \in DOMAIN index
          BY <2>1, <2>2, <5>1, Zenon DEF JobInv
        <5> QED BY <2>6, <4>2, <5>2, Zenon DEF KeepsClaims
      <4> QED BY <4>1, <4>2, Zenon
    <3>4. \A t \in DOMAIN job.paid : PaidRight(t)'
      <4> SUFFICES ASSUME NEW t \in DOMAIN job.paid PROVE PaidRight(t)'
        BY Zenon
      <4>1. PaidRight(t)
        BY <2>2, Zenon DEF JobInv
      <4> QED BY <2>3, <2>8, <3>1, <3>2, <4>1, Zenon DEF PaidRight, SameTotals
    <3>5. \A j \in DOMAIN job.body.vout : Passed(j) => BookedRight(j)'
      <4> SUFFICES ASSUME NEW j \in DOMAIN job.body.vout, Passed(j) PROVE BookedRight(j)'
        BY Zenon
      <4>1. BookedRight(j)
        BY <2>2, Zenon DEF JobInv
      <4> QED BY <2>3, <3>1, <3>2, <4>1, Zenon DEF BookedRight
    <3> QED BY <2>3, <3>2, <3>3, <3>4, <3>5, Zenon DEF JobInv
  <2> QED BY <2>8, <2>9, <2>10, <2>11, Zenon DEF PaymentInv
\* A recorded block becomes the tip.
<1>PayConnectTip.
  ASSUME TypeInv, TypeInv', RegInv, TreeInv, QueueInv, PaymentInv, KeepsClaims, ConnectTip
  PROVE  PaymentInv'
  <2> USE <1>PayConnectTip
  <2> DEFINE b == job.block
  <2>1. /\ job.phase = "record" /\ job.todo = {} /\ tip' = b /\ valid' = valid \cup {b}
        /\ dirty' = (IF b \in valid THEN dirty ELSE dirty \cup {b}) /\ job' = Idle
        /\ UNCHANGED <<claims, index, blocks, nClaims, disk>>
    BY Zenon DEF ConnectTip
  <2>2. /\ JobInv /\ BlockInv /\ TotalInv /\ DiskInv
        /\ mode = "up" /\ Connecting /\ b \in Ids /\ DOMAIN job.paid \subseteq DOMAIN claims
    BY <2>1, JobParts, Zenon DEF PaymentInv, ShapeInv, Connecting
  <2>3. blocks[b].prev = tip /\ blocks[b].body = job.body /\ tip \in valid \cup {0}
    BY <2>2, Zenon DEF TreeInv
  <2>4. \A s \in DOMAIN job.paid :
           s \in DOMAIN nClaims[b] /\ nClaims[b][s] = job.paid[s] /\ s \in DOMAIN index
           /\ index[s].target = claims[s].target
    <3>1. \A s \in DOMAIN job.paid :
             s \in DOMAIN nClaims[b] /\ nClaims[b][s] = job.paid[s] /\ s \in DOMAIN index
      BY <2>1, <2>2, Zenon DEF JobInv
    <3> QED BY <2>2, <3>1, Zenon DEF RegInv, LoadInv, Reflects
  <2>5. \A x \in Ids \ valid : \A s \in DOMAIN nClaims[x] : x = b /\ s \in DOMAIN job.paid
    BY <2>2, Zenon DEF BlockInv
  <2>6. b \notin valid => Recorded(b)
    <3> SUFFICES ASSUME b \notin valid PROVE Recorded(b)
      BY Zenon
    <3>1. \A s \in DOMAIN nClaims[b] : s \in DOMAIN index
      BY <2>2, <2>4, <2>5, Zenon
    <3>2. ASSUME NEW j \in DOMAIN job.body.vout, job.body.vClaim # <<>>, job.body.vout[j].to \in Script
          PROVE  /\ \E s \in DOMAIN nClaims[b] :
                       index[s].target = job.body.vout[j].to /\ nClaims[b][s] = job.body.vout[j].value
                 /\ \A i \in DOMAIN job.body.vout : job.body.vout[i].to = job.body.vout[j].to => i = j
      <4>1. \A i \in DOMAIN job.body.vout : Passed(i)
        BY <2>1, <3>2, Zenon DEF Passed
      <4>2. BookedRight(j)
        BY <2>2, <4>1, Zenon DEF JobInv
      <4>3. PICK s \in DOMAIN job.paid :
               claims[s].target = job.body.vout[j].to /\ job.paid[s] = job.body.vout[j].value
        BY <3>2, <4>2, Zenon DEF BookedRight
      <4> QED BY <2>4, <3>2, <4>1, <4>2, <4>3, Zenon DEF BookedRight
    <3> QED BY <2>3, <3>1, <3>2, Zenon DEF Recorded
  <2>7. \A x \in valid' : Recorded(x)
    BY <2>1, <2>2, <2>6, Zenon DEF BlockInv
  <2>8. BlockInv'
    <3>1. \A x \in valid' : Recorded(x)'
      BY <2>1, <2>7, <1>RecordedFrame, Zenon
    <3>2. Ids' = Ids
      BY <2>1, Zenon DEF Ids
    <3> QED BY <2>1, <2>5, <3>1, <3>2, Zenon DEF BlockInv
  <2>9. DiskInv'
    BY <2>1, <2>2, Zenon DEF DiskInv
  <2>10. TotalInv'
    <3>1. \A x : SameTotals(x)
      BY <2>1, Zenon DEF SameTotals, GetTotalReceived, GetTotalOutputs, Parent, PaidBy, OutputsBy, Ids
    <3>2. ASSUME NEW s \in Script, ~Unchecked(s), b \notin valid
          PROVE  GetTotalReceived(s, b) <= GetEligible(s) /\ GetTotalOutputs(s, b) <= MAX_POSSIBLE_OUTPUTS
      <4>1. /\ GetTotalReceived(s, b) =
                 GetTotalReceived(s, tip) + (IF s \in DOMAIN nClaims[b] THEN nClaims[b][s] ELSE 0)
            /\ GetTotalOutputs(s, b) = GetTotalOutputs(s, tip) + (IF s \in DOMAIN nClaims[b] THEN 1 ELSE 0)
        BY <2>2, <2>3, <1>TotalStep, Zenon
      <4>2. CASE s \in DOMAIN nClaims[b]
        <5>1. s \in DOMAIN job.paid /\ nClaims[b][s] = job.paid[s]
          BY <2>2, <2>4, <2>5, <3>2, <4>2, Zenon
        <5>2. /\ GetTotalReceived(s, tip) + job.paid[s] <= GetEligible(s)
              /\ GetTotalOutputs(s, tip) + 1 <= MAX_POSSIBLE_OUTPUTS
          BY <2>2, <3>2, <5>1, ZenonT(60) DEF JobInv, PaidRight
        <5> QED BY <4>1, <4>2, <5>1, <5>2, Zenon
      <4>3. CASE s \notin DOMAIN nClaims[b]
        <5>1. GetTotalReceived(s, tip) \in Nat /\ GetTotalOutputs(s, tip) \in Nat
          <6>1. tip \in 0 .. Len(blocks)
            BY ChainParts, Zenon
          <6> QED BY <6>1, TotalNat, <1>OutputsNat, Zenon DEF TypeInv, TypeOK
        <5>2. GetTotalReceived(s, tip) <= GetEligible(s) /\ GetTotalOutputs(s, tip) <= MAX_POSSIBLE_OUTPUTS
          BY <2>2, <2>3, <3>2, Zenon DEF TotalInv
        <5> QED BY <4>1, <4>3, <5>1, <5>2
      <4> QED BY <4>2, <4>3, Zenon
    <3>3. \A x \in valid', s \in Script : ~Unchecked(s) =>
             GetTotalReceived(s, x) <= GetEligible(s) /\ GetTotalOutputs(s, x) <= MAX_POSSIBLE_OUTPUTS
      BY <2>1, <2>2, <3>2, Zenon DEF TotalInv
    <3>4. \A s \in Script : ~Unchecked(s) =>
             GetTotalReceived(s, 0) <= GetEligible(s) /\ GetTotalOutputs(s, 0) <= MAX_POSSIBLE_OUTPUTS
      BY <2>2, Zenon DEF TotalInv
    <3> QED BY <3>1, <3>3, <3>4, Zenon DEF TotalInv, SameTotals
  <2> QED BY <2>1, <2>8, <2>9, <2>10, <1>JobIdle, Zenon DEF PaymentInv
\* The tip goes back to its parent, which is valid.
<1>PayDisconnectTip.
  ASSUME TypeInv, TypeInv', TreeInv, QueueInv, PaymentInv, KeepsClaims, DisconnectTip
  PROVE  PaymentInv'
  <2> USE <1>PayDisconnectTip
  <2>1. /\ job.phase = "idle" /\ tip # 0 /\ tip' = blocks[tip].prev
        /\ UNCHANGED <<claims, index, blocks, nClaims, valid, dirty, disk, job>>
    BY ZenonT(60) DEF DisconnectTip, Free
  <2>2. BlockInv /\ DiskInv /\ TotalInv /\ job.paid = EmptyMap /\ job.body \in Body /\ valid \subseteq Ids /\ Ids' = Ids
    BY <2>1, JobParts, Zenon DEF PaymentInv, ShapeInv, TypeInv, TypeOK, TreeOK, Ids
  <2>3. BlockInv'
    <3>1. \A b \in valid : Recorded(b)'
      BY <2>1, <2>2, <1>RecordedFrame, Zenon DEF BlockInv
    <3> QED BY <2>1, <2>2, <3>1, Zenon DEF BlockInv
  <2>4. DiskInv'
    BY <2>1, <2>2, Zenon DEF DiskInv
  <2>5. TotalInv'
    BY <2>1, <2>2, <1>TotalFrame, Zenon
  <2>6. JobInv'
    BY <2>1, <2>2, <1>JobFresh, Zenon DEF Connecting
  <2> QED BY <2>3, <2>4, <2>5, <2>6, Zenon DEF PaymentInv
\* A stored block is not valid yet and has recorded nothing.
<1>PayAcceptBlock.
  ASSUME TypeInv, TypeInv', TreeInv, QueueInv, PaymentInv, KeepsClaims,
         NEW p \in 0 .. Len(blocks), NEW body \in Bodies, AcceptBlock(p, body)
  PROVE  PaymentInv'
  <2> USE <1>PayAcceptBlock
  <2> DEFINE n == Len(blocks)
  <2>1. /\ job.phase = "idle" /\ blocks' = Append(blocks, [prev |-> p, body |-> body])
        /\ nClaims' = Put(nClaims, n + 1, EmptyMap) /\ dirty' = dirty \cup {n + 1}
        /\ UNCHANGED <<claims, index, valid, tip, disk, job>>
    BY Zenon DEF AcceptBlock, Free
  <2>2. /\ BlockInv /\ DiskInv /\ TotalInv /\ job.paid = EmptyMap /\ job.body \in Body
        /\ n \in Nat /\ valid \subseteq 1 .. n /\ disk.valid \subseteq valid
        /\ Len(disk.blocks) <= n /\ Len(disk.blocks) \in Nat
        /\ DOMAIN nClaims = 1 .. n /\ blocks \in Seq([prev : Nat, body : Body])
    <3>1. job.paid = EmptyMap /\ job.body \in Body /\ Len(disk.blocks) <= n
      BY <2>1, JobParts, Zenon DEF ShapeInv
    <3>2. /\ TreeOK(blocks, nClaims, queued, valid, failed, tip)
          /\ TreeOK(disk.blocks, disk.nClaims, disk.queued, disk.valid, disk.failed, disk.tip)
      BY ZenonT(60) DEF TypeInv, TypeOK
    <3>3. n \in Nat /\ valid \subseteq 1 .. n /\ DOMAIN nClaims = 1 .. n /\ blocks \in Seq([prev : Nat, body : Body])
      BY <3>2, SMTT(30) DEF TreeOK
    <3>4. Len(disk.blocks) \in Nat
      BY <3>2, SMTT(30) DEF TreeOK
    <3> QED BY <3>1, <3>3, <3>4, Zenon DEF PaymentInv, TreeInv
  <2>3. Len(blocks') = n + 1 /\ \A b \in 1 .. n : blocks'[b] = blocks[b]
    BY <2>1, <2>2, SMTT(30)
  <2>4. nClaims'[n + 1] = EmptyMap /\ \A b \in 1 .. n : nClaims'[b] = nClaims[b]
    BY <2>1, <2>2 DEF Put
  <2>5. Ids = 1 .. n /\ Ids' = 1 .. (n + 1)
    BY <2>3, Zenon DEF Ids
  <2>6. BlockInv'
    <3>1. \A b \in valid : Recorded(b)'
      <4> SUFFICES ASSUME NEW b \in valid PROVE Recorded(b)'
        BY Zenon
      <4>1. Recorded(b) /\ b \in 1 .. n
        BY <2>2, Zenon DEF BlockInv
      <4>2. blocks'[b] = blocks[b] /\ nClaims'[b] = nClaims[b]
        BY <2>3, <2>4, <4>1, ZenonT(60)
      <4> QED BY <4>1, <4>2, <1>RecordedFrame, Zenon
    <3>2. \A b \in Ids' \ valid : DOMAIN nClaims'[b] = {}
      <4> SUFFICES ASSUME NEW b \in Ids' \ valid PROVE DOMAIN nClaims'[b] = {}
        BY Zenon
      <4>1. CASE b = n + 1
        BY <2>4, <4>1, EmptyIsMap, Zenon
      <4>2. CASE b \in 1 .. n
        BY <2>1, <2>2, <2>4, <2>5, <4>2, Zenon DEF BlockInv
      <4> QED BY <2>2, <2>5, <4>1, <4>2
    <3> QED BY <2>1, <2>2, <2>3, <3>1, <3>2, Zenon DEF BlockInv
  <2>7. DiskInv'
    <3>1. \A b \in 1 .. Len(disk.blocks) : b \in 1 .. n
      BY <2>2
    <3>2. \A b \in 1 .. Len(disk.blocks) :
             /\ b \in disk.valid => disk.nClaims[b] = nClaims'[b]
             /\ b \notin disk.valid => disk.nClaims[b] = EmptyMap
      BY <2>2, <2>4, <3>1, Zenon DEF DiskInv
    <3> QED BY <2>1, <3>2, Zenon DEF DiskInv
  <2>8. TotalInv'
    <3>1. valid \subseteq Ids'
      BY <2>2, <2>5
    <3> QED BY <2>1, <2>2, <2>3, <2>4, <3>1, <1>TotalFrame, Zenon
  <2>9. JobInv'
    BY <2>1, <2>2, <1>JobFresh, Zenon DEF Connecting
  <2> QED BY <2>6, <2>7, <2>8, <2>9, Zenon DEF PaymentInv
\* After a flush the block index on disk is the one in memory.
<1>PayFlush.
  ASSUME TypeInv, TypeInv', TreeInv, QueueInv, PaymentInv, KeepsClaims, NEW full \in BOOLEAN, Flush(full)
  PROVE  PaymentInv'
  <2> USE <1>PayFlush
  <2> DEFINE n == Len(blocks)
             m == Len(disk.blocks)
  <2>1. /\ job.phase = "idle" /\ dirty' = {}
        /\ UNCHANGED <<claims, index, blocks, nClaims, valid, tip, job>>
        /\ disk'.nClaims = [b \in Ids |-> IF b \in dirty THEN nClaims[b] ELSE disk.nClaims[b]]
    BY Zenon DEF Flush, Free
  <2>2. n \in Nat /\ m \in Nat /\ m <= n /\ Ids = 1 .. n /\ Ids' = Ids /\ \A b \in Ids : b \notin dirty => b \in 1 .. m
    BY <2>1, ChainParts, ZenonT(60) DEF TypeInv, ShapeInv, Ids
  <2>3. BlockInv /\ DiskInv /\ TotalInv /\ job.paid = EmptyMap /\ job.body \in Body /\ valid \subseteq Ids
    BY <2>1, JobParts, Zenon DEF PaymentInv, ShapeInv, TypeInv, TypeOK, TreeOK, Ids
  <2>4. disk'.valid = valid /\ 1 .. Len(disk'.blocks) = Ids
    BY TreeFlush, Zenon
  <2>5. \A b \in valid \ dirty : b \in disk.valid
    BY Zenon DEF TreeInv
  <2>6. disk.valid \subseteq valid
    BY Zenon DEF TreeInv
  <2>7. \A b \in valid : disk'.nClaims[b] = nClaims[b]
    BY <2>1, <2>2, <2>3, <2>5, Zenon DEF DiskInv
  <2>8. \A b \in Ids \ valid : disk'.nClaims[b] = EmptyMap
    <3> SUFFICES ASSUME NEW b \in Ids \ valid PROVE disk'.nClaims[b] = EmptyMap
      BY Zenon
    <3>1. CASE b \in dirty
      <4>1. DOMAIN nClaims[b] = {}
        BY <2>1, <2>3, Zenon DEF BlockInv
      <4>2. IsMap(nClaims[b], Script, Nat)
        BY ChainParts, Zenon
      <4> QED BY <2>1, <3>1, <4>1, <4>2, Zenon DEF IsMap, EmptyMap
    <3>2. CASE b \notin dirty
      BY <2>1, <2>2, <2>3, <2>6, <3>2, Zenon DEF DiskInv
    <3> QED BY <3>1, <3>2, Zenon
  <2>9. DiskInv'
    BY <2>1, <2>2, <2>4, <2>7, <2>8, Zenon DEF DiskInv
  <2>10. BlockInv'
    <3>1. \A b \in valid : Recorded(b)'
      BY <2>1, <2>3, <1>RecordedFrame, Zenon DEF BlockInv
    <3> QED BY <2>1, <2>2, <2>3, <3>1, Zenon DEF BlockInv
  <2>11. TotalInv'
    BY <2>1, <2>2, <2>3, <1>TotalFrame, Zenon
  <2>12. JobInv'
    BY <2>1, <2>3, <1>JobFresh, Zenon DEF Connecting
  <2> QED BY <2>9, <2>10, <2>11, <2>12, Zenon DEF PaymentInv
\* After a crash the node is left with the valid blocks that were on disk, and
\* with all they paid.
<1>PayCrash.
  ASSUME TypeInv, TypeInv', TreeInv, QueueInv, PaymentInv, KeepsClaims, Crash
  PROVE  PaymentInv'
  <2> USE <1>PayCrash
  <2>1. /\ job' = Idle /\ dirty' = {} /\ blocks' = disk.blocks /\ nClaims' = disk.nClaims
        /\ valid' = disk.valid /\ tip' = disk.tip /\ UNCHANGED <<index, disk>>
    BY ZenonT(60) DEF Crash
  <2>2. BlockInv /\ DiskInv /\ TotalInv /\ valid \subseteq Ids
    BY Zenon DEF PaymentInv, TypeInv, TypeOK, TreeOK, Ids
  <2>3. /\ disk.valid \subseteq Ids /\ disk.valid \subseteq Ids' /\ disk.valid \subseteq valid
        /\ \A b \in disk.valid : blocks'[b] = blocks[b] /\ blocks[b].prev \in disk.valid \cup {0}
    BY TreeCrash, Zenon DEF TreeInv
  <2>4. Ids' = 1 .. Len(disk.blocks)
    BY <2>1, Zenon DEF Ids
  <2>5. \A b \in disk.valid : nClaims'[b] = nClaims[b]
    BY <2>1, <2>2, <2>3, <2>4, Zenon DEF DiskInv
  <2>6. BlockInv'
    <3>1. \A b \in disk.valid : Recorded(b)'
      BY <2>1, <2>2, <2>3, <2>5, <1>RecordedFrame, Zenon DEF BlockInv
    <3>2. \A b \in Ids' \ disk.valid : DOMAIN nClaims'[b] = {}
      BY <2>1, <2>2, <2>4, EmptyIsMap, Zenon DEF DiskInv
    <3> QED BY <2>1, <3>1, <3>2, Zenon DEF BlockInv
  <2>7. DiskInv'
    BY <2>1, <2>2, <2>5, ZenonT(60) DEF DiskInv
  <2>8. TotalInv'
    <3>1. \A b \in disk.valid \cup {0} : SameTotals(b)
      BY <2>3, <2>5, <1>TotalsAgree, Zenon
    <3> QED BY <2>1, <2>2, <2>3, <3>1 DEF TotalInv, SameTotals
  <2> QED BY <2>1, <2>6, <2>7, <2>8, <1>JobIdle, Zenon DEF PaymentInv
\* Restart and reload.
<1>PayLoad.
  ASSUME TypeInv, TypeInv', TreeInv, QueueInv, PaymentInv, KeepsClaims, Restart \/ LoadDone \/ \E s \in Script : LoadClaim(s)
  PROVE  PaymentInv'
  <2> USE <1>PayLoad
  <2>1. mode # "up" /\ UNCHANGED <<chain, disk, job>>
    BY Zenon DEF Restart, LoadDone, LoadClaim
  <2>2. job = Idle /\ job.phase = "idle"
    BY <2>1, JobParts, Zenon DEF ShapeInv, Idle
  <2> QED BY <2>1, <2>2, <1>JobIdle, <1>PayQuiet, Zenon DEF chain
<1>Step.
  ASSUME written', TypeInv, TypeInv', RegInv, TreeInv, QueueInv, PaymentInv, KeepsClaims, [Next]_vars
  PROVE  PaymentInv'
  <2> USE <1>Step
  <2>1. CASE UNCHANGED vars
    <3>1. UNCHANGED <<claims, index, blocks, nClaims, valid, dirty, tip, disk, job>>
      BY <2>1, Zenon DEF vars, chain
    <3>2. JobInv'
      <4>1. SameTotals(tip)
        BY <3>1, Zenon DEF SameTotals, GetTotalReceived, GetTotalOutputs, Parent, PaidBy, OutputsBy, Ids
      <4>2. \A j : Passed(j)' <=> Passed(j)
        BY <3>1, Zenon DEF Passed
      <4>3. \A s : PaidRight(s) => PaidRight(s)'
        BY <3>1, <4>1, <4>2, Zenon DEF PaidRight, SameTotals
      <4>4. \A j : BookedRight(j) => BookedRight(j)'
        BY <3>1, <4>2, Zenon DEF BookedRight
      <4> QED BY <3>1, <4>2, <4>3, <4>4, Zenon DEF PaymentInv, JobInv
    <3>3. BlockInv'
      <4>1. Ids' = Ids
        BY <3>1, Zenon DEF Ids
      <4>2. \A b : Recorded(b) => Recorded(b)'
        BY <3>1, <1>RecordedFrame, Zenon
      <4> QED BY <3>1, <4>1, <4>2, Zenon DEF PaymentInv, BlockInv
    <3>4. DiskInv'
      BY <3>1, Zenon DEF PaymentInv, DiskInv
    <3>5. TotalInv'
      BY <3>1, Zenon DEF PaymentInv, TotalInv, GetTotalReceived, GetTotalOutputs, Parent, PaidBy, OutputsBy, Ids
    <3> QED BY <3>2, <3>3, <3>4, <3>5, Zenon DEF PaymentInv
  <2>2. CASE Running
    BY <2>2, <1>PayReceive, <1>PayApplyClaim, <1>PayStart, <1>PayAcceptBlock, <1>PayCheckClaims, <1>PayCheckVOut, <1>PayVOutDone,
       <1>PayFinishChecks, <1>PayRecordClaim, <1>PayConnectTip, <1>PayDisconnectTip, Zenon DEF Running
  <2>3. CASE Persistence
    BY <2>3, <1>PayFlush, <1>PayCrash, <1>PayLoad, Zenon DEF Persistence
  <2> QED BY <2>1, <2>2, <2>3, Zenon DEF Next
<1> QED BY <1>Step

\* As long as no write to the claim index has failed, the payments are right.
LEMMA PaymentInvariant == Spec => [](TypeInv /\ RegInv /\ TreeInv /\ (written => PaymentInv))
<1> DEFINE IInv == written => PaymentInv
           Base == TypeInv /\ RegInv /\ TreeInv /\ QueueInv
<1>1. Init => IInv
  BY PayInit, Zenon
<1>2. Base /\ Base' /\ IInv /\ [Next]_vars => IInv'
  BY RegNext, PayNext, WrittenStep, Zenon
<1> QED BY <1>1, <1>2, TreeInvariant, PTL DEF Spec

\* As long as no write to the claim index has failed, the active chain never
\* pays a claim that this node can check more than its eligible amount:
\* whatever blocks arrive, however they are reorganised, and wherever a crash
\* falls.
THEOREM PaymentsWithinEligible == Spec => []PaidWithinEligible
<1>1. TreeInv /\ (written => PaymentInv) => PaidWithinEligible
  BY Zenon DEF PaymentInv, TotalInv, TreeInv, PaidWithinEligible
<1> QED BY <1>1, PaymentInvariant, PTL

\* Nor in more outputs than a claim may be paid in.
THEOREM OutputsWithinBounds == Spec => []OutputsWithinLimit
<1>1. TreeInv /\ (written => PaymentInv) => OutputsWithinLimit
  BY Zenon DEF PaymentInv, TotalInv, TreeInv, OutputsWithinLimit
<1> QED BY <1>1, PaymentInvariant, PTL

\* At startup every claim of the index is accepted again: the index has one
\* claim per target and no chain of claims, whatever the order of loading, and
\* what the tip's branch paid is within what the claim may receive.
THEOREM IndexIsReloaded == Spec => []IndexReloads
<1>1. ASSUME TypeInv, RegInv, TreeInv, written => PaymentInv PROVE IndexReloads
  <2> SUFFICES ASSUME mode = "loading", NEW s \in pending
               PROVE  LET c == [source |-> s, target |-> index[s].target, good |-> TRUE]
                      IN /\ IsUnique(claims, c)
                         /\ written /\ ~Unchecked(s) => IsValid(c, GetTotalReceived(s, tip), TRUE)
    BY Zenon DEF IndexReloads
  <2> DEFINE c == [source |-> s, target |-> index[s].target, good |-> TRUE]
  <2>1. s \in DOMAIN index /\ s \in Script
    BY <1>1, JobParts, Zenon DEF TypeInv, ShapeInv, IsMap
  <2>2. /\ OneToOne(index) /\ Sound(index)
        /\ \A t \in DOMAIN claims : t \in DOMAIN index \ pending /\ claims[t].target = index[t].target
    BY <1>1, Zenon DEF RegInv, LoadInv, Reflects
  <2>3. IsUnique(claims, c)
    BY <2>1, <2>2, Zenon DEF IsUnique, IsUniqueSource, IsUniqueTarget, OneToOne
  <2>4. ASSUME written, ~Unchecked(s) PROVE IsValid(c, GetTotalReceived(s, tip), TRUE)
    <3>1. IsValid(c, 0, TRUE)
      BY <2>1, <2>2, Zenon DEF Sound
    <3>2. GetTotalReceived(s, tip) <= GetEligible(s)
      BY <1>1, <2>1, <2>4, Zenon DEF PaymentInv, TotalInv, TreeInv
    <3>3. GetTotalReceived(s, tip) \in Nat
      <4>1. tip \in 0 .. Len(blocks)
        BY <1>1, ChainParts, Zenon
      <4> QED BY <1>1, <4>1, TotalNat, Zenon DEF TypeInv, TypeOK
    <3>4. GetTotalReceived(s, tip) <= MAX_CLAIM_REWARD
      BY <2>1, <3>2, <3>3, Limits, ClaimAssumption
    <3> QED BY <3>1, <3>2, <3>4, Zenon DEF IsValid
  <2> QED BY <2>3, <2>4, Zenon
<1> QED BY <1>1, PaymentInvariant, PTL

-----------------------------------------------------------------------------
(* The coins themselves. *)

\* The values of the outputs of a body that go to script d, and the outputs as a
\* list, in which each follows the one before it.
ValuesTo(vout, d) == [j \in DOMAIN vout |-> IF vout[j].to = d THEN vout[j].value ELSE 0]
Line(vout) == [j \in DOMAIN vout |-> j - 1]

LEMMA LineWalks ==
  ASSUME NEW vout \in Seq(TxOut), NEW d
  PROVE  /\ Len(vout) \in Nat /\ DOMAIN vout = 1 .. Len(vout)
         /\ IsTree(Line(vout), Len(vout)) /\ \A j \in 1 .. Len(vout) : Line(vout)[j] = j - 1
         /\ Amounts(ValuesTo(vout, d), Len(vout))
         /\ SumUpTo(Line(vout), ValuesTo(vout, d), Len(vout)) \in Nat
<1>1. Len(vout) \in Nat /\ DOMAIN vout = 1 .. Len(vout)
  OBVIOUS
<1>2. \A j \in 1 .. Len(vout) : vout[j].value \in Nat
  <2>1. \A j \in 1 .. Len(vout) : vout[j] \in TxOut
    BY SeqElements, Zenon
  <2> QED BY <2>1, Zenon DEF TxOut
<1>3. IsTree(Line(vout), Len(vout)) /\ \A j \in 1 .. Len(vout) : Line(vout)[j] = j - 1
  BY <1>1 DEF IsTree, Line
<1>4. Amounts(ValuesTo(vout, d), Len(vout))
  BY <1>1, <1>2, Zenon DEF Amounts, ValuesTo
<1>5. Len(vout) \in 0 .. Len(vout)
  BY <1>1
<1>6. SumUpTo(Line(vout), ValuesTo(vout, d), Len(vout)) \in Nat
  BY <1>1, <1>3, <1>4, <1>5, SumNat, ZenonT(60)
<1> QED BY <1>1, <1>3, <1>4, <1>6, Zenon

\* What a block pays to a script, read off its outputs.
LEMMA PaidToIs ==
  ASSUME TypeInv, NEW d, NEW b \in Ids
  PROVE  /\ blocks[b].body.vout \in Seq(TxOut)
         /\ PaidTo(d)[b] = IF blocks[b].body.vClaim = <<>> THEN 0
                           ELSE SumUpTo(Line(blocks[b].body.vout), ValuesTo(blocks[b].body.vout, d),
                                        Len(blocks[b].body.vout))
         /\ PaidTo(d)[b] \in Nat
<1>1. blocks[b].body.vout \in Seq(TxOut)
  <2>1. blocks \in Seq([prev : Nat, body : Body]) /\ b \in 1 .. Len(blocks)
    BY Zenon DEF TypeInv, TypeOK, TreeOK, Ids
  <2>2. blocks[b] \in [prev : Nat, body : Body]
    BY <2>1, SeqElements, Zenon
  <2>3. blocks[b].body \in Body
    BY <2>2, Zenon
  <2> QED BY <2>3, BodyParts, Zenon
<1>2. PaidTo(d)[b] = IF blocks[b].body.vClaim = <<>> THEN 0
                     ELSE SumUpTo(Line(blocks[b].body.vout), ValuesTo(blocks[b].body.vout, d),
                                  Len(blocks[b].body.vout))
  BY Zenon DEF PaidTo, Line, ValuesTo
<1> QED BY <1>1, <1>2, LineWalks

\* The outputs of a recorded block pay a claim's target what nClaims says it
\* received, and no more.
LEMMA PaidToRecorded ==
  ASSUME TypeInv, RegInv, NEW b \in Ids, Recorded(b), NEW s \in DOMAIN index
  PROVE  PaidTo(index[s].target)[b] <= PaidBy(s)[b]
<1> DEFINE d == index[s].target
           vout == blocks[b].body.vout
           c == PaidBy(s)[b]
<1>1. d \in Script /\ OneToOne(index)
  <2>1. IsMap(index, Script, Entry)
    BY JobParts, Zenon
  <2> QED BY <2>1, ClaimParts, Zenon DEF IsMap, RegInv, LoadInv
<1>2. c = (IF s \in DOMAIN nClaims[b] THEN nClaims[b][s] ELSE 0) /\ c \in Nat
  BY ChainParts, Zenon DEF PaidBy, IsMap
<1>3. vout \in Seq(TxOut)
  BY PaidToIs, Zenon
<1>4. /\ Len(vout) \in Nat /\ DOMAIN vout = 1 .. Len(vout)
      /\ \A j \in 1 .. Len(vout) : Line(vout)[j] = j - 1
      /\ Amounts(ValuesTo(vout, d), Len(vout))
  BY <1>3, LineWalks, ZenonT(60)
<1>5. CASE blocks[b].body.vClaim = <<>>
  BY <1>2, <1>5, PaidToIs
<1>6. CASE blocks[b].body.vClaim # <<>>
  <2>1. \A j \in 1 .. Len(vout) : vout[j].to = d =>
           vout[j].value = c /\ \A i \in 1 .. Len(vout) : vout[i].to = d => i = j
    <3> SUFFICES ASSUME NEW j \in 1 .. Len(vout), vout[j].to = d
                 PROVE  vout[j].value = c /\ \A i \in 1 .. Len(vout) : vout[i].to = d => i = j
      BY Zenon
    <3>1. PICK t \in DOMAIN nClaims[b] : index[t].target = d /\ nClaims[b][t] = vout[j].value
      BY <1>1, <1>4, <1>6, Zenon DEF Recorded
    <3>2. t \in DOMAIN index
      BY <3>1, Zenon DEF Recorded
    <3>3. t = s
      BY <1>1, <3>1, <3>2, Zenon DEF OneToOne
    <3>4. nClaims[b][s] = vout[j].value /\ s \in DOMAIN nClaims[b]
      BY <3>1, <3>3, Zenon
    <3>5. vout[j].value = c
      BY <1>2, <3>4, Zenon
    <3>6. j \in DOMAIN vout /\ vout[j].to \in Script
      BY <1>1, <1>4, Zenon
    <3>7. \A i \in DOMAIN vout : vout[i].to = vout[j].to => i = j
      BY <1>6, <3>6, Zenon DEF Recorded
    <3> QED BY <1>4, <3>5, <3>7, Zenon
  <2>2. \A j \in 1 .. Len(vout) : ValuesTo(vout, d)[j] = IF vout[j].to = d THEN vout[j].value ELSE 0
    BY <1>4, ZenonT(60) DEF ValuesTo
  <2>3. \A j \in 1 .. Len(vout) : ValuesTo(vout, d)[j] <= c
    BY <1>2, <2>1, <2>2
  <2>4. \A i, j \in 1 .. Len(vout) : ValuesTo(vout, d)[i] # 0 /\ ValuesTo(vout, d)[j] # 0 => i = j
    BY <2>1, <2>2, Zenon
  <2>5. SumUpTo(Line(vout), ValuesTo(vout, d), Len(vout)) <= c
    <3> DEFINE n == Len(vout)
               prev == Line(vout)
               val == ValuesTo(vout, d)
    <3>1. /\ n \in Nat /\ c \in Nat /\ \A i \in 1 .. n : prev[i] = i - 1
          /\ Amounts(val, n) /\ \A i \in 1 .. n : val[i] <= c
          /\ \A i, j \in 1 .. n : val[i] # 0 /\ val[j] # 0 => i = j
      BY <1>2, <1>4, <2>3, <2>4, Zenon
    <3> HIDE DEF n, prev, val, c
    <3>2. SumUpTo(prev, val, n) <= c
      BY <3>1, SumOfOne, Zenon
    <3> QED BY <3>2, Zenon DEF n, prev, val
  <2> QED BY <1>6, <2>5, PaidToIs, Zenon
<1> QED BY <1>5, <1>6, Zenon

\* As long as no write to the claim index has failed, the coins that the active
\* chain's claim blocks give the target of an indexed claim are within its
\* eligible amount, and every claim they pay is in the index.
THEOREM PayoutsAreRight == Spec => []PayoutsWithinEligible
<1>1. ASSUME TypeInv, RegInv, TreeInv, written => PaymentInv PROVE PayoutsWithinEligible
  <2> SUFFICES ASSUME written
               PROVE  /\ \A b \in BranchOf(Parent, tip) : \A s \in DOMAIN nClaims[b] : s \in DOMAIN index
                      /\ \A s \in DOMAIN index :
                            ~Unchecked(s) => SumUpTo(Parent, PaidTo(index[s].target), tip) <= GetEligible(s)
    BY Zenon DEF PayoutsWithinEligible
  <2> DEFINE n == Len(blocks)
  <2>1. /\ n \in Nat /\ IsTree(Parent, n) /\ valid \subseteq 1 .. n /\ tip \in valid \cup {0}
        /\ \A i \in valid : Parent[i] \in valid \cup {0}
        /\ \A b \in valid : Recorded(b)
    <3>1. n \in Nat /\ IsTree(Parent, n)
      BY <1>1, TreeWalks, Zenon DEF TypeInv, TypeOK
    <3>2. valid \subseteq 1 .. n
      BY <1>1, ChainParts, Zenon DEF Ids
    <3> QED BY <1>1, <3>1, <3>2, Zenon DEF TreeInv, Parent, Ids, PaymentInv, BlockInv
  <2>2. BranchOf(Parent, tip) \subseteq valid
    <3>1. SameTree(valid, n, Parent, n, Parent)
      BY <2>1, Zenon DEF SameTree
    <3> QED BY <2>1, <3>1, SameBranches, Zenon
  <2>3. \A b \in BranchOf(Parent, tip) : \A s \in DOMAIN nClaims[b] : s \in DOMAIN index
    BY <2>1, <2>2, Zenon DEF Recorded
  <2>4. ASSUME NEW s \in DOMAIN index, ~Unchecked(s)
        PROVE  SumUpTo(Parent, PaidTo(index[s].target), tip) <= GetEligible(s)
    <3> DEFINE prev == Parent
               val1 == PaidTo(index[s].target)
               val2 == PaidBy(s)
    <3>1. s \in Script
      BY <1>1, JobParts, Zenon DEF IsMap
    <3>2. Amounts(val1, n) /\ Amounts(val2, n)
      <4>1. Amounts(val1, n)
        BY <1>1, PaidToIs, Zenon DEF Amounts, Ids
      <4> QED BY <1>1, <4>1, TreeWalks, Zenon DEF TypeInv, TypeOK
    <3>3. \A i \in valid : prev[i] \in valid \cup {0} /\ val1[i] <= val2[i]
      BY <1>1, <2>1, PaidToRecorded, Zenon DEF Ids
    <3>4. GetTotalReceived(s, tip) = SumUpTo(prev, val2, tip) /\ GetTotalReceived(s, tip) <= GetEligible(s)
      BY <1>1, <2>1, <2>4, <3>1, Zenon DEF GetTotalReceived, PaymentInv, TotalInv
    <3>5. n \in Nat /\ IsTree(prev, n) /\ valid \subseteq 1 .. n /\ tip \in valid \cup {0}
      BY <2>1, Zenon
    <3>6. tip \in 0 .. n
      BY <3>5
    <3>7. GetEligible(s) \in Nat
      BY <3>1, Limits, Zenon
    <3> HIDE DEF n, prev, val1, val2
    <3>8. SumUpTo(prev, val1, tip) <= SumUpTo(prev, val2, tip)
      BY <3>2, <3>3, <3>5, SumMono, Zenon
    <3>9. SumUpTo(prev, val1, tip) \in Nat /\ SumUpTo(prev, val2, tip) \in Nat
      BY <3>2, <3>5, <3>6, SumNat, Zenon
    <3>10. SumUpTo(prev, val1, tip) <= GetEligible(s)
      BY <3>4, <3>7, <3>8, <3>9
    <3> QED BY <3>10, Zenon DEF prev, val1
  <2> QED BY <2>3, <2>4, Zenon
<1> QED BY <1>1, PaymentInvariant, PTL
=============================================================================
