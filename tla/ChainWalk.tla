------------------------------ MODULE ChainWalk ------------------------------
(***************************************************************************)
(* Walking a branch of the block tree by the pprev pointers, as            *)
(* Claim::GetTotalReceived and CheckClaims do.  Blocks are numbered so     *)
(* that a block has a larger number than its parent; 0 is the genesis      *)
(* block, where every walk ends.                                           *)
(***************************************************************************)
EXTENDS Integers

\* The running sum of val along every branch.
Walk(prev, val, n) ==
  LET walk[i \in 0 .. n] == IF i = 0 THEN 0 ELSE walk[prev[i]] + val[i]
  IN walk

\* The sum of val over the branch that ends in block b.
SumUpTo(prev, val, b) == Walk(prev, val, b)[b]

\* The branches of all blocks up to n, as sets of blocks.
Branches(prev, n) ==
  LET walk[i \in 0 .. n] == IF i = 0 THEN {} ELSE {i} \cup walk[prev[i]]
  IN walk

\* The blocks of the branch that ends in block b.
BranchOf(prev, b) == Branches(prev, b)[b]

\* prev describes a tree of n blocks.
IsTree(prev, n) == \A i \in 1 .. n : prev[i] \in 0 .. (i - 1)
=============================================================================
