---------------------------- MODULE MCCoinStake ----------------------------
(***************************************************************************)
(* Small instances of CoinStake for TLC.                                   *)
(***************************************************************************)
EXTENDS CoinStake

\* Scaled sizes: five outputs fit before the signature and four after it, so
\* that two pending claims fit and a third does not.
MCEligible == <<30, 40, 50>>

AnyCall ==
  [kernel |-> 100, allowed |-> 400, coins |-> <<>>, nFees |-> 0, target |-> 90, threshold |-> 30,
   nBlockTx |-> 0, height |-> 1, chain |-> [c \in Claims |-> 0], wallet |-> [c \in Claims |-> 0],
   valid |-> Claims, genesis |-> FALSE, minterKey |-> FALSE, btcOpen |-> FALSE, combine |-> TRUE,
   constrain |-> FALSE, split |-> TRUE, signs |-> TRUE, legacy |-> TRUE,
   aged |-> TRUE]

\* Kernels of the genesis key below, at and above what the claims need; claims
\* paid in part, paid in full but not yet in the chain, invalid, overpaid.
Kernels == {0, 26, 30, 69, 70, 71, 100, 120, 122, 123, 124, 200}
Received ==
  {<<<<0, 0, 0>>, <<0, 0, 0>>>>, <<<<10, 0, 0>>, <<30, 0, 0>>>>, <<<<30, 0, 0>>, <<30, 5, 0>>>>,
   <<<<30, 40, 50>>, <<30, 40, 50>>>>, <<<<0, 0, 0>>, <<31, 0, 0>>>>}
GenesisCalls ==
  {[AnyCall EXCEPT !.kernel = v, !.genesis = TRUE, !.chain = r[1], !.wallet = r[2], !.btcOpen = open] :
     v \in Kernels, r \in Received, open \in BOOLEAN}
  \cup {[AnyCall EXCEPT !.kernel = v, !.genesis = TRUE, !.nFees = 2, !.height = 0, !.nBlockTx = n,
                        !.chain = r[1], !.wallet = r[2]] :
          v \in {26, 100, 120}, n \in {0, 1}, r \in Received}
  \cup {[AnyCall EXCEPT !.genesis = TRUE, !.valid = {1, 3}]}

\* Other kernels: with and without a minter key, coins to combine, both ways to
\* split, no splitting, and a wallet that cannot sign.
Coins(key, values) == [i \in DOMAIN values |-> [value |-> values[i], key |-> key]]
SplitCalls ==
  {[AnyCall EXCEPT !.kernel = v, !.coins = cs, !.minterKey = m, !.target = t[1], !.threshold = t[2],
                   !.constrain = t[3], !.split = s, !.nBlockTx = n] :
     v \in {26, 80, 113, 245}, m \in BOOLEAN,
     cs \in {Coins("kernel", w) : w \in {<<>>, <<28, 31, 26>>, <<30, 26, 29>>}},
     t \in {<<90, 30, FALSE>>, <<40, 40, TRUE>>}, s \in BOOLEAN, n \in {0, 1}}
  \cup {[AnyCall EXCEPT !.coins = Coins("kernel", <<30, 26>>), !.combine = FALSE],
        [AnyCall EXCEPT !.coins = Coins("kernel", <<30, 26>>), !.allowed = 130],
        [AnyCall EXCEPT !.coins = Coins("other", <<30, 26, 28>>), !.kernel = 26],
        [AnyCall EXCEPT !.coins = Coins("minter", <<30, 26>>) \o Coins("other", <<26>>),
                        !.kernel = 26, !.minterKey = TRUE],
        [AnyCall EXCEPT !.signs = FALSE], [AnyCall EXCEPT !.signs = FALSE, !.legacy = FALSE],
        [AnyCall EXCEPT !.aged = FALSE]}

MCCalls == GenesisCalls \cup SplitCalls

\* The sizes of a real coinstake with one pay-to-public-key input and
\* pay-to-public-key-hash outputs, and a kernel that covers every claim.
RealEligible == [c \in Claims |-> 100]
RealCalls == {[AnyCall EXCEPT !.kernel = 10000, !.allowed = 10000, !.genesis = TRUE]}
=============================================================================
