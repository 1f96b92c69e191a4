-------------------------------- MODULE Claim --------------------------------
(***************************************************************************)
(* What a single claim is worth and when it is valid (src/src/claim.cpp,   *)
(* claim.h, snapshotmanager.cpp).  A claim asks the holder of the genesis  *)
(* key to pay the coins that the script `source' held on another chain to  *)
(* the script `target' on this one.  Scripts are opaque values; a claim    *)
(* carries a proof of ownership that is either good or not.                *)
(***************************************************************************)
EXTENDS Integers, FiniteSets

CONSTANTS
  Script,               \* scriptPubKeys
  Compatible,           \* snapshot: Peercoin scripts proved by a signed message
  Incompatible,         \* snapshot: Peercoin scripts proved by a dummy transaction
  Balance,              \* coins each script held on its own chain
  MAX_CLAIM_REWARD,     \* snapshotmanager.h
  GenesisOutputsAmount, \* GENESIS_OUTPUTS_AMOUNT: genesis value per genesis output
  OutputCap,            \* the 20 of MAX_POSSIBLE_OUTPUTS
  OutputSlack,          \* the 4 added to both output limits
  LookupEnabled         \* this node has the Bitcoin balance database

ASSUME ClaimAssumption ==
  /\ Compatible \subseteq Script
  /\ Incompatible \subseteq Script
  /\ Compatible \cap Incompatible = {}
  /\ IsFiniteSet(Script)
  /\ Balance \in [Script -> Nat]
  /\ MAX_CLAIM_REWARD \in Nat
  /\ GenesisOutputsAmount \in Nat \ {0}
  /\ OutputCap \in Nat
  /\ OutputSlack \in Nat
  /\ LookupEnabled \in BOOLEAN

-----------------------------------------------------------------------------
Least(a, b) == IF a <= b THEN a ELSE b

\* ceil(a / b)
CeilDiv(a, b) == (a + b - 1) \div b

\* Claim::Init: a source that neither snapshot map holds is a Bitcoin source.
IsBtc(s) == s \notin Compatible \cup Incompatible

\* A Bitcoin claim on a node without the lookup database is taken on the
\* minter's word: neither its balance nor its signature can be checked.
Unchecked(s) == IsBtc(s) /\ ~LookupEnabled

GetBitcoinBalance(s) == IF LookupEnabled THEN Balance[s] ELSE 0

CalculateEligible(balance) == Least(balance * 10, MAX_CLAIM_REWARD)

CalculateEligibleBTC(balance) ==
  IF balance > MAX_CLAIM_REWARD \div 50 THEN MAX_CLAIM_REWARD ELSE balance * 50

GetEligible(s) ==
  IF IsBtc(s) THEN CalculateEligibleBTC(GetBitcoinBalance(s))
              ELSE CalculateEligible(Balance[s])

MAX_POSSIBLE_OUTPUTS ==
  Least(OutputCap, CeilDiv(MAX_CLAIM_REWARD, GenesisOutputsAmount)) + OutputSlack

GetMaxOutputs(s) ==
  Least(CeilDiv(GetEligible(s), GenesisOutputsAmount) + OutputSlack, MAX_POSSIBLE_OUTPUTS)

-----------------------------------------------------------------------------
\* CClaim: what travels in blocks and messages.  `good' stands for the
\* signature or dummy transaction verifying for this source and target.
CClaim == [source : Script, target : Script, good : BOOLEAN]

\* Claim::IsValid on a claim object.  `total' is its cached nTotalReceived and
\* `electrum' says that the external verifier accepts the signature in this
\* call or did so earlier for the same object.
IsValid(c, total, electrum) ==
  /\ c.source # c.target
  /\ IF IsBtc(c.source)
     THEN LookupEnabled => Balance[c.source] > 0 /\ c.good /\ electrum
     ELSE c.good
  /\ total <= MAX_CLAIM_REWARD
  /\ ~Unchecked(c.source) => total <= GetEligible(c.source)

\* Mutants: a known source is accepted; a target that another claim has is.
IsUniqueSource_Known(claims, c) == \A s \in DOMAIN claims : claims[s].target # c.source
IsUniqueTarget_Shared(claims, c) == c.target \notin DOMAIN claims

\* Claim::IsUniqueSource and IsUniqueTarget against the registry g_claims.
IsUniqueSource(claims, c) ==
  /\ c.source \notin DOMAIN claims
  /\ \A s \in DOMAIN claims : claims[s].target # c.source

IsUniqueTarget(claims, c) ==
  /\ c.target \notin DOMAIN claims
  /\ \A s \in DOMAIN claims : claims[s].target # c.target

IsUnique(claims, c) ==
  /\ c.source # c.target
  /\ IsUniqueSource(claims, c)
  /\ IsUniqueTarget(claims, c)

\* std::map assignment m[k] = v, on a partial function.
Put(m, k, v) == [x \in DOMAIN m \cup {k} |-> IF x = k THEN v ELSE m[x]]

\* The empty std::map.
EmptyMap == [x \in {} |-> 0]
=============================================================================
