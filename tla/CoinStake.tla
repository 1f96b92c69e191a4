----------------------------- MODULE CoinStake -----------------------------
(***************************************************************************)
(* CWallet::CreateCoinStake (wallet/wallet.cpp): the minter's search for   *)
(* the outputs of a coinstake.  The wallet of the genesis key distributes  *)
(* the value of its kernel to the pending claims, oldest first; any other  *)
(* wallet splits it as RFC-0028 says.  Outputs are added, the transaction  *)
(* is signed, and the round is repeated until size and fee are right.      *)
(*                                                                         *)
(* A call runs under cs_main and cs_wallet, so what it reads is fixed when *)
(* it starts: the record call.  Claims are numbered in the order of nTime. *)
(* Sizes count bytes and amounts count the fee of one byte, so the fee of  *)
(* a transaction is its size and PERKB_TX_FEE is MaxBytes.  The minter     *)
(* calls again and again; genesis_key_held is what one call leaves to the  *)
(* next.                                                                   *)
(***************************************************************************)
EXTENDS Integers, Sequences, SequencesExt

CONSTANTS
  NClaims,      \* claims registered in g_claims
  Eligible,     \* Eligible[c]: GetEligible() of claim c
  Bitcoin,      \* the claims with m_is_btc
  BaseBytes,    \* size of a transaction without inputs that has the marker output
  InBytes,      \* size of an unsigned input
  SigBytes,     \* size a signature adds to an input
  OutBytes,     \* size of an output
  MaxBytes,     \* 1000, the size CreateCoinStake allows
  MaxInputs,    \* MAX_COINSTAKE_INPUTS
  MaxSmallInputs, \* 8, the inputs allowed below the target amount
  MaxOutputs,   \* 30, the first value of maxOutputs
  VClaimBound,  \* bound of the model: vClaim is followed up to this length, and
                \* maxOutputs down to 0
  Calls         \* the calls to consider

Claims == 1 .. NClaims

ASSUME CoinStakeAssumption ==
  /\ NClaims \in Nat /\ Eligible \in [Claims -> Nat \ {0}] /\ Bitcoin \subseteq Claims
  /\ \A n \in {BaseBytes, InBytes, SigBytes, OutBytes, MaxBytes} : n \in Nat \ {0}
  /\ \A n \in {MaxInputs, MaxSmallInputs, MaxOutputs, VClaimBound} : n \in Nat \ {0}

VARIABLES
  pc,           \* the next step of the call, or its result
  call,         \* what the call reads
  genesis_key_held,
  claims,       \* the claims to pay, oldest first
  k,            \* next coin or claim of the loop under way
  vin,          \* values of the inputs of txNew
  vout,         \* outputs of txNew after the marker
  signed,       \* whether the inputs carry signatures
  vClaim,       \* claims for the block
  nCredit, nMinFee, maxOutputs, outputsOk, current

vars == <<pc, call, genesis_key_held, claims, k, vin, vout, signed, vClaim,
          nCredit, nMinFee, maxOutputs, outputsOk, current>>

Results == {"done", "false", "error"}

\* Destinations of outputs other than claims, which are their own destination.
Genesis == 0
Minter == -1
Kernel == -2

Out(to, value) == [to |-> to, value |-> value]

\* GetSerializeSize of txNew with the given outputs.
Bytes(outs, sig) ==
  BaseBytes + Len(vin) * (InBytes + IF sig THEN SigBytes ELSE 0) + Len(outs) * OutBytes

Total(outs) == FoldLeft(LAMBDA sum, o : sum + o.value, 0, outs)

\* GetMinFee less the subsidised PERKB_TX_FEE.
NeededFee(bytes) == IF bytes > MaxBytes THEN bytes - MaxBytes ELSE 0

-----------------------------------------------------------------------------
Init ==
  /\ pc = "kernel"
  /\ call \in Calls
  /\ genesis_key_held = FALSE
  /\ claims = <<>> /\ k = 1
  /\ vin = <<>> /\ vout = <<>> /\ signed = FALSE
  /\ vClaim = <<>>
  /\ nCredit = 0 /\ nMinFee = 0 /\ maxOutputs = MaxOutputs
  /\ outputsOk = TRUE /\ current = 0

\* The kernel search found the coin call.kernel (0: none).  A Taproot kernel
\* adds an output with the minter's key.
FindKernel ==
  /\ pc = "kernel"
  /\ nCredit' = call.kernel
  /\ vin' = IF call.kernel = 0 THEN <<>> ELSE <<call.kernel>>
  /\ vout' = IF call.kernel # 0 /\ call.minterKey THEN <<Out(Minter, 0)>> ELSE <<>>
  /\ IF call.kernel = 0 \/ call.kernel > call.allowed
     THEN pc' = "false" /\ UNCHANGED genesis_key_held
     ELSE /\ pc' = "select"
          /\ genesis_key_held' = (genesis_key_held \/ call.genesis)
  /\ UNCHANGED <<call, claims, k, signed, vClaim, nMinFee, maxOutputs, outputsOk, current>>

\* A Bitcoin claim waits for its date.
Unpaid(c) == call.chain[c] < Eligible[c] /\ (c \notin Bitcoin \/ call.btcOpen)

\* Mutant: the claims are left in the order of the registry.
Pending_Unsorted ==
  IF call.nBlockTx = 0 /\ genesis_key_held
  THEN Reverse(SelectSeq([c \in Claims |-> c], Unpaid)) ELSE <<>>

\* The registered claims that the chain has not paid in full, sorted by nTime.
Pending ==
  IF call.nBlockTx = 0 /\ genesis_key_held THEN SelectSeq([c \in Claims |-> c], Unpaid) ELSE <<>>

\* All pending claims must be valid (call.valid: IsValid and GetReceived
\* succeed) and not overpaid by the wallet's own transactions; those the wallet
\* has paid in full are then dropped.
SelectClaims ==
  /\ pc = "select"
  /\ LET empty == call.nBlockTx = 0 /\ genesis_key_held /\ Pending = <<>> /\ call.height = 0
         wrong == \E c \in ToSet(Pending) : c \notin call.valid \/ call.wallet[c] > Eligible[c]
     IN pc' = IF empty THEN "false" ELSE IF wrong THEN "error" ELSE "combine"
  /\ claims' = SelectSeq(Pending, LAMBDA c : c \in call.valid /\ call.wallet[c] < Eligible[c])
  /\ k' = 1
  /\ UNCHANGED <<call, genesis_key_held, vin, vout, signed, vClaim, nCredit, nMinFee,
                 maxOutputs, outputsOk, current>>

\* The loop that adds small coins of the same key, unless the genesis key
\* is held (call.coins leaves out the outputs of the kernel's transaction).  It stops when there are enough inputs or the balance that may be
\* spent is reached.
StopCombining(value) ==
  \/ Len(vin) >= MaxInputs /\ (call.minterKey \/ nCredit > call.target)
  \/ Len(vin) >= MaxSmallInputs /\ nCredit < call.target
  \/ nCredit + value > call.allowed

\* Which answers "has the coin the kernel's key or that of vout[1]" may have:
\* without a minter key there is no vout[1] yet, and the read past the end of
\* vout may yield either.
SameKey(coin) ==
  CASE coin.key = "kernel" -> {TRUE}
    [] call.minterKey      -> {coin.key = "minter"}
    [] OTHER               -> BOOLEAN

Combine ==
  /\ pc = "combine" /\ k <= Len(call.coins)
  /\ LET coin == call.coins[k]
         stop == StopCombining(coin.value)
     IN \E same \in IF genesis_key_held THEN {FALSE} ELSE SameKey(coin) :
          LET may == same /\ call.combine
              add == may /\ ~stop /\ coin.value <= call.threshold
          IN /\ vin' = IF add THEN Append(vin, coin.value) ELSE vin
             /\ nCredit' = IF add THEN nCredit + coin.value ELSE nCredit
             /\ k' = IF may /\ stop THEN Len(call.coins) + 1 ELSE k + 1
  /\ UNCHANGED <<pc, call, genesis_key_held, claims, vout, signed, vClaim, nMinFee,
                 maxOutputs, outputsOk, current>>

\* The reward is the block's fees, once the coins could be read and their age
\* calculated (call.aged).
AddReward ==
  /\ pc = "combine" /\ k > Len(call.coins)
  /\ IF call.aged THEN nCredit' = nCredit + call.nFees /\ pc' = "round"
                  ELSE pc' = "error" /\ UNCHANGED nCredit
  /\ UNCHANGED <<call, genesis_key_held, claims, k, vin, vout, signed, vClaim, nMinFee,
                 maxOutputs, outputsOk, current>>

\* One round of the loop: the outputs of the last round are erased, vClaim is
\* not.
StartRound ==
  /\ pc = "round"
  /\ outputsOk' = TRUE
  /\ current' = nCredit - nMinFee
  /\ k' = 1
  /\ LET kept == IF call.minterKey THEN <<Out(Minter, 0)>> ELSE <<>>
     IN vout' = IF genesis_key_held /\ current' >= 0 /\ claims # <<>>
                THEN Append(kept, Out(Genesis, 0)) ELSE kept
  /\ pc' = IF ~genesis_key_held THEN "split" ELSE IF current' < 0 THEN "error" ELSE "pay"
  /\ UNCHANGED <<call, genesis_key_held, claims, vin, signed, vClaim, nCredit, nMinFee, maxOutputs>>

\* maxOutputs--, in a branch that does not read it.
OneLess == IF maxOutputs > 0 THEN maxOutputs - 1 ELSE 0

AmountToSend(c) == Min({current, Eligible[c] - call.wallet[c]})

\* One claim of the genesis branch.  An output that makes the transaction too
\* large is removed and the loop left, with its claim and amount counted.
PayClaim ==
  /\ pc = "pay" /\ k <= Len(claims)
  /\ LET c == claims[k]
         amount == AmountToSend(c)
         outs == Append(vout, Out(c, amount))
         large == Bytes(outs, signed) > MaxBytes
     IN \/ /\ current <= 0
           /\ k' = k + 1
           /\ UNCHANGED <<vout, vClaim, current, outputsOk, maxOutputs>>
        \/ /\ current > 0
           /\ vClaim' = IF Len(vClaim) < VClaimBound THEN Append(vClaim, c) ELSE vClaim
           /\ current' = current - amount
           /\ vout' = IF large THEN vout ELSE outs
           /\ outputsOk' = ~large
           /\ maxOutputs' = IF large THEN OneLess ELSE maxOutputs
           /\ k' = IF large THEN Len(claims) + 1 ELSE k + 1
  /\ UNCHANGED <<pc, call, genesis_key_held, claims, vin, signed, nCredit, nMinFee>>

\* Mutant: change that does not fit is removed without another round.
AddChange_Dropped ==
  /\ pc = "pay" /\ k > Len(claims)
  /\ LET outs == Append(vout, Out(Genesis, current))
     IN vout' = IF current > 0 /\ Bytes(outs, signed) <= MaxBytes THEN outs ELSE vout
  /\ pc' = "sign"
  /\ UNCHANGED <<call, genesis_key_held, claims, k, vin, signed, vClaim, nCredit, nMinFee,
                 maxOutputs, outputsOk, current>>

\* What is left of the kernel returns to the genesis key, if it fits.
AddChange ==
  /\ pc = "pay" /\ k > Len(claims)
  /\ LET outs == Append(vout, Out(Genesis, current))
         large == Bytes(outs, signed) > MaxBytes
     IN IF current > 0
        THEN /\ vout' = IF large THEN vout ELSE outs
             /\ outputsOk' = (outputsOk /\ ~large)
             /\ maxOutputs' = IF large THEN OneLess ELSE maxOutputs
        ELSE UNCHANGED <<vout, outputsOk, maxOutputs>>
  /\ pc' = "sign"
  /\ UNCHANGED <<call, genesis_key_held, claims, k, vin, signed, vClaim, nCredit, nMinFee, current>>

\* Mutant: off by one.
DesiredOutputs_Fewer ==
  IF call.constrain
  THEN Min({Max({current \div call.target, 1}), maxOutputs})
  ELSE Max({1} \cup {d \in 1 .. maxOutputs : d * call.target <= current})

\* RFC-0028: how many outputs to split into.  Without the limit on UTXOs this
\* is floor((sqrt(4 r^2 + 1) + 1) / 2) for r = current / target, that is the
\* largest d with d (d - 1) <= r^2.
DesiredOutputs ==
  IF call.constrain
  THEN Min({Max({current \div call.target, 1}), maxOutputs})
  ELSE Max({d \in 1 .. maxOutputs : d * (d - 1) * call.target * call.target <= current * current})

\* The other branch: equal outputs, the first with the remainder, as many as fit.
Split ==
  /\ pc = "split"
  /\ LET n == DesiredOutputs
         share == current \div n
         outs(m) == vout \o [i \in 1 .. m |->
                      Out(Kernel, IF i = 1 THEN current - share * (n - 1) ELSE share)]
         fit == Max({0} \cup {m \in 1 .. n : Bytes(outs(m), signed) <= MaxBytes})
     IN \/ /\ ~call.split
           /\ vout' = Append(vout, Out(Kernel, current)) /\ pc' = "sign"
           /\ UNCHANGED <<outputsOk, maxOutputs>>
        \/ /\ call.split /\ fit = n
           /\ vout' = outs(n) /\ pc' = "sign"
           /\ UNCHANGED <<outputsOk, maxOutputs>>
        \/ /\ call.split /\ fit = 0
           /\ vout' = outs(1) /\ pc' = "error"
           /\ UNCHANGED <<outputsOk, maxOutputs>>
        \/ /\ call.split /\ fit \in 1 .. n - 1
           /\ vout' = outs(fit) /\ pc' = "sign"
           /\ outputsOk' = FALSE /\ maxOutputs' = fit
  /\ UNCHANGED <<call, genesis_key_held, claims, k, vin, signed, vClaim, nCredit, nMinFee, current>>

\* Mutant: a fee that is just enough counts as too low.
RunAgain_Equal(nNeededFee) == nMinFee <= nNeededFee \/ ~outputsOk

RunAgain(nNeededFee) == nMinFee < nNeededFee \/ ~outputsOk

\* Sign, and repeat the round when the fee is too low or an output was removed.
\* Only a legacy wallet looks at whether it could sign.
Sign ==
  /\ pc = "sign"
  /\ signed' = (signed \/ call.signs)
  /\ IF call.signs \/ ~call.legacy
     THEN LET nNeededFee == NeededFee(Bytes(vout, signed'))
          IN IF RunAgain(nNeededFee)
             THEN pc' = "round" /\ nMinFee' = nNeededFee
             ELSE pc' = "done" /\ UNCHANGED nMinFee
     ELSE pc' = "error" /\ UNCHANGED nMinFee
  /\ UNCHANGED <<call, genesis_key_held, claims, k, vin, vout, vClaim, nCredit,
                 maxOutputs, outputsOk, current>>

\* The minter thread goes round and calls again with fresh locals.
MintAgain ==
  /\ pc \in Results
  /\ pc' = "kernel" /\ call' \in Calls
  /\ claims' = <<>> /\ k' = 1
  /\ vin' = <<>> /\ vout' = <<>> /\ signed' = FALSE
  /\ vClaim' = <<>>
  /\ nCredit' = 0 /\ nMinFee' = 0 /\ maxOutputs' = MaxOutputs
  /\ outputsOk' = TRUE /\ current' = 0
  /\ UNCHANGED genesis_key_held

CreateCoinStake ==
  \/ FindKernel \/ SelectClaims \/ Combine \/ AddReward \/ StartRound
  \/ PayClaim \/ AddChange \/ Split \/ Sign

Next == CreateCoinStake \/ MintAgain

\* A call that can take a step takes it: the minter thread holds the locks it
\* needs.  Whether it calls again is left open.
Spec == Init /\ [][Next]_vars /\ WF_vars(CreateCoinStake)
-----------------------------------------------------------------------------
Amount == Nat
Call ==
  [kernel : Amount, allowed : Amount, nFees : Amount, target : Amount \ {0},
   coins : Seq([value : Amount, key : {"kernel", "minter", "other"}]), threshold : Amount, nBlockTx : Nat, height : Nat, chain : [Claims -> Amount],
   wallet : [Claims -> Amount], valid : SUBSET Claims, genesis : BOOLEAN, minterKey : BOOLEAN,
   btcOpen : BOOLEAN, combine : BOOLEAN, constrain : BOOLEAN, split : BOOLEAN, signs : BOOLEAN,
   legacy : BOOLEAN, aged : BOOLEAN]

\* The types of the locals of CreateCoinStake.
TypeOK ==
  /\ pc \in Results \cup {"kernel", "select", "combine", "round", "pay", "split", "sign"}
  /\ call \in Call
  /\ {genesis_key_held, signed, outputsOk} \subseteq BOOLEAN
  /\ claims \in Seq(Claims) /\ vClaim \in Seq(Claims)
  /\ vin \in Seq(Amount)
  /\ vout \in Seq([to : Claims \cup {Genesis, Minter, Kernel}, value : Amount])
  /\ k \in Nat \ {0}
  /\ nCredit \in Amount /\ nMinFee \in Amount /\ current \in Amount
  /\ maxOutputs \in 0 .. MaxOutputs

\* A coinstake that CreateCoinStake returns spends its inputs and the block's
\* fees completely: however many rounds it took and whatever outputs were
\* removed on the way, the outputs add up to the credit less the fee.
\* No output and no remaining credit is negative while the rounds repeat.
NothingLost ==
  /\ TypeOK
  /\ pc = "done" =>
       /\ nCredit = FoldLeft(LAMBDA a, b : a + b, 0, vin) + call.nFees
       /\ Total(vout) = nCredit - nMinFee

\* What the claim c is paid by the outputs.
Paid(c) == Total(SelectSeq(vout, LAMBDA o : o.to = c))

\* The kernel of the genesis key is distributed to the oldest claims first: a
\* claim is never paid more than it may still receive on the active chain, none
\* is paid before an older pending one is satisfied, and nothing returns to the
\* genesis key while a pending claim still waits.
DistributesOldestFirst ==
  pc = "done" /\ genesis_key_held =>
    LET satisfied(c) == call.wallet[c] + Paid(c) = Eligible[c]
    IN /\ \A c \in Claims : call.chain[c] + Paid(c) <= Eligible[c]
       /\ \A c, d \in ToSet(claims) : c < d /\ Paid(d) > 0 => satisfied(c)
       /\ Paid(Genesis) > 0 => \A c \in ToSet(claims) : satisfied(c)

\* The log-distance of current / d from the target, as a fraction.
Far(d) == Max({current, d * call.target})
Near(d) == Min({current, d * call.target})

\* "Otherwise minimise the log-distance from the target" and "ensure the output
\* amount is no less than the target": the outputs of a round that all fit are
\* as many as these comments of the split branch ask for.
SplitIsClosest ==
  pc = "sign" /\ ~genesis_key_held /\ call.split /\ outputsOk =>
    LET n == Len(SelectSeq(vout, LAMBDA o : o.to = Kernel))
    IN IF call.constrain
       THEN /\ n > 1 => n * call.target <= current
            /\ n < maxOutputs => current < (n + 1) * call.target
       ELSE \A d \in 1 .. maxOutputs : Far(n) * Near(d) <= Far(d) * Near(n)

\* "If not enough fee paid or max outputs have changed requiring a new split and
\* fee, run again": a round is repeated only to make progress, so every call
\* returns, and releases cs_main and cs_wallet.
EveryCallReturns == pc = "kernel" ~> pc \in Results

\* The marker, the outputs of the claims and the change fit beside the signed inputs.
Fits ==
  BaseBytes + Len(vin) * (InBytes + SigBytes)
    + (Len(claims) + 2 + IF call.minterKey THEN 1 ELSE 0) * OutBytes <= MaxBytes

\* The call has returned, or its claims do not fit.
Ended == pc \in Results \/ (pc = "round" /\ genesis_key_held /\ ~Fits)

\* The same of every call but one: unless the genesis key is held and the outputs
\* for its claims do not fit into one coinstake, the rounds come to an end, however
\* the fee and the outputs change between them.
FittingCallReturns == pc = "kernel" ~> (Ended = TRUE)
=============================================================================
