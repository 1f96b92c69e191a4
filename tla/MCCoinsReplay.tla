--------------------------- MODULE MCCoinsReplay ---------------------------
(* Two branches above c1.  Transactions t1 and t2 are in different blocks   *)
(* on one branch and in the same block on the other.                        *)
EXTENDS CoinsReplay
CONSTANTS g, c1, a2, a3, b2, b3, o1, o2, o3, o4

TwoBranches == g :> NoBlock @@ c1 :> g @@ a2 :> c1 @@ a3 :> a2 @@ b2 :> c1 @@ b3 :> b2

coinbase(o) == [vin |-> {}, vout |-> {o}]
t1 == [vin |-> {o1}, vout |-> {o2}]
t2 == [vin |-> {o2}, vout |-> {o3}]

Transactions ==
  g :> <<>> @@ c1 :> <<coinbase(o1)>> @@ a2 :> <<t1>> @@ a3 :> <<t2>>
    @@ b2 :> <<coinbase(o4)>> @@ b3 :> <<t1, t2>>

ThreeCrashesOrFailedWrites == {[crashes |-> 3, writes |-> "cannot"], [crashes |-> 1, writes |-> "may"]}
=============================================================================
