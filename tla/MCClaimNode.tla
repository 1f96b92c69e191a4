---------------------------- MODULE MCClaimNode ----------------------------
(***************************************************************************)
(* Small instances of ClaimNode for TLC.  P and Q are snapshot scripts     *)
(* (proved by a signature and by a dummy transaction), B is a Bitcoin      *)
(* script, T and U are targets.                                            *)
(***************************************************************************)
EXTENDS ClaimNodeInv

CONSTANTS P, Q, B, T, U

VARIABLE scenario  \* the scenario a behaviour is in

MCScript == {P, Q, B, T, U}
MCBalance == [s \in MCScript |-> IF s \in {P, Q} THEN 2 ELSE IF s = B THEN 1 ELSE 0]

From(s, d) == [source |-> s, target |-> d, good |-> TRUE]
Forged(s, d) == [source |-> s, target |-> d, good |-> FALSE]

To(d, v) == [to |-> d, value |-> v, queue |-> {}]
Change == To(Genesis, 0)
Positions(qs) == [to |-> OpReturn, value |-> 0, queue |-> qs]

Block(vc, vo) == [vClaim |-> vc, vout |-> vo, genesis |-> TRUE, period |-> "early"]
At(period, body) == [body EXCEPT !.period = period]

\* Payments: a small part to P, all of P to another target, and P and Q together.
PayP == Block(<<From(P, T)>>, <<Change, To(T, 5)>>)
PayBoth == Block(<<From(Q, U), From(P, T)>>, <<Change, To(U, 20), To(T, 10)>>)
PayBodies == {PayP, Block(<<From(P, U)>>, <<Change, To(U, 20)>>), PayBoth}

\* Queued positions: each of the two there are, and two OP_RETURN outputs of which
\* the second counts.
Queues(outs) == Block(<<From(P, T)>>, <<Change>> \o outs)
QueueBodies ==
  {Queues(<<Positions({0})>>), Queues(<<Positions({1})>>), Queues(<<Positions({0}), Positions({1})>>)}

\* Crashes: two claims in one block, and a claim that competes with both; with
\* failing index writes also a block that carries no claim, and one that queues a
\* position out of range.
CrashBodies == {PayBoth, Block(<<From(P, U)>>, <<Change, To(U, 20)>>)}
FailBodies ==
  CrashBodies \cup {Block(<<>>, <<Change, To(T, 20)>>), Queues(<<Positions({1, 2})>>)}
CrashSets == {<<From(Q, U), From(P, T)>>}

\* Bitcoin claims: in time, too early, too late, forged, spending no genesis
\* output, and more claims than outputs; an OP_RETURN with a value, and one after
\* Bitcoin claims are accepted.
BtcBody == Block(<<From(B, T)>>, <<Change, To(T, 30)>>)
BtcBodies ==
  {At("btc", BtcBody), BtcBody, At("over", BtcBody),
   [At("btc", BtcBody) EXCEPT !.genesis = FALSE],
   At("btc", Block(<<Forged(B, U)>>, <<Change, To(U, 30)>>)),
   At("btc", Block(<<From(B, U), From(B, T)>>, <<Change>>)),
   At("btc", Queues(<<Positions({0}), [Positions({1}) EXCEPT !.value = 1]>>))}

-----------------------------------------------------------------------------
\* The scenarios: which bodies and claims arrive, which bodies are tested as block
\* templates, how many blocks there are, whether the node crashes and starts again,
\* and whether writes to the claim index may fail.
Scenarios ==
  [pay |-> [bodies |-> PayBodies, tests |-> {PayP}, gossip |-> {}, blocks |-> 3],
   queue |-> [bodies |-> QueueBodies, tests |-> {PayP}, gossip |-> {}, blocks |-> 3],
   crash |-> [bodies |-> CrashBodies, tests |-> {PayBoth}, gossip |-> {From(Q, T)}, blocks |-> 2],
   fail |-> [bodies |-> FailBodies, tests |-> {PayBoth}, gossip |-> {From(Q, T)}, blocks |-> 1],
   btc |-> [bodies |-> BtcBodies, tests |-> {BtcBody},
            gossip |-> {From(B, U), From(P, T)}, blocks |-> 2]]
Restarts == {"crash", "fail", "btc"}
WithClaimSets == {"crash", "fail"}
WritesFail == {"fail"}

MCBodies == UNION {Scenarios[s].bodies \cup Scenarios[s].tests : s \in DOMAIN Scenarios}
MCGossip == UNION {Scenarios[s].gossip : s \in DOMAIN Scenarios}

\* What has arrived belongs to the scenario.
Arrived ==
  /\ Len(blocks) <= Scenarios[scenario].blocks
  /\ \A b \in Ids : blocks[b].body \in Scenarios[scenario].bodies
  /\ job.just => job.body \in Scenarios[scenario].tests
  /\ job.phase = "claimset" => scenario \in WithClaimSets
GossipArrives ==
  Free /\ Free' => \A s \in DOMAIN claims' \ DOMAIN claims :
    \E c \in Scenarios[scenario].gossip : s = c.source /\ claims'[s].target = c.target

MCInit == Init /\ scenario \in DOMAIN Scenarios
MCNext ==
  /\ UNCHANGED scenario
  /\ Running \/ (scenario \in Restarts /\ Persistence)
  /\ Arrived' /\ GossipArrives
  /\ scenario \in WritesFail \/ written'
MCSpec == MCInit /\ [][MCNext]_<<vars, scenario>>
=============================================================================
