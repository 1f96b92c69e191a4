----------------------------- MODULE TxRequest -----------------------------
(***************************************************************************)
(* TxRequestTracker (txrequest.cpp) with its callers in net_processing.cpp.*)
(* The tracker keeps, per peer and transaction hash, one announcement, and *)
(* per hash the choice of the next peer to ask in the states of the        *)
(* announcements (CANDIDATE_BEST); every operation repairs that choice     *)
(* locally.  The indexes are their orders: next and previous in ByTxHash   *)
(* are the neighbours in (state, priority).                                *)
(*                                                                         *)
(* Times count from now, as in TxRequestRules.  The sequence numbers, which*)
(* order the hashes of one getdata, are left out.                          *)
(***************************************************************************)
EXTENDS Integers, FiniteSets, FiniteSetsExt

CONSTANTS
  Peers,
  TxHashes,
  Preferred,     \* peers with fPreferredDownload
  RelayPeers,    \* peers with NetPermissionFlags::Relay
  TXID_RELAY_DELAY, NONPREF_PEER_TX_DELAY, OVERLOADED_PEER_TX_DELAY,
  GETDATA_TX_INTERVAL, MAX_PEER_TX_ANNOUNCEMENTS, MAX_PEER_TX_REQUEST_IN_FLIGHT,
  MaxBack,       \* bound on how often the clock is set back
  Worlds,        \* the scenarios: offers, who may announce what; txs, the pairs of the
                 \* txid and the wtxid of a transaction; the priorities; back and leave,
                 \* how often the clock is set back and a connection ends
  None

VARIABLES
  index,      \* m_index: [TxHashes -> [Peers -> None or [state, time]]]
  priority,   \* m_computer: [TxHashes -> [Peers -> Nat]]
  offers, txs, back, leave  \* the scenario, with what is left of it

world == <<offers, txs, back, leave>>
vars == <<index, priority, world>>

Candidates == {"DELAYED", "READY", "BEST"}
Selected == {"BEST", "REQUESTED"}

Times == -MaxBack .. (GETDATA_TX_INTERVAL + NONPREF_PEER_TX_DELAY + TXID_RELAY_DELAY
                        + OVERLOADED_PEER_TX_DELAY + MaxBack)

\* A row holds the announcements of one hash.
Rows ==
  [Peers -> {None} \cup [state : Candidates \cup {"REQUESTED", "COMPLETED"}, time : Times]]
NoRow == [p \in Peers |-> None]
State(row, p) == IF row[p] = None THEN "none" ELSE row[p].state
In(row, S) == {p \in Peers : State(row, p) \in S}

\* The order a salted hash gives the peers, with the preferred ones above the others.
IsPriority(f) ==
  /\ \A p, q \in Peers : p # q => f[p] # f[q]
  /\ \A p \in Preferred, q \in Peers \ Preferred : f[p] > f[q]

ASSUME WorldsAssumption == \A w \in Worlds : \A h \in TxHashes : IsPriority(w.priority[h])

Init ==
  /\ index = [h \in TxHashes |-> NoRow]
  /\ \E w \in Worlds : /\ offers = w.offers /\ txs = w.txs /\ priority = w.priority
                       /\ back = w.back /\ leave = w.leave
-----------------------------------------------------------------------------
(* The parts of TxRequestTracker::Impl, on the row of a hash whose         *)
(* priorities are prio.  No operation on one hash reads another, and       *)
(* m_peerinfo is changed only where a row is: the counts are taken from the*)
(* rows.                                                                   *)

\* A completed announcement has no time that matters.
SetState(row, p, s) ==
  [row EXCEPT ![p] = [state |-> s, time |-> IF s = "COMPLETED" THEN 0 ELSE @.time]]

Better(prio, p, S) == {q \in S : prio[q] > prio[p]}

\* A better READY announcement would be next to the new one in ByTxHash, and
\* then the BEST or REQUESTED one; with neither, the new one is the best.
PromoteCandidateReady(prio, row, p) ==
  LET best == In(row, {"BEST"})
  IN  IF \/ Better(prio, p, In(row, {"READY", "BEST"})) # {}
         \/ In(row, {"REQUESTED"}) # {}
      THEN SetState(row, p, "READY")
      ELSE [q \in Peers |-> IF q = p THEN [row[p] EXCEPT !.state = "BEST"]
                            ELSE IF q \in best THEN [row[q] EXCEPT !.state = "READY"]
                            ELSE row[q]]

\* The next best READY announcement takes the place of a selected one.
ChangeAndReselect_Only(prio, row, p, new) == SetState(row, p, new)
ChangeAndReselect(prio, row, p, new) ==
  LET ready == In(row, {"READY"})
      next == CHOOSE q \in ready : Better(prio, q, ready) = {}
  IN  IF State(row, p) \in Selected /\ ready # {}
      THEN SetState(SetState(row, next, "BEST"), p, new)
      ELSE SetState(row, p, new)

IsOnlyNonCompleted(row, p) == In(row, Candidates \cup {"REQUESTED"}) = {p}

\* Without an announcement that may still succeed the hash is forgotten.
MakeCompleted(prio, row, p) ==
  IF State(row, p) = "COMPLETED" THEN row
  ELSE IF IsOnlyNonCompleted(row, p) THEN NoRow
  ELSE ChangeAndReselect(prio, row, p, "COMPLETED")

\* The announcements whose time has come, oldest first; then, should the clock
\* have gone back, the selectable ones whose time is to come again, last first.
Advance(prio) ==
  LET f[row \in Rows] ==
        LET due == {p \in In(row, {"DELAYED", "REQUESTED"}) : row[p].time <= 0}
            p == CHOOSE p \in due : \A q \in due : row[p].time <= row[q].time
        IN  IF due = {} THEN row
            ELSE IF row[p].state = "DELAYED" THEN f[PromoteCandidateReady(prio, row, p)]
            ELSE f[MakeCompleted(prio, row, p)]
  IN  f

GoBack(prio) ==
  LET f[row \in Rows] ==
        LET early == {p \in In(row, {"READY", "BEST"}) : row[p].time > 0}
            p == CHOOSE p \in early : \A q \in early : row[p].time >= row[q].time
        IN  IF early = {} THEN row ELSE f[ChangeAndReselect(prio, row, p, "DELAYED")]
  IN  f

SetTimePoint_ForwardOnly(prio, row) == Advance(prio)[row]
SetTimePoint(prio, row) == GoBack(prio)[Advance(prio)[row]]

ReceivedInv(row, p, time) ==
  IF row[p] # None THEN row ELSE [row EXCEPT ![p] = [state |-> "DELAYED", time |-> time]]

\* Only called on what GetRequestable returned, which is BEST.
RequestedTx(row, p, time) == [row EXCEPT ![p] = [state |-> "REQUESTED", time |-> time]]

ReceivedResponse(prio, row, p) == IF row[p] = None THEN row ELSE MakeCompleted(prio, row, p)

\* For one hash: completed first, then erased.
DisconnectedPeer(prio, row, p) == [ReceivedResponse(prio, row, p) EXCEPT ![p] = None]

Count(ix, p) == Cardinality({h \in TxHashes : ix[h][p] # None})
CountInFlight(ix, p) == Cardinality({h \in TxHashes : State(ix[h], p) = "REQUESTED"})
-----------------------------------------------------------------------------
(* The callers in net_processing.cpp, each under cs_main.                  *)

AddTxAnnouncement_OneMore(ix, p, h, wait) ==
  LET nonpref == IF p \in Preferred THEN 0 ELSE NONPREF_PEER_TX_DELAY
      overloaded == IF p \notin RelayPeers /\ CountInFlight(ix, p) >= MAX_PEER_TX_REQUEST_IN_FLIGHT
                    THEN OVERLOADED_PEER_TX_DELAY ELSE 0
  IN  IF p \notin RelayPeers /\ Count(ix, p) > MAX_PEER_TX_ANNOUNCEMENTS THEN ix
      ELSE [ix EXCEPT ![h] = ReceivedInv(@, p, nonpref + wait + overloaded)]
AddTxAnnouncement(ix, p, h, wait) ==
  LET nonpref == IF p \in Preferred THEN 0 ELSE NONPREF_PEER_TX_DELAY
      overloaded == IF p \notin RelayPeers /\ CountInFlight(ix, p) >= MAX_PEER_TX_REQUEST_IN_FLIGHT
                    THEN OVERLOADED_PEER_TX_DELAY ELSE 0
  IN  IF p \notin RelayPeers /\ Count(ix, p) >= MAX_PEER_TX_ANNOUNCEMENTS THEN ix
      ELSE [ix EXCEPT ![h] = ReceivedInv(@, p, nonpref + wait + overloaded)]

\* A txid waits longer while there are peers that announce wtxids.
Waits == {0, TXID_RELAY_DELAY}

\* INV of a transaction for which AlreadyHaveTx is false.
ProcessInv(p, h) ==
  /\ \E wait \in Waits : index' = AddTxAnnouncement(index, p, h, wait)
  /\ UNCHANGED <<priority, world>>

\* GetRequestable brings the rows up to date, and returns what p is the choice for.
Current(h) == SetTimePoint(priority[h], index[h])

GetRequestable_Preferred(p) == {h \in TxHashes : p \in Preferred /\ State(Current(h), p) = "BEST"}
GetRequestable(p) == {h \in TxHashes : State(Current(h), p) = "BEST"}

\* What may be asked of p now is asked, unless we have it.
SendMessages(p) ==
  LET row == [h \in TxHashes |-> Current(h)]
      requestable == GetRequestable(p)
  IN  /\ \E had \in SUBSET requestable :
           index' = [h \in TxHashes |->
                       IF h \in had THEN NoRow
                       ELSE IF h \in requestable THEN RequestedTx(row[h], p, GETDATA_TX_INTERVAL)
                       ELSE row[h]]
      /\ UNCHANGED <<priority, world>>

ForgetTxHashes(ix, H) == [h \in TxHashes |-> IF h \in H THEN NoRow ELSE ix[h]]

\* A transaction of the given txid and wtxid arrives.  It is known already or
\* lacks its witness; it is accepted, or an orphan, whose unknown parents p is
\* taken to have announced; or it is rejected, for what its wtxid covers.
ProcessTx(p, txid, wtxid) ==
  LET ix == [h \in TxHashes |-> IF h \in {txid, wtxid}
                                THEN ReceivedResponse(priority[h], index[h], p) ELSE index[h]]
  IN  /\ \/ index' = ix
         \/ \E parents \in SUBSET {h \in TxHashes \ {txid, wtxid} : <<p, h>> \in offers}, wait \in Waits :
              LET Add(h, x) == AddTxAnnouncement(x, p, h, wait)
              IN  index' = ForgetTxHashes(FoldSet(Add, ix, parents), {txid, wtxid})
         \/ index' = ForgetTxHashes(ix, {wtxid})
      /\ UNCHANGED <<priority, world>>

ProcessNotFound(p, h) ==
  /\ index' = [index EXCEPT ![h] = ReceivedResponse(priority[h], @, p)]
  /\ UNCHANGED <<priority, world>>

BlockConnected(txid, wtxid) ==
  /\ index' = ForgetTxHashes(index, {txid, wtxid})
  /\ UNCHANGED <<priority, world>>

\* The connection to p ends, and p stands for the next peer from then on.
FinalizeNode(p) ==
  /\ leave > 0
  /\ leave' = leave - 1
  /\ index' = [h \in TxHashes |-> DisconnectedPeer(priority[h], index[h], p)]
  /\ UNCHANGED <<priority, offers, txs, back>>

\* GetTime, which follows the clock of the system, a tick later or earlier.
Shift(d) ==
  /\ index' = [h \in TxHashes |-> [p \in Peers |->
                 IF State(index[h], p) \in {"none", "COMPLETED"} THEN index[h][p]
                 ELSE [index[h][p] EXCEPT !.time = Max({@ + d, -MaxBack})]]]
  /\ UNCHANGED <<priority, offers, txs, leave>>

Tick == Shift(-1) /\ UNCHANGED back

ClockSetBack ==
  /\ back > 0
  /\ back' = back - 1
  /\ Shift(1)

Online == {o[1] : o \in offers}

Next ==
  \/ \E o \in offers : ProcessInv(o[1], o[2]) \/ ProcessNotFound(o[1], o[2])
  \/ \E p \in Online : SendMessages(p) \/ FinalizeNode(p)
  \/ \E p \in Online, w \in txs : ProcessTx(p, w[1], w[2])
  \/ \E w \in txs : BlockConnected(w[1], w[2])
  \/ Tick \/ ClockSetBack

\* What SendMessages(p) would change.
ToSend(p) == GetRequestable(p) \cup {h \in TxHashes : Current(h) # index[h]}

\* The message thread gets to every peer, and time passes.  The second conjunct is
\* WF_vars(SendMessages(p)): the action changes something exactly when ToSend(p) is
\* not empty, and leaves it empty.
Fairness ==
  /\ WF_vars(Tick)
  /\ \A p \in Peers : []<>(ToSend(p) = {})

Spec == Init /\ [][Next]_vars /\ Fairness
-----------------------------------------------------------------------------
(* Properties.                                                             *)

\* The types of the state.
TypeOK == index \in [TxHashes -> Rows]

\* What SanityCheck asserts of the index after every operation: per hash
\* something is still to come, at most one announcement is selected, one is if
\* any is ready, and the chosen candidate is the best of the ready ones.
IndexSane ==
  /\ TypeOK
  /\ \A h \in TxHashes :
       LET N(S) == In(index[h], S)
       IN  /\ N({"COMPLETED"}) # {} => N(Candidates \cup {"REQUESTED"}) # {}
           /\ Cardinality(N(Selected)) <= 1
           /\ N({"READY"}) # {} => N(Selected) # {}
           /\ \A p \in N({"BEST"}) : Better(priority[h], p, N({"READY"})) = {}

\* However often peers announce, a peer has no more announcements than allowed.
WithinLimits ==
  \A p \in Peers \ RelayPeers : Count(index, p) <= MAX_PEER_TX_ANNOUNCEMENTS

\* The announcements without the choice that the index keeps.
Rules ==
  INSTANCE TxRequestRules WITH
    Forgotten <- -MaxBack,
    req <- [h \in TxHashes |-> [p \in Peers |->
              IF index[h][p] = None THEN None
              ELSE [index[h][p] EXCEPT !.state = IF @ \in Candidates THEN "candidate"
                                                 ELSE IF @ = "REQUESTED" THEN "requested"
                                                 ELSE "completed"]]]

\* The tracker follows the rules of txrequest.h: whom it asks, and for what, is
\* what they give for the announcements there are.
FollowsRules == Rules!Spec

\* Every announcement leads to a request, or is settled: the peer before it in
\* the order cannot hold it up for ever.
EveryoneAsked ==
  \A h \in TxHashes, p \in Peers :
    (State(index[h], p) \in Candidates) ~> (State(index[h], p) \notin Candidates)
=============================================================================
