-------------------------- MODULE SnapshotExchange --------------------------
(***************************************************************************)
(* How nodes hand each other the peercoin snapshot, and how a claim that   *)
(* one of them publishes reaches the others (net_processing.cpp).  A node  *)
(* without the snapshot asks every peer once, when it handles the peer's   *)
(* VERSION; it asks again only a peer that sent SCACK, in the place where  *)
(* it would ask it for headers.  The header sync itself is left out.       *)
(*                                                                         *)
(* A connection has an end at each of its nodes: the Peer object there.  A *)
(* node that closes its end, or dies, leaves the other end open until the  *)
(* socket thread notices, and what it sent before may still be read.  One  *)
(* thread per node handles the messages, in the order they were sent.      *)
(* The timers are flags: TRUE while less than the interval has passed.     *)
(* They run out only while someone may still read them.                    *)
(***************************************************************************)
EXTENDS Integers, Sequences, FiniteSets

CONSTANTS
  Nodes,
  Links,               \* the pairs <<outbound, inbound>> that may connect
  Seeds,               \* the nodes that keep a peercoin_utxos.dat
  Users,               \* the nodes where somebody publishes the claim
  MAX_SNAPSHOT_SENDS,
  MaxInFlight,         \* bound on the requests, and on the snapshots, on their
                       \* way in one direction
  MaxEvents            \* bound on the crashes, the closed connections and the times the
                       \* user publishes the claim

ASSUME SnapshotExchangeAssumption ==
  /\ Links \subseteq {l \in Nodes \X Nodes : l[1] # l[2]}
  /\ MAX_SNAPSHOT_SENDS \in Nat

VARIABLES
  up,        \* the nodes that run
  snapshot,  \* the nodes whose m_hash_scripts is the one of consensus
  disk,      \* peercoin_snapshot.dat: "none", "torn" or "good"
  peer,      \* peer[n][m]: what n keeps about its connection to m
  chan,      \* chan[n][m]: the messages from n that m has not handled
  claims,    \* the nodes that registered the claim
  seen,      \* the nodes where claims_seen is less than 1.5 minutes old
  faults,
  published,
  announced  \* published when every node could receive it, and no fault since

vars == <<up, snapshot, disk, peer, chan, claims, seen, faults, published, announced>>

Linked(n, m) == <<n, m>> \in Links \/ <<m, n>> \in Links

Closed ==
  [open |-> FALSE, inbound |-> FALSE, connected |-> FALSE, scack_sent |-> FALSE,
   held |-> FALSE, requested |-> FALSE, sent |-> 0, sent_recently |-> FALSE]
Fresh(inbound) == [Closed EXCEPT !.open = TRUE, !.inbound = inbound]

Init ==
  /\ up = {}
  /\ snapshot = {}
  /\ disk = [n \in Nodes |-> "none"]
  /\ peer = [n \in Nodes |-> [m \in Nodes |-> Closed]]
  /\ chan = [n \in Nodes |-> [m \in Nodes |-> <<>>]]
  /\ claims = {}
  /\ seen = {}
  /\ faults = 0
  /\ published = 0
  /\ announced = FALSE
-----------------------------------------------------------------------------
(* Starting, connecting and stopping.                                      *)

\* LoadSnapshotFromDisk takes only a file with the right hash.  Otherwise
\* LoadPeercoinUTXOSFromDisk builds the snapshot and writes the file; when the
\* write fails the snapshot stays in memory all the same.
LoadSnapshotOnStartup(n) ==
  \/ /\ disk[n] = "good"
     /\ snapshot' = snapshot \cup {n}
     /\ UNCHANGED disk
  \/ /\ disk[n] # "good" /\ n \in Seeds
     /\ snapshot' = snapshot \cup {n}
     /\ \E d \in {"good", "torn"} : disk' = [disk EXCEPT ![n] = d]
  \/ /\ disk[n] # "good" /\ n \notin Seeds
     /\ UNCHANGED <<snapshot, disk>>

Start(n) ==
  /\ n \notin up
  /\ \A m \in Nodes : ~peer[n][m].open
  /\ up' = up \cup {n}
  /\ LoadSnapshotOnStartup(n)
  /\ UNCHANGED <<peer, chan, claims, seen, faults, published, announced>>

\* OpenNetworkConnection at n, AcceptConnection at m: the side that connects
\* sends its VERSION.
Connect(n, m) ==
  /\ <<n, m>> \in Links
  /\ n \in up /\ m \in up
  /\ ~peer[n][m].open /\ ~peer[m][n].open
  /\ peer' = [peer EXCEPT ![n][m] = Fresh(FALSE), ![m][n] = Fresh(TRUE)]
  /\ chan' = [chan EXCEPT ![n][m] = <<"version">>]
  /\ UNCHANGED <<up, snapshot, disk, claims, seen, faults, published, announced>>

\* FinalizeNode: what n knew about m goes with the Peer.
FinalizeNode(n, m) ==
  /\ peer' = [peer EXCEPT ![n][m] = Closed]
  /\ chan' = [chan EXCEPT ![m][n] = <<>>]

\* The socket thread finds the other end closed.
NoticeClosed(n, m) ==
  /\ n \in up
  /\ peer[n][m].open /\ ~peer[m][n].open
  /\ FinalizeNode(n, m)
  /\ UNCHANGED <<up, snapshot, disk, claims, seen, faults, published, announced>>

EventsLeft == MaxEvents - faults - published

\* A time-out, an eviction or the user closes a connection.
Disconnect(n, m) ==
  /\ EventsLeft >= 1
  /\ n \in up
  /\ peer[n][m].open /\ peer[m][n].open
  /\ faults' = faults + 1
  /\ announced' = FALSE
  /\ FinalizeNode(n, m)
  /\ UNCHANGED <<up, snapshot, disk, claims, seen, published>>

\* The process ends.  The claim index keeps the claims.
Die(n, d) ==
  /\ EventsLeft >= 1
  /\ n \in up
  /\ up' = up \ {n}
  /\ snapshot' = snapshot \ {n}
  /\ disk' = [disk EXCEPT ![n] = d]
  /\ peer' = [peer EXCEPT ![n] = [m \in Nodes |-> Closed]]
  /\ chan' = [k \in Nodes |-> [m \in Nodes |-> IF m = n THEN <<>> ELSE chan[k][m]]]
  /\ seen' = seen \ {n}
  /\ faults' = faults + 1
  /\ announced' = FALSE
  /\ UNCHANGED <<claims, published>>

Crash(n) == Die(n, disk[n])
-----------------------------------------------------------------------------
(* The messages.  PushMessage to an end that is gone is lost.              *)

Pending(n, m, msg) == \E i \in 1..Len(chan[n][m]) : chan[n][m][i] = msg
Push(n, m, msgs) == IF peer[m][n].open THEN chan[n][m] \o msgs ELSE chan[n][m]

\* n handles the next message of m, sending replies back and setting its Peer.
Handle(n, m, p, replies) ==
  /\ peer' = [peer EXCEPT ![n][m] = p]
  /\ chan' = [chan EXCEPT ![m][n] = Tail(@), ![n][m] = Push(n, m, replies)]

Ignore(n, m) ==
  /\ Handle(n, m, peer[n][m], <<>>)
  /\ UNCHANGED <<snapshot, disk, claims, seen>>

\* VERSION: an inbound peer gets ours; then VERACK, and SCACK or the request.
ProcessVersion_Unchecked(n, m) ==
  LET p == peer[n][m]
      ours == IF p.inbound THEN <<"version", "verack">> ELSE <<"verack">> IN
  /\ IF disk[n] # "none"
     THEN Handle(n, m, [p EXCEPT !.scack_sent = TRUE], Append(ours, "scack"))
     ELSE Handle(n, m, [p EXCEPT !.requested = TRUE], Append(ours, "getppcsns"))
  /\ UNCHANGED <<snapshot, disk, claims, seen>>
ProcessVersion(n, m) ==
  LET p == peer[n][m]
      ours == IF p.inbound THEN <<"version", "verack">> ELSE <<"verack">> IN
  /\ IF n \in snapshot
     THEN Handle(n, m, [p EXCEPT !.scack_sent = TRUE], Append(ours, "scack"))
     ELSE Handle(n, m, [p EXCEPT !.requested = TRUE], Append(ours, "getppcsns"))
  /\ UNCHANGED <<snapshot, disk, claims, seen>>

ProcessVerack(n, m) ==
  /\ Handle(n, m, [peer[n][m] EXCEPT !.connected = TRUE], <<>>)
  /\ UNCHANGED <<snapshot, disk, claims, seen>>

ProcessScack(n, m) ==
  /\ Handle(n, m, [peer[n][m] EXCEPT !.held = TRUE], <<>>)
  /\ UNCHANGED <<snapshot, disk, claims, seen>>

\* GETPEERCOINSNAPSHOT: at most MAX_SNAPSHOT_SENDS answers without a minute's
\* pause; a node without the snapshot answers nothing for that minute.
ProcessGetSnapshot(n, m) ==
  LET p == peer[n][m]
      sent == IF p.sent_recently THEN p.sent ELSE 0 IN
  /\ IF sent >= MAX_SNAPSHOT_SENDS
     THEN Handle(n, m, [p EXCEPT !.sent = sent], <<>>)
     ELSE IF n \notin snapshot
     THEN Handle(n, m, [p EXCEPT !.sent = MAX_SNAPSHOT_SENDS, !.sent_recently = TRUE], <<>>)
     ELSE Handle(n, m, [p EXCEPT !.sent = sent + 1, !.sent_recently = TRUE], <<"sendppcsns">>)
  /\ UNCHANGED <<snapshot, disk, claims, seen>>

\* Mutant: the snapshot is never kept.
ProcessSnapshot_Null(n, m) == Ignore(n, m)

\* SENDPEERCOINSNAPSHOT: the first one is kept and stored.  Only the peer that
\* sent it learns of it.  (The hash is right: every node has the same one.)
ProcessSnapshot(n, m) ==
  LET p == peer[n][m] IN
  IF n \in snapshot THEN Ignore(n, m)
  ELSE
  /\ snapshot' = snapshot \cup {n}
  /\ disk' = [disk EXCEPT ![n] = "good"]
  /\ Handle(n, m, [p EXCEPT !.scack_sent = TRUE], IF p.scack_sent THEN <<>> ELSE <<"scack">>)
  /\ UNCHANGED <<claims, seen>>

\* The process ends while StoreSnapshotToDisk writes, or its assertion fails.
CrashWhileStoring(n, m) ==
  /\ peer[n][m].open /\ peer[n][m].connected
  /\ chan[m][n] # <<>> /\ Head(chan[m][n]) = "sendppcsns"
  /\ n \notin snapshot
  /\ Die(n, "torn")

FullyConnected(n) == {k \in Nodes : peer[n][k].connected}

\* CLAIM: ignored without the snapshot and within 1.5 minutes of the last one;
\* registered if it is new, then relayed if the peer it came from said SCACK.
ProcessClaim_Known(n, m) ==
  LET new == n \notin claims
      ack == IF new /\ ~peer[n][m].scack_sent THEN <<"scack">> ELSE <<>> IN
  IF n \notin snapshot \/ n \in seen THEN Ignore(n, m)
  ELSE
  /\ seen' = seen \cup {n}
  /\ claims' = claims \cup {n}
  /\ peer' = [peer EXCEPT ![n][m].scack_sent = @ \/ new]
  /\ chan' = [chan EXCEPT
       ![m][n] = Tail(@),
       ![n] = [k \in Nodes |->
         IF k = m THEN Push(n, m, ack)
         ELSE IF ~new /\ peer[n][m].held /\ k \in FullyConnected(n) THEN Push(n, k, <<"claim">>)
         ELSE chan[n][k]]]
  /\ UNCHANGED <<snapshot, disk>>
ProcessClaim(n, m) ==
  LET new == n \notin claims
      ack == IF new /\ ~peer[n][m].scack_sent THEN <<"scack">> ELSE <<>> IN
  IF n \notin snapshot \/ n \in seen THEN Ignore(n, m)
  ELSE
  /\ seen' = seen \cup {n}
  /\ claims' = claims \cup {n}
  /\ peer' = [peer EXCEPT ![n][m].scack_sent = @ \/ new]
  /\ chan' = [chan EXCEPT
       ![m][n] = Tail(@),
       ![n] = [k \in Nodes |->
         IF k = m THEN Push(n, m, ack)
         ELSE IF peer[n][m].held /\ k \in FullyConnected(n) THEN Push(n, k, <<"claim">>)
         ELSE chan[n][k]]]
  /\ UNCHANGED <<snapshot, disk>>

InFlight(n, m, msg) == Cardinality({i \in 1..Len(chan[n][m]) : chan[n][m][i] = msg})

\* The snapshots fill the send buffer: a request waits for an answer until there
\* is room.
fPauseSend(n, m) == InFlight(n, m, "sendppcsns") >= MaxInFlight

\* ProcessMessages: before VERACK only the handshake and SCACK are handled.
ProcessMessage(n, m) ==
  /\ n \in up
  /\ peer[n][m].open
  /\ chan[m][n] # <<>>
  /\ LET msg == Head(chan[m][n]) IN
     \/ msg = "version" /\ ProcessVersion(n, m)
     \/ msg = "verack" /\ ProcessVerack(n, m)
     \/ msg = "scack" /\ ProcessScack(n, m)
     \/ msg \in {"getppcsns", "sendppcsns", "claim"} /\ ~peer[n][m].connected /\ Ignore(n, m)
     \/ msg = "getppcsns" /\ peer[n][m].connected /\ ~fPauseSend(n, m) /\ ProcessGetSnapshot(n, m)
     \/ msg = "sendppcsns" /\ peer[n][m].connected /\ ProcessSnapshot(n, m)
     \/ msg = "claim" /\ peer[n][m].connected /\ ProcessClaim(n, m)
  /\ UNCHANGED <<up, faults, published, announced>>
-----------------------------------------------------------------------------
(* What a node does on its own.                                            *)

\* MaybeSendGetHeaders, which SendMessages calls until a header sync started:
\* without the snapshot, it asks a peer that holds it, every 10 s.
MaybeSendGetHeaders(n, m) ==
  /\ n \in up \ snapshot
  /\ peer[n][m].connected
  /\ peer[n][m].held /\ ~peer[n][m].requested
  /\ InFlight(n, m, "getppcsns") < MaxInFlight
  /\ peer' = [peer EXCEPT ![n][m].requested = TRUE]
  /\ chan' = [chan EXCEPT ![n][m] = Push(n, m, <<"getppcsns">>)]
  /\ UNCHANGED <<up, snapshot, disk, claims, seen, faults, published, announced>>

\* More than 10 s after the request.
RequestOld(n, m) ==
  /\ peer[n][m].requested
  /\ n \notin snapshot /\ peer[n][m].held
  /\ peer' = [peer EXCEPT ![n][m].requested = FALSE]
  /\ UNCHANGED <<up, snapshot, disk, chan, claims, seen, faults, published, announced>>

\* More than SNAPSHOT_RATE_LIMIT_INTERVAL after the last answer.
SentOld(n, m) ==
  /\ peer[n][m].sent_recently
  /\ m \notin snapshot \/ Pending(m, n, "getppcsns")
  /\ peer' = [peer EXCEPT ![n][m].sent_recently = FALSE]
  /\ UNCHANGED <<up, snapshot, disk, chan, claims, seen, faults, published, announced>>

SeenOld(n) ==
  /\ n \in seen
  /\ \E m \in Nodes : Pending(m, n, "claim")
  /\ seen' = seen \ {n}
  /\ UNCHANGED <<up, snapshot, disk, peer, chan, claims, faults, published, announced>>

\* All nodes have the snapshot and are connected, and know it of each other.
AllReady ==
  /\ snapshot = Nodes
  /\ \A n, m \in Nodes : Linked(n, m) => peer[n][m].connected /\ peer[n][m].held

\* The claim dialog: registers a claim that is valid against the snapshot and
\* sends it to every peer.
PublishClaim(n) ==
  /\ EventsLeft >= 1
  /\ n \in Users \cap up \cap snapshot
  /\ published' = published + 1
  /\ announced' = (announced \/ (AllReady /\ claims = {}))
  /\ claims' = claims \cup {n}
  /\ chan' = [chan EXCEPT ![n] =
       [k \in Nodes |-> IF k \in FullyConnected(n) THEN Push(n, k, <<"claim">>) ELSE chan[n][k]]]
  /\ UNCHANGED <<up, snapshot, disk, peer, seen, faults>>

Next ==
  \/ \E n \in Nodes : Start(n) \/ Crash(n) \/ SeenOld(n) \/ PublishClaim(n)
  \/ \E n, m \in Nodes :
       \/ Connect(n, m) \/ NoticeClosed(n, m) \/ Disconnect(n, m)
       \/ ProcessMessage(n, m) \/ CrashWhileStoring(n, m)
       \/ MaybeSendGetHeaders(n, m) \/ RequestOld(n, m) \/ SentOld(n, m)

\* The threads of a running node run, time passes, and ThreadOpenConnections
\* keeps trying.  Nothing makes a stopped node start, or the user publish.
Fairness ==
  \A n, m \in Nodes :
    /\ WF_vars(Connect(n, m)) /\ WF_vars(NoticeClosed(n, m))
    /\ WF_vars(ProcessMessage(n, m)) /\ WF_vars(MaybeSendGetHeaders(n, m))
    /\ WF_vars(RequestOld(n, m)) /\ WF_vars(SentOld(n, m))

Spec == Init /\ [][Next]_vars /\ Fairness
-----------------------------------------------------------------------------
(* Properties.                                                             *)

Messages == {"version", "verack", "scack", "getppcsns", "sendppcsns", "claim"}

\* The types of the state; a node that is down has no open connection.
TypeOK ==
  /\ up \subseteq Nodes
  /\ snapshot \subseteq up
  /\ disk \in [Nodes -> {"none", "torn", "good"}]
  /\ \A n, m \in Nodes :
       /\ peer[n][m].open => n \in up /\ Linked(n, m)
       /\ ~peer[n][m].open => peer[n][m] = Closed
       /\ peer[n][m].sent \in 0..MAX_SNAPSHOT_SENDS
       /\ \A i \in 1..Len(chan[n][m]) : chan[n][m][i] \in Messages
  /\ claims \cup seen \subseteq Nodes

\* SCACK tells the truth for as long as the connection lasts: while both ends
\* are open, a peer that n believes to hold the snapshot, or that has an SCACK
\* on its way to n, holds it.  MaybeSendGetHeaders and the relay of claims act
\* on m_peercoin_snapshot_held without asking again.
HeldIsTrue ==
  \A n, m \in Nodes :
    /\ peer[n][m].open /\ peer[m][n].open
    /\ peer[n][m].held \/ Pending(m, n, "scack")
    => m \in snapshot

\* A node that sent SCACK will have the snapshot after a crash as well: it is
\* in the file, or the node can build it again (SCACK follows the assertion on
\* StoreSnapshotToDisk).
AckedIsStored ==
  \A n, m \in Nodes : peer[n][m].scack_sent => disk[n] = "good" \/ n \in Seeds

\* What is believed of an acknowledgement is true, and stays true across a crash.
AcksAreTrue == TypeOK /\ HeldIsTrue /\ AckedIsStored

\* A node that stays up, with a link to a seed that stays up, ends with the
\* snapshot, whatever crashes, torn files and closed
\* connections came before, and whoever it asked while they had none.
SeedServes ==
  \A n \in Nodes, m \in Seeds :
    Linked(n, m) =>
      (<>[](n \in up /\ m \in up) => <>[](n \in snapshot))

\* A claim published while every link is up and every node has said SCACK to every
\* peer is, once no copy of it is on its way, registered by all of them, neighbours
\* of the publisher or not, if no connection closed since: each node relays it on
\* the word of the peer it came from.
ClaimSpreads ==
  announced /\ (\A n, m \in Nodes : ~Pending(n, m, "claim")) => claims = Nodes
=============================================================================
