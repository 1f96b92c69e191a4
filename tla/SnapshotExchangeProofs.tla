----------------------- MODULE SnapshotExchangeProofs -----------------------
(***************************************************************************)
(* AcksAreTrue and ClaimSpreads for any number of nodes, links, seeds,     *)
(* faults and messages.  An SCACK is true when it is sent; it stays true   *)
(* because the snapshot leaves a node only with the process, which closes  *)
(* that end of the connection, and because no message survives into the    *)
(* next connection: the queue towards a closed end is empty.               *)
(*                                                                         *)
(* A claim spreads because of what holds across every link while it does   *)
(* (Relay): of two neighbours of which one registered the claim, the other *)
(* has registered it too or has a copy on its way.                         *)
(***************************************************************************)
EXTENDS SnapshotExchange, TLAPS

PeerState ==
  [open : BOOLEAN, inbound : BOOLEAN, connected : BOOLEAN, scack_sent : BOOLEAN,
   held : BOOLEAN, requested : BOOLEAN, sent : Nat, sent_recently : BOOLEAN]

Types ==
  /\ up \subseteq Nodes
  /\ snapshot \subseteq up
  /\ disk \in [Nodes -> {"none", "torn", "good"}]
  /\ peer \in [Nodes -> [Nodes -> PeerState]]
  /\ chan \in [Nodes -> [Nodes -> Seq(Messages)]]

\* An end that is closed keeps nothing, and no message waits for it.
Ends ==
  \A n, m \in Nodes :
    /\ peer[n][m].open => n \in up /\ n # m
    /\ ~peer[n][m].open => peer[n][m] = Closed /\ chan[m][n] = <<>>

\* What a running node has in memory it would have again after a crash.
Stored == \A n \in snapshot : disk[n] = "good" \/ n \in Seeds

IInv == Types /\ Ends /\ HeldIsTrue /\ Stored /\ AckedIsStored
-----------------------------------------------------------------------------
Has(s, x) == \E i \in 1..Len(s) : s[i] = x

\* What the rest of a queue contains, the queue contains.
LEMMA HasTail ==
  ASSUME NEW s \in Seq(Messages), s # <<>>, NEW x, Has(Tail(s), x)
  PROVE  Has(s, x)
  <1>1. PICK i \in 1..Len(Tail(s)) : Tail(s)[i] = x  BY Zenon DEF Has
  <1>2. i + 1 \in 1..Len(s) /\ s[i + 1] = x  BY <1>1
  <1> QED  BY <1>2, Zenon DEF Has

\* A message of two queues put together is in one of them.
LEMMA HasConcat ==
  ASSUME NEW s \in Seq(Messages), NEW t \in Seq(Messages), NEW x, Has(s \o t, x)
  PROVE  Has(s, x) \/ Has(t, x)
  <1>1. PICK i \in 1..Len(s \o t) : (s \o t)[i] = x  BY Zenon DEF Has
  <1>2. CASE i <= Len(s)
    <2>1. i \in 1..Len(s) /\ s[i] = x  BY <1>1, <1>2
    <2> QED  BY <2>1, Zenon DEF Has
  <1>3. CASE i > Len(s)
    <2>1. i - Len(s) \in 1..Len(t) /\ t[i - Len(s)] = x  BY <1>1, <1>3
    <2> QED  BY <2>1, Zenon DEF Has
  <1> QED  BY <1>1, <1>2, <1>3

\* A closed end knows nothing.
LEMMA ClosedType == Closed \in PeerState /\ ~Closed.open /\ ~Closed.held /\ ~Closed.scack_sent
  BY Zenon DEF Closed, PeerState

\* PushMessage delivers only to an open end, and only what it was given.
LEMMA PushFacts ==
  ASSUME IInv, NEW n \in Nodes, NEW m \in Nodes, NEW msgs \in Seq(Messages)
  PROVE  /\ Push(n, m, msgs) \in Seq(Messages)
         /\ ~peer[m][n].open => Push(n, m, msgs) = <<>>
         /\ \A x : Has(Push(n, m, msgs), x) => Has(chan[n][m], x) \/ Has(msgs, x)
  <1>1. chan[n][m] \in Seq(Messages)  BY Zenon DEF IInv, Types
  <1>2. CASE peer[m][n].open
    <2>1. Push(n, m, msgs) = chan[n][m] \o msgs  BY <1>2, Zenon DEF Push
    <2> QED  BY <1>1, <1>2, <2>1, HasConcat
  <1>3. CASE ~peer[m][n].open
    <2>1. Push(n, m, msgs) = chan[n][m]  BY <1>3, Zenon DEF Push
    <2>2. chan[n][m] = <<>>  BY <1>3, Zenon DEF IInv, Ends
    <2> QED  BY <1>1, <2>1, <2>2, Zenon
  <1> QED  BY <1>2, <1>3, Zenon

\* What an assignment to one entry of a table leaves there.
LEMMA OneEntry ==
  ASSUME NEW S, NEW V, NEW f \in [S -> [S -> V]], NEW i \in S, NEW k \in S, NEW v,
         NEW x \in S, NEW y \in S
  PROVE  [f EXCEPT ![i][k] = v][x][y] = IF x = i /\ y = k THEN v ELSE f[x][y]
  OBVIOUS
-----------------------------------------------------------------------------
(* A step that closes and opens no end: n handles a message of m, or acts  *)
(* on its own.                                                             *)
LEMMA Preserved ==
  ASSUME IInv, NEW n \in Nodes, NEW m \in Nodes, NEW p \in PeerState,
         peer[n][m].open, p.open,
         up' = up,
         snapshot' \subseteq up, snapshot \subseteq snapshot',
         disk' \in [Nodes -> {"none", "torn", "good"}],
         \A k \in Nodes : disk[k] = "good" => disk'[k] = "good",
         Stored',
         peer' = [peer EXCEPT ![n][m] = p],
         p.held => peer[n][m].held \/ Has(chan[m][n], "scack"),
         p.scack_sent => peer[n][m].scack_sent \/ n \in snapshot',
         chan' \in [Nodes -> [Nodes -> Seq(Messages)]],
         \A x, y \in Nodes : ~peer[y][x].open => chan'[x][y] = <<>>,
         \A x, y \in Nodes : Has(chan'[x][y], "scack") =>
                               Has(chan[x][y], "scack") \/ x \in snapshot'
  PROVE  IInv'
  <1>1. Types'  BY Zenon DEF IInv, Types
  <1>2. ASSUME NEW x \in Nodes, NEW y \in Nodes
        PROVE  /\ peer'[x][y].open = peer[x][y].open
               /\ ~(x = n /\ y = m) => peer'[x][y] = peer[x][y]
               /\ x = n /\ y = m => peer'[x][y] = p
    <2>1. peer \in [Nodes -> [Nodes -> PeerState]]  BY Zenon DEF IInv, Types
    <2>2. ~(x = n /\ y = m) => peer'[x][y] = peer[x][y]  BY <2>1, Zenon
    <2>3. x = n /\ y = m => peer'[x][y] = p  BY <2>1, Zenon
    <2> QED  BY <2>2, <2>3, <2>1, Zenon DEF PeerState
  <1>3. Ends'
    <2> SUFFICES ASSUME NEW x \in Nodes, NEW y \in Nodes
                 PROVE  /\ peer'[x][y].open => x \in up' /\ x # y
                        /\ ~peer'[x][y].open => peer'[x][y] = Closed /\ chan'[y][x] = <<>>
      BY Zenon DEF Ends
    <2>0. Ends  BY Zenon DEF IInv
    <2>1. peer[x][y].open => x \in up /\ x # y  BY <2>0, Zenon DEF Ends
    <2>2. ASSUME ~peer[x][y].open PROVE peer[x][y] = Closed
      BY <2>0, <2>2, SMTT(60) DEF Ends
    <2>3. peer'[x][y].open = peer[x][y].open  BY <1>2, Zenon
    <2>4. ~peer[x][y].open => ~(x = n /\ y = m)  BY Zenon
    <2>5. ~(x = n /\ y = m) => peer'[x][y] = peer[x][y]  BY <1>2
    <2>6. ~peer[x][y].open => chan'[y][x] = <<>>  BY Zenon
    <2> QED  BY <2>1, <2>2, <2>3, <2>4, <2>5, <2>6, Zenon
  <1>4. HeldIsTrue'
    <2> SUFFICES ASSUME NEW x \in Nodes, NEW y \in Nodes,
                        peer'[x][y].open, peer'[y][x].open,
                        peer'[x][y].held \/ Has(chan'[y][x], "scack")
                 PROVE  y \in snapshot'
      BY Zenon DEF HeldIsTrue, Pending, Has
    <2>1. peer[x][y].open /\ peer[y][x].open  BY <1>2, ZenonT(40)
    <2>2. peer[x][y].held \/ Has(chan[y][x], "scack") => y \in snapshot
      BY <2>1, Zenon DEF IInv, HeldIsTrue, Pending, Has
    <2>3. CASE x = n /\ y = m
      <3>1. peer'[x][y] = p  BY <1>2, <2>3, Zenon
      <3> QED  BY <2>2, <2>3, <3>1, Zenon
    <2>4. CASE ~(x = n /\ y = m)
      <3>1. peer'[x][y] = peer[x][y]  BY <1>2, <2>4, ZenonT(40)
      <3> QED  BY <2>2, <3>1, Zenon
    <2> QED  BY <2>3, <2>4, Zenon
  <1>5. AckedIsStored'
    <2> SUFFICES ASSUME NEW x \in Nodes, NEW y \in Nodes, peer'[x][y].scack_sent
                 PROVE  disk'[x] = "good" \/ x \in Seeds
      BY Zenon DEF AckedIsStored
    <2>1. peer[x][y].scack_sent \/ x \in snapshot'
      <3>1. CASE x = n /\ y = m
        <4>1. peer'[x][y] = p  BY <1>2, <3>1, Zenon
        <4> QED  BY <3>1, <4>1, Zenon
      <3>2. CASE ~(x = n /\ y = m)
        <4>1. peer'[x][y] = peer[x][y]  BY <1>2, <3>2, Zenon
        <4> QED  BY <4>1, Zenon
      <3> QED  BY <3>1, <3>2, Zenon
    <2>2. CASE x \in snapshot'  BY <2>2, Zenon DEF Stored
    <2>3. CASE peer[x][y].scack_sent
      <3>1. disk[x] = "good" \/ x \in Seeds  BY <2>3, Zenon DEF IInv, AckedIsStored
      <3> QED  BY <3>1, Zenon
    <2> QED  BY <2>1, <2>2, <2>3, Zenon
  <1> QED  BY <1>1, <1>3, <1>4, <1>5, Zenon DEF IInv

\* A handler that answers the peer only.
LEMMA Handled ==
  ASSUME IInv, NEW n \in Nodes, NEW m \in Nodes, NEW p \in PeerState,
         NEW replies \in Seq(Messages),
         peer[n][m].open, p.open, chan[m][n] # <<>>,
         up' = up,
         snapshot' \subseteq up, snapshot \subseteq snapshot',
         disk' \in [Nodes -> {"none", "torn", "good"}],
         \A k \in Nodes : disk[k] = "good" => disk'[k] = "good",
         Stored',
         Handle(n, m, p, replies),
         p.held => peer[n][m].held \/ Head(chan[m][n]) = "scack",
         p.scack_sent => peer[n][m].scack_sent \/ n \in snapshot',
         Has(replies, "scack") => n \in snapshot'
  PROVE  IInv'
  <1>1. n # m  BY Zenon DEF IInv, Ends
  <1>2. chan \in [Nodes -> [Nodes -> Seq(Messages)]]  BY Zenon DEF IInv, Types
  <1>3. /\ Push(n, m, replies) \in Seq(Messages)
        /\ ~peer[m][n].open => Push(n, m, replies) = <<>>
        /\ Has(Push(n, m, replies), "scack") => Has(chan[n][m], "scack") \/ Has(replies, "scack")
    BY PushFacts, Zenon
  <1>4. chan[m][n] \in Seq(Messages) /\ Tail(chan[m][n]) \in Seq(Messages)  BY <1>2
  <1>5. ASSUME NEW x \in Nodes, NEW y \in Nodes
        PROVE  /\ x = n /\ y = m => chan'[x][y] = Push(n, m, replies)
               /\ x = m /\ y = n => chan'[x][y] = Tail(chan[m][n])
               /\ ~(x = n /\ y = m) /\ ~(x = m /\ y = n) => chan'[x][y] = chan[x][y]
    BY <1>1, <1>2, Zenon DEF Handle
  <1>6. chan' \in [Nodes -> [Nodes -> Seq(Messages)]]
    BY <1>1, <1>2, <1>3, <1>4, Zenon DEF Handle
  <1>7. \A x, y \in Nodes : ~peer[y][x].open => chan'[x][y] = <<>>
    <2> TAKE x, y \in Nodes
    <2>1. ~peer[y][x].open => chan[x][y] = <<>>  BY Zenon DEF IInv, Ends
    <2> QED  BY <1>3, <1>5, <2>1, Zenon
  <1>8. \A x, y \in Nodes : Has(chan'[x][y], "scack") =>
                              Has(chan[x][y], "scack") \/ x \in snapshot'
    <2> TAKE x, y \in Nodes
    <2>1. Has(Tail(chan[m][n]), "scack") => Has(chan[m][n], "scack")  BY <1>4, HasTail, Zenon
    <2> QED  BY <1>3, <1>5, <2>1
  <1>9. p.held => peer[n][m].held \/ Has(chan[m][n], "scack")
    <2>1. 1 \in 1..Len(chan[m][n]) /\ Head(chan[m][n]) = chan[m][n][1]  BY <1>4
    <2> QED  BY <2>1, Zenon DEF Has
  <1>10. peer' = [peer EXCEPT ![n][m] = p]  BY Zenon DEF Handle
  <1> QED  BY <1>6, <1>7, <1>8, <1>9, <1>10, Preserved, Zenon

\* The message in a queue of one.
LEMMA Has1 == ASSUME NEW a \in Messages, NEW x PROVE Has(<<a>>, x) => x = a
  BY DEF Has
\* The messages in a queue of two.
LEMMA Has2 ==
  ASSUME NEW a \in Messages, NEW b \in Messages, NEW x, Has(<<a, b>>, x)
  PROVE  x = a \/ x = b
  <1>1. PICK i \in 1..Len(<<a, b>>) : <<a, b>>[i] = x  BY Zenon DEF Has
  <1>2. i = 1 \/ i = 2  BY <1>1
  <1> QED  BY <1>1, <1>2
\* Appending adds one message.
LEMMA HasAppend ==
  ASSUME NEW s \in Seq(Messages), NEW a \in Messages
  PROVE  /\ Append(s, a) \in Seq(Messages)
         /\ \A x : Has(Append(s, a), x) => Has(s, x) \/ x = a
  <1>1. Append(s, a) \in Seq(Messages)  OBVIOUS
  <1>2. ASSUME NEW x, Has(Append(s, a), x)
        PROVE  Has(s, x) \/ x = a
    <2>1. PICK i \in 1..Len(Append(s, a)) : Append(s, a)[i] = x  BY <1>2, Zenon DEF Has
    <2>2. i \in 1..Len(s) \/ i = Len(s) + 1  BY <2>1
    <2>3. i \in 1..Len(s) => s[i] = x  BY <2>1
    <2>4. i = Len(s) + 1 => x = a  BY <2>1
    <2> QED  BY <2>2, <2>3, <2>4, Zenon DEF Has
  <1> QED  BY <1>1, <1>2, Zenon
\* An empty queue contains nothing.
LEMMA Has0 == ASSUME NEW x PROVE ~Has(<<>>, x)
  BY DEF Has

\* Nothing is added to the snapshot, the disk or the queues but a message that
\* is not SCACK.
LEMMA Quiet ==
  ASSUME IInv, NEW n \in Nodes, NEW m \in Nodes, NEW p \in PeerState,
         NEW replies \in Seq(Messages),
         peer[n][m].open, p.open, chan[m][n] # <<>>, UNCHANGED <<up, snapshot, disk>>,
         Handle(n, m, p, replies),
         p.held => peer[n][m].held \/ Head(chan[m][n]) = "scack",
         p.scack_sent => peer[n][m].scack_sent \/ n \in snapshot,
         Has(replies, "scack") => n \in snapshot
  PROVE  IInv'
  <1>1. /\ snapshot' \subseteq up /\ snapshot \subseteq snapshot'
        /\ disk' \in [Nodes -> {"none", "torn", "good"}]
        /\ \A k \in Nodes : disk[k] = "good" => disk'[k] = "good"
        /\ Stored'
    BY Zenon DEF IInv, Types, Stored
  <1> QED  BY <1>1, Handled, Zenon

\* A message that is dropped keeps the invariant.
LEMMA IgnoreStep ==
  ASSUME IInv, NEW n \in Nodes, NEW m \in Nodes,
         peer[n][m].open, chan[m][n] # <<>>, up' = up, Ignore(n, m)
  PROVE  IInv'
  <1>1. peer[n][m] \in PeerState  BY Zenon DEF IInv, Types
  <1>2. <<>> \in Seq(Messages) /\ ~Has(<<>>, "scack")  BY Has0
  <1> QED  BY <1>1, <1>2, Quiet, Zenon DEF Ignore

\* Handling VERSION keeps the invariant.
LEMMA VersionStep ==
  ASSUME IInv, NEW n \in Nodes, NEW m \in Nodes,
         peer[n][m].open, chan[m][n] # <<>>, up' = up, ProcessVersion(n, m)
  PROVE  IInv'
  <1> DEFINE p == peer[n][m]
             ours == IF p.inbound THEN <<"version", "verack">> ELSE <<"verack">>
             acked == [p EXCEPT !.scack_sent = TRUE]
             asked == [p EXCEPT !.requested = TRUE]
  <1>1. p \in PeerState  BY Zenon DEF IInv, Types
  <1>2. acked \in PeerState /\ acked.open = p.open /\ acked.held = p.held  BY <1>1, Zenon DEF PeerState
  <1>3. /\ asked \in PeerState /\ asked.open = p.open /\ asked.held = p.held
        /\ asked.scack_sent = p.scack_sent
    BY <1>1, Zenon DEF PeerState
  <1>4. ours \in Seq(Messages) /\ ~Has(ours, "scack")
    <2>1. {"version", "verack", "scack", "getppcsns"} \subseteq Messages  BY Zenon DEF Messages
    <2>2. <<"version", "verack">> \in Seq(Messages) /\ <<"verack">> \in Seq(Messages)  BY <2>1
    <2>3. ~Has(<<"version", "verack">>, "scack")  BY <2>1, Has2, Zenon
    <2>4. ~Has(<<"verack">>, "scack")  BY <2>1, Has1, Zenon
    <2> QED  BY <2>2, <2>3, <2>4, Zenon
  <1>5. Append(ours, "scack") \in Seq(Messages)
    <2> HIDE DEF ours
    <2> QED  BY <1>4, HasAppend, Zenon DEF Messages
  <1>6. Append(ours, "getppcsns") \in Seq(Messages) /\ ~Has(Append(ours, "getppcsns"), "scack")
    <2> HIDE DEF ours
    <2> QED  BY <1>4, HasAppend, Zenon DEF Messages
  <1>7. UNCHANGED <<snapshot, disk>>  BY Zenon DEF ProcessVersion
  <1>8. CASE n \in snapshot
    <2>1. Handle(n, m, acked, Append(ours, "scack"))  BY <1>8, Zenon DEF ProcessVersion
    <2> HIDE DEF acked, ours
    <2> QED  BY <1>2, <1>5, <1>7, <1>8, <2>1, Quiet, Zenon
  <1>9. CASE n \notin snapshot
    <2>1. Handle(n, m, asked, Append(ours, "getppcsns"))  BY <1>9, Zenon DEF ProcessVersion
    <2> HIDE DEF asked, ours
    <2> QED  BY <1>3, <1>6, <1>7, <2>1, Quiet, Zenon
  <1> QED  BY <1>8, <1>9, Zenon

\* Handling VERACK keeps the invariant.
LEMMA VerackStep ==
  ASSUME IInv, NEW n \in Nodes, NEW m \in Nodes,
         peer[n][m].open, chan[m][n] # <<>>, up' = up, ProcessVerack(n, m)
  PROVE  IInv'
  <1> DEFINE p == [peer[n][m] EXCEPT !.connected = TRUE]
  <1>1. peer[n][m] \in PeerState  BY Zenon DEF IInv, Types
  <1>2. /\ p \in PeerState /\ p.open /\ p.held = peer[n][m].held
        /\ p.scack_sent = peer[n][m].scack_sent
    BY <1>1, Zenon DEF PeerState
  <1>3. Handle(n, m, p, <<>>) /\ UNCHANGED <<snapshot, disk>>  BY Zenon DEF ProcessVerack
  <1>4. <<>> \in Seq(Messages) /\ ~Has(<<>>, "scack")  BY Has0
  <1> HIDE DEF p
  <1> QED  BY <1>2, <1>3, <1>4, Quiet, Zenon

\* Handling SCACK keeps the invariant: what it says was true when it was sent and still is.
LEMMA ScackStep ==
  ASSUME IInv, NEW n \in Nodes, NEW m \in Nodes,
         peer[n][m].open, chan[m][n] # <<>>, up' = up,
         Head(chan[m][n]) = "scack", ProcessScack(n, m)
  PROVE  IInv'
  <1> DEFINE p == [peer[n][m] EXCEPT !.held = TRUE]
  <1>1. peer[n][m] \in PeerState  BY Zenon DEF IInv, Types
  <1>2. p \in PeerState /\ p.open /\ p.scack_sent = peer[n][m].scack_sent
    BY <1>1, Zenon DEF PeerState
  <1>3. Handle(n, m, p, <<>>) /\ UNCHANGED <<snapshot, disk>>  BY Zenon DEF ProcessScack
  <1>4. <<>> \in Seq(Messages) /\ ~Has(<<>>, "scack")  BY Has0
  <1> HIDE DEF p
  <1> QED  BY <1>2, <1>3, <1>4, Quiet, Zenon

\* Handling GETPEERCOINSNAPSHOT keeps the invariant.
LEMMA GetSnapshotStep ==
  ASSUME IInv, NEW n \in Nodes, NEW m \in Nodes,
         peer[n][m].open, chan[m][n] # <<>>, up' = up, ProcessGetSnapshot(n, m)
  PROVE  IInv'
  <1> DEFINE p == peer[n][m]
             sent == IF p.sent_recently THEN p.sent ELSE 0
             p1 == [p EXCEPT !.sent = sent]
             p2 == [p EXCEPT !.sent = MAX_SNAPSHOT_SENDS, !.sent_recently = TRUE]
             p3 == [p EXCEPT !.sent = sent + 1, !.sent_recently = TRUE]
  <1>1. p \in PeerState  BY Zenon DEF IInv, Types
  <1>2. sent \in Nat  BY <1>1, Zenon DEF PeerState
  <1>3. p1 \in PeerState /\ p1.open /\ p1.held = p.held /\ p1.scack_sent = p.scack_sent
    <2> HIDE DEF sent
    <2> QED  BY <1>1, <1>2, Zenon DEF PeerState
  <1>4. p2 \in PeerState /\ p2.open /\ p2.held = p.held /\ p2.scack_sent = p.scack_sent
    BY <1>1, SnapshotExchangeAssumption, Zenon DEF PeerState
  <1>5. p3 \in PeerState /\ p3.open /\ p3.held = p.held /\ p3.scack_sent = p.scack_sent
    <2>1. sent + 1 \in Nat  BY <1>2
    <2> HIDE DEF sent
    <2> QED  BY <1>1, <2>1, Zenon DEF PeerState
  <1>6. \/ Handle(n, m, p1, <<>>)
        \/ Handle(n, m, p2, <<>>)
        \/ Handle(n, m, p3, <<"sendppcsns">>)
    BY Zenon DEF ProcessGetSnapshot
  <1>7. UNCHANGED <<snapshot, disk>>  BY Zenon DEF ProcessGetSnapshot
  <1>8. <<>> \in Seq(Messages) /\ ~Has(<<>>, "scack")  BY Has0
  <1>9. <<"sendppcsns">> \in Seq(Messages) /\ ~Has(<<"sendppcsns">>, "scack")
    BY Has1 DEF Messages
  <1> HIDE DEF p1, p2, p3, sent
  <1>10. CASE Handle(n, m, p1, <<>>)  BY <1>3, <1>7, <1>8, <1>10, Quiet, Zenon
  <1>11. CASE Handle(n, m, p2, <<>>)  BY <1>4, <1>7, <1>8, <1>11, Quiet, Zenon
  <1>12. CASE Handle(n, m, p3, <<"sendppcsns">>)  BY <1>5, <1>7, <1>9, <1>12, Quiet, Zenon
  <1> QED  BY <1>6, <1>10, <1>11, <1>12, Zenon

\* The snapshot is stored before SCACK is sent.
LEMMA SnapshotStep ==
  ASSUME IInv, NEW n \in Nodes, NEW m \in Nodes, n \in up,
         peer[n][m].open, chan[m][n] # <<>>, up' = up, ProcessSnapshot(n, m)
  PROVE  IInv'
  <1> DEFINE p == [peer[n][m] EXCEPT !.scack_sent = TRUE]
             replies == IF peer[n][m].scack_sent THEN <<>> ELSE <<"scack">>
  <1>1. CASE n \in snapshot
    <2>1. Ignore(n, m)  BY <1>1, Zenon DEF ProcessSnapshot
    <2> QED  BY <2>1, IgnoreStep, Zenon
  <1>2. CASE n \notin snapshot
    <2>1. /\ snapshot' = snapshot \cup {n}
          /\ disk' = [disk EXCEPT ![n] = "good"]
          /\ Handle(n, m, p, replies)
      BY <1>2, Zenon DEF ProcessSnapshot
    <2>2. peer[n][m] \in PeerState /\ disk \in [Nodes -> {"none", "torn", "good"}]
      BY Zenon DEF IInv, Types
    <2>3. p \in PeerState /\ p.open /\ p.held = peer[n][m].held  BY <2>2, Zenon DEF PeerState
    <2>4. replies \in Seq(Messages)
      <3>1. <<>> \in Seq(Messages) /\ <<"scack">> \in Seq(Messages)  BY DEF Messages
      <3> QED  BY <3>1, Zenon
    <2>5. /\ snapshot' \subseteq up /\ snapshot \subseteq snapshot' /\ n \in snapshot'
          /\ disk' \in [Nodes -> {"none", "torn", "good"}]
          /\ \A k \in Nodes : disk[k] = "good" => disk'[k] = "good"
      BY <2>1, <2>2, Zenon DEF IInv, Types
    <2>6. Stored'
      <3> SUFFICES ASSUME NEW k \in snapshot'
                   PROVE  disk'[k] = "good" \/ k \in Seeds
        BY Zenon DEF Stored
      <3>1. k \in Nodes  BY <2>5, Zenon DEF IInv, Types
      <3>2. k # n => disk[k] = "good" \/ k \in Seeds  BY <2>1, Zenon DEF IInv, Stored
      <3> QED  BY <2>1, <2>2, <3>1, <3>2, Zenon
    <2> HIDE DEF p, replies
    <2> QED  BY <2>1, <2>3, <2>4, <2>5, <2>6, Handled, Zenon
  <1> QED  BY <1>1, <1>2, Zenon

\* SCACK and the relayed claims go out only from a node with the snapshot.
LEMMA ClaimStep ==
  ASSUME IInv, NEW n \in Nodes, NEW m \in Nodes,
         peer[n][m].open, chan[m][n] # <<>>, up' = up, ProcessClaim(n, m)
  PROVE  IInv'
  <1> DEFINE new == n \notin claims
             ack == IF new /\ ~peer[n][m].scack_sent THEN <<"scack">> ELSE <<>>
             p == [peer[n][m] EXCEPT !.scack_sent = @ \/ new]
             out == [k \in Nodes |->
                      IF k = m THEN Push(n, m, ack)
                      ELSE IF peer[n][m].held /\ k \in FullyConnected(n)
                      THEN Push(n, k, <<"claim">>)
                      ELSE chan[n][k]]
  <1>1. CASE n \notin snapshot \/ n \in seen
    <2>1. Ignore(n, m)  BY <1>1, Zenon DEF ProcessClaim
    <2> QED  BY <2>1, IgnoreStep, Zenon
  <1>2. CASE n \in snapshot /\ n \notin seen
    <2>1. /\ peer' = [peer EXCEPT ![n][m].scack_sent = @ \/ new]
          /\ chan' = [chan EXCEPT ![m][n] = Tail(@), ![n] = out]
          /\ UNCHANGED <<snapshot, disk>>
      BY <1>2, Zenon DEF ProcessClaim
    <2>2. /\ peer \in [Nodes -> [Nodes -> PeerState]]
          /\ chan \in [Nodes -> [Nodes -> Seq(Messages)]]
          /\ n # m
      BY Zenon DEF IInv, Types, Ends
    <2>3. p \in PeerState /\ p.open /\ p.held = peer[n][m].held
      <3>1. peer[n][m] \in PeerState /\ (peer[n][m].scack_sent \/ new) \in BOOLEAN
        BY <2>2, Zenon DEF PeerState
      <3> HIDE DEF new
      <3> QED  BY <3>1, Zenon DEF PeerState
    <2>4. peer' = [peer EXCEPT ![n][m] = p]  BY <2>1, <2>2, Zenon
    <2>5. ack \in Seq(Messages) /\ <<"claim">> \in Seq(Messages)
      <3>1. <<>> \in Seq(Messages) /\ <<"scack">> \in Seq(Messages)  BY DEF Messages
      <3>2. <<"claim">> \in Seq(Messages)  BY DEF Messages
      <3> QED  BY <3>1, <3>2, Zenon
    <2>6. ~Has(<<"claim">>, "scack")  BY Has1, Zenon DEF Messages
    <2>7. ASSUME NEW k \in Nodes
          PROVE  out[k] \in Seq(Messages) /\ (~peer[k][n].open => out[k] = <<>>)
      <3>1. /\ Push(n, m, ack) \in Seq(Messages)
            /\ ~peer[m][n].open => Push(n, m, ack) = <<>>
        BY <2>5, PushFacts, Zenon
      <3>2. /\ Push(n, k, <<"claim">>) \in Seq(Messages)
            /\ ~peer[k][n].open => Push(n, k, <<"claim">>) = <<>>
        BY <2>5, PushFacts, Zenon
      <3>3. chan[n][k] \in Seq(Messages) /\ (~peer[k][n].open => chan[n][k] = <<>>)
        BY <2>2 DEF IInv, Ends
      <3> QED  BY <3>1, <3>2, <3>3, Zenon
    <2> HIDE DEF out, ack, p
    <2>8. out \in [Nodes -> Seq(Messages)]  BY <2>7, Zenon DEF out
    <2>9. ASSUME NEW x \in Nodes, NEW y \in Nodes
          PROVE  /\ x = n => chan'[x][y] = out[y]
                 /\ x = m /\ y = n => chan'[x][y] = Tail(chan[m][n])
                 /\ x # n /\ ~(x = m /\ y = n) => chan'[x][y] = chan[x][y]
      BY <2>1, <2>2, Zenon
    <2>10. Tail(chan[m][n]) \in Seq(Messages)  BY <2>2
    <2>11. chan' \in [Nodes -> [Nodes -> Seq(Messages)]]  BY <2>1, <2>2, <2>8, <2>10, Zenon
    <2>12. \A x, y \in Nodes : ~peer[y][x].open => chan'[x][y] = <<>>
      <3> TAKE x, y \in Nodes
      <3>1. ~peer[y][x].open => chan[x][y] = <<>>  BY Zenon DEF IInv, Ends
      <3> QED  BY <2>7, <2>9, <3>1, Zenon
    <2>13. \A x, y \in Nodes : Has(chan'[x][y], "scack") =>
                                 Has(chan[x][y], "scack") \/ x \in snapshot'
      <3> TAKE x, y \in Nodes
      <3>1. Has(Tail(chan[m][n]), "scack") => Has(chan[m][n], "scack")  BY <2>2, HasTail, Zenon
      <3> QED  BY <1>2, <2>1, <2>9, <3>1, ZenonT(40)
    <2>14. /\ snapshot' \subseteq up /\ snapshot \subseteq snapshot'
           /\ disk' \in [Nodes -> {"none", "torn", "good"}]
           /\ \A k \in Nodes : disk[k] = "good" => disk'[k] = "good"
           /\ Stored'
      BY <2>1, Zenon DEF IInv, Types, Stored
    <2> QED  BY <1>2, <2>1, <2>3, <2>4, <2>11, <2>12, <2>13, <2>14, Preserved, Zenon
  <1> QED  BY <1>1, <1>2, Zenon

\* Handling a message of any kind keeps the invariant.
LEMMA MessageStep ==
  ASSUME IInv, NEW n \in Nodes, NEW m \in Nodes, ProcessMessage(n, m)
  PROVE  IInv'
  <1>1. n \in up /\ peer[n][m].open /\ chan[m][n] # <<>> /\ up' = up  BY Zenon DEF ProcessMessage
  <1>2. \/ ProcessVersion(n, m)
        \/ ProcessVerack(n, m)
        \/ Head(chan[m][n]) = "scack" /\ ProcessScack(n, m)
        \/ Ignore(n, m)
        \/ ProcessGetSnapshot(n, m)
        \/ ProcessSnapshot(n, m)
        \/ ProcessClaim(n, m)
    BY Zenon DEF ProcessMessage
  <1> QED  BY <1>1, <1>2, VersionStep, VerackStep, ScackStep, IgnoreStep,
              GetSnapshotStep, SnapshotStep, ClaimStep, Zenon
-----------------------------------------------------------------------------
(* The steps a node takes on its own.                                      *)

\* Flags of one Peer change, no message but a request is sent.
LEMMA FlagStep ==
  ASSUME IInv, NEW n \in Nodes, NEW m \in Nodes, NEW p \in PeerState,
         peer[n][m].open, p.open, p.held = peer[n][m].held,
         p.scack_sent = peer[n][m].scack_sent,
         peer' = [peer EXCEPT ![n][m] = p],
         UNCHANGED <<up, snapshot, disk>>,
         \/ UNCHANGED chan
         \/ chan' = [chan EXCEPT ![n][m] = Push(n, m, <<"getppcsns">>)]
  PROVE  IInv'
  <1>1. chan \in [Nodes -> [Nodes -> Seq(Messages)]]  BY Zenon DEF IInv, Types
  <1>2. <<"getppcsns">> \in Seq(Messages) /\ ~Has(<<"getppcsns">>, "scack")
    BY Has1 DEF Messages
  <1>3. /\ Push(n, m, <<"getppcsns">>) \in Seq(Messages)
        /\ ~peer[m][n].open => Push(n, m, <<"getppcsns">>) = <<>>
        /\ Has(Push(n, m, <<"getppcsns">>), "scack") => Has(chan[n][m], "scack")
    BY <1>2, PushFacts, Zenon
  <1>4. chan' \in [Nodes -> [Nodes -> Seq(Messages)]]
    <2>1. CASE UNCHANGED chan  BY <1>1, <2>1, Zenon
    <2>2. CASE chan' = [chan EXCEPT ![n][m] = Push(n, m, <<"getppcsns">>)]
      <3>1. [chan[n] EXCEPT ![m] = Push(n, m, <<"getppcsns">>)] \in [Nodes -> Seq(Messages)]
        BY <1>1, <1>3, Zenon
      <3> QED  BY <1>1, <2>2, <3>1, Zenon
    <2> QED  BY <2>1, <2>2, Zenon
  <1>5. ASSUME NEW x \in Nodes, NEW y \in Nodes
        PROVE  \/ chan'[x][y] = chan[x][y]
               \/ x = n /\ y = m /\ chan'[x][y] = Push(n, m, <<"getppcsns">>)
    <2>1. CASE UNCHANGED chan  BY <2>1, Zenon
    <2>2. CASE chan' = [chan EXCEPT ![n][m] = Push(n, m, <<"getppcsns">>)]
      <3>1. chan'[x][y] = IF x = n /\ y = m THEN Push(n, m, <<"getppcsns">>) ELSE chan[x][y]
        BY <1>1, <2>2, OneEntry, Zenon
      <3> QED  BY <3>1, Zenon
    <2> QED  BY <2>1, <2>2, Zenon
  <1>6. \A x, y \in Nodes : ~peer[y][x].open => chan'[x][y] = <<>>
    <2> TAKE x, y \in Nodes
    <2>1. ~peer[y][x].open => chan[x][y] = <<>>  BY Zenon DEF IInv, Ends
    <2> QED  BY <1>3, <1>5, <2>1, Zenon
  <1>7. \A x, y \in Nodes : Has(chan'[x][y], "scack") => Has(chan[x][y], "scack")
    BY <1>3, <1>5, Zenon
  <1>8. /\ snapshot' \subseteq up /\ snapshot \subseteq snapshot'
        /\ disk' \in [Nodes -> {"none", "torn", "good"}]
        /\ \A k \in Nodes : disk[k] = "good" => disk'[k] = "good"
        /\ Stored'
    BY Zenon DEF IInv, Types, Stored
  <1> QED  BY <1>4, <1>6, <1>7, <1>8, Preserved, Zenon

\* Time passes, or MaybeSendGetHeaders asks again.
LEMMA OwnStep ==
  ASSUME IInv, NEW n \in Nodes, NEW m \in Nodes,
         MaybeSendGetHeaders(n, m) \/ RequestOld(n, m) \/ SentOld(n, m)
  PROVE  IInv'
  <1> DEFINE p1 == [peer[n][m] EXCEPT !.requested = TRUE]
             p2 == [peer[n][m] EXCEPT !.requested = FALSE]
             p3 == [peer[n][m] EXCEPT !.sent_recently = FALSE]
  <1>1. peer[n][m] \in PeerState /\ peer \in [Nodes -> [Nodes -> PeerState]]  BY Zenon DEF IInv, Types
  <1>2. peer[n][m].open
    <2>1. ~peer[n][m].open => peer[n][m] = Closed  BY Zenon DEF IInv, Ends
    <2> QED  BY <1>1, <2>1 DEF MaybeSendGetHeaders, RequestOld, SentOld, Closed, PeerState
  <1>3. /\ p1 \in PeerState /\ p1.open /\ p1.held = peer[n][m].held
        /\ p1.scack_sent = peer[n][m].scack_sent
    BY <1>1, <1>2, Zenon DEF PeerState
  <1>4. /\ p2 \in PeerState /\ p2.open /\ p2.held = peer[n][m].held
        /\ p2.scack_sent = peer[n][m].scack_sent
    BY <1>1, <1>2, Zenon DEF PeerState
  <1>5. /\ p3 \in PeerState /\ p3.open /\ p3.held = peer[n][m].held
        /\ p3.scack_sent = peer[n][m].scack_sent
    BY <1>1, <1>2, Zenon DEF PeerState
  <1>6. CASE MaybeSendGetHeaders(n, m)
    <2>1. /\ peer' = [peer EXCEPT ![n][m] = p1] /\ UNCHANGED <<up, snapshot, disk>>
          /\ chan' = [chan EXCEPT ![n][m] = Push(n, m, <<"getppcsns">>)]
      BY <1>1, <1>6, Zenon DEF MaybeSendGetHeaders
    <2> HIDE DEF p1
    <2> QED  BY <1>2, <1>3, <2>1, FlagStep, Zenon
  <1>7. CASE RequestOld(n, m)
    <2>1. peer' = [peer EXCEPT ![n][m] = p2] /\ UNCHANGED <<up, snapshot, disk, chan>>
      BY <1>1, <1>7, Zenon DEF RequestOld
    <2> HIDE DEF p2
    <2> QED  BY <1>2, <1>4, <2>1, FlagStep, Zenon
  <1>8. CASE SentOld(n, m)
    <2>1. peer' = [peer EXCEPT ![n][m] = p3] /\ UNCHANGED <<up, snapshot, disk, chan>>
      BY <1>1, <1>8, Zenon DEF SentOld
    <2> HIDE DEF p3
    <2> QED  BY <1>2, <1>5, <2>1, FlagStep, Zenon
  <1> QED  BY <1>6, <1>7, <1>8, Zenon

\* Publishing the claim keeps the invariant.
LEMMA PublishStep ==
  ASSUME IInv, NEW n \in Nodes, PublishClaim(n)
  PROVE  IInv'
  <1> DEFINE out == [k \in Nodes |-> IF k \in FullyConnected(n)
                                     THEN Push(n, k, <<"claim">>) ELSE chan[n][k]]
  <1>1. UNCHANGED <<up, snapshot, disk, peer>> /\ chan' = [chan EXCEPT ![n] = out]
    BY Zenon DEF PublishClaim
  <1>2. /\ chan \in [Nodes -> [Nodes -> Seq(Messages)]]
        /\ peer \in [Nodes -> [Nodes -> PeerState]]
    BY Zenon DEF IInv, Types
  <1>3. <<"claim">> \in Seq(Messages) /\ ~Has(<<"claim">>, "scack")  BY Has1 DEF Messages
  <1>4. ASSUME NEW k \in Nodes
        PROVE  /\ out[k] \in Seq(Messages) /\ (~peer[k][n].open => out[k] = <<>>)
               /\ Has(out[k], "scack") => Has(chan[n][k], "scack")
    <2>1. /\ Push(n, k, <<"claim">>) \in Seq(Messages)
          /\ ~peer[k][n].open => Push(n, k, <<"claim">>) = <<>>
          /\ Has(Push(n, k, <<"claim">>), "scack") => Has(chan[n][k], "scack")
      BY <1>3, PushFacts, Zenon
    <2>2. chan[n][k] \in Seq(Messages) /\ (~peer[k][n].open => chan[n][k] = <<>>)
      BY <1>2, Zenon DEF IInv, Ends
    <2> QED  BY <2>1, <2>2, Zenon
  <1>5. CASE FullyConnected(n) = {}
    <2>1. out = chan[n]  BY <1>2, <1>5, Zenon
    <2>2. chan' = chan  BY <1>1, <1>2, <2>1, Zenon
    <2> QED  BY <1>1, <2>2 DEF IInv, Types, Ends, HeldIsTrue, Pending, Stored, AckedIsStored
  <1>6. CASE FullyConnected(n) # {}
    <2>1. PICK m \in Nodes : peer[n][m].connected  BY <1>6, Zenon DEF FullyConnected
    <2>2. peer[n][m].open
      <3>1. ~peer[n][m].open => peer[n][m] = Closed  BY Zenon DEF IInv, Ends
      <3> QED  BY <1>2, <2>1, <3>1 DEF Closed, PeerState
    <2>3. peer[n][m] \in PeerState /\ peer' = [peer EXCEPT ![n][m] = peer[n][m]]
      BY <1>1, <1>2, Zenon
    <2> HIDE DEF out
    <2>4. out \in [Nodes -> Seq(Messages)]  BY <1>4, Zenon DEF out
    <2>5. ASSUME NEW x \in Nodes, NEW y \in Nodes
          PROVE  /\ x = n => chan'[x][y] = out[y]
                 /\ x # n => chan'[x][y] = chan[x][y]
      BY <1>1, <1>2, Zenon
    <2>6. chan' \in [Nodes -> [Nodes -> Seq(Messages)]]  BY <1>1, <1>2, <2>4, Zenon
    <2>7. \A x, y \in Nodes : ~peer[y][x].open => chan'[x][y] = <<>>
      <3> TAKE x, y \in Nodes
      <3>1. ~peer[y][x].open => chan[x][y] = <<>>  BY Zenon DEF IInv, Ends
      <3> QED  BY <1>4, <2>5, <3>1, Zenon
    <2>8. \A x, y \in Nodes : Has(chan'[x][y], "scack") => Has(chan[x][y], "scack")
      BY <1>4, <2>5, Zenon
    <2>9. /\ snapshot' \subseteq up /\ snapshot \subseteq snapshot'
          /\ disk' \in [Nodes -> {"none", "torn", "good"}]
          /\ \A k \in Nodes : disk[k] = "good" => disk'[k] = "good"
          /\ Stored'
      BY <1>1, Zenon DEF IInv, Types, Stored
    <2> QED  BY <1>1, <2>2, <2>3, <2>6, <2>7, <2>8, <2>9, Preserved, Zenon
  <1> QED  BY <1>5, <1>6, Zenon
-----------------------------------------------------------------------------
(* Starting, connecting and stopping.                                      *)

\* The invariant holds in the beginning.
LEMMA InitStep == Init => IInv
  <1> SUFFICES ASSUME Init PROVE IInv
    BY Zenon
  <1>1. Types
    <2>1. peer \in [Nodes -> [Nodes -> PeerState]]  BY ClosedType, Zenon DEF Init
    <2>2. chan \in [Nodes -> [Nodes -> Seq(Messages)]]  BY DEF Init
    <2> QED  BY <2>1, <2>2, Zenon DEF Init, Types
  <1>2. \A n, m \in Nodes : peer[n][m] = Closed /\ chan[n][m] = <<>>  BY Zenon DEF Init
  <1>3. snapshot = {}  BY Zenon DEF Init
  <1> QED  BY <1>1, <1>2, <1>3, ClosedType, Zenon DEF IInv, Ends, HeldIsTrue, Stored, AckedIsStored

\* A start keeps the invariant.
LEMMA StartStep ==
  ASSUME IInv, NEW n \in Nodes, Start(n)
  PROVE  IInv'
  <1>1. /\ n \notin up /\ (\A m \in Nodes : ~peer[n][m].open)
        /\ up' = up \cup {n} /\ UNCHANGED <<peer, chan>>
        /\ LoadSnapshotOnStartup(n)
    BY Zenon DEF Start
  <1>2. disk \in [Nodes -> {"none", "torn", "good"}] /\ snapshot \subseteq up  BY Zenon DEF IInv, Types
  <1>3. /\ snapshot \subseteq snapshot' /\ snapshot' \subseteq snapshot \cup {n}
        /\ disk' \in [Nodes -> {"none", "torn", "good"}]
        /\ \A k \in Nodes : k # n => disk'[k] = disk[k]
        /\ n \in snapshot' => disk'[n] = "good" \/ n \in Seeds
    BY <1>1, <1>2, Zenon DEF LoadSnapshotOnStartup
  <1>4. Types'  BY <1>1, <1>3, Zenon DEF IInv, Types
  <1>5. Ends'  BY <1>1, Zenon DEF IInv, Ends
  <1>6. HeldIsTrue'  BY <1>1, <1>3, Zenon DEF IInv, HeldIsTrue, Pending
  <1>7. Stored'
    <2> SUFFICES ASSUME NEW k \in snapshot' PROVE disk'[k] = "good" \/ k \in Seeds
      BY Zenon DEF Stored
    <2>1. k # n => k \in snapshot /\ k \in Nodes  BY <1>3, Zenon DEF IInv, Types
    <2> QED  BY <1>3, <2>1, Zenon DEF IInv, Stored
  <1>8. AckedIsStored'
    <2> SUFFICES ASSUME NEW x \in Nodes, NEW y \in Nodes, peer[x][y].scack_sent
                 PROVE  disk'[x] = "good" \/ x \in Seeds
      BY <1>1, Zenon DEF AckedIsStored
    <2>1. x # n  BY <1>1, ClosedType, Zenon DEF IInv, Ends
    <2> QED  BY <1>3, <2>1, Zenon DEF IInv, AckedIsStored
  <1> QED  BY <1>4, <1>5, <1>6, <1>7, <1>8, Zenon DEF IInv

\* A new connection keeps the invariant.
LEMMA ConnectStep ==
  ASSUME IInv, NEW n \in Nodes, NEW m \in Nodes, Connect(n, m)
  PROVE  IInv'
  <1>1. /\ n # m /\ n \in up /\ m \in up
        /\ ~peer[n][m].open /\ ~peer[m][n].open
        /\ peer' = [peer EXCEPT ![n][m] = Fresh(FALSE), ![m][n] = Fresh(TRUE)]
        /\ chan' = [chan EXCEPT ![n][m] = <<"version">>]
        /\ UNCHANGED <<up, snapshot, disk>>
    BY SnapshotExchangeAssumption, Zenon DEF Connect
  <1>2. /\ peer \in [Nodes -> [Nodes -> PeerState]]
        /\ chan \in [Nodes -> [Nodes -> Seq(Messages)]]
    BY Zenon DEF IInv, Types
  <1>3. ASSUME NEW b \in BOOLEAN
        PROVE  /\ Fresh(b) \in PeerState
               /\ Fresh(b).open /\ ~Fresh(b).held /\ ~Fresh(b).scack_sent
    BY Zenon DEF Fresh, Closed, PeerState
  <1>4. <<"version">> \in Seq(Messages) /\ ~Has(<<"version">>, "scack")  BY Has1 DEF Messages
  <1>5. Fresh(TRUE) \in PeerState /\ Fresh(FALSE) \in PeerState  BY <1>3, Zenon
  <1>6. peer' \in [Nodes -> [Nodes -> PeerState]]  BY <1>1, <1>2, <1>5, Zenon
  <1>7. chan' \in [Nodes -> [Nodes -> Seq(Messages)]]  BY <1>1, <1>2, <1>4, Zenon
  <1>8. ASSUME NEW x \in Nodes, NEW y \in Nodes
        PROVE  /\ x = n /\ y = m => peer'[x][y] = Fresh(FALSE) /\ chan'[x][y] = <<"version">>
               /\ x = m /\ y = n => peer'[x][y] = Fresh(TRUE) /\ chan'[x][y] = chan[x][y]
               /\ ~(x = n /\ y = m) /\ ~(x = m /\ y = n) =>
                    peer'[x][y] = peer[x][y] /\ chan'[x][y] = chan[x][y]
    <2> HIDE DEF Fresh
    <2>1. x = n /\ y = m => peer'[x][y] = Fresh(FALSE)  BY <1>1, <1>2, Zenon
    <2>2. x = m /\ y = n => peer'[x][y] = Fresh(TRUE)  BY <1>1, <1>2, Zenon
    <2>3. ~(x = n /\ y = m) /\ ~(x = m /\ y = n) => peer'[x][y] = peer[x][y]  BY <1>1, <1>2, Zenon
    <2>4. x = n /\ y = m => chan'[x][y] = <<"version">>  BY <1>1, <1>2, Zenon
    <2>5. ~(x = n /\ y = m) => chan'[x][y] = chan[x][y]  BY <1>1, <1>2, Zenon
    <2> QED  BY <1>1, <2>1, <2>2, <2>3, <2>4, <2>5, Zenon
  <1>9. Types'  BY <1>1, <1>6, <1>7, Zenon DEF IInv, Types
  <1>10. Ends'
    <2> SUFFICES ASSUME NEW x \in Nodes, NEW y \in Nodes
                 PROVE  /\ peer'[x][y].open => x \in up' /\ x # y
                        /\ ~peer'[x][y].open => peer'[x][y] = Closed /\ chan'[y][x] = <<>>
      BY Zenon DEF Ends
    <2>1. /\ peer[x][y].open => x \in up /\ x # y
          /\ ~peer[x][y].open => peer[x][y] = Closed /\ chan[y][x] = <<>>
      BY Zenon DEF IInv, Ends
    <2>2. CASE ~(x = n /\ y = m) /\ ~(x = m /\ y = n)
      <3>1. peer'[x][y] = peer[x][y] /\ chan'[y][x] = chan[y][x]  BY <1>8, <2>2, Zenon
      <3> QED  BY <1>1, <2>1, <3>1, Zenon
    <2>3. CASE (x = n /\ y = m) \/ (x = m /\ y = n)
      <3>1. peer'[x][y].open  BY <1>3, <1>8, <2>3, Zenon
      <3>2. n \in up' /\ m \in up' /\ n # m  BY <1>1, Zenon
      <3>3. x \in up' /\ x # y  BY <2>3, <3>2
      <3> QED  BY <3>1, <3>3, Zenon
    <2> QED  BY <2>2, <2>3, Zenon
  <1>11. HeldIsTrue'
    <2> SUFFICES ASSUME NEW x \in Nodes, NEW y \in Nodes,
                        peer'[x][y].open, peer'[y][x].open,
                        peer'[x][y].held \/ Has(chan'[y][x], "scack")
                 PROVE  y \in snapshot'
      BY Zenon DEF HeldIsTrue, Pending, Has
    <2>1. CASE ~(x = n /\ y = m) /\ ~(x = m /\ y = n)
      <3>1. /\ peer'[x][y] = peer[x][y] /\ peer'[y][x] = peer[y][x]
            /\ chan'[y][x] = chan[y][x]
        BY <1>8, <2>1, Zenon
      <3> QED  BY <1>1, <3>1, Zenon DEF IInv, HeldIsTrue, Pending, Has
    <2>2. chan[m][n] = <<>> /\ chan[n][m] = <<>>  BY <1>1, Zenon DEF IInv, Ends
    <2>3. CASE x = n /\ y = m
      <3>1. peer'[x][y] = Fresh(FALSE)  BY <1>8, <2>3, Zenon
      <3>2. chan'[y][x] = <<>>  BY <1>1, <1>8, <2>2, <2>3
      <3> QED  BY <1>3, <3>1, <3>2, Has0, Zenon
    <2>4. CASE x = m /\ y = n
      <3>1. peer'[x][y] = Fresh(TRUE) /\ chan'[y][x] = <<"version">>  BY <1>1, <1>8, <2>4, ZenonT(40)
      <3> QED  BY <1>3, <1>4, <3>1, Zenon
    <2> QED  BY <2>1, <2>3, <2>4, Zenon
  <1>12. Stored'  BY <1>1, Zenon DEF IInv, Stored
  <1>13. AckedIsStored'
    <2> SUFFICES ASSUME NEW x \in Nodes, NEW y \in Nodes, peer'[x][y].scack_sent
                 PROVE  disk[x] = "good" \/ x \in Seeds
      BY <1>1, Zenon DEF AckedIsStored
    <2>1. peer[x][y].scack_sent  BY <1>3, <1>8, ZenonT(40)
    <2> QED  BY <2>1, Zenon DEF IInv, AckedIsStored
  <1> QED  BY <1>9, <1>10, <1>11, <1>12, <1>13, Zenon DEF IInv

\* n's end of its connection to m closes; the other end stays as it is.
LEMMA CloseStep ==
  ASSUME IInv, NEW n \in Nodes, NEW m \in Nodes, peer[n][m].open,
         FinalizeNode(n, m), UNCHANGED <<up, snapshot, disk>>
  PROVE  IInv'
  <1>1. /\ peer' = [peer EXCEPT ![n][m] = Closed]
        /\ chan' = [chan EXCEPT ![m][n] = <<>>]
    BY Zenon DEF FinalizeNode
  <1>2. /\ peer \in [Nodes -> [Nodes -> PeerState]]
        /\ chan \in [Nodes -> [Nodes -> Seq(Messages)]]
    BY Zenon DEF IInv, Types
  <1>3. ASSUME NEW x \in Nodes, NEW y \in Nodes
        PROVE  /\ x = n /\ y = m => peer'[x][y] = Closed
               /\ ~(x = n /\ y = m) => peer'[x][y] = peer[x][y]
               /\ x = m /\ y = n => chan'[x][y] = <<>>
               /\ ~(x = m /\ y = n) => chan'[x][y] = chan[x][y]
    BY <1>1, <1>2, Zenon
  <1>4. Types'
    <2>1. peer' \in [Nodes -> [Nodes -> PeerState]]  BY <1>1, <1>2, ClosedType, Zenon
    <2>2. <<>> \in Seq(Messages)  OBVIOUS
    <2>3. chan' \in [Nodes -> [Nodes -> Seq(Messages)]]  BY <1>1, <1>2, <2>2, Zenon
    <2> QED  BY <2>1, <2>3, Zenon DEF IInv, Types
  <1>5. Ends'
    <2> SUFFICES ASSUME NEW x \in Nodes, NEW y \in Nodes
                 PROVE  /\ peer'[x][y].open => x \in up' /\ x # y
                        /\ ~peer'[x][y].open => peer'[x][y] = Closed /\ chan'[y][x] = <<>>
      BY Zenon DEF Ends
    <2>1. /\ peer[x][y].open => x \in up /\ x # y
          /\ ~peer[x][y].open => peer[x][y] = Closed /\ chan[y][x] = <<>>
      BY Zenon DEF IInv, Ends
    <2>2. CASE x = n /\ y = m
      <3>1. peer'[x][y] = Closed /\ chan'[y][x] = <<>>  BY <1>3, <2>2, Zenon
      <3> QED  BY <3>1, ClosedType, Zenon
    <2>3. CASE ~(x = n /\ y = m)
      <3>1. peer'[x][y] = peer[x][y] /\ chan'[y][x] = chan[y][x]  BY <1>3, <2>3, Zenon
      <3> QED  BY <2>1, <3>1, Zenon
    <2> QED  BY <2>2, <2>3, Zenon
  <1>6. HeldIsTrue'
    <2> SUFFICES ASSUME NEW x \in Nodes, NEW y \in Nodes,
                        peer'[x][y].open, peer'[y][x].open,
                        peer'[x][y].held \/ Has(chan'[y][x], "scack")
                 PROVE  y \in snapshot
      BY Zenon DEF HeldIsTrue, Pending, Has
    <2>1. ~(x = n /\ y = m) /\ ~(y = n /\ x = m)  BY <1>3, ClosedType, Zenon
    <2>2. /\ peer'[x][y] = peer[x][y] /\ peer'[y][x] = peer[y][x]
          /\ chan'[y][x] = chan[y][x]
      BY <1>3, <2>1, Zenon
    <2> QED  BY <2>2, Zenon DEF IInv, HeldIsTrue, Pending, Has
  <1>7. Stored'  BY Zenon DEF IInv, Stored
  <1>8. AckedIsStored'
    <2> SUFFICES ASSUME NEW x \in Nodes, NEW y \in Nodes, peer'[x][y].scack_sent
                 PROVE  disk[x] = "good" \/ x \in Seeds
      BY Zenon DEF AckedIsStored
    <2>1. peer[x][y].scack_sent  BY <1>3, ClosedType, Zenon
    <2> QED  BY <2>1, Zenon DEF IInv, AckedIsStored
  <1> QED  BY <1>4, <1>5, <1>6, <1>7, <1>8, Zenon DEF IInv

\* A crash keeps the invariant.
LEMMA DieStep ==
  ASSUME IInv, NEW n \in Nodes, NEW d \in {"none", "torn", "good"}, Die(n, d)
  PROVE  IInv'
  <1>1. /\ up' = up \ {n} /\ snapshot' = snapshot \ {n}
        /\ disk' = [disk EXCEPT ![n] = d]
        /\ peer' = [peer EXCEPT ![n] = [m \in Nodes |-> Closed]]
        /\ chan' = [k \in Nodes |-> [m \in Nodes |-> IF m = n THEN <<>> ELSE chan[k][m]]]
    BY Zenon DEF Die
  <1>2. /\ peer \in [Nodes -> [Nodes -> PeerState]]
        /\ chan \in [Nodes -> [Nodes -> Seq(Messages)]]
        /\ disk \in [Nodes -> {"none", "torn", "good"}]
        /\ up \subseteq Nodes /\ snapshot \subseteq up
    BY Zenon DEF IInv, Types
  <1>3. ASSUME NEW x \in Nodes, NEW y \in Nodes
        PROVE  /\ x = n => peer'[x][y] = Closed
               /\ x # n => peer'[x][y] = peer[x][y] /\ disk'[x] = disk[x]
               /\ y = n => chan'[x][y] = <<>>
               /\ y # n => chan'[x][y] = chan[x][y]
    BY <1>1, <1>2, Zenon
  <1>4. Types'
    <2>1. peer' \in [Nodes -> [Nodes -> PeerState]]  BY <1>1, <1>2, ClosedType, Zenon
    <2>2. chan' \in [Nodes -> [Nodes -> Seq(Messages)]]
      <3>1. <<>> \in Seq(Messages)  OBVIOUS
      <3> QED  BY <1>1, <1>2, <3>1, Zenon
    <2>3. disk' \in [Nodes -> {"none", "torn", "good"}] /\ up' \subseteq Nodes /\ snapshot' \subseteq up'
      BY <1>1, <1>2, Zenon
    <2> QED  BY <2>1, <2>2, <2>3, Zenon DEF Types
  <1>5. Ends'
    <2> SUFFICES ASSUME NEW x \in Nodes, NEW y \in Nodes
                 PROVE  /\ peer'[x][y].open => x \in up' /\ x # y
                        /\ ~peer'[x][y].open => peer'[x][y] = Closed /\ chan'[y][x] = <<>>
      BY Zenon DEF Ends
    <2>1. /\ peer[x][y].open => x \in up /\ x # y
          /\ ~peer[x][y].open => peer[x][y] = Closed /\ chan[y][x] = <<>>
      BY Zenon DEF IInv, Ends
    <2>2. CASE x = n
      <3>1. peer'[x][y] = Closed /\ chan'[y][x] = <<>>  BY <1>3, <2>2, Zenon
      <3> QED  BY <3>1, ClosedType, Zenon
    <2>3. CASE x # n
      <3>1. peer'[x][y] = peer[x][y] /\ chan'[y][x] = chan[y][x]  BY <1>3, <2>3, Zenon
      <3>2. x \in up => x \in up'  BY <1>1, <2>3, Zenon
      <3> QED  BY <2>1, <3>1, <3>2, Zenon
    <2> QED  BY <2>2, <2>3, Zenon
  <1>6. HeldIsTrue'
    <2> SUFFICES ASSUME NEW x \in Nodes, NEW y \in Nodes,
                        peer'[x][y].open, peer'[y][x].open,
                        peer'[x][y].held \/ Has(chan'[y][x], "scack")
                 PROVE  y \in snapshot'
      BY Zenon DEF HeldIsTrue, Pending, Has
    <2>1. x # n /\ y # n  BY <1>3, ClosedType, Zenon
    <2>2. /\ peer'[x][y] = peer[x][y] /\ peer'[y][x] = peer[y][x]
          /\ chan'[y][x] = chan[y][x]
      BY <1>3, <2>1, Zenon
    <2>3. y \in snapshot  BY <2>2, Zenon DEF IInv, HeldIsTrue, Pending, Has
    <2> QED  BY <1>1, <2>1, <2>3, Zenon
  <1>7. Stored'
    <2> SUFFICES ASSUME NEW k \in snapshot' PROVE disk'[k] = "good" \/ k \in Seeds
      BY Zenon DEF Stored
    <2>1. k \in snapshot /\ k # n /\ k \in Nodes  BY <1>1, <1>2, Zenon
    <2> QED  BY <1>3, <2>1, Zenon DEF IInv, Stored
  <1>8. AckedIsStored'
    <2> SUFFICES ASSUME NEW x \in Nodes, NEW y \in Nodes, peer'[x][y].scack_sent
                 PROVE  disk'[x] = "good" \/ x \in Seeds
      BY Zenon DEF AckedIsStored
    <2>1. x # n  BY <1>3, ClosedType, Zenon
    <2>2. peer[x][y].scack_sent /\ disk'[x] = disk[x]  BY <1>3, <2>1, Zenon
    <2> QED  BY <2>2, Zenon DEF IInv, AckedIsStored
  <1> QED  BY <1>4, <1>5, <1>6, <1>7, <1>8, Zenon DEF IInv
-----------------------------------------------------------------------------
\* Every step keeps the invariant.
LEMMA NextStep == IInv /\ [Next]_vars => IInv'
  <1> SUFFICES ASSUME IInv, [Next]_vars PROVE IInv'
    BY Zenon
  <1>1. CASE UNCHANGED vars
    BY <1>1, Zenon DEF vars, IInv, Types, Ends, HeldIsTrue, Pending, Stored, AckedIsStored
  <1>2. ASSUME NEW n \in Nodes, Start(n) PROVE IInv'  BY <1>2, StartStep, Zenon
  <1>3. ASSUME NEW n \in Nodes, Crash(n) PROVE IInv'
    <2>1. disk[n] \in {"none", "torn", "good"}  BY Zenon DEF IInv, Types
    <2> QED  BY <1>3, <2>1, DieStep, Zenon DEF Crash
  <1>4. ASSUME NEW n \in Nodes, SeenOld(n) PROVE IInv'
    BY <1>4, Zenon DEF SeenOld, IInv, Types, Ends, HeldIsTrue, Pending, Stored, AckedIsStored
  <1>5. ASSUME NEW n \in Nodes, PublishClaim(n) PROVE IInv'  BY <1>5, PublishStep, Zenon
  <1>6. ASSUME NEW n \in Nodes, NEW m \in Nodes, Connect(n, m) PROVE IInv'
    BY <1>6, ConnectStep, Zenon
  <1>7. ASSUME NEW n \in Nodes, NEW m \in Nodes, NoticeClosed(n, m) PROVE IInv'
    BY <1>7, CloseStep, Zenon DEF NoticeClosed
  <1>8. ASSUME NEW n \in Nodes, NEW m \in Nodes, Disconnect(n, m) PROVE IInv'
    BY <1>8, CloseStep, Zenon DEF Disconnect
  <1>9. ASSUME NEW n \in Nodes, NEW m \in Nodes, ProcessMessage(n, m) PROVE IInv'
    BY <1>9, MessageStep, Zenon
  <1>10. ASSUME NEW n \in Nodes, NEW m \in Nodes, CrashWhileStoring(n, m) PROVE IInv'
    BY <1>10, DieStep, Zenon DEF CrashWhileStoring
  <1>11. ASSUME NEW n \in Nodes, NEW m \in Nodes,
                MaybeSendGetHeaders(n, m) \/ RequestOld(n, m) \/ SentOld(n, m)
         PROVE IInv'
    BY <1>11, OwnStep, Zenon
  <1> QED  BY <1>1, <1>2, <1>3, <1>4, <1>5, <1>6, <1>7, <1>8, <1>9, <1>10, <1>11, Zenon DEF Next

-----------------------------------------------------------------------------
(* The claim.  Once it is announced, a node that registered it has sent it  *)
(* to every neighbour that has not, and the message is still there.         *)

Spreading ==
  /\ snapshot = Nodes /\ claims # {}
  /\ \A n, m \in Nodes : Linked(n, m) => peer[n][m].connected /\ peer[n][m].held
  /\ \A n \in claims, m \in Nodes : Linked(n, m) => m \in claims \/ Has(chan[n][m], "claim")

Relay ==
  /\ \A n, m \in Nodes : peer[n][m].open => Linked(n, m)
  /\ \A n, m \in Nodes : peer[n][m].sent <= MAX_SNAPSHOT_SENDS
  /\ seen \subseteq claims /\ claims \subseteq Nodes
  /\ \A n, m \in Nodes : Has(chan[n][m], "claim") => n \in claims
  /\ announced => Spreading

\* A message stays in the queue until it is handled.
LEMMA StaysInTail ==
  ASSUME NEW s \in Seq(Messages), NEW x, Has(s, x), Head(s) # x
  PROVE  Has(Tail(s), x)
  <1>1. PICK i \in 1..Len(s) : s[i] = x  BY Zenon DEF Has
  <1>2. i # 1  BY <1>1
  <1>3. i - 1 \in 1..Len(Tail(s)) /\ Tail(s)[i - 1] = x  BY <1>1, <1>2
  <1> QED  BY <1>3, Zenon DEF Has

\* PushMessage keeps what is there.
LEMMA PushKeeps ==
  ASSUME IInv, NEW n \in Nodes, NEW m \in Nodes, NEW msgs \in Seq(Messages), NEW x
  PROVE  /\ Has(chan[n][m], x) => Has(Push(n, m, msgs), x)
         /\ Has(msgs, x) /\ peer[m][n].open => Has(Push(n, m, msgs), x)
  <1>1. chan[n][m] \in Seq(Messages)  BY Zenon DEF IInv, Types
  <1>2. CASE ~peer[m][n].open  BY <1>2, Zenon DEF Push
  <1>3. CASE peer[m][n].open
    <2> DEFINE c == chan[n][m]
    <2>1. Push(n, m, msgs) = c \o msgs  BY <1>3, Zenon DEF Push
    <2> HIDE DEF c
    <2>2. c \in Seq(Messages)  BY <1>1, Zenon DEF c
    <2>3. ASSUME Has(c, x) PROVE Has(c \o msgs, x)
      <3>1. PICK i \in 1..Len(c) : c[i] = x  BY <2>3, Zenon DEF Has
      <3>2. i \in 1..Len(c \o msgs) /\ (c \o msgs)[i] = x  BY <2>2, <3>1
      <3> QED  BY <3>2, Zenon DEF Has
    <2>4. ASSUME Has(msgs, x) PROVE Has(c \o msgs, x)
      <3>1. PICK i \in 1..Len(msgs) : msgs[i] = x  BY <2>4, Zenon DEF Has
      <3>2. Len(c) + i \in 1..Len(c \o msgs) /\ (c \o msgs)[Len(c) + i] = x  BY <2>2, <3>1
      <3> QED  BY <3>2, Zenon DEF Has
    <2> QED  BY <2>1, <2>3, <2>4, Zenon DEF c
  <1> QED  BY <1>2, <1>3, Zenon

\* The ends of an announced claim's links are open.
LEMMA ConnectedOpen ==
  ASSUME IInv, NEW n \in Nodes, NEW m \in Nodes, peer[n][m].connected
  PROVE  peer[n][m].open
  <1>1. ~peer[n][m].open => peer[n][m] = Closed  BY Zenon DEF IInv, Ends
  <1> QED  BY <1>1 DEF Closed

\* What keeps Relay while no connection changes.
LEMMA RelayKept ==
  ASSUME Relay, claims \subseteq claims', claims' \subseteq Nodes, seen' \subseteq claims',
         \A x, y \in Nodes : peer'[x][y].open => Linked(x, y),
         \A x, y \in Nodes : peer'[x][y].sent <= MAX_SNAPSHOT_SENDS,
         \A x, y \in Nodes : Has(chan'[x][y], "claim") => x \in claims',
         announced' => announced,
         announced => /\ snapshot' = Nodes
                      /\ \A x, y \in Nodes : Linked(x, y) => peer'[x][y].connected /\ peer'[x][y].held
                      /\ \A x \in claims', y \in Nodes : Linked(x, y) =>
                           y \in claims' \/ Has(chan'[x][y], "claim")
  PROVE  Relay'
  <1>1. announced' => Spreading'
    <2>1. announced => claims' # {}  BY Zenon DEF Relay, Spreading
    <2> QED  BY <2>1, Zenon DEF Spreading
  <1> QED  BY <1>1, Zenon DEF Relay

\* A handler that replies to the peer, and to a claim only when it has it.
LEMMA RelayHandled ==
  ASSUME IInv, Relay, NEW n \in Nodes, NEW m \in Nodes, NEW p \in PeerState,
         NEW replies \in Seq(Messages), chan[m][n] # <<>>, peer[n][m].open,
         Handle(n, m, p, replies), ~Has(replies, "claim"),
         p.sent <= MAX_SNAPSHOT_SENDS,
         peer[n][m].connected => p.connected, peer[n][m].held => p.held,
         Head(chan[m][n]) = "claim" /\ announced => n \in claims,
         snapshot' = snapshot \/ snapshot' = snapshot \cup {n},
         UNCHANGED <<claims, seen, announced>>
  PROVE  Relay'
  <1>1. /\ peer \in [Nodes -> [Nodes -> PeerState]]
        /\ chan \in [Nodes -> [Nodes -> Seq(Messages)]]
        /\ n # m
    BY Zenon DEF IInv, Types, Ends
  <1>2. ASSUME NEW x \in Nodes, NEW y \in Nodes
        PROVE  /\ x = n /\ y = m => peer'[x][y] = p
               /\ ~(x = n /\ y = m) => peer'[x][y] = peer[x][y]
    BY <1>1, Zenon DEF Handle
  <1>3. ASSUME NEW x \in Nodes, NEW y \in Nodes
        PROVE  /\ x = n /\ y = m => chan'[x][y] = Push(n, m, replies)
               /\ x = m /\ y = n => chan'[x][y] = Tail(chan[m][n])
               /\ ~(x = n /\ y = m) /\ ~(x = m /\ y = n) => chan'[x][y] = chan[x][y]
    BY <1>1, Zenon DEF Handle
  <1>4. \A x, y \in Nodes : Has(chan'[x][y], "claim") => x \in claims'
    <2> SUFFICES ASSUME NEW x \in Nodes, NEW y \in Nodes, Has(chan'[x][y], "claim")
                 PROVE  Has(chan[x][y], "claim")
      BY Zenon DEF Relay
    <2>1. CASE x = n /\ y = m  BY <1>3, <2>1, PushFacts
    <2>2. CASE x = m /\ y = n  BY <1>1, <1>3, <2>2, HasTail
    <2> QED  BY <1>3, <2>1, <2>2, Zenon
  <1>5. ASSUME announced, NEW x \in claims, NEW y \in Nodes, Linked(x, y)
        PROVE  y \in claims \/ Has(chan'[x][y], "claim")
    <2>1. x \in Nodes /\ (y \in claims \/ Has(chan[x][y], "claim"))  BY <1>5, Zenon DEF Relay, Spreading
    <2>2. CASE x = n /\ y = m  BY <1>3, <2>1, <2>2, PushKeeps
    <2>3. CASE x = m /\ y = n
      <3>1. CASE Head(chan[m][n]) = "claim"  BY <1>5, <2>3, <3>1, Zenon
      <3>2. CASE Head(chan[m][n]) # "claim"  BY <1>1, <1>3, <2>1, <2>3, <3>2, StaysInTail
      <3> QED  BY <3>1, <3>2, Zenon
    <2> QED  BY <1>3, <2>1, <2>2, <2>3, Zenon
  <1>6. \A x, y \in Nodes : peer'[x][y].open => Linked(x, y)
    BY <1>2, Zenon DEF Relay
  <1>7. \A x, y \in Nodes : peer'[x][y].sent <= MAX_SNAPSHOT_SENDS
    BY <1>2, Zenon DEF Relay
  <1>8. announced => \A x, y \in Nodes : Linked(x, y) => peer'[x][y].connected /\ peer'[x][y].held
    BY <1>2 DEF Relay, Spreading
  <1>9. announced => snapshot' = Nodes
    BY Zenon DEF Relay, Spreading
  <1>10. claims' = claims /\ seen' \subseteq claims' /\ claims' \subseteq Nodes /\ announced' = announced
    BY Zenon DEF Relay
  <1> QED  BY <1>4, <1>5, <1>6, <1>7, <1>8, <1>9, <1>10, RelayKept
\* Dropping a message keeps Relay: a node drops a claim that is announced only
\* when it has registered it.
LEMMA RelayIgnore ==
  ASSUME IInv, Relay, NEW n \in Nodes, NEW m \in Nodes, peer[n][m].open, chan[m][n] # <<>>,
         Ignore(n, m), UNCHANGED announced,
         Head(chan[m][n]) = "claim" /\ announced => n \in claims
  PROVE  Relay'
  <1>1. peer[n][m] \in PeerState  BY ZenonT(40) DEF IInv, Types
  <1>2. <<>> \in Seq(Messages) /\ ~Has(<<>>, "claim")  BY Has0
  <1>3. peer[n][m].sent <= MAX_SNAPSHOT_SENDS  BY Zenon DEF Relay
  <1> QED  BY <1>1, <1>2, <1>3, RelayHandled, Zenon DEF Ignore

\* The handshake, the requests and the snapshot keep Relay.
LEMMA RelayMessage ==
  ASSUME IInv, Relay, NEW n \in Nodes, NEW m \in Nodes, peer[n][m].open, chan[m][n] # <<>>,
         Head(chan[m][n]) # "claim", UNCHANGED announced,
         \/ ProcessVersion(n, m) \/ ProcessVerack(n, m) \/ ProcessScack(n, m)
         \/ ProcessGetSnapshot(n, m) \/ ProcessSnapshot(n, m)
  PROVE  Relay'
  <1> DEFINE p == peer[n][m]
             ours == IF p.inbound THEN <<"version", "verack">> ELSE <<"verack">>
             sent == IF p.sent_recently THEN p.sent ELSE 0
             acked == [p EXCEPT !.scack_sent = TRUE]
             asked == [p EXCEPT !.requested = TRUE]
             linked == [p EXCEPT !.connected = TRUE]
             told == [p EXCEPT !.held = TRUE]
             p1 == [p EXCEPT !.sent = sent]
             p2 == [p EXCEPT !.sent = MAX_SNAPSHOT_SENDS, !.sent_recently = TRUE]
             p3 == [p EXCEPT !.sent = sent + 1, !.sent_recently = TRUE]
             Good(q) == /\ q \in PeerState /\ q.sent <= MAX_SNAPSHOT_SENDS
                        /\ p.connected => q.connected
                        /\ p.held => q.held
             Silent(r) == r \in Seq(Messages) /\ ~Has(r, "claim")
  <1>1. p \in PeerState /\ p.sent <= MAX_SNAPSHOT_SENDS /\ MAX_SNAPSHOT_SENDS \in Nat
    BY SnapshotExchangeAssumption, Zenon DEF IInv, Types, Relay
  <1>2. sent \in Nat /\ sent <= MAX_SNAPSHOT_SENDS  BY <1>1 DEF PeerState
  <1> HIDE DEF sent
  <1>3. Good(acked) /\ Good(asked) /\ Good(linked) /\ Good(told)
    BY <1>1, Zenon DEF PeerState
  <1>4. Good(p1) /\ Good(p2) /\ (sent < MAX_SNAPSHOT_SENDS => Good(p3))
    <2>1. Good(p1)  BY <1>1, <1>2, Zenon DEF PeerState
    <2>2. Good(p2)
      <3>1. MAX_SNAPSHOT_SENDS <= MAX_SNAPSHOT_SENDS  BY <1>1
      <3>2. p2 \in PeerState /\ p2.sent = MAX_SNAPSHOT_SENDS  BY <1>1, Zenon DEF PeerState
      <3>3. p2.connected = p.connected /\ p2.held = p.held  BY <1>1, Zenon DEF PeerState
      <3> HIDE DEF p2
      <3> QED  BY <3>1, <3>2, <3>3, Zenon
    <2>3. ASSUME sent < MAX_SNAPSHOT_SENDS PROVE Good(p3)
      <3>1. sent + 1 \in Nat /\ sent + 1 <= MAX_SNAPSHOT_SENDS  BY <1>1, <1>2, <2>3
      <3> QED  BY <1>1, <3>1, Zenon DEF PeerState
    <2> QED  BY <2>1, <2>2, <2>3, Zenon
  <1>5. Silent(<<>>)  BY Has0
  <1>6. Silent(<<"scack">>) /\ Silent(<<"sendppcsns">>)  BY Has1 DEF Messages
  <1>7. Silent(ours)
    <2>1. {"version", "verack"} \subseteq Messages  BY Zenon DEF Messages
    <2>2. <<"version", "verack">> \in Seq(Messages) /\ <<"verack">> \in Seq(Messages)  BY <2>1
    <2>3. ~Has(<<"version", "verack">>, "claim")  BY <2>1, Has2, Zenon
    <2>4. ~Has(<<"verack">>, "claim")  BY <2>1, Has1, Zenon
    <2> QED  BY <2>2, <2>3, <2>4, Zenon
  <1> HIDE DEF ours
  <1>8. Silent(Append(ours, "scack")) /\ Silent(Append(ours, "getppcsns"))
    BY <1>7, HasAppend, Zenon DEF Messages
  <1>9. \/ \E q \in PeerState, r \in Seq(Messages) :
             /\ Good(q) /\ Silent(r) /\ Handle(n, m, q, r)
             /\ snapshot' = snapshot \/ snapshot' = snapshot \cup {n}
             /\ UNCHANGED <<claims, seen>>
        \/ Ignore(n, m)
    <2>1. CASE ProcessVersion(n, m)
      <3>1. UNCHANGED <<snapshot, claims, seen>>  BY <2>1, Zenon DEF ProcessVersion
      <3>2. \/ Handle(n, m, acked, Append(ours, "scack"))
            \/ Handle(n, m, asked, Append(ours, "getppcsns"))
        BY <2>1, Zenon DEF ProcessVersion, ours
      <3> HIDE DEF acked, asked
      <3> QED  BY <1>3, <1>8, <3>1, <3>2, Zenon
    <2>2. CASE ProcessVerack(n, m)
      <3>1. UNCHANGED <<snapshot, claims, seen>> /\ Handle(n, m, linked, <<>>)
        BY <2>2, Zenon DEF ProcessVerack
      <3> HIDE DEF linked
      <3> QED  BY <1>3, <1>5, <3>1, Zenon
    <2>3. CASE ProcessScack(n, m)
      <3>1. UNCHANGED <<snapshot, claims, seen>> /\ Handle(n, m, told, <<>>)
        BY <2>3, Zenon DEF ProcessScack
      <3> HIDE DEF told
      <3> QED  BY <1>3, <1>5, <3>1, Zenon
    <2>4. CASE ProcessGetSnapshot(n, m)
      <3>1. UNCHANGED <<snapshot, claims, seen>>  BY <2>4, Zenon DEF ProcessGetSnapshot
      <3>2. \/ Handle(n, m, p1, <<>>)
            \/ Handle(n, m, p2, <<>>)
            \/ ~(sent >= MAX_SNAPSHOT_SENDS) /\ Handle(n, m, p3, <<"sendppcsns">>)
        BY <2>4, Zenon DEF ProcessGetSnapshot, sent
      <3>3. ~(sent >= MAX_SNAPSHOT_SENDS) => sent < MAX_SNAPSHOT_SENDS
        BY <1>1, <1>2
      <3> HIDE DEF p1, p2, p3
      <3> QED  BY <1>4, <1>5, <1>6, <3>1, <3>2, <3>3, Zenon
    <2>5. CASE ProcessSnapshot(n, m) /\ n \notin snapshot
      <3>1. snapshot' = snapshot \cup {n} /\ UNCHANGED <<claims, seen>>
        BY <2>5, Zenon DEF ProcessSnapshot
      <3>2. Handle(n, m, acked, <<>>) \/ Handle(n, m, acked, <<"scack">>)
        BY <2>5, Zenon DEF ProcessSnapshot
      <3> HIDE DEF acked
      <3> QED  BY <1>3, <1>5, <1>6, <3>1, <3>2, Zenon
    <2>6. CASE ProcessSnapshot(n, m) /\ n \in snapshot
      BY <2>6, Zenon DEF ProcessSnapshot
    <2> QED  BY <2>1, <2>2, <2>3, <2>4, <2>5, <2>6, Zenon
  <1>10. CASE Ignore(n, m)  BY <1>10, RelayIgnore, Zenon
  <1>11. CASE ~Ignore(n, m)
    <2>1. PICK q \in PeerState, r \in Seq(Messages) :
             /\ Good(q) /\ Silent(r) /\ Handle(n, m, q, r)
             /\ snapshot' = snapshot \/ snapshot' = snapshot \cup {n}
             /\ UNCHANGED <<claims, seen>>
      BY <1>9, <1>11, Zenon
    <2> QED  BY <2>1, RelayHandled, Zenon
  <1> QED  BY <1>10, <1>11, Zenon

\* A node that registers the claim sends it to all its neighbours but the one it
\* came from, which has registered it before.
LEMMA RelayClaim ==
  ASSUME IInv, Relay, NEW n \in Nodes, NEW m \in Nodes, peer[n][m].open, chan[m][n] # <<>>,
         Head(chan[m][n]) = "claim", ProcessClaim(n, m), UNCHANGED announced
  PROVE  Relay'
  <1> DEFINE new == n \notin claims
             ack == IF new /\ ~peer[n][m].scack_sent THEN <<"scack">> ELSE <<>>
             out == [k \in Nodes |->
                      IF k = m THEN Push(n, m, ack)
                      ELSE IF peer[n][m].held /\ k \in FullyConnected(n)
                      THEN Push(n, k, <<"claim">>)
                      ELSE chan[n][k]]
  <1>1. CASE n \notin snapshot \/ n \in seen
    <2>1. Ignore(n, m)  BY <1>1, Zenon DEF ProcessClaim
    <2>2. announced => n \in claims  BY <1>1, Zenon DEF Relay, Spreading
    <2> QED  BY <2>1, <2>2, RelayIgnore, Zenon
  <1>2. CASE n \in snapshot /\ n \notin seen
    <2>1. /\ peer' = [peer EXCEPT ![n][m].scack_sent = @ \/ new]
          /\ chan' = [chan EXCEPT ![m][n] = Tail(@), ![n] = out]
          /\ claims' = claims \cup {n} /\ seen' = seen \cup {n}
          /\ snapshot' = snapshot
      BY <1>2, Zenon DEF ProcessClaim
    <2>2. /\ peer \in [Nodes -> [Nodes -> PeerState]]
          /\ chan \in [Nodes -> [Nodes -> Seq(Messages)]]
          /\ n # m
      BY Zenon DEF IInv, Types, Ends
    <2>3. ASSUME NEW x \in Nodes, NEW y \in Nodes
          PROVE  /\ peer'[x][y].open = peer[x][y].open /\ peer'[x][y].sent = peer[x][y].sent
                 /\ peer'[x][y].connected = peer[x][y].connected
                 /\ peer'[x][y].held = peer[x][y].held
      <3>1. peer[x][y] \in PeerState /\ peer[n][m] \in PeerState  BY <2>2, Zenon
      <3>2. CASE x = n /\ y = m
        <4>1. peer'[x][y] = [peer[n][m] EXCEPT !.scack_sent = @ \/ new]  BY <2>1, <2>2, <3>2, Zenon
        <4> HIDE DEF new
        <4> QED  BY <3>1, <3>2, <4>1, Zenon DEF PeerState
      <3>3. CASE ~(x = n /\ y = m)
        <4>1. peer'[x][y] = peer[x][y]  BY <2>1, <2>2, <3>3, Zenon
        <4> QED  BY <4>1, Zenon
      <3> QED  BY <3>2, <3>3, Zenon
    <2>4. ack \in Seq(Messages) /\ <<"claim">> \in Seq(Messages)
      <3>1. <<>> \in Seq(Messages) /\ <<"scack">> \in Seq(Messages)  BY DEF Messages
      <3>2. <<"claim">> \in Seq(Messages)  BY DEF Messages
      <3> QED  BY <3>1, <3>2, Zenon
    <2>5. Has(<<"claim">>, "claim")  BY DEF Has
    <2>6. m \in claims
      <3>1. 1 \in 1..Len(chan[m][n]) /\ chan[m][n][1] = "claim"  BY <2>2
      <3> QED  BY <3>1, Zenon DEF Relay, Has
    <2>7. ASSUME NEW k \in Nodes
          PROVE  /\ Has(chan[n][k], "claim") => Has(out[k], "claim")
                 /\ announced /\ Linked(n, k) /\ k # m => Has(out[k], "claim")
      <3>1. k = m => out[k] = Push(n, m, ack)  BY Zenon
      <3>2. k # m => out[k] = Push(n, k, <<"claim">>) \/ out[k] = chan[n][k]  BY Zenon
      <3> HIDE DEF ack
      <3>3. /\ Has(chan[n][m], "claim") => Has(Push(n, m, ack), "claim")
            /\ Has(chan[n][k], "claim") => Has(Push(n, k, <<"claim">>), "claim")
        BY <2>4, PushKeeps, Zenon
      <3>4. ASSUME announced, Linked(n, k), k # m PROVE Has(out[k], "claim")
        <4>1. Linked(n, m) /\ Linked(k, n)  BY <3>4, Zenon DEF Relay, Linked
        <4>2. peer[n][m].held /\ peer[n][k].connected /\ peer[k][n].connected
          BY <3>4, <4>1, Zenon DEF Relay, Spreading
        <4>3. peer[k][n].open  BY <4>2, ConnectedOpen, Zenon
        <4>4. out[k] = Push(n, k, <<"claim">>)  BY <3>4, <4>2, Zenon DEF FullyConnected
        <4> QED  BY <2>4, <2>5, <4>3, <4>4, PushKeeps, Zenon
      <3> HIDE DEF out
      <3> QED  BY <3>1, <3>2, <3>3, <3>4, Zenon
    <2> HIDE DEF out, ack
    <2>8. ASSUME NEW x \in Nodes, NEW y \in Nodes
          PROVE  /\ x = n => chan'[x][y] = out[y]
                 /\ x = m /\ y = n => chan'[x][y] = Tail(chan[m][n])
                 /\ x # n /\ ~(x = m /\ y = n) => chan'[x][y] = chan[x][y]
      BY <2>1, <2>2, Zenon
    <2>9. \A x, y \in Nodes : Has(chan'[x][y], "claim") => x \in claims'
      <3> TAKE x, y \in Nodes
      <3>1. CASE x = m /\ y = n  BY <2>1, <2>6, <3>1, Zenon
      <3>2. CASE x = n  BY <2>1, <3>2, Zenon
      <3>3. CASE x # n /\ ~(x = m /\ y = n)  BY <2>1, <2>8, <3>3, Zenon DEF Relay
      <3> QED  BY <3>1, <3>2, <3>3, Zenon
    <2>10. ASSUME announced, NEW x \in claims', NEW y \in Nodes, Linked(x, y)
           PROVE  y \in claims' \/ Has(chan'[x][y], "claim")
      <3>1. x \in Nodes  BY <2>1, Zenon DEF Relay
      <3>2. CASE x = n
        <4>1. chan'[x][y] = out[y]  BY <2>8, <3>2, Zenon
        <4>2. y # m => Has(out[y], "claim")  BY <2>7, <2>10, <3>2, Zenon
        <4>3. y = m => y \in claims'  BY <2>1, <2>6, Zenon
        <4> QED  BY <4>1, <4>2, <4>3, Zenon
      <3>3. CASE x # n
        <4>1. y \in claims \/ Has(chan[x][y], "claim")  BY <2>1, <2>10, <3>3, Zenon DEF Relay, Spreading
        <4>2. y = n => y \in claims'  BY <2>1, Zenon
        <4> QED  BY <2>1, <2>8, <3>1, <3>3, <4>1, <4>2, Zenon
      <3> QED  BY <3>2, <3>3, Zenon
    <2>11. /\ \A x, y \in Nodes : peer'[x][y].open => Linked(x, y)
           /\ \A x, y \in Nodes : peer'[x][y].sent <= MAX_SNAPSHOT_SENDS
      BY <2>3 DEF Relay
    <2>12. announced => /\ snapshot' = Nodes
                        /\ \A x, y \in Nodes : Linked(x, y) => peer'[x][y].connected /\ peer'[x][y].held
      BY <2>1, <2>3 DEF Relay, Spreading
    <2>13. claims \subseteq claims' /\ claims' \subseteq Nodes /\ seen' \subseteq claims'
      BY <2>1, Zenon DEF Relay
    <2> QED  BY <2>9, <2>10, <2>11, <2>12, <2>13, RelayKept, Zenon
  <1> QED  BY <1>1, <1>2, Zenon

\* Handling a message of any kind keeps Relay.
LEMMA RelayProcess ==
  ASSUME IInv, Relay, NEW n \in Nodes, NEW m \in Nodes, ProcessMessage(n, m)
  PROVE  Relay'
  <1>1. n \in up /\ peer[n][m].open /\ chan[m][n] # <<>> /\ announced' = announced
    BY Zenon DEF ProcessMessage
  <1>2. \/ /\ Head(chan[m][n]) # "claim"
           /\ \/ ProcessVersion(n, m) \/ ProcessVerack(n, m) \/ ProcessScack(n, m)
              \/ ProcessGetSnapshot(n, m) \/ ProcessSnapshot(n, m)
        \/ Ignore(n, m) /\ ~peer[n][m].connected
        \/ Head(chan[m][n]) = "claim" /\ ProcessClaim(n, m)
    BY Zenon DEF ProcessMessage
  <1>3. ~peer[n][m].connected => ~announced
    BY <1>1, Zenon DEF Relay, Spreading
  <1> QED  BY <1>1, <1>2, <1>3, RelayMessage, RelayClaim, RelayIgnore, Zenon

\* A timer or a request changes flags of one Peer that Relay does not read.
LEMMA RelayOwn ==
  ASSUME IInv, Relay, NEW n \in Nodes, NEW m \in Nodes,
         MaybeSendGetHeaders(n, m) \/ RequestOld(n, m) \/ SentOld(n, m)
  PROVE  Relay'
  <1>1. /\ peer \in [Nodes -> [Nodes -> PeerState]]
        /\ chan \in [Nodes -> [Nodes -> Seq(Messages)]]
    BY Zenon DEF IInv, Types
  <1>2. ASSUME NEW x \in Nodes, NEW y \in Nodes
        PROVE  /\ peer'[x][y].open = peer[x][y].open /\ peer'[x][y].sent = peer[x][y].sent
               /\ peer'[x][y].connected = peer[x][y].connected
               /\ peer'[x][y].held = peer[x][y].held
    <2>1. peer[x][y] \in PeerState  BY <1>1, Zenon
    <2>2. \/ peer'[x][y] = peer[x][y]
          \/ peer'[x][y] = [peer[x][y] EXCEPT !.requested = TRUE]
          \/ peer'[x][y] = [peer[x][y] EXCEPT !.requested = FALSE]
          \/ peer'[x][y] = [peer[x][y] EXCEPT !.sent_recently = FALSE]
      <3>1. CASE MaybeSendGetHeaders(n, m)  BY <1>1, <3>1, Zenon DEF MaybeSendGetHeaders
      <3>2. CASE RequestOld(n, m)  BY <1>1, <3>2, Zenon DEF RequestOld
      <3>3. CASE SentOld(n, m)  BY <1>1, <3>3, Zenon DEF SentOld
      <3> QED  BY <3>1, <3>2, <3>3, Zenon
    <2> QED  BY <2>1, <2>2, Zenon DEF PeerState
  <1>3. <<"getppcsns">> \in Seq(Messages) /\ ~Has(<<"getppcsns">>, "claim")  BY Has1 DEF Messages
  <1>4. ASSUME NEW x \in Nodes, NEW y \in Nodes
        PROVE  Has(chan'[x][y], "claim") <=> Has(chan[x][y], "claim")
    <2>1. chan'[x][y] = chan[x][y] \/ chan'[x][y] = Push(x, y, <<"getppcsns">>)
      <3>1. CASE MaybeSendGetHeaders(n, m)  BY <1>1, <3>1, Zenon DEF MaybeSendGetHeaders
      <3>2. CASE RequestOld(n, m) \/ SentOld(n, m)  BY <3>2, Zenon DEF RequestOld, SentOld
      <3> QED  BY <3>1, <3>2, Zenon
    <2>2. Has(Push(x, y, <<"getppcsns">>), "claim") => Has(chan[x][y], "claim") \/ Has(<<"getppcsns">>, "claim")
      BY <1>3, PushFacts, Zenon
    <2>3. Has(chan[x][y], "claim") => Has(Push(x, y, <<"getppcsns">>), "claim")
      BY <1>3, PushKeeps, Zenon
    <2> QED  BY <1>3, <2>1, <2>2, <2>3, Zenon
  <1>5. UNCHANGED <<snapshot, claims, seen, announced>>
    BY Zenon DEF MaybeSendGetHeaders, RequestOld, SentOld
  <1>6. \A x, y \in Nodes : peer'[x][y].open => Linked(x, y)
    BY <1>2 DEF Relay
  <1>7. \A x, y \in Nodes : peer'[x][y].sent <= MAX_SNAPSHOT_SENDS
    BY <1>2, ZenonT(40) DEF Relay
  <1>8. announced => /\ snapshot' = Nodes
                     /\ \A x, y \in Nodes : Linked(x, y) => peer'[x][y].connected /\ peer'[x][y].held
                     /\ \A x \in claims', y \in Nodes : Linked(x, y) =>
                          y \in claims' \/ Has(chan'[x][y], "claim")
    BY <1>2, <1>4, <1>5 DEF Relay, Spreading
  <1>9. \A x, y \in Nodes : Has(chan'[x][y], "claim") => x \in claims'
    BY <1>4, <1>5, Zenon DEF Relay
  <1>10. seen' \subseteq claims' /\ claims' \subseteq Nodes  BY <1>5, Zenon DEF Relay
  <1> QED  BY <1>5, <1>6, <1>7, <1>8, <1>9, <1>10, RelayKept, Zenon

\* The publisher sends the claim to all its peers.
LEMMA RelayPublish ==
  ASSUME IInv, Relay, NEW n \in Nodes, PublishClaim(n)
  PROVE  Relay'
  <1> DEFINE out == [k \in Nodes |-> IF k \in FullyConnected(n)
                                     THEN Push(n, k, <<"claim">>) ELSE chan[n][k]]
  <1>1. /\ UNCHANGED <<snapshot, peer, seen>> /\ chan' = [chan EXCEPT ![n] = out]
        /\ claims' = claims \cup {n} /\ announced' = (announced \/ (AllReady /\ claims = {}))
    BY Zenon DEF PublishClaim
  <1>2. chan \in [Nodes -> [Nodes -> Seq(Messages)]]  BY Zenon DEF IInv, Types
  <1>3. <<"claim">> \in Seq(Messages) /\ Has(<<"claim">>, "claim")  BY DEF Messages, Has
  <1>4. ASSUME NEW k \in Nodes
        PROVE  /\ Has(chan[n][k], "claim") => Has(out[k], "claim")
               /\ peer[n][k].connected /\ peer[k][n].connected => Has(out[k], "claim")
    <2>1. out[k] = Push(n, k, <<"claim">>) \/ out[k] = chan[n][k]  BY Zenon
    <2>2. Has(chan[n][k], "claim") => Has(Push(n, k, <<"claim">>), "claim")
      BY <1>3, PushKeeps, Zenon
    <2>3. ASSUME peer[n][k].connected, peer[k][n].connected PROVE Has(out[k], "claim")
      <3>1. peer[k][n].open  BY <2>3, ConnectedOpen, Zenon
      <3>2. out[k] = Push(n, k, <<"claim">>)  BY <2>3, Zenon DEF FullyConnected
      <3> QED  BY <1>3, <3>1, <3>2, PushKeeps, Zenon
    <2> HIDE DEF out
    <2> QED  BY <2>1, <2>2, <2>3, Zenon
  <1> HIDE DEF out
  <1>5. ASSUME NEW x \in Nodes, NEW y \in Nodes
        PROVE  chan'[x][y] = IF x = n THEN out[y] ELSE chan[x][y]
    BY <1>1, <1>2, Zenon
  <1>6. announced' => snapshot = Nodes /\ \A x, y \in Nodes : Linked(x, y) => peer[x][y].connected /\ peer[x][y].held
    BY <1>1, Zenon DEF Relay, Spreading, AllReady
  <1>7. ASSUME announced', NEW x \in claims', NEW y \in Nodes, Linked(x, y)
        PROVE  y \in claims' \/ Has(chan'[x][y], "claim")
    <2>1. CASE x = n
      <3>1. Linked(n, y) /\ Linked(y, n)  BY <1>7, <2>1, Zenon DEF Linked
      <3>2. peer[n][y].connected /\ peer[y][n].connected  BY <1>6, <1>7, <3>1, Zenon
      <3> QED  BY <1>4, <1>5, <2>1, <3>2, Zenon
    <2>2. CASE x # n
      <3>1. x \in claims /\ announced  BY <1>1, <1>7, <2>2, Zenon
      <3>2. y \in claims \/ Has(chan[x][y], "claim")  BY <1>7, <3>1, Zenon DEF Relay, Spreading
      <3>3. x \in Nodes  BY <3>1, Zenon DEF Relay
      <3> QED  BY <1>1, <1>5, <2>2, <3>2, <3>3
    <2> QED  BY <2>1, <2>2, Zenon
  <1>8. announced' => Spreading'
    BY <1>1, <1>6, <1>7, Zenon DEF Spreading
  <1>9. \A x, y \in Nodes : Has(chan'[x][y], "claim") => x \in claims'
    BY <1>1, <1>5, Zenon DEF Relay
  <1>10. seen' \subseteq claims' /\ claims' \subseteq Nodes  BY <1>1, Zenon DEF Relay
  <1> QED  BY <1>1, <1>8, <1>9, <1>10, Zenon DEF Relay

\* Steps that can happen only when no claim is announced, or that end that.
LEMMA RelayUnannounced ==
  ASSUME Relay, ~announced', claims' = claims, seen' \subseteq seen,
         \A x, y \in Nodes : peer'[x][y].open => peer[x][y].open \/ Linked(x, y),
         \A x, y \in Nodes : peer'[x][y].sent <= MAX_SNAPSHOT_SENDS,
         \A x, y \in Nodes : Has(chan'[x][y], "claim") => Has(chan[x][y], "claim")
  PROVE  Relay'
  <1>1. \A x, y \in Nodes : peer'[x][y].open => Linked(x, y)  BY Zenon DEF Relay
  <1>2. \A x, y \in Nodes : Has(chan'[x][y], "claim") => x \in claims'  BY Zenon DEF Relay
  <1>3. seen' \subseteq claims' /\ claims' \subseteq Nodes  BY Zenon DEF Relay
  <1> QED  BY <1>1, <1>2, <1>3, Zenon DEF Relay

\* While a claim is announced, no end of a link is closed.
LEMMA AnnouncedOpen ==
  ASSUME IInv, Relay, announced, NEW n \in Nodes, NEW m \in Nodes, Linked(n, m)
  PROVE  peer[n][m].open /\ peer[m][n].open /\ n \in up
  <1>1. Linked(m, n)  BY Zenon DEF Linked
  <1>2. peer[n][m].connected /\ peer[m][n].connected  BY <1>1, Zenon DEF Relay, Spreading
  <1>3. peer[n][m].open /\ peer[m][n].open  BY <1>2, ConnectedOpen, Zenon
  <1> QED  BY <1>3, Zenon DEF IInv, Ends

\* Starting, connecting and stopping keep Relay.
LEMMA RelayConnections ==
  ASSUME IInv, Relay, NEW n \in Nodes, NEW m \in Nodes,
         \/ Start(n) \/ SeenOld(n) \/ Crash(n) \/ CrashWhileStoring(n, m)
         \/ Connect(n, m) \/ NoticeClosed(n, m) \/ Disconnect(n, m)
  PROVE  Relay'
  <1>1. /\ peer \in [Nodes -> [Nodes -> PeerState]]
        /\ chan \in [Nodes -> [Nodes -> Seq(Messages)]]
        /\ snapshot \subseteq up
    BY Zenon DEF IInv, Types
  <1>2. /\ Closed.sent <= MAX_SNAPSHOT_SENDS /\ ~Closed.open
        /\ \A b \in BOOLEAN : Fresh(b).sent <= MAX_SNAPSHOT_SENDS
    BY SnapshotExchangeAssumption DEF Closed, Fresh
  <1>3. CASE Start(n)
    <2>1. ~announced  BY <1>1, <1>3, Zenon DEF Start, Relay, Spreading
    <2>2. UNCHANGED <<peer, chan, claims, seen, announced>>  BY <1>3, Zenon DEF Start
    <2> QED  BY <2>1, <2>2, Zenon DEF Relay
  <1>4. CASE SeenOld(n)
    <2>1. UNCHANGED <<snapshot, peer, chan, claims, announced>> /\ seen' \subseteq seen
      BY <1>4, Zenon DEF SeenOld
    <2> QED  BY <2>1, Zenon DEF Relay, Spreading
  <1>5. ASSUME NEW d, Die(n, d) PROVE Relay'
    <2>1. /\ peer' = [peer EXCEPT ![n] = [k \in Nodes |-> Closed]]
          /\ chan' = [k \in Nodes |-> [y \in Nodes |-> IF y = n THEN <<>> ELSE chan[k][y]]]
          /\ claims' = claims /\ seen' \subseteq seen /\ ~announced'
      BY <1>5, Zenon DEF Die
    <2>2. \A x, y \in Nodes : peer'[x][y] = Closed \/ peer'[x][y] = peer[x][y]  BY <1>1, <2>1, Zenon
    <2>3. \A x, y \in Nodes : chan'[x][y] = <<>> \/ chan'[x][y] = chan[x][y]  BY <2>1, Zenon
    <2>4. \A x, y \in Nodes : peer'[x][y].sent <= MAX_SNAPSHOT_SENDS
      BY <1>2, <2>2, Zenon DEF Relay
    <2> QED  BY <1>2, <2>1, <2>2, <2>3, <2>4, Has0, RelayUnannounced, Zenon
  <1>6. CASE Connect(n, m)
    <2>1. /\ peer' = [peer EXCEPT ![n][m] = Fresh(FALSE), ![m][n] = Fresh(TRUE)]
          /\ chan' = [chan EXCEPT ![n][m] = <<"version">>]
          /\ UNCHANGED <<claims, seen, announced>>
          /\ Linked(n, m) /\ Linked(m, n) /\ ~peer[n][m].open
      BY <1>6, Zenon DEF Connect, Linked
    <2>2. ~announced  BY <2>1, AnnouncedOpen, Zenon
    <2> HIDE DEF Fresh
    <2>3. \A x, y \in Nodes :
            \/ peer'[x][y] = peer[x][y]
            \/ Linked(x, y) /\ (peer'[x][y] = Fresh(TRUE) \/ peer'[x][y] = Fresh(FALSE))
      BY <1>1, <2>1, Zenon
    <2>4. \A x, y \in Nodes : chan'[x][y] = <<"version">> \/ chan'[x][y] = chan[x][y]  BY <1>1, <2>1, Zenon
    <2>5. ~Has(<<"version">>, "claim")  BY Has1, Zenon DEF Messages
    <2>6. \A x, y \in Nodes : peer'[x][y].sent <= MAX_SNAPSHOT_SENDS
      BY <1>2, <2>3, Zenon DEF Relay
    <2>7. \A x, y \in Nodes : peer'[x][y].open => peer[x][y].open \/ Linked(x, y)
      BY <2>3, Zenon
    <2>8. \A x, y \in Nodes : Has(chan'[x][y], "claim") => Has(chan[x][y], "claim")
      BY <2>4, <2>5, Zenon
    <2> QED  BY <2>1, <2>2, <2>6, <2>7, <2>8, RelayUnannounced, Zenon
  <1>7. CASE NoticeClosed(n, m) \/ Disconnect(n, m)
    <2>1. /\ peer' = [peer EXCEPT ![n][m] = Closed]
          /\ chan' = [chan EXCEPT ![m][n] = <<>>]
          /\ UNCHANGED <<claims, seen>>
      BY <1>7, Zenon DEF NoticeClosed, Disconnect, FinalizeNode
    <2>2. ~announced'
      <3>1. CASE NoticeClosed(n, m)
        <4>1. peer[n][m].open /\ ~peer[m][n].open /\ announced' = announced
          BY <3>1, Zenon DEF NoticeClosed
        <4>2. Linked(n, m)  BY <4>1, Zenon DEF Relay
        <4> QED  BY <4>1, <4>2, AnnouncedOpen, Zenon
      <3>2. CASE Disconnect(n, m)  BY <3>2, Zenon DEF Disconnect
      <3> QED  BY <1>7, <3>1, <3>2, Zenon
    <2>3. \A x, y \in Nodes : peer'[x][y] = Closed \/ peer'[x][y] = peer[x][y]  BY <1>1, <2>1, Zenon
    <2>4. \A x, y \in Nodes : chan'[x][y] = <<>> \/ chan'[x][y] = chan[x][y]  BY <1>1, <2>1, Zenon
    <2>5. \A x, y \in Nodes : peer'[x][y].sent <= MAX_SNAPSHOT_SENDS
      BY <1>2, <2>3, Zenon DEF Relay
    <2> QED  BY <1>2, <2>1, <2>2, <2>3, <2>4, <2>5, Has0, RelayUnannounced, Zenon
  <1> QED  BY <1>3, <1>4, <1>5, <1>6, <1>7, Zenon DEF Crash, CrashWhileStoring

\* Every step keeps Relay.
LEMMA RelayNext == IInv /\ Relay /\ [Next]_vars => Relay'
  <1> SUFFICES ASSUME IInv, Relay, [Next]_vars PROVE Relay'
    BY Zenon
  <1>1. CASE UNCHANGED vars  BY <1>1, Zenon DEF vars, Relay, Spreading
  <1>2. ASSUME NEW n \in Nodes, Start(n) \/ Crash(n) \/ SeenOld(n) PROVE Relay'
    BY <1>2, RelayConnections, Zenon
  <1>3. ASSUME NEW n \in Nodes, PublishClaim(n) PROVE Relay'  BY <1>3, RelayPublish, Zenon
  <1>4. ASSUME NEW n \in Nodes, NEW m \in Nodes,
               Connect(n, m) \/ NoticeClosed(n, m) \/ Disconnect(n, m) \/ CrashWhileStoring(n, m)
        PROVE  Relay'
    BY <1>4, RelayConnections, Zenon
  <1>5. ASSUME NEW n \in Nodes, NEW m \in Nodes, ProcessMessage(n, m) PROVE Relay'
    BY <1>5, RelayProcess, Zenon
  <1>6. ASSUME NEW n \in Nodes, NEW m \in Nodes,
               MaybeSendGetHeaders(n, m) \/ RequestOld(n, m) \/ SentOld(n, m)
        PROVE  Relay'
    BY <1>6, RelayOwn, Zenon
  <1> QED  BY <1>1, <1>2, <1>3, <1>4, <1>5, <1>6, Zenon DEF Next

\* Nobody has registered the claim in the beginning.
LEMMA RelayInit == Init => Relay
  <1> SUFFICES ASSUME Init PROVE Relay
    BY Zenon
  <1>1. \A n, m \in Nodes : peer[n][m] = Closed /\ chan[n][m] = <<>>  BY Zenon DEF Init
  <1>2. seen = {} /\ claims = {} /\ ~announced  BY Zenon DEF Init
  <1>3. ~Closed.open /\ Closed.sent <= MAX_SNAPSHOT_SENDS
    BY SnapshotExchangeAssumption DEF Closed
  <1> QED  BY <1>1, <1>2, <1>3, Has0, Zenon DEF Relay

\* Both invariants hold in every reachable state.
LEMMA AlwaysRelay == Spec => [](IInv /\ Relay)
  <1>1. IInv /\ Relay /\ [Next]_vars => (IInv /\ Relay)'  BY NextStep, RelayNext, Zenon
  <1> QED  BY <1>1, InitStep, RelayInit, PTL DEF Spec
-----------------------------------------------------------------------------
(* The theorems.                                                           *)

\* While both ends of a connection are open, a peer believed to hold the
\* snapshot holds it, so that m_peercoin_snapshot_held needs no resetting; a node
\* never acknowledges a snapshot that a crash could take from it; and a node that
\* is down has no open connection.
THEOREM AcksAreTrueAndDurable == Spec => []AcksAreTrue
  <1>1. ASSUME IInv, Relay PROVE AcksAreTrue
    <2>1. \A n, m \in Nodes : peer[n][m] \in PeerState /\ chan[n][m] \in Seq(Messages)
      BY <1>1, Zenon DEF IInv, Types
    <2>2. \A n, m \in Nodes : peer[n][m].sent \in 0..MAX_SNAPSHOT_SENDS
      BY <1>1, <2>1, SnapshotExchangeAssumption DEF Relay, PeerState
    <2>3. \A n, m \in Nodes : \A i \in 1..Len(chan[n][m]) : chan[n][m][i] \in Messages
      BY <2>1
    <2>4. /\ up \subseteq Nodes /\ snapshot \subseteq up
          /\ disk \in [Nodes -> {"none", "torn", "good"}]
      BY <1>1, Zenon DEF IInv, Types
    <2>5. \A n, m \in Nodes : /\ peer[n][m].open => n \in up /\ Linked(n, m)
                              /\ ~peer[n][m].open => peer[n][m] = Closed
      BY <1>1, Zenon DEF IInv, Ends, Relay
    <2>6. claims \cup seen \subseteq Nodes
      BY <1>1, Zenon DEF Relay
    <2>7. TypeOK
      BY <2>2, <2>3, <2>4, <2>5, <2>6, Zenon DEF TypeOK
    <2> QED  BY <1>1, <2>7, Zenon DEF AcksAreTrue, IInv
  <1> QED  BY <1>1, AlwaysRelay, PTL

\* Every node can be reached from every other over the links.
Connected ==
  \A S \in SUBSET Nodes :
    S # {} /\ (\A n \in S, m \in Nodes : Linked(n, m) => m \in S) => S = Nodes

\* In a connected network of any size and shape, an announced claim that is not
\* on its way any more has been registered by every node.
THEOREM ClaimReachesAll == ASSUME Connected PROVE Spec => []ClaimSpreads
  <1>1. ASSUME IInv, Relay PROVE ClaimSpreads
    <2> SUFFICES ASSUME announced, \A n, m \in Nodes : ~Pending(n, m, "claim")
                 PROVE  claims = Nodes
      BY Zenon DEF ClaimSpreads
    <2>1. claims \in SUBSET Nodes /\ claims # {}  BY <1>1, Zenon DEF Relay, Spreading
    <2>2. \A n \in claims, m \in Nodes : Linked(n, m) => m \in claims
      BY <1>1, Zenon DEF Relay, Spreading, Pending, Has
    <2> QED  BY <2>1, <2>2, Zenon DEF Connected
  <1> QED  BY <1>1, AlwaysRelay, PTL
=============================================================================
