--------------------------- MODULE TxRequestRules ---------------------------
(***************************************************************************)
(* What TxRequestTracker promises: the rules txrequest.h lists, on one     *)
(* announcement per peer and transaction hash, without its indexes.  Who   *)
(* is asked next is worked out from the announcements at the time of       *)
(* asking.                                                                 *)
(*                                                                         *)
(* The time of an announcement counts from now: a candidate may be asked,  *)
(* and a request has expired, when it is not positive.                     *)
(***************************************************************************)
EXTENDS Integers

CONSTANTS
  Peers,
  TxHashes,
  Forgotten,            \* the time of an announcement that long past
  GETDATA_TX_INTERVAL,
  None                  \* no announcement

VARIABLES
  req,       \* [TxHashes -> [Peers -> None or [state, time]]]
  priority   \* [TxHashes -> [Peers -> Nat]]

vars == <<req, priority>>

candidate(t) == [state |-> "candidate", time |-> t]
requested(t) == [state |-> "requested", time |-> t]
completed == [state |-> "completed", time |-> 0]

Is(r, h, p, s) == r[h][p] # None /\ r[h][p].state = s

\* A hash whose announcements all failed is forgotten.
Clean(r) ==
  [h \in TxHashes |->
     IF \E p \in Peers : Is(r, h, p, "candidate") \/ Is(r, h, p, "requested")
     THEN r[h] ELSE [p \in Peers |-> None]]

\* Requests expire.
Lapse(r) ==
  Clean([h \in TxHashes |-> [p \in Peers |->
           IF Is(r, h, p, "requested") /\ r[h][p].time <= 0 THEN completed ELSE r[h][p]]])

Available(r, h) == {p \in Peers : Is(r, h, p, "candidate") /\ r[h][p].time <= 0}

\* The rule: nobody else is being asked, and no better peer is available.
MayAsk(r, h, p) ==
  /\ \A q \in Peers : ~Is(r, h, q, "requested")
  /\ p \in Available(r, h)
  /\ \A q \in Available(r, h) : priority[h][q] <= priority[h][p]

Init ==
  /\ req = [h \in TxHashes |-> [p \in Peers |-> None]]
  /\ priority \in [TxHashes -> [Peers -> Nat]]

\* What becomes of the announcements r.
Forget(r, H) == [h \in TxHashes |-> IF h \in H THEN [p \in Peers |-> None] ELSE r[h]]

Leave(r, p) == Clean([h \in TxHashes |-> [r[h] EXCEPT ![p] = None]])

\* The clock moves, in either direction.
Clock(r, d) ==
  [h \in TxHashes |-> [p \in Peers |->
     IF r[h][p] = None \/ Is(r, h, p, "completed") THEN r[h][p]
     ELSE [r[h][p] EXCEPT !.time = IF @ + d < Forgotten THEN Forgotten ELSE @ + d]]]

\* p is asked for all it may be asked for, except the transactions in had.
Ask(r, p, had) ==
  [h \in TxHashes |->
     IF h \in had THEN [q \in Peers |-> None]
     ELSE IF MayAsk(r, h, p) THEN [r[h] EXCEPT ![p] = requested(GETDATA_TX_INTERVAL)]
     ELSE r[h]]

\* The announcements of H by p have failed, and those of F are forgotten.
Fail(r, p, H, F) ==
  Clean([h \in TxHashes |-> [q \in Peers |->
           IF h \in F THEN None
           ELSE IF q = p /\ h \in H /\ r[h][p] # None THEN completed
           ELSE r[h][q]]])

\* From r to new, p has announced the hashes in A, to be asked for after a delay
\* of any length.  An announcement there is already stays as it is.
Announced(r, new, p, A) ==
  LET fresh == {h \in A : r[h][p] = None}
  IN  /\ \A h \in fresh : Is(new, h, p, "candidate") /\ new[h][p].time >= 0
      /\ new = [h \in TxHashes |->
                  IF h \in fresh THEN [r[h] EXCEPT ![p] = candidate(new[h][p].time)] ELSE r[h]]

Send(r, new) ==
  \E p \in Peers : \E had \in SUBSET {h \in TxHashes : MayAsk(r, h, p)} : new = Ask(r, p, had)

Receive(r, new) ==
  \E p \in Peers, H \in SUBSET TxHashes :
    \E F \in SUBSET H, A \in SUBSET (TxHashes \ H) : Announced(Fail(r, p, H, F), new, p, A)

Next ==
  /\ UNCHANGED priority
  /\ \/ \E H \in SUBSET TxHashes : req' = Forget(req, H)
     \/ \E d \in {-1, 1} : req' = Clock(req, d)
     \/ \E p \in Peers : req' = Leave(req, p)
     \/ Send(Lapse(req), req')
     \/ Receive(req, req')

Spec == Init /\ [][Next]_vars
=============================================================================
