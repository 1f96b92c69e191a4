-------------------------- MODULE CheckQueueProofs --------------------------
(***************************************************************************)
(* The verdict of a block is the conjunction of its checks, for any number *)
(* of workers, checks and blocks, if the workers are stopped only when     *)
(* nobody validates.                                                       *)
(***************************************************************************)
EXTENDS CheckQueue, FiniteSetTheorems, TLAPS

Places == {"out", "open", "notify_one", "notify_all", "enter", "wait", "woken", "run"}
PendingIn(q, b) == {c \in Checks : c \in q \/ \E t \in Threads : c \in b[t]}

Types ==
  /\ queue \subseteq Checks /\ nTodo \in Nat
  /\ fAllOk \in BOOLEAN /\ m_request_stop \in BOOLEAN
  /\ pc \in [Threads -> Places]
  /\ vChecks \in [Threads -> SUBSET Checks] /\ nNow \in [Threads -> Nat]
  /\ fOk \in [Threads -> BOOLEAN]
  /\ added \subseteq Checks /\ verdict \in {"none", "ok", "failed"}
  /\ threads \in {"running", "stopping", "joined"}

Disjoint(q, b) ==
  /\ \A t \in Threads : b[t] \cap q = {}
  /\ \A t, u \in Threads : t # u => b[t] \cap b[u] = {}

\* A thread without a batch at hand holds no check.
BatchesHeld(p, b) ==
  \A t \in Threads : IF p[t] \in {"run", "enter"} THEN nNow[t] = Cardinality(b[t]) ELSE b[t] = {}

\* fAllOk and the results of the batches tell what is known of the block.
ResultsSound(q, p, b, ok, results) ==
  /\ PendingIn(q, b) \subseteq added
  /\ ok => added \ PendingIn(q, b) \subseteq Good
  /\ ~ok => ~(added \subseteq Good)
  /\ \A t \in Threads : b[t] # {} =>
       /\ ~results[t] => ~(added \subseteq Good)
       /\ p[t] = "enter" /\ results[t] => b[t] \subseteq Good

Session(p, q, b, ok) ==
  IF p[master] = "out" THEN PendingIn(q, b) = {} /\ ok
  ELSE verdict = "none" /\ ResultsSound(q, p, b, ok, fOk)

Stopping ==
  /\ threads # "running" => pc[master] = "out"
  /\ m_request_stop => threads = "stopping"

\* The inductive invariant.
QueueInv ==
  /\ Types /\ Stopping
  /\ NoneTwice
  /\ nTodo = Cardinality(PendingIn(queue, vChecks))
  /\ BatchesHeld(pc, vChecks)
  /\ Session(pc, queue, vChecks, fAllOk)
  /\ VerdictIsRight

\* Finite sets of checks.
LEMMA ChecksFinite ==
  ASSUME NEW S \in SUBSET Checks
  PROVE  IsFiniteSet(S) /\ Cardinality(S) \in Nat /\ (Cardinality(S) = 0 <=> S = {})
  BY FS_Subset, FS_CardinalityType, FS_EmptySet, QueueAssumption, Zenon

\* Adding new checks, and taking checks away, changes the number by theirs.
LEMMA CountAdded ==
  ASSUME NEW S \in SUBSET Checks, NEW T \in SUBSET Checks, S \cap T = {}
  PROVE  Cardinality(S \cup T) = Cardinality(S) + Cardinality(T)
<1>1. IsFiniteSet(S) /\ IsFiniteSet(T)
  BY ChecksFinite, Zenon
<1>2. Cardinality(S \cup T) = Cardinality(S) + Cardinality(T) - Cardinality(S \cap T)
  BY <1>1, FS_Union, Zenon
<1>3. Cardinality(S \cap T) = 0
  BY FS_EmptySet, Zenon
<1> QED
  BY <1>2, <1>3, ChecksFinite

\* Taking a part of a finite set away lowers its size by the size of the part.
LEMMA CountRemoved ==
  ASSUME NEW S \in SUBSET Checks, NEW T \in SUBSET Checks, T \subseteq S
  PROVE  Cardinality(S \ T) = Cardinality(S) - Cardinality(T) /\ Cardinality(T) <= Cardinality(S)
<1>1. (S \ T) \cup T = S
  BY Zenon
<1>2. Cardinality(S) = Cardinality(S \ T) + Cardinality(T)
  BY <1>1, CountAdded, (S \ T) \cap T = {}, Zenon
<1> QED
  BY <1>2, ChecksFinite

-----------------------------------------------------------------------------
(* A critical section, from its first lines to its end.                    *)

\* What holds inside the critical section of t before the while loop.
Inside(t, p, b, todo, ok) ==
  /\ Types /\ Stopping /\ VerdictIsRight
  /\ t \in Threads /\ p \in [Threads -> Places] /\ b \in [Threads -> SUBSET Checks]
  /\ todo \in Nat /\ ok \in BOOLEAN
  /\ p[t] \in {"enter", "woken"} /\ b[t] = {}
  /\ p[master] = "out" <=> pc[master] = "out"
  /\ Disjoint(queue, b)
  /\ todo = Cardinality(PendingIn(queue, b))
  /\ \A u \in Threads \ {t} : IF p[u] \in {"run", "enter"} THEN nNow[u] = Cardinality(b[u]) ELSE b[u] = {}
  /\ Session(p, queue, b, ok)

\* The part of a step that no loop iteration changes.
Frame(todo) ==
  /\ nTodo' = todo
  /\ UNCHANGED <<m_request_stop, added, threads>>

\* The master leaves Loop with everything done: the invariant is kept.
LEMMA ReturnStep ==
  ASSUME MasterStopped, NEW t, NEW p, NEW b, NEW todo, NEW ok, NEW total, NEW idle,
         Inside(t, p, b, todo, ok), Frame(todo), queue = {}, AllDone(t, todo), ~m_request_stop,
         Return(t, p, b, TRUE, total, idle, ok)
  PROVE  QueueInv'
<1> USE DEF Inside, Frame, Return, AllDone, Types
<1>1. PendingIn(queue, b) = {}
  <2>1. PendingIn(queue, b) \in SUBSET Checks
    BY Zenon DEF PendingIn
  <2> QED
    BY <2>1, ChecksFinite, Zenon
<1>2. p[master] # "out"
  BY Zenon
<1>3. ok <=> added \subseteq Good
  BY <1>1, <1>2, Zenon DEF Session, ResultsSound
<1>4. Types'
  BY <1>2, Zenon DEF Places
<1>5. PendingIn(queue, vChecks)' = {}
  BY <1>1, Zenon DEF PendingIn
<1>6. VerdictIsRight'
  BY <1>3, Zenon DEF VerdictIsRight
<1>7. NoneTwice'
  BY Zenon DEF NoneTwice, Disjoint
<1>8. (nTodo = Cardinality(PendingIn(queue, vChecks)))'
  BY <1>1, <1>5, Zenon
<1>9. BatchesHeld(pc, vChecks)'
  BY Zenon DEF BatchesHeld
<1>10. Session(pc, queue, vChecks, fAllOk)'
  BY <1>5, Zenon DEF Session
<1>11. Stopping'
  BY <1>2, Zenon DEF Stopping
<1> QED
  BY <1>4, <1>6, <1>7, <1>8, <1>9, <1>10, <1>11, Zenon DEF QueueInv

\* A worker leaves Loop on m_request_stop: the invariant is kept.
LEMMA StopStep ==
  ASSUME MasterStopped, NEW t, NEW p, NEW b, NEW todo, NEW ok, NEW total, NEW idle,
         Inside(t, p, b, todo, ok), Frame(todo), m_request_stop,
         Return(t, p, b, ok, total, idle, FALSE)
  PROVE  QueueInv'
<1> USE DEF Inside, Frame, Return, Types
<1>1. p[master] = "out" /\ t # master
  BY Zenon DEF Stopping
<1>2. PendingIn(queue, b) = {} /\ ok
  BY <1>1, Zenon DEF Session
<1>3. PendingIn(queue, vChecks)' = PendingIn(queue, b)
  BY Zenon DEF PendingIn
<1>4. Types'
  BY Zenon DEF Places
<1>5. VerdictIsRight'
  BY <1>1, Zenon DEF VerdictIsRight
<1>6. NoneTwice'
  BY Zenon DEF NoneTwice, Disjoint
<1>7. (nTodo = Cardinality(PendingIn(queue, vChecks)))'
  BY <1>3, Zenon
<1>8. BatchesHeld(pc, vChecks)'
  BY Zenon DEF BatchesHeld
<1>9. Session(pc, queue, vChecks, fAllOk)'
  BY <1>1, <1>2, <1>3, master \in Threads, Zenon DEF Session, Threads
<1>10. Stopping'
  BY <1>1, master \in Threads, Zenon DEF Stopping, Threads
<1> QED
  BY <1>4, <1>5, <1>6, <1>7, <1>8, <1>9, <1>10, Zenon DEF QueueInv

\* Going to sleep keeps the invariant.
LEMMA SleepStep ==
  ASSUME MasterStopped, NEW t, NEW p, NEW b, NEW todo, NEW ok, NEW total, NEW idle,
         Inside(t, p, b, todo, ok), Frame(todo), ~m_request_stop,
         Sleep(t, p, b, ok, total, idle)
  PROVE  QueueInv'
<1> USE DEF Inside, Frame, Sleep, Types
<1>1. PendingIn(queue, vChecks)' = PendingIn(queue, b)
  BY Zenon DEF PendingIn
<1>2. pc'[master] = "out" <=> p[master] = "out"
  BY Zenon DEF Threads
<1>3. Types'
  BY Zenon DEF Places
<1>4. VerdictIsRight'
  BY Zenon DEF VerdictIsRight
<1>5. NoneTwice'
  BY Zenon DEF NoneTwice, Disjoint
<1>6. (nTodo = Cardinality(PendingIn(queue, vChecks)))'
  BY <1>1, Zenon
<1>7. BatchesHeld(pc, vChecks)'
  BY Zenon DEF BatchesHeld
<1>8. Session(pc, queue, vChecks, fAllOk)'
  <2>1. CASE p[master] = "out"
    BY <1>1, <1>2, <2>1, Zenon DEF Session
  <2>2. CASE p[master] # "out"
    <3>1. ResultsSound(queue, p, b, ok, fOk) /\ verdict = "none"
      BY <2>2, Zenon DEF Session
    <3>2. ResultsSound(queue, pc, vChecks, fAllOk, fOk)'
      BY <1>1, <3>1, Zenon DEF ResultsSound
    <3> QED
      BY <1>2, <2>2, <3>1, <3>2, Zenon DEF Session
  <2> QED
    BY <2>1, <2>2, Zenon
<1>9. Stopping'
  BY <1>2, Zenon DEF Stopping
<1> QED
  BY <1>3, <1>4, <1>5, <1>6, <1>7, <1>8, <1>9, Zenon DEF QueueInv

\* Taking a batch keeps the invariant: its checks move from the queue to the thread.
LEMMA TakeStep ==
  ASSUME MasterStopped, NEW t, NEW p, NEW b, NEW todo, NEW ok, NEW total, NEW idle,
         Inside(t, p, b, todo, ok), Frame(todo), queue # {}, ~m_request_stop,
         Take(t, p, b, ok, total, idle)
  PROVE  QueueInv'
<1> USE DEF Inside, Frame, Types
<1>1. PICK S \in SUBSET queue :
        /\ queue' = queue \ S
        /\ vChecks' = [b EXCEPT ![t] = S]
        /\ nNow' = [nNow EXCEPT ![t] = Cardinality(S)]
        /\ fOk' = [fOk EXCEPT ![t] = ok]
        /\ fAllOk' = ok
        /\ pc' = [p EXCEPT ![t] = "run"]
        /\ verdict' = verdict
  BY Zenon DEF Take, Without
<1>2. Cardinality(S) \in Nat
  BY ChecksFinite, Zenon
<1>3. PendingIn(queue, vChecks)' = PendingIn(queue, b)
  BY <1>1, Zenon DEF PendingIn
<1>4. p[master] # "out"
  <2>1. PendingIn(queue, b) # {}
    BY Zenon DEF PendingIn
  <2> QED
    BY <2>1, Zenon DEF Session
<1>5. pc'[master] # "out"
  BY <1>1, <1>4, Zenon DEF Threads
<1>6. Types'
  BY <1>1, <1>2, Zenon DEF Places
<1>7. VerdictIsRight'
  BY <1>1, Zenon DEF VerdictIsRight
<1>8. NoneTwice'
  BY <1>1, Zenon DEF NoneTwice, Disjoint
<1>9. (nTodo = Cardinality(PendingIn(queue, vChecks)))'
  BY <1>3, Zenon
<1>10. BatchesHeld(pc, vChecks)'
  BY <1>1, Zenon DEF BatchesHeld
<1>11. Session(pc, queue, vChecks, fAllOk)'
  <2>1. ResultsSound(queue, p, b, ok, fOk) /\ verdict = "none"
    BY <1>4, Zenon DEF Session
  <2>2. ResultsSound(queue, pc, vChecks, fAllOk, fOk)'
    BY <1>1, <1>3, <2>1, Zenon DEF ResultsSound
  <2> QED
    BY <1>1, <1>5, <2>1, <2>2, Zenon DEF Session
<1>12. Stopping'
  BY <1>4, Zenon DEF Stopping
<1> QED
  BY <1>6, <1>7, <1>8, <1>9, <1>10, <1>11, <1>12, Zenon DEF QueueInv

\* Whatever way the loop goes.
LEMMA LoopStep ==
  ASSUME MasterStopped, NEW t, NEW p, NEW b, NEW todo, NEW ok, NEW total, NEW idle,
         Inside(t, p, b, todo, ok), Frame(todo), WhileLoop(t, p, b, todo, ok, total, idle)
  PROVE  QueueInv'
  BY ReturnStep, StopStep, SleepStep, TakeStep, Zenon DEF WhileLoop
-----------------------------------------------------------------------------
\* Entering Loop keeps the invariant, whatever it leads to.
LEMMA EnterStep ==
  ASSUME MasterStopped, QueueInv, NEW t \in Threads, Enter(t)
  PROVE  QueueInv'
<1>1. vChecks[t] = {}
  BY ChecksFinite, Zenon DEF QueueInv, Types, Enter, BatchesHeld
<1>2. Inside(t, pc, vChecks, nTodo, fAllOk)
  BY <1>1, Zenon DEF QueueInv, Types, Enter, Inside, NoneTwice, Disjoint, BatchesHeld
<1> QED
  BY <1>2, LoopStep, Zenon DEF Enter, Frame

\* Waking up keeps the invariant, whatever it leads to.
LEMMA WakeUpStep ==
  ASSUME MasterStopped, QueueInv, NEW t \in Threads, WakeUp(t)
  PROVE  QueueInv'
<1>1. vChecks[t] = {}
  BY Zenon DEF QueueInv, Types, WakeUp, BatchesHeld
<1>2. Inside(t, pc, vChecks, nTodo, fAllOk)
  BY <1>1, Zenon DEF QueueInv, Types, WakeUp, Inside, NoneTwice, Disjoint, BatchesHeld
<1> QED
  BY <1>2, LoopStep, Zenon DEF WakeUp, Frame

\* A finished batch leaves the pending checks, and its result joins fAllOk.
LEMMA FinishStep ==
  ASSUME MasterStopped, QueueInv, NEW t \in Threads, Finish(t)
  PROVE  QueueInv'
<1> DEFINE todo == nTodo - nNow[t]
           p == NotifyMaster(t, todo)
           b == [vChecks EXCEPT ![t] = {}]
           ok == fAllOk /\ fOk[t]
<1>1. nNow[t] = Cardinality(vChecks[t]) /\ vChecks[t] # {}
  BY ChecksFinite, Zenon DEF QueueInv, Types, Finish, BatchesHeld
<1>2. PendingIn(queue, b) = PendingIn(queue, vChecks) \ vChecks[t]
  BY Zenon DEF QueueInv, Types, NoneTwice, PendingIn
<1>3. vChecks[t] \in SUBSET Checks /\ vChecks[t] \subseteq PendingIn(queue, vChecks)
  BY Zenon DEF QueueInv, Types, PendingIn
<1>4. todo \in Nat /\ todo = Cardinality(PendingIn(queue, b))
  <2>1. PendingIn(queue, vChecks) \in SUBSET Checks /\ PendingIn(queue, b) \in SUBSET Checks
    BY Zenon DEF PendingIn
  <2>2. /\ Cardinality(PendingIn(queue, vChecks) \ vChecks[t])
             = Cardinality(PendingIn(queue, vChecks)) - Cardinality(vChecks[t])
        /\ Cardinality(vChecks[t]) <= Cardinality(PendingIn(queue, vChecks))
    BY <1>3, <2>1, CountRemoved, Zenon
  <2>3. nTodo = Cardinality(PendingIn(queue, vChecks))
    BY Zenon DEF QueueInv
  <2>4. Cardinality(PendingIn(queue, vChecks)) \in Nat /\ Cardinality(vChecks[t]) \in Nat
    BY <1>3, <2>1, ChecksFinite, Zenon
  <2> HIDE DEF b
  <2> QED
    BY <1>1, <1>2, <2>2, <2>3, <2>4
<1>5. /\ p \in [Threads -> Places]
      /\ p[t] = "enter"
      /\ p[master] = "out" <=> pc[master] = "out"
      /\ \A u \in Threads : p[u] = "enter" <=> pc[u] = "enter"
      /\ \A u \in Threads : p[u] \in {"run", "enter"} <=> pc[u] \in {"run", "enter"}
  BY Zenon DEF NotifyMaster, QueueInv, Types, Places, Finish, Threads
<1>6. b \in [Threads -> SUBSET Checks] /\ b[t] = {} /\ \A u \in Threads \ {t} : b[u] = vChecks[u]
  BY Zenon DEF QueueInv, Types
<1>7. ok \in BOOLEAN
  BY Zenon DEF QueueInv, Types
<1>8. Disjoint(queue, b)
  BY <1>6, Zenon DEF QueueInv, NoneTwice, Disjoint
<1>9. \A u \in Threads \ {t} : IF p[u] \in {"run", "enter"} THEN nNow[u] = Cardinality(b[u]) ELSE b[u] = {}
  BY <1>5, <1>6, Zenon DEF QueueInv, BatchesHeld
<1>10. Session(p, queue, b, ok)
  <2>1. pc[master] # "out"
    BY <1>1, <1>3, Zenon DEF QueueInv, Session
  <2>2. ResultsSound(queue, pc, vChecks, fAllOk, fOk) /\ verdict = "none"
    BY <2>1, Zenon DEF QueueInv, Session
  <2>3. fOk[t] => vChecks[t] \subseteq Good
    BY <1>1, <2>2, Zenon DEF ResultsSound, Finish
  <2>4. ~fOk[t] => ~(added \subseteq Good)
    BY <1>1, <2>2, Zenon DEF ResultsSound
  <2> HIDE DEF b, p, ok
  <2>5. ok <=> fAllOk /\ fOk[t]
    BY Zenon DEF ok
  <2>6. PendingIn(queue, b) \subseteq added
    BY <1>2, <2>2, Zenon DEF ResultsSound
  <2>7. ok => added \ PendingIn(queue, b) \subseteq Good
    BY <1>2, <2>2, <2>3, <2>5, Zenon DEF ResultsSound
  <2>8. ~ok => ~(added \subseteq Good)
    BY <2>2, <2>4, <2>5, Zenon DEF ResultsSound
  <2>9. \A u \in Threads : b[u] # {} =>
          /\ ~fOk[u] => ~(added \subseteq Good)
          /\ p[u] = "enter" /\ fOk[u] => b[u] \subseteq Good
    BY <1>5, <1>6, <2>2, Zenon DEF ResultsSound
  <2> QED
    BY <1>5, <2>1, <2>2, <2>6, <2>7, <2>8, <2>9, Zenon DEF Session, ResultsSound
<1>11. Inside(t, p, b, todo, ok)
  <2> HIDE DEF b, p, ok, todo
  <2> QED
    BY <1>4, <1>5, <1>6, <1>7, <1>8, <1>9, <1>10, Zenon DEF Inside, QueueInv
<1> QED
  BY <1>11, LoopStep, Zenon DEF Finish, Frame

\* Running a batch keeps the invariant: its result is remembered until it is folded in.
LEMMA RunStep ==
  ASSUME QueueInv, NEW t \in Threads, Run(t)
  PROVE  QueueInv'
<1> USE DEF QueueInv, Types, Run, shared
<1>1. Types'
  BY Zenon DEF Places, Executed
<1>2. pc'[master] = "out" <=> pc[master] = "out"
  BY Zenon DEF Threads
<1>3. Stopping' /\ VerdictIsRight' /\ NoneTwice'
  BY <1>2, Zenon DEF Stopping, VerdictIsRight, NoneTwice
<1>4. PendingIn(queue, vChecks)' = PendingIn(queue, vChecks)
  BY Zenon DEF PendingIn
<1>5. BatchesHeld(pc, vChecks)'
  BY Zenon DEF BatchesHeld
<1>6. Session(pc, queue, vChecks, fAllOk)'
  <2>1. CASE pc[master] = "out"
    BY <1>2, <1>4, <2>1, Zenon DEF Session
  <2>2. CASE pc[master] # "out"
    <3>1. ResultsSound(queue, pc, vChecks, fAllOk, fOk) /\ verdict = "none"
      BY <2>2, Zenon DEF Session
    <3>2. vChecks[t] \subseteq added
      BY <3>1, Zenon DEF ResultsSound, PendingIn
    <3>3. fOk'[t] <=> fOk[t] /\ vChecks[t] \subseteq Good
      BY Zenon DEF Executed
    <3>4. ResultsSound(queue, pc, vChecks, fAllOk, fOk)'
      BY <1>4, <3>1, <3>2, <3>3, Zenon DEF ResultsSound
    <3> QED
      BY <1>2, <2>2, <3>1, <3>4, Zenon DEF Session
  <2> QED
    BY <2>1, <2>2, Zenon
<1> QED
  BY <1>1, <1>3, <1>4, <1>5, <1>6, Zenon

\* Adding checks keeps the invariant.
LEMMA AddStep ==
  ASSUME QueueInv, NEW S \in SUBSET (Checks \ added), Add(S)
  PROVE  QueueInv'
<1> USE DEF QueueInv, Types, Add, local
<1>1. Pending = PendingIn(queue, vChecks) /\ S \in SUBSET Checks
  BY Zenon DEF Pending, PendingIn
<1>2. PendingIn(queue, vChecks)' = PendingIn(queue, vChecks) \cup S
  BY Zenon DEF PendingIn
<1>3. nTodo' = Cardinality(PendingIn(queue, vChecks) \cup S)
  <2>1. PendingIn(queue, vChecks) \in SUBSET Checks
    BY Zenon DEF PendingIn
  <2> QED
    BY <1>1, <2>1, CountAdded, Zenon
<1>4. pc[master] # "out" /\ pc'[master] # "out" /\ master \in Threads
  BY Zenon DEF Threads
<1>5. Types'
  <2>1. Cardinality(S) \in Nat
    BY <1>1, ChecksFinite, Zenon
  <2>2. nTodo' \in Nat /\ queue' \subseteq Checks /\ added' \subseteq Checks
    BY <1>1, <2>1
  <2>3. pc' \in [Threads -> Places]
    BY Zenon DEF Places
  <2> QED
    BY <2>2, <2>3, Zenon
<1>6. Stopping'
  BY <1>4, Zenon DEF Stopping
<1>7. NoneTwice'
  <2>1. \A t \in Threads : vChecks[t] \cap S = {}
    BY <1>1, Zenon DEF PendingIn
  <2> QED
    BY <2>1, Zenon DEF NoneTwice
<1>8. BatchesHeld(pc, vChecks)'
  BY <1>4, Zenon DEF BatchesHeld
<1>9. ResultsSound(queue, pc, vChecks, fAllOk, fOk) /\ verdict = "none"
  BY <1>4, Zenon DEF Session
<1>10. Session(pc, queue, vChecks, fAllOk)'
  <2>1. ResultsSound(queue, pc, vChecks, fAllOk, fOk)'
    BY <1>2, <1>4, <1>9, Zenon DEF ResultsSound
  <2> QED
    BY <1>4, <1>9, <2>1, Zenon DEF Session
<1>11. VerdictIsRight'
  BY <1>9, Zenon DEF VerdictIsRight
<1> QED
  BY <1>2, <1>3, <1>5, <1>6, <1>7, <1>8, <1>10, <1>11, Zenon

\* Steps that only move threads between places without a batch.
LEMMA MoveStep ==
  ASSUME QueueInv, pc' \in [Threads -> Places],
         \A t \in Threads : pc'[t] = pc[t] \/ {pc[t], pc'[t]} \cap {"run", "enter"} = {},
         pc'[master] = "out" <=> pc[master] = "out",
         UNCHANGED <<queue, fAllOk, nTodo, local, added, verdict>>,
         Stopping', m_request_stop' \in BOOLEAN, threads' \in {"running", "stopping", "joined"}
  PROVE  QueueInv'
<1> USE DEF QueueInv, Types, local
<1>1. PendingIn(queue, vChecks)' = PendingIn(queue, vChecks)
  BY Zenon DEF PendingIn
<1>2. NoneTwice' /\ VerdictIsRight' /\ Types'
  BY Zenon DEF NoneTwice, VerdictIsRight
<1>3. BatchesHeld(pc, vChecks)'
  BY Zenon DEF BatchesHeld
<1>4. Session(pc, queue, vChecks, fAllOk)'
  <2>1. CASE pc[master] = "out"
    BY <1>1, <2>1, Zenon DEF Session
  <2>2. CASE pc[master] # "out"
    <3>1. ResultsSound(queue, pc, vChecks, fAllOk, fOk) /\ verdict = "none"
      BY <2>2, Zenon DEF Session
    <3>2. ResultsSound(queue, pc, vChecks, fAllOk, fOk)'
      BY <1>1, <3>1, Zenon DEF ResultsSound
    <3> QED
      BY <2>2, <3>1, <3>2, Zenon DEF Session
  <2> QED
    BY <2>1, <2>2, Zenon
<1> QED
  BY <1>1, <1>2, <1>3, <1>4, Zenon

\* Opening a control finds the queue clean and keeps the invariant.
LEMMA OpenStep ==
  ASSUME MasterStopped, QueueInv, OpenControl
  PROVE  QueueInv'
<1> USE DEF QueueInv, Types, OpenControl, shared, local
<1>1. PendingIn(queue, vChecks) = {} /\ fAllOk /\ master \in Threads
  BY Zenon DEF Session, Threads
<1>2. PendingIn(queue, vChecks)' = {}
  BY <1>1, Zenon DEF PendingIn
<1>3. \A t \in Threads : vChecks[t] = {}
  BY <1>1, Zenon DEF PendingIn
<1>4. Types'
  BY Zenon DEF Places
<1>5. Stopping' /\ NoneTwice' /\ VerdictIsRight'
  BY Zenon DEF Stopping, NoneTwice, VerdictIsRight
<1>6. BatchesHeld(pc, vChecks)'
  BY <1>1, Zenon DEF BatchesHeld
<1>7. Session(pc, queue, vChecks, fAllOk)'
  BY <1>1, <1>2, <1>3, Zenon DEF Session, ResultsSound
<1> QED
  BY <1>1, <1>2, <1>4, <1>5, <1>6, <1>7, Zenon

\* The call of Wait keeps the invariant.
LEMMA WaitStep ==
  ASSUME QueueInv, Wait
  PROVE  QueueInv'
<1> USE DEF QueueInv, Types, Wait, shared
<1>1. master \in Threads /\ pc[master] = "open" /\ vChecks[master] = {}
  BY Zenon DEF Threads, BatchesHeld
<1>2. PendingIn(queue, vChecks)' = PendingIn(queue, vChecks)
  BY Zenon DEF PendingIn
<1>3. Types'
  BY Zenon DEF Places
<1>4. Stopping' /\ NoneTwice' /\ VerdictIsRight'
  BY <1>1, Zenon DEF Stopping, NoneTwice, VerdictIsRight
<1>5. BatchesHeld(pc, vChecks)'
  BY <1>1, FS_EmptySet, Zenon DEF BatchesHeld
<1>6. ResultsSound(queue, pc, vChecks, fAllOk, fOk) /\ verdict = "none"
  BY <1>1, Zenon DEF Session
<1>7. ResultsSound(queue, pc, vChecks, fAllOk, fOk)'
  BY <1>1, <1>2, <1>6, Zenon DEF ResultsSound
<1>8. Session(pc, queue, vChecks, fAllOk)'
  BY <1>1, <1>6, <1>7, Zenon DEF Session
<1> QED
  BY <1>2, <1>3, <1>4, <1>5, <1>8, Zenon

\* The invariant holds in the beginning.
LEMMA QueueInit == Init => QueueInv
<1> SUFFICES ASSUME Init PROVE QueueInv
  BY Zenon
<1> USE DEF Init
<1>1. Types
  BY Zenon DEF Types, Places
<1>2. PendingIn(queue, vChecks) = {}
  BY Zenon DEF PendingIn
<1>3. BatchesHeld(pc, vChecks)
  BY FS_EmptySet, Zenon DEF BatchesHeld
<1>4. Session(pc, queue, vChecks, fAllOk)
  BY <1>2, Zenon DEF Session, Threads
<1> QED
  BY <1>1, <1>2, <1>3, <1>4, FS_EmptySet, Zenon DEF QueueInv, Stopping, NoneTwice, VerdictIsRight

\* Every step keeps the invariant.
LEMMA QueueStep ==
  ASSUME MasterStopped, QueueInv, [Next]_vars
  PROVE  QueueInv'
<1>1. CASE OpenControl
  BY <1>1, OpenStep, Zenon
<1>2. CASE Wait
  BY <1>2, WaitStep, Zenon
<1>3. CASE StopWorkerThreads
  <2>1. pc' \in [Threads -> Places]
    BY <1>3, Zenon DEF StopWorkerThreads, QueueInv, Types, Places
  <2>2. pc'[master] = pc[master]
    BY <1>3, QueueAssumption, Zenon DEF StopWorkerThreads, Threads
  <2>3. \A t \in Threads : pc'[t] = pc[t] \/ {pc[t], pc'[t]} \cap {"run", "enter"} = {}
    BY <1>3, Zenon DEF StopWorkerThreads
  <2>4. Stopping'
    BY <1>3, <2>2, Zenon DEF StopWorkerThreads, Stopping
  <2> QED
    BY <1>3, <2>1, <2>2, <2>3, <2>4, MoveStep, Zenon DEF StopWorkerThreads, shared
<1>4. CASE JoinWorkers
  <2>1. Stopping'
    BY <1>4, Zenon DEF JoinWorkers, Stopping, QueueInv
  <2> QED
    BY <1>4, <2>1, MoveStep, Zenon DEF JoinWorkers, shared, QueueInv, Types
<1>5. ASSUME NEW S \in SUBSET (Checks \ added), Add(S) PROVE QueueInv'
  BY <1>5, AddStep, Zenon
<1>6. ASSUME NEW W \in SUBSET Workers, Notify(W) PROVE QueueInv'
  <2>1. pc' \in [Threads -> Places]
    BY <1>6, Zenon DEF Notify, QueueInv, Types, Places
  <2>2. pc[master] \in {"notify_one", "notify_all"} /\ pc'[master] = "open"
    BY <1>6, Zenon DEF Notify, Threads
  <2>3. \A t \in Threads : pc'[t] = pc[t] \/ {pc[t], pc'[t]} \cap {"run", "enter"} = {}
    <3>1. \A w \in W : pc[w] = "wait"
      BY <1>6 DEF Notify
    <3> QED
      BY <1>6, <2>2, <3>1, Zenon DEF Notify
  <2>4. Stopping'
    BY <1>6, <2>2, Zenon DEF Notify, Stopping, QueueInv
  <2> QED
    BY <1>6, <2>1, <2>2, <2>3, <2>4, MoveStep, Zenon DEF Notify, shared, QueueInv, Types
<1>7. ASSUME NEW t \in Threads, ThreadStep(t) PROVE QueueInv'
  BY <1>7, EnterStep, FinishStep, WakeUpStep, RunStep, Zenon DEF ThreadStep
<1>8. ASSUME NEW t \in Threads, Spurious(t) PROVE QueueInv'
  <2>1. pc' \in [Threads -> Places] /\ (pc'[master] = "out" <=> pc[master] = "out")
    BY <1>8 DEF Spurious, QueueInv, Types, Places
  <2>2. \A u \in Threads : pc'[u] = pc[u] \/ {pc[u], pc'[u]} \cap {"run", "enter"} = {}
    BY <1>8, Zenon DEF Spurious, QueueInv, Types
  <2>3. Stopping'
    BY <1>8, <2>1, Zenon DEF Spurious, Stopping, QueueInv
  <2> QED
    BY <1>8, <2>1, <2>2, <2>3, MoveStep, Zenon DEF Spurious, shared, QueueInv, Types
<1>9. CASE UNCHANGED vars
  BY <1>9, MoveStep, Zenon DEF vars, shared, local, QueueInv, Types, Stopping
<1> QED
  BY <1>1, <1>2, <1>3, <1>4, <1>5, <1>6, <1>7, <1>8, <1>9, Zenon DEF Next

-----------------------------------------------------------------------------
(* The counters.                                                           *)

Idlers(p) == {t \in Threads : p[t] \in {"wait", "woken"}}

\* The threads that nTotal counts: those past their first step in the loop, and
\* the workers that left it on m_request_stop, which lowers nothing.
Counted(p, n) ==
  {t \in Threads :
     \/ p[t] \in {"wait", "woken", "run"}
     \/ p[t] = "enter" /\ n[t] # 0
     \/ p[t] = "out" /\ t \in Workers}

CountInv ==
  /\ nIdle = Cardinality(Idlers(pc))
  /\ nTotal = Cardinality(Counted(pc, nNow))
  /\ \A t \in Threads : pc[t] = "run" => nNow[t] # 0

\* A set of threads with one more, and with one less.
LEMMA CountThreads ==
  ASSUME NEW S \in SUBSET Threads, NEW t \in Threads
  PROVE  /\ Cardinality(S) \in Nat
         /\ t \in S => Cardinality(S \ {t}) = Cardinality(S) - 1 /\ S \cup {t} = S
         /\ t \notin S => Cardinality(S \cup {t}) = Cardinality(S) + 1 /\ S \ {t} = S
<1>1. IsFiniteSet(Threads)
  BY QueueAssumption, FS_AddElement, Zenon DEF Threads
<1>2. IsFiniteSet(S)
  BY <1>1, FS_Subset, Zenon
<1> QED
  BY <1>2, FS_CardinalityType, FS_AddElement, FS_RemoveElement

\* A step that moves no thread in or out of the counted sets.
LEMMA CountMove ==
  ASSUME CountInv, UNCHANGED <<nIdle, nTotal>>,
         \A t \in Threads : t \in Idlers(pc') <=> t \in Idlers(pc),
         \A t \in Threads : t \in Counted(pc', nNow') <=> t \in Counted(pc, nNow),
         \A t \in Threads : pc'[t] = "run" => nNow'[t] # 0
  PROVE  CountInv'
<1>1. Idlers(pc') = Idlers(pc)
  BY Zenon DEF Idlers
<1>2. Counted(pc', nNow') = Counted(pc, nNow)
  BY Zenon DEF Counted
<1> QED
  BY <1>1, <1>2, Zenon DEF CountInv

\* Whatever way the loop goes, the counters are right again: idle and total are
\* those of the other threads, and t is counted in total.
LEMMA CountLoop ==
  ASSUME MasterStopped, Types, Stopping, NEW t \in Threads, NEW p \in [Threads -> Places], NEW b, NEW todo,
         NEW ok, NEW total, NEW idle,
         p[master] = "out" <=> pc[master] = "out", p[t] \in {"enter", "woken"},
         idle = Cardinality(Idlers(p) \ {t}),
         total = Cardinality(Counted(p, nNow) \cup {t}),
         \A u \in Threads : p[u] = "run" => nNow[u] # 0,
         WhileLoop(t, p, b, todo, ok, total, idle)
  PROVE  CountInv'
<1> DEFINE I == Idlers(p) \ {t}
           C == Counted(p, nNow) \cup {t}
<1>a. I \in SUBSET Threads /\ C \in SUBSET Threads
  BY Zenon DEF Idlers, Counted
<1>b. t \in C /\ t \notin I
  BY Zenon
<1>c. Cardinality(I) \in Nat /\ Cardinality(C) \in Nat
  <2> HIDE DEF I, C
  <2> QED
    BY <1>a, CountThreads, Zenon
<1>0. nNow \in [Threads -> Nat]
  BY Zenon DEF Types
<1>1. CASE AllDone(t, todo) /\ Return(t, p, b, TRUE, total - 1, idle, ok)
  <2>1. t = master /\ t \notin Workers
    BY <1>1, QueueAssumption, Zenon DEF AllDone
  <2>2. pc' = [p EXCEPT ![t] = "out"] /\ nNow' = nNow /\ nIdle' = idle /\ nTotal' = total - 1
    BY <1>1, Zenon DEF Return
  <2>3. Idlers(pc') = I
    BY <2>2, Zenon DEF Idlers
  <2>4. Counted(pc', nNow') = C \ {t}
    BY <2>1, <2>2, Zenon DEF Counted
  <2>5. Cardinality(C \ {t}) = Cardinality(C) - 1
    BY <1>a, <1>b, CountThreads, Zenon
  <2>6. \A u \in Threads : pc'[u] = "run" => nNow'[u] # 0
    BY <2>2, Zenon
  <2> QED
    BY <2>2, <2>3, <2>4, <2>5, <2>6, Zenon DEF CountInv
<1>2. CASE Sleep(t, p, b, ok, total, idle)
  <2>2. pc' = [p EXCEPT ![t] = "wait"] /\ nNow' = nNow /\ nIdle' = idle + 1 /\ nTotal' = total
    BY <1>2, Zenon DEF Sleep
  <2>3. Idlers(pc') = I \cup {t}
    BY <2>2, Zenon DEF Idlers
  <2>4. Counted(pc', nNow') = C
    <3>1. \A u \in Threads : u # t => pc'[u] = p[u]
      BY <2>2, Zenon
    <3>2. pc'[t] = "wait"
      BY <2>2, Zenon
    <3> QED
      BY <2>2, <3>1, <3>2, Zenon DEF Counted
  <2>5. Cardinality(I \cup {t}) = Cardinality(I) + 1
    BY <1>a, <1>b, CountThreads, Zenon
  <2>6. \A u \in Threads : pc'[u] = "run" => nNow'[u] # 0
    BY <2>2, Zenon
  <2> QED
    BY <2>2, <2>3, <2>4, <2>5, <2>6, Zenon DEF CountInv
<1>3. CASE m_request_stop /\ Return(t, p, b, ok, total, idle, FALSE)
  <2>1. t \in Workers
    <3>1. p[master] = "out"
      BY <1>3, Zenon DEF Stopping
    <3> QED
      BY <3>1, Zenon DEF Threads
  <2>2. pc' = [p EXCEPT ![t] = "out"] /\ nNow' = nNow /\ nIdle' = idle /\ nTotal' = total
    BY <1>3, Zenon DEF Return
  <2>3. Idlers(pc') = I
    BY <2>2, Zenon DEF Idlers
  <2>4. Counted(pc', nNow') = C
    BY <2>1, <2>2, Zenon DEF Counted
  <2>6. \A u \in Threads : pc'[u] = "run" => nNow'[u] # 0
    BY <2>2, Zenon
  <2> QED
    BY <2>2, <2>3, <2>4, <2>6, Zenon DEF CountInv
<1>4. CASE Take(t, p, b, ok, total, idle)
  <2>1. PICK S \in SUBSET queue :
          /\ Cardinality(S) = BatchOf(Cardinality(queue), total, idle)
          /\ nNow' = [nNow EXCEPT ![t] = Cardinality(S)]
          /\ nIdle' = idle /\ nTotal' = total
          /\ pc' = [p EXCEPT ![t] = "run"]
    BY <1>4, Zenon DEF Take
  <2>2. Cardinality(S) # 0
    BY <2>1 DEF BatchOf
  <2>3. Idlers(pc') = I
    BY <2>1, Zenon DEF Idlers
  <2>4. Counted(pc', nNow') = C
    <3>1. \A u \in Threads : u # t => pc'[u] = p[u] /\ nNow'[u] = nNow[u]
      BY <1>0, <2>1, Zenon
    <3>2. pc'[t] = "run"
      BY <2>1, Zenon
    <3> QED
      BY <3>1, <3>2, Zenon DEF Counted
  <2>6. \A u \in Threads : pc'[u] = "run" => nNow'[u] # 0
    BY <1>0, <2>1, <2>2, Zenon
  <2> QED
    BY <2>1, <2>3, <2>4, <2>6, Zenon DEF CountInv
<1> QED
  BY <1>1, <1>2, <1>3, <1>4, Zenon DEF WhileLoop

\* Every step keeps the counters right.
LEMMA CountStep ==
  ASSUME MasterStopped, QueueInv, CountInv, [Next]_vars
  PROVE  CountInv'
<1>0. /\ Types /\ Stopping /\ pc \in [Threads -> Places] /\ nNow \in [Threads -> Nat]
      /\ master \in Threads /\ master \notin Workers
  BY QueueAssumption, Zenon DEF QueueInv, Types, Threads
<1>1. CASE OpenControl
  BY <1>0, <1>1, CountMove, Zenon DEF OpenControl, shared, local, Idlers, Counted, CountInv
<1>2. CASE Wait
  BY <1>0, <1>2, CountMove, Zenon DEF Wait, shared, Idlers, Counted, CountInv
<1>3. CASE StopWorkerThreads
  BY <1>0, <1>3, CountMove, Zenon DEF StopWorkerThreads, shared, local, Idlers, Counted, CountInv
<1>4. CASE JoinWorkers
  BY <1>0, <1>4, CountMove, Zenon DEF JoinWorkers, shared, local, Idlers, Counted, CountInv
<1>5. ASSUME NEW S \in SUBSET (Checks \ added), Add(S) PROVE CountInv'
  BY <1>0, <1>5, CountMove, Zenon DEF Add, local, Idlers, Counted, CountInv
<1>6. ASSUME NEW W \in SUBSET Workers, Notify(W) PROVE CountInv'
  <2>1. \A w \in W : pc[w] = "wait"
    BY <1>6 DEF Notify
  <2> QED
    BY <1>0, <1>6, <2>1, CountMove, Zenon DEF Notify, shared, local, Idlers, Counted, CountInv
<1>7. ASSUME NEW t \in Threads, Spurious(t) PROVE CountInv'
  BY <1>0, <1>7, CountMove, Zenon DEF Spurious, shared, local, Idlers, Counted, CountInv
<1>8. ASSUME NEW t \in Threads, Run(t) PROVE CountInv'
  BY <1>0, <1>8, CountMove, Zenon DEF Run, shared, Idlers, Counted, CountInv
<1> DEFINE I == Idlers(pc)
           C == Counted(pc, nNow)
<1>9. I \in SUBSET Threads /\ C \in SUBSET Threads
  BY Zenon DEF Idlers, Counted
<1>10. ASSUME NEW t \in Threads, Enter(t) PROVE CountInv'
  <2>1. t \notin I /\ t \notin C
    BY <1>10, Zenon DEF Enter, Idlers, Counted
  <2>2. nIdle = Cardinality(I \ {t}) /\ nTotal + 1 = Cardinality(C \cup {t})
    BY <1>9, <2>1, CountThreads, Zenon DEF CountInv
  <2> HIDE DEF I, C
  <2> QED
    BY <1>0, <1>10, <2>2, CountLoop, Zenon DEF Enter, CountInv, I, C
<1>11. ASSUME NEW t \in Threads, WakeUp(t) PROVE CountInv'
  <2>1. t \in I /\ t \in C
    <3>1. pc[t] = "woken"
      BY <1>11, Zenon DEF WakeUp
    <3> QED
      BY <3>1, Zenon DEF Idlers, Counted
  <2>2. nIdle - 1 = Cardinality(I \ {t}) /\ nTotal = Cardinality(C \cup {t})
    BY <1>9, <2>1, CountThreads, Zenon DEF CountInv
  <2> HIDE DEF I, C
  <2> QED
    BY <1>0, <1>11, <2>2, CountLoop, Zenon DEF WakeUp, CountInv, I, C
<1>12. ASSUME NEW t \in Threads, Finish(t) PROVE CountInv'
  <2> DEFINE todo == nTodo - nNow[t]
             p == NotifyMaster(t, todo)
  <2>1. /\ p \in [Threads -> Places] /\ p[t] = "enter" /\ (p[master] = "out" <=> pc[master] = "out")
        /\ \A u \in Threads : p[u] = pc[u] \/ (p[u] = "woken" /\ pc[u] = "wait")
    BY <1>0, <1>12, Zenon DEF NotifyMaster, Finish, Places
  <2>2. Idlers(p) = I /\ Counted(p, nNow) = C
    BY <2>1, Zenon DEF Idlers, Counted
  <2>3. t \notin I /\ t \in C
    <3>1. pc[t] = "enter" /\ nNow[t] # 0
      BY <1>12, Zenon DEF Finish
    <3> QED
      BY <3>1, Zenon DEF Idlers, Counted
  <2>4. nIdle = Cardinality(Idlers(p) \ {t}) /\ nTotal = Cardinality(Counted(p, nNow) \cup {t})
    BY <1>9, <2>2, <2>3, CountThreads, Zenon DEF CountInv
  <2>5. \A u \in Threads : p[u] = "run" => nNow[u] # 0
    BY <2>1, Zenon DEF CountInv
  <2>6. WhileLoop(t, p, [vChecks EXCEPT ![t] = {}], todo, fAllOk /\ fOk[t], nTotal, nIdle)
    BY <1>12, Zenon DEF Finish
  <2> HIDE DEF p, todo
  <2> QED
    BY <1>0, <2>1, <2>4, <2>5, <2>6, CountLoop, Zenon
<1>13. CASE UNCHANGED vars
  BY <1>0, <1>13, CountMove, Zenon DEF vars, shared, local, CountInv
<1> QED
  BY <1>1, <1>2, <1>3, <1>4, <1>5, <1>6, <1>7, <1>8, <1>10, <1>11, <1>12, <1>13, Zenon DEF Next, ThreadStep

\* The counters are right in the beginning.
LEMMA CountInit == Init => CountInv
<1> SUFFICES ASSUME Init PROVE CountInv
  BY Zenon
<1>0. \A t \in Threads : pc[t] = (IF t = master THEN "out" ELSE "enter") /\ nNow[t] = 0
  BY Zenon DEF Init
<1>1. Idlers(pc) = {} /\ Counted(pc, nNow) = {}
  BY <1>0, QueueAssumption, Zenon DEF Idlers, Counted
<1> QED
  BY <1>1, FS_EmptySet, Zenon DEF CountInv, Init

\* Both invariants hold.
LEMMA QueueInvariant == ASSUME MasterStopped PROVE Spec => [](QueueInv /\ CountInv)
<1>1. QueueInv /\ CountInv /\ [Next]_vars => (QueueInv /\ CountInv)'
  BY QueueStep, CountStep, Zenon
<1> QED
  BY <1>1, QueueInit, CountInit, PTL DEF Spec

\* If the threads that validate have ended before the workers are stopped, Wait
\* returns for every block whether all its checks succeed, and leaves nothing in
\* the queue, nothing pending and no failure behind for the next block.
THEOREM BlocksEndRight == ASSUME MasterStopped PROVE Spec => []BlockEndsRight
<1>1. QueueInv => VerdictIsRight
  BY Zenon DEF QueueInv
<1>2. QueueInv => LeftClean
  <2>1. ASSUME QueueInv, pc[master] = "out" PROVE queue = {} /\ nTodo = 0 /\ fAllOk
    BY <2>1, FS_EmptySet, Zenon DEF QueueInv, Types, Session, PendingIn
  <2> QED
    BY <2>1, Zenon DEF LeftClean
<1>3. QueueInv => BlockEndsRight
  BY <1>1, <1>2, Zenon DEF BlockEndsRight
<1> QED
  BY <1>3, QueueInvariant, PTL

\* Under the same condition no check is in two places, the state has its types,
\* and nIdle is the number of waiting threads at every moment.
THEOREM BooksAreRight == ASSUME MasterStopped PROVE Spec => []QueueSane
<1>1. ASSUME QueueInv, CountInv PROVE QueueSane
  <2>1. nIdle \in Nat /\ nTotal \in Nat
    <3>1. Idlers(pc) \in SUBSET Threads /\ Counted(pc, nNow) \in SUBSET Threads /\ master \in Threads
      BY Zenon DEF Idlers, Counted, Threads
    <3> QED
      BY <1>1, <3>1, CountThreads, Zenon DEF CountInv
  <2>2. TypeOK
    BY <1>1, <2>1, Zenon DEF QueueInv, Types, Places, TypeOK
  <2>3. IdleExact
    BY <1>1, Zenon DEF CountInv, Idlers, IdleExact
  <2> QED
    BY <1>1, <2>2, <2>3, Zenon DEF QueueSane, QueueInv
<1> QED
  BY <1>1, QueueInvariant, PTL
=============================================================================
