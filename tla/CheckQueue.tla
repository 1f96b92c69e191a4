----------------------------- MODULE CheckQueue -----------------------------
(***************************************************************************)
(* CCheckQueue (checkqueue.h): ConnectBlock, the master, adds script       *)
(* checks to a queue while worker threads take them in batches; Wait makes *)
(* the master a worker too, until everything is done, and returns whether  *)
(* all checks of the block succeeded.  Shutdown stops the workers.         *)
(*                                                                         *)
(* A critical section of m_mutex is one step.  The order of the queue does *)
(* not matter, so it is a set.  A waiting thread may also wake up without  *)
(* a notification.                                                         *)
(***************************************************************************)
EXTENDS Integers, FiniteSets

CONSTANTS
  Workers, master,
  Checks, Good,   \* the script checks, and those that succeed
  nBatchSize,
  MasterStopped   \* the threads that validate blocks have ended before Shutdown
                  \* stops the workers

Threads == Workers \cup {master}

ASSUME QueueAssumption ==
  /\ IsFiniteSet(Workers) /\ master \notin Workers
  /\ IsFiniteSet(Checks) /\ Good \subseteq Checks
  /\ nBatchSize \in Nat \ {0} /\ MasterStopped \in BOOLEAN

VARIABLES
  queue, nIdle, nTotal, fAllOk, nTodo, m_request_stop,
  pc,        \* where a thread is
  vChecks,   \* Loop: its batch,
  nNow,      \* the size of its last batch,
  fOk,       \* and the result of it
  added,     \* the checks of the present block
  verdict,   \* what Wait returned for it
  threads    \* m_worker_threads: "running", "stopping" or "joined"

shared == <<queue, nIdle, nTotal, fAllOk, nTodo>>
local == <<vChecks, nNow, fOk>>
vars == <<shared, m_request_stop, pc, local, added, verdict, threads>>

Init ==
  /\ queue = {} /\ nIdle = 0 /\ nTotal = 0 /\ fAllOk = TRUE /\ nTodo = 0
  /\ m_request_stop = FALSE
  /\ pc = [t \in Threads |-> IF t = master THEN "out" ELSE "enter"]
  /\ vChecks = [t \in Threads |-> {}] /\ nNow = [t \in Threads |-> 0]
  /\ fOk = [t \in Threads |-> TRUE]
  /\ added = {} /\ verdict = "none" /\ threads = "running"
-----------------------------------------------------------------------------
(* The master.                                                             *)

\* ConnectBlock makes a CCheckQueueControl if the queue has threads.
OpenControl ==
  /\ pc[master] = "out" /\ threads # "joined"
  /\ threads = "running" \/ ~MasterStopped
  /\ pc' = [pc EXCEPT ![master] = "open"]
  /\ added' = {} /\ verdict' = "none"
  /\ UNCHANGED <<shared, m_request_stop, local, threads>>

\* The checks that are queued or in a batch.
Pending == {c \in Checks : c \in queue \/ \E t \in Threads : c \in vChecks[t]}

Add(S) ==
  /\ pc[master] = "open" /\ S # {} /\ S \cap Pending = {}
  /\ queue' = queue \cup S /\ nTodo' = nTodo + Cardinality(S)
  /\ added' = added \cup S
  /\ pc' = [pc EXCEPT ![master] = IF Cardinality(S) = 1 THEN "notify_one" ELSE "notify_all"]
  /\ UNCHANGED <<nIdle, nTotal, fAllOk, m_request_stop, local, verdict, threads>>

\* The end of Add, without the lock: W is the set of workers that wake up.
Notify(W) ==
  LET waiting == {w \in Workers : pc[w] = "wait"} IN
  /\ pc[master] \in {"notify_one", "notify_all"}
  /\ IF pc[master] = "notify_all" \/ waiting = {} THEN W = waiting ELSE \E w \in waiting : W = {w}
  /\ pc' = [t \in Threads |-> IF t = master THEN "open" ELSE IF t \in W THEN "woken" ELSE pc[t]]
  /\ UNCHANGED <<shared, m_request_stop, local, added, verdict, threads>>

\* Wait calls Loop(true); the destructor of the control does when nobody did.
Wait ==
  /\ pc[master] = "open"
  /\ pc' = [pc EXCEPT ![master] = "enter"]
  /\ nNow' = [nNow EXCEPT ![master] = 0] /\ fOk' = [fOk EXCEPT ![master] = TRUE]
  /\ UNCHANGED <<shared, m_request_stop, vChecks, added, verdict, threads>>
-----------------------------------------------------------------------------
(* Loop.  The operators below are the rest of a critical section of t that *)
(* begins with these values of pc, vChecks, nTodo, fAllOk, nTotal, nIdle.  *)

Return(t, p, b, ok, total, idle, result) ==
  /\ nIdle' = idle /\ nTotal' = total /\ fAllOk' = ok /\ vChecks' = b
  /\ verdict' = IF t # master THEN verdict ELSE IF result THEN "ok" ELSE "failed"
  /\ pc' = [p EXCEPT ![t] = "out"]
  /\ UNCHANGED <<queue, nNow, fOk>>

Sleep(t, p, b, ok, total, idle) ==
  /\ nIdle' = idle + 1 /\ nTotal' = total /\ fAllOk' = ok /\ vChecks' = b
  /\ pc' = [p EXCEPT ![t] = "wait"]
  /\ UNCHANGED <<queue, nNow, fOk, verdict>>

\* How many checks t takes: fewer when others are there to help.
BatchOf(size, total, idle) ==
  LET share == size \div (total + idle + 1)
      least == IF nBatchSize < share THEN nBatchSize ELSE share
  IN IF least < 1 THEN 1 ELSE least

CopyOf(S) == queue
Without(S) == queue \ S

Take(t, p, b, ok, total, idle) ==
  \E S \in SUBSET queue :
    /\ Cardinality(S) = BatchOf(Cardinality(queue), total, idle)
    /\ queue' = Without(S)
    /\ vChecks' = [b EXCEPT ![t] = S]
    /\ nNow' = [nNow EXCEPT ![t] = Cardinality(S)]
    /\ fOk' = [fOk EXCEPT ![t] = ok]
    /\ nIdle' = idle /\ nTotal' = total /\ fAllOk' = ok
    /\ pc' = [p EXCEPT ![t] = "run"]
    /\ UNCHANGED verdict

\* The master may return.
AllDone(t, todo) == t = master /\ todo = 0

WhileLoop(t, p, b, todo, ok, total, idle) ==
  \/ /\ queue = {} /\ ~m_request_stop /\ AllDone(t, todo)
     /\ Return(t, p, b, TRUE, total - 1, idle, ok)
  \/ /\ queue = {} /\ ~m_request_stop /\ ~AllDone(t, todo)
     /\ Sleep(t, p, b, ok, total, idle)
  \/ /\ m_request_stop
     /\ Return(t, p, b, ok, total, idle, FALSE)
  \/ /\ queue # {} /\ ~m_request_stop
     /\ Take(t, p, b, ok, total, idle)

\* The first time in the loop.
Enter(t) ==
  /\ pc[t] = "enter" /\ nNow[t] = 0
  /\ WhileLoop(t, pc, vChecks, nTodo, fAllOk, nTotal + 1, nIdle)
  /\ UNCHANGED <<nTodo, m_request_stop, added, threads>>

\* The worker with the last check tells the master.
NoNotify(t, todo) == pc
NotifyMaster(t, todo) ==
  [pc EXCEPT ![master] = IF t # master /\ todo = 0 /\ pc[master] = "wait" THEN "woken" ELSE @]

\* After a batch, which is counted only now.
Finish(t) ==
  LET todo == nTodo - nNow[t] IN
  /\ pc[t] = "enter" /\ nNow[t] # 0
  /\ nTodo' = todo
  /\ WhileLoop(t, NotifyMaster(t, todo), [vChecks EXCEPT ![t] = {}], todo,
               fAllOk /\ fOk[t], nTotal, nIdle)
  /\ UNCHANGED <<m_request_stop, added, threads>>

\* Back from cond.wait.
WakeUp(t) ==
  /\ pc[t] = "woken"
  /\ WhileLoop(t, pc, vChecks, nTodo, fAllOk, nTotal, nIdle - 1)
  /\ UNCHANGED <<nTodo, m_request_stop, added, threads>>

Spurious(t) ==
  /\ pc[t] = "wait" /\ pc' = [pc EXCEPT ![t] = "woken"]
  /\ UNCHANGED <<shared, m_request_stop, local, added, verdict, threads>>

\* The batch, without the lock: nothing is executed once a check has failed.
SkipsResult(t) == fOk[t]
Executed(t) == fOk[t] /\ vChecks[t] \subseteq Good
Run(t) ==
  /\ pc[t] = "run"
  /\ fOk' = [fOk EXCEPT ![t] = Executed(t)]
  /\ pc' = [pc EXCEPT ![t] = "enter"]
  /\ UNCHANGED <<shared, m_request_stop, vChecks, nNow, added, verdict, threads>>
-----------------------------------------------------------------------------
(* Shutdown.                                                               *)

StopQuietly ==
  /\ threads = "running" /\ (MasterStopped => pc[master] = "out")
  /\ m_request_stop' = TRUE /\ threads' = "stopping"
  /\ UNCHANGED <<shared, pc, local, added, verdict>>
StopWorkerThreads ==
  /\ threads = "running" /\ (MasterStopped => pc[master] = "out")
  /\ m_request_stop' = TRUE /\ threads' = "stopping"
  /\ pc' = [t \in Threads |-> IF t \in Workers /\ pc[t] = "wait" THEN "woken" ELSE pc[t]]
  /\ UNCHANGED <<shared, local, added, verdict>>

JoinWorkers ==
  /\ threads = "stopping" /\ \A w \in Workers : pc[w] = "out"
  /\ m_request_stop' = FALSE /\ threads' = "joined"
  /\ UNCHANGED <<shared, pc, local, added, verdict>>

ThreadStep(t) == Enter(t) \/ Finish(t) \/ WakeUp(t) \/ Run(t)

Next ==
  \/ OpenControl \/ Wait \/ StopWorkerThreads \/ JoinWorkers
  \/ \E S \in SUBSET (Checks \ added) : Add(S)
  \/ \E W \in SUBSET Workers : Notify(W)
  \/ \E t \in Threads : ThreadStep(t) \/ Spurious(t)

\* Threads in the loop are scheduled; nobody has to add checks or to stop.
Spec ==
  /\ Init /\ [][Next]_vars
  /\ \A t \in Threads : WF_vars(ThreadStep(t))
  /\ WF_vars(\E W \in SUBSET Workers : Notify(W)) /\ WF_vars(JoinWorkers)
-----------------------------------------------------------------------------
InLoop(t) == pc[t] \in {"enter", "wait", "woken", "run"}

\* The types of the state.
TypeOK ==
  /\ queue \subseteq Checks /\ nIdle \in Nat /\ nTotal \in Nat /\ nTodo \in Nat
  /\ fAllOk \in BOOLEAN /\ m_request_stop \in BOOLEAN
  /\ pc \in [Threads -> {"out", "open", "notify_one", "notify_all", "enter", "wait", "woken", "run"}]
  /\ vChecks \in [Threads -> SUBSET Checks] /\ nNow \in [Threads -> Nat]
  /\ fOk \in [Threads -> BOOLEAN]
  /\ added \subseteq Checks /\ verdict \in {"none", "ok", "failed"}
  /\ threads \in {"running", "stopping", "joined"}

\* "return whether all evaluations were successful": what Wait returns for a block
\* is whether all checks added for it succeed, however they were spread.
VerdictIsRight == verdict # "none" => (verdict = "ok" <=> added \subseteq Good)

\* Between two blocks nothing is left in the queue, nothing is pending and the
\* failure of the last block is forgotten.
LeftClean == pc[master] = "out" => queue = {} /\ nTodo = 0 /\ fAllOk

\* A check is in the queue or in one batch.
NoneTwice ==
  /\ \A t \in Threads : vChecks[t] \cap queue = {}
  /\ \A t, u \in Threads : t # u => vChecks[t] \cap vChecks[u] = {}

\* nIdle counts the waiting threads exactly, over any order of wake-ups.
IdleExact == nIdle = Cardinality({t \in Threads : pc[t] \in {"wait", "woken"}})

\* Every block ends with the right verdict and a clean queue for the next.
BlockEndsRight == VerdictIsRight /\ LeftClean

\* The books of the queue are right at every moment.
QueueSane == TypeOK /\ NoneTwice /\ IdleExact

\* Every call of Wait returns.
WaitReturns == [](InLoop(master) => <>(pc[master] = "out"))

\* StopWorkerThreads returns.
StopReturns == [](threads = "stopping" => <>(threads = "joined"))
=============================================================================
