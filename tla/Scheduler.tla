------------------------------ MODULE Scheduler ------------------------------
(***************************************************************************)
(* CScheduler and SingleThreadedSchedulerClient (scheduler.cpp), through   *)
(* which the signals of the validation interface reach the wallet and the  *)
(* indexes.  Producers add callbacks to the client; the client keeps them  *)
(* in a list and schedules a task (ProcessQueue) that runs one of them and *)
(* schedules the next; service threads run the tasks.  One periodic task   *)
(* (scheduleEvery) shares the queue.  At shutdown the service threads are  *)
(* stopped and main runs what is left (EmptyQueue).                        *)
(*                                                                         *)
(* A step is what happens under newTaskMutex or m_callbacks_mutex.  The    *)
(* callbacks are counted: the list is used from its ends only.             *)
(***************************************************************************)
EXTENDS Integers, FiniteSets

CONSTANTS
  Services,      \* threads in serviceQueue; the node has one
  Producers,     \* threads that signal
  main,          \* the thread that shuts down
  MaxCallbacks   \* bound on the callbacks added

Threads == Services \cup Producers \cup {main}

ASSUME SchedulerAssumption ==
  /\ Services \cap Producers = {}
  /\ main \notin Services \cup Producers
  /\ MaxCallbacks \in Nat

VARIABLES
  pc,
  tasks,          \* ProcessQueue tasks in taskQueue; they are due at once
  periodic,       \* the periodic task: "out" of the queue, "later" or "due"
  ahead,          \* the tasks before it in the order of their times, when due
  stopRequested,
  m_are_callbacks_running,
  added, started, finished,   \* callbacks, in the order of the list
  atFlush         \* callbacks added before EmptyQueue

vars == <<pc, tasks, periodic, ahead, stopRequested, m_are_callbacks_running,
          added, started, finished, atFlush>>
queueVars == <<tasks, periodic, ahead, stopRequested, atFlush>>
clientVars == <<m_are_callbacks_running, added, started, finished>>

pending == added - started

Init ==
  /\ pc = [t \in Threads |-> IF t \in Services THEN "loop" ELSE "idle"]
  /\ tasks = 0
  /\ periodic = "later"
  /\ ahead = 0
  /\ stopRequested = FALSE
  /\ m_are_callbacks_running = FALSE
  /\ added = 0 /\ started = 0 /\ finished = 0
  /\ atFlush = 0

Waiting == {t \in Services : pc[t] \in {"wait", "wait_until"}}

\* A thread woken on newTaskScheduled looks at the queue again.
notify_one(p) ==
  \/ Waiting = {} /\ pc' = p
  \/ \E s \in Waiting : pc' = [p EXCEPT ![s] = "loop"]

Goto(t, l) == pc' = [pc EXCEPT ![t] = l]

\* Where a thread goes on when its part of the client is done.
Home(t) == IF t \in Services THEN "loop" ELSE IF t = main THEN "more" ELSE "idle"
-----------------------------------------------------------------------------
(* serviceQueue.                                                           *)

QueueEmpty == tasks = 0 /\ periodic = "out"
HeadDue == tasks > 0 \/ periodic = "due"

\* With the lock: stop, wait for a task, or wait for the time of the first one,
\* which wait_until reports at once when it has passed.
ServiceLoop_Drain(t) ==
  /\ pc[t] = "loop"
  /\ \/ stopRequested /\ QueueEmpty /\ notify_one([pc EXCEPT ![t] = "exited"])
     \/ QueueEmpty /\ ~stopRequested /\ Goto(t, "wait")
     \/ ~QueueEmpty /\ ~HeadDue /\ Goto(t, "wait_until")
     \/ HeadDue /\ Goto(t, "timeout")
  /\ UNCHANGED <<queueVars, clientVars>>
ServiceLoop(t) ==
  /\ pc[t] = "loop"
  /\ \/ stopRequested /\ notify_one([pc EXCEPT ![t] = "exited"])
     \/ ~stopRequested /\ QueueEmpty /\ Goto(t, "wait")
     \/ ~stopRequested /\ ~QueueEmpty /\ ~HeadDue /\ Goto(t, "wait_until")
     \/ ~stopRequested /\ HeadDue /\ Goto(t, "timeout")
  /\ UNCHANGED <<queueVars, clientVars>>

\* Mutant: the periodic task is taken before all others.
TakeTask_PeriodicFirst(t) ==
  /\ pc[t] = "timeout"
  /\ \/ /\ stopRequested \/ QueueEmpty
        /\ Goto(t, "loop")
        /\ UNCHANGED <<tasks, periodic, ahead>>
     \/ /\ ~stopRequested /\ tasks > 0
        /\ periodic # "due"
        /\ Goto(t, "process")
        /\ tasks' = tasks - 1
        /\ ahead' = 0
        /\ UNCHANGED periodic
     \/ /\ ~stopRequested
        /\ periodic = "due" \/ (periodic = "later" /\ tasks = 0)
        /\ Goto(t, "repeat")
        /\ periodic' = "out"
        /\ ahead' = 0
        /\ UNCHANGED tasks
  /\ UNCHANGED <<stopRequested, atFlush, clientVars>>

\* With the lock again, it takes the first task, unless there is none left.
TakeTask(t) ==
  /\ pc[t] = "timeout"
  /\ \/ /\ stopRequested \/ QueueEmpty
        /\ Goto(t, "loop")
        /\ UNCHANGED <<tasks, periodic, ahead>>
     \/ /\ ~stopRequested /\ tasks > 0
        /\ periodic = "due" => ahead > 0
        /\ Goto(t, "process")
        /\ tasks' = tasks - 1
        /\ ahead' = IF ahead > 0 THEN ahead - 1 ELSE 0
        /\ UNCHANGED periodic
     \/ /\ ~stopRequested
        /\ \/ periodic = "due" /\ ahead = 0
           \/ periodic = "later" /\ tasks = 0
        /\ Goto(t, "repeat")
        /\ periodic' = "out"
        /\ UNCHANGED <<tasks, ahead>>
  /\ UNCHANGED <<stopRequested, atFlush, clientVars>>

\* Repeat runs the function and schedules it again.
Repeat(t) ==
  /\ pc[t] = "repeat"
  /\ periodic' = "later"
  /\ Goto(t, "notify")
  /\ UNCHANGED <<tasks, ahead, stopRequested, atFlush, clientVars>>

\* The time of the periodic task comes, for the threads that wait for it too.
Tick ==
  /\ periodic = "later"
  /\ periodic' = "due"
  /\ ahead' = tasks
  /\ pc' = [t \in Threads |-> IF pc[t] = "wait_until" THEN "timeout" ELSE pc[t]]
  /\ UNCHANGED <<tasks, stopRequested, atFlush, clientVars>>
-----------------------------------------------------------------------------
(* SingleThreadedSchedulerClient.                                          *)

AddToProcessQueue(t) ==
  /\ t \in Producers
  /\ pc[t] = "idle"
  /\ added < MaxCallbacks
  /\ added' = added + 1
  /\ Goto(t, "maybe")
  /\ UNCHANGED <<queueVars, m_are_callbacks_running, started, finished>>

\* A task is not scheduled while a callback runs: its end will do it.
MaybeScheduleProcessQueue(t) ==
  /\ pc[t] = "maybe"
  /\ IF m_are_callbacks_running \/ pending = 0 THEN Goto(t, Home(t)) ELSE Goto(t, "schedule")
  /\ UNCHANGED <<queueVars, clientVars>>

\* CScheduler::schedule inserts under the lock and notifies after it.
Schedule(t) ==
  /\ pc[t] = "schedule"
  /\ tasks' = tasks + 1
  /\ Goto(t, "notify")
  /\ UNCHANGED <<periodic, ahead, stopRequested, atFlush, clientVars>>

Notify(t) ==
  /\ pc[t] = "notify"
  /\ notify_one([pc EXCEPT ![t] = Home(t)])
  /\ UNCHANGED <<queueVars, clientVars>>

ProcessQueue_Running(t) ==
  /\ pc[t] = "process"
  /\ \/ /\ pending = 0
        /\ Goto(t, Home(t))
        /\ UNCHANGED <<m_are_callbacks_running, started>>
     \/ /\ pending > 0
        /\ m_are_callbacks_running' = TRUE
        /\ started' = started + 1
        /\ Goto(t, "callback")
  /\ UNCHANGED <<queueVars, added, finished>>
ProcessQueue(t) ==
  /\ pc[t] = "process"
  /\ \/ /\ m_are_callbacks_running \/ pending = 0
        /\ Goto(t, Home(t))
        /\ UNCHANGED <<m_are_callbacks_running, started>>
     \/ /\ ~m_are_callbacks_running /\ pending > 0
        /\ m_are_callbacks_running' = TRUE
        /\ started' = started + 1
        /\ Goto(t, "callback")
  /\ UNCHANGED <<queueVars, added, finished>>

\* The callback ends.
Callback(t) ==
  /\ pc[t] = "callback"
  /\ finished' = finished + 1
  /\ Goto(t, "end")
  /\ UNCHANGED <<queueVars, m_are_callbacks_running, added, started>>

\* ~RAIICallbacksRunning, whose second part is MaybeScheduleProcessQueue.
EndCallback_Alone(t) ==
  /\ pc[t] = "end"
  /\ m_are_callbacks_running' = FALSE
  /\ Goto(t, Home(t))
  /\ UNCHANGED <<queueVars, added, started, finished>>
EndCallback(t) ==
  /\ pc[t] = "end"
  /\ m_are_callbacks_running' = FALSE
  /\ Goto(t, "maybe")
  /\ UNCHANGED <<queueVars, added, started, finished>>
-----------------------------------------------------------------------------
(* Shutdown.                                                               *)

\* stop(): sets the flag and notifies all.
Stop ==
  /\ pc[main] = "idle"
  /\ stopRequested' = TRUE
  /\ pc' = [t \in Threads |-> IF t = main THEN "join" ELSE IF t \in Waiting THEN "loop" ELSE pc[t]]
  /\ UNCHANGED <<tasks, periodic, ahead, atFlush, clientVars>>

\* The threads are joined; the last flush of the chain state may signal
\* ChainStateFlushed before EmptyQueue begins.
Join ==
  /\ pc[main] = "join"
  /\ \A s \in Services : pc[s] = "exited"
  /\ \/ added' = added /\ Goto(main, "process")
     \/ added' = added + 1 /\ Goto(main, "maybe")
  /\ atFlush' = added'
  /\ UNCHANGED <<tasks, periodic, ahead, stopRequested,
                 m_are_callbacks_running, started, finished>>

\* EmptyQueue goes on while callbacks are left.
EmptyQueue_Once ==
  /\ pc[main] = "more"
  /\ Goto(main, "flushed")
  /\ UNCHANGED <<queueVars, clientVars>>
EmptyQueue ==
  /\ pc[main] = "more"
  /\ Goto(main, IF pending = 0 THEN "flushed" ELSE "process")
  /\ UNCHANGED <<queueVars, clientVars>>

Service(t) == ServiceLoop(t) \/ TakeTask(t) \/ Repeat(t)
Client(t) ==
  \/ MaybeScheduleProcessQueue(t) \/ Schedule(t) \/ Notify(t)
  \/ ProcessQueue(t) \/ Callback(t) \/ EndCallback(t)

Next ==
  \/ \E t \in Threads : Service(t) \/ Client(t) \/ AddToProcessQueue(t)
  \/ Stop \/ Join \/ EmptyQueue
  \/ Tick

\* Threads run, callbacks end and time passes; nobody has to signal or to shut
\* the node down.
Fairness ==
  /\ \A t \in Threads : WF_vars(Service(t)) /\ WF_vars(Client(t))
  /\ WF_vars(Join) /\ WF_vars(EmptyQueue) /\ WF_vars(Tick)

Spec == Init /\ [][Next]_vars /\ Fairness
-----------------------------------------------------------------------------
(* Properties.                                                             *)

Labels ==
  {"loop", "wait", "wait_until", "timeout", "repeat", "exited", "idle", "maybe", "schedule",
   "notify", "process", "callback", "end", "join", "more", "flushed"}

\* The types of the state.
TypeOK ==
  /\ pc \in [Threads -> Labels]
  /\ tasks \in Nat
  /\ ahead \in 0..tasks
  /\ periodic \in {"out", "later", "due"}
  /\ stopRequested \in BOOLEAN /\ m_are_callbacks_running \in BOOLEAN
  /\ {added, started, finished, atFlush} \subseteq Nat
  /\ atFlush <= added

\* No two callbacks run at the same time, on whichever threads, and one starts
\* only when all before it have finished.
CallbacksSerial ==
  /\ \A t, u \in Threads : pc[t] = "callback" /\ pc[u] = "callback" => t = u
  /\ finished \in {started, started - 1}
  /\ \A t \in Threads : pc[t] = "callback" => finished = started - 1

\* A callback in the list while none runs has somebody to run it: a task in the
\* queue, or a thread that is about to take or to schedule one.
NoneStranded ==
  pending > 0 /\ ~m_are_callbacks_running =>
    \/ tasks > 0 \/ pc[main] = "more"
    \/ \E t \in Threads : pc[t] \in {"process", "maybe", "schedule"}

\* When EmptyQueue returns, every callback added before its call has finished,
\* whatever the service threads left behind and other threads still add.
FlushedAll == pc[main] = "flushed" => finished >= atFlush

\* Every callback is run, unless the node is shut down before.
AllRun == \A n \in 1..MaxCallbacks : (added >= n) ~> (finished >= n \/ stopRequested)

\* stop() returns, and EmptyQueue after it.
StopReturns == stopRequested ~> (pc[main] = "flushed")
==============================================================================
