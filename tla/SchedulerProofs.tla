--------------------------- MODULE SchedulerProofs ---------------------------
(***************************************************************************)
(* The callbacks of the validation interface, for any number of service    *)
(* threads, of signalling threads and of callbacks: they run one at a      *)
(* time, none is stranded in the list, and EmptyQueue leaves none behind.  *)
(***************************************************************************)
EXTENDS Scheduler, TLAPS

InCallback(t) == pc[t] \in {"callback", "end"}

\* The flag m_are_callbacks_running stands for the one thread between the
\* start of a callback and the end of ~RAIICallbacksRunning.
FlagIsThread ==
  /\ \A t \in Threads : InCallback(t) => m_are_callbacks_running
  /\ \A t, u \in Threads : InCallback(t) /\ InCallback(u) => t = u
  /\ m_are_callbacks_running => \E t \in Threads : InCallback(t)

\* The callbacks that have started and not finished are the ones on a thread.
Counts ==
  /\ started <= added
  /\ \A t \in Threads : pc[t] = "callback" => finished = started - 1
  /\ (\A t \in Threads : pc[t] # "callback") => finished = started

\* Where each kind of thread can be; once main is past the join, the service
\* threads have gone.
InEmptyQueue ==
  pc[main] \in {"process", "callback", "end", "maybe", "schedule", "notify", "more", "flushed"}
Places ==
  /\ pc[main] \in {"idle", "join"} \/ InEmptyQueue
  /\ \A t \in Producers : pc[t] \in {"idle", "maybe", "schedule", "notify"}
  /\ InEmptyQueue => \A s \in Services : pc[s] = "exited"

IInv == TypeOK /\ FlagIsThread /\ Counts /\ Places /\ NoneStranded /\ FlushedAll

-----------------------------------------------------------------------------
\* The invariant holds when the service threads start.
LEMMA InitIInv == Init => IInv
<1> USE SchedulerAssumption
<1> SUFFICES ASSUME Init PROVE IInv
  BY Zenon
<1>1. TypeOK
  <2>1. \A t \in Threads : pc[t] \in {"loop", "idle"}
    BY Zenon DEF Init
  <2>2. pc \in [Threads -> Labels]
    BY <2>1, Zenon DEF Init, Labels
  <2>3. /\ tasks \in Nat /\ ahead \in 0..tasks
        /\ {added, started, finished, atFlush} \subseteq Nat
        /\ atFlush <= added
    BY SMT DEF Init
  <2>4. /\ periodic \in {"out", "later", "due"}
        /\ stopRequested \in BOOLEAN /\ m_are_callbacks_running \in BOOLEAN
    BY Zenon DEF Init
  <2> QED
    BY <2>2, <2>3, <2>4, Zenon DEF TypeOK
<1>2. FlagIsThread /\ Counts
  BY DEF Init, FlagIsThread, InCallback, Counts, Threads
<1>3. Places /\ NoneStranded /\ FlushedAll
  BY DEF Init, Places, InEmptyQueue, NoneStranded, FlushedAll, pending, Threads
<1> QED
  BY <1>1, <1>2, <1>3, Zenon DEF IInv

\* A wake-up moves waiting service threads to the loop and no other thread.
LEMMA NotifyMoves ==
  ASSUME pc \in [Threads -> Labels], NEW t \in Threads, NEW l \in Labels,
         notify_one([pc EXCEPT ![t] = l]), pc[t] \notin {"wait", "wait_until"}
  PROVE  /\ pc' \in [Threads -> Labels]
         /\ pc'[t] = l
         /\ \A u \in Threads \ {t} :
                  \/ pc'[u] = pc[u]
                  \/ u \in Services /\ pc[u] \in {"wait", "wait_until"} /\ pc'[u] = "loop"
<1>1. CASE Waiting = {} /\ pc' = [pc EXCEPT ![t] = l]
  <2>1. pc' \in [Threads -> Labels] /\ pc'[t] = l
    BY <1>1, Zenon
  <2>2. \A u \in Threads \ {t} : pc'[u] = pc[u]
    BY <1>1, Zenon
  <2> QED
    BY <2>1, <2>2, Zenon
<1>2. ASSUME NEW s \in Waiting, pc' = [[pc EXCEPT ![t] = l] EXCEPT ![s] = "loop"]
      PROVE  /\ pc' \in [Threads -> Labels]
             /\ pc'[t] = l
             /\ \A u \in Threads \ {t} :
                  \/ pc'[u] = pc[u]
                  \/ u \in Services /\ pc[u] \in {"wait", "wait_until"} /\ pc'[u] = "loop"
  <2>1. s \in Services /\ s \in Threads /\ pc[s] \in {"wait", "wait_until"} /\ s # t
    BY Zenon DEF Waiting, Threads
  <2>2. "loop" \in Labels
    BY Zenon DEF Labels
  <2>3. pc' \in [Threads -> Labels]
    BY <1>2, <2>1, <2>2, Zenon
  <2>4. pc'[t] = l /\ pc'[s] = "loop"
    BY <1>2, <2>1, Zenon
  <2>5. \A u \in Threads \ {t} : u # s => pc'[u] = pc[u]
    BY <1>2, <2>1, Zenon
  <2> QED
    BY <2>1, <2>3, <2>4, <2>5, Zenon
<1> QED
  BY <1>1, <1>2, Zenon DEF notify_one

\* What a step on the queue alone keeps: no thread enters or leaves a callback,
\* a thread that was to schedule or to run a task still is or has left a task.
Quiet ==
  /\ UNCHANGED clientVars
  /\ pc' \in [Threads -> Labels]
  /\ \A t \in Threads : InCallback(t) \/ InCallback(t)' => pc'[t] = pc[t]
  /\ \/ pc[main] = "idle" /\ pc'[main] = "join"
     \/ pc'[main] = pc[main]
     \/ InEmptyQueue /\ InEmptyQueue'
  /\ \A t \in Producers : pc'[t] \in {"idle", "maybe", "schedule", "notify"}
  /\ \A t \in Services : pc[t] = "exited" => pc'[t] = "exited"

\* A quiet step keeps the flag, the counts and the places of the threads.
LEMMA QuietKeeps ==
  ASSUME IInv, Quiet
  PROVE  FlagIsThread' /\ Counts' /\ Places'
<1> USE SchedulerAssumption
<1>1. FlagIsThread'
  BY Zenon DEF IInv, Quiet, TypeOK, FlagIsThread, InCallback, clientVars
<1>2. Counts'
  BY Zenon DEF IInv, Quiet, TypeOK, Counts, InCallback, clientVars
<1>3. Places'
  BY Zenon DEF IInv, Quiet, Places, InEmptyQueue
<1> QED
  BY <1>1, <1>2, <1>3, Zenon

-----------------------------------------------------------------------------
(* The steps on the queue.  Where only one thread t moves, the others keep   *)
(* their place or are woken.                                               *)

\* Thread t goes from a place outside a callback to another one.
Moves(t, from, to) ==
  /\ pc' \in [Threads -> Labels]
  /\ pc[t] = from /\ pc'[t] = to
  /\ \A u \in Threads \ {t} :
       \/ pc'[u] = pc[u]
       \/ u \in Services /\ pc[u] \in {"wait", "wait_until"} /\ pc'[u] \in {"loop", "timeout"}

\* Goto moves one thread.
LEMMA GotoMoves ==
  ASSUME TypeOK, NEW t \in Threads, NEW l \in Labels, Goto(t, l)
  PROVE  Moves(t, pc[t], l)
BY Zenon DEF Goto, Moves, TypeOK

\* notify_one after a move of t moves t and wakes at most one waiting thread.
LEMMA NotifyOneMoves ==
  ASSUME TypeOK, NEW t \in Threads, NEW l \in Labels, notify_one([pc EXCEPT ![t] = l]),
         pc[t] \notin {"wait", "wait_until"}
  PROVE  Moves(t, pc[t], l)
BY NotifyMoves, Zenon DEF Moves, TypeOK

\* The places outside callbacks a move of a thread of each kind may join.
Allowed(t, from, to) ==
  /\ from \notin {"callback", "end", "exited", "flushed", "idle", "join"}
  /\ to \notin {"callback", "end"}
  /\ t \in Producers => to \in {"idle", "maybe", "schedule", "notify"}
  /\ t = main => to \in {"process", "maybe", "schedule", "notify", "more", "flushed"}

\* A move between allowed places that leaves the client alone is quiet.
LEMMA MovesQuiet ==
  ASSUME IInv, NEW t \in Threads, NEW from, NEW to, Moves(t, from, to), Allowed(t, from, to),
         UNCHANGED clientVars
  PROVE  Quiet
<1> USE SchedulerAssumption
<1>1. \A u \in Threads : InCallback(u) \/ InCallback(u)' => pc'[u] = pc[u]
  BY Zenon DEF Moves, Allowed, InCallback
<1>2. \/ pc'[main] = pc[main]
      \/ InEmptyQueue /\ InEmptyQueue'
  BY Zenon DEF Moves, Allowed, InEmptyQueue, IInv, Places, Threads
<1>3. \A u \in Producers : pc'[u] \in {"idle", "maybe", "schedule", "notify"}
  BY Zenon DEF Moves, Allowed, IInv, Places, Threads
<1>4. \A u \in Services : pc[u] = "exited" => pc'[u] = "exited"
  BY Zenon DEF Moves, Allowed, Threads
<1>5. pc' \in [Threads -> Labels]
  BY Zenon DEF Moves
<1> QED
  BY <1>1, <1>2, <1>3, <1>4, <1>5, Zenon DEF Quiet

\* Where each kind of thread goes on after its part of the client.
LEMMA HomeAllowed ==
  ASSUME NEW t \in Threads
  PROVE  /\ Home(t) \in Labels
         /\ Home(t) \in {"loop", "more", "idle"}
         /\ t \in Producers => Home(t) = "idle"
         /\ t = main => Home(t) = "more"
BY SchedulerAssumption, Zenon DEF Home, Labels, Threads

\* A move from a place that had no work in hand strands nothing.
LEMMA MovesStrandNone ==
  ASSUME IInv, NEW t \in Threads, NEW from, NEW to, Moves(t, from, to),
         from \notin {"process", "maybe", "schedule", "more"},
         UNCHANGED clientVars, tasks' \in Nat, tasks' >= tasks
  PROVE  NoneStranded'
<1> USE SchedulerAssumption
<1> SUFFICES ASSUME (pending > 0 /\ ~m_are_callbacks_running)'
             PROVE  \/ tasks' > 0 \/ pc'[main] = "more"
                    \/ \E u \in Threads : pc'[u] \in {"process", "maybe", "schedule"}
  BY Zenon DEF NoneStranded
<1>1. pending > 0 /\ ~m_are_callbacks_running
  BY Zenon DEF clientVars, pending
<1>2. CASE tasks > 0
  BY <1>2 DEF IInv, TypeOK
<1>3. CASE pc[main] = "more"
  BY <1>3, Zenon DEF Moves, Threads
<1>4. ASSUME NEW u \in Threads, pc[u] \in {"process", "maybe", "schedule"}
      PROVE  pc'[u] \in {"process", "maybe", "schedule"}
  BY <1>4, Zenon DEF Moves
<1> QED
  BY <1>1, <1>2, <1>3, <1>4, Zenon DEF IInv, NoneStranded

\* A move elsewhere than to the end of EmptyQueue keeps FlushedAll.
LEMMA MovesFlushed ==
  ASSUME IInv, NEW t \in Threads, NEW from, NEW to, Moves(t, from, to), to # "flushed",
         UNCHANGED <<finished, atFlush>>
  PROVE  FlushedAll'
BY SchedulerAssumption, Zenon DEF IInv, FlushedAll, Moves, Threads

\* The part of TypeOK that is not about pc.
Data ==
  /\ tasks \in Nat
  /\ ahead \in 0..tasks
  /\ periodic \in {"out", "later", "due"}
  /\ stopRequested \in BOOLEAN /\ m_are_callbacks_running \in BOOLEAN
  /\ {added, started, finished, atFlush} \subseteq Nat
  /\ atFlush <= added

\* TypeOK is the type of pc and the types of the rest.
LEMMA TypeParts == TypeOK <=> pc \in [Threads -> Labels] /\ Data
BY Zenon DEF TypeOK, Data

\* A move on the queue keeps the invariant, given the parts it can disturb.
LEMMA QuietStep ==
  ASSUME IInv, NEW t \in Threads, NEW from, NEW to, Moves(t, from, to), Allowed(t, from, to),
         UNCHANGED clientVars, Data', NoneStranded', FlushedAll'
  PROVE  IInv'
<1>1. Quiet
  BY MovesQuiet, Zenon
<1>2. TypeOK'
  BY <1>1, TypeParts, Zenon DEF Quiet, TypeOK, Data
<1> QED
  BY <1>1, <1>2, QuietKeeps, Zenon DEF IInv

\* serviceQueue: stopping, and going to wait, keep the invariant.
LEMMA ServiceLoopStep ==
  ASSUME IInv, NEW t \in Threads, ServiceLoop(t)
  PROVE  IInv'
<1> USE SchedulerAssumption
<1>1. PICK to \in {"exited", "wait", "wait_until", "timeout"} : Moves(t, "loop", to)
  <2>1. TypeOK /\ pc[t] = "loop"
    BY Zenon DEF IInv, ServiceLoop
  <2>2. {"exited", "wait", "wait_until", "timeout"} \subseteq Labels
    BY Zenon DEF Labels
  <2>3. \/ notify_one([pc EXCEPT ![t] = "exited"])
        \/ \E l \in {"wait", "wait_until", "timeout"} : Goto(t, l)
    BY Zenon DEF ServiceLoop
  <2>4. CASE notify_one([pc EXCEPT ![t] = "exited"])
    BY <2>1, <2>2, <2>4, NotifyOneMoves, Zenon
  <2>5. ASSUME NEW l \in {"wait", "wait_until", "timeout"}, Goto(t, l)
        PROVE  Moves(t, "loop", l)
    BY <2>1, <2>2, <2>5, GotoMoves, Zenon
  <2> QED
    BY <2>3, <2>4, <2>5, Zenon
<1>2. t \in Services
  BY <1>1, Zenon DEF Moves, IInv, Places, InEmptyQueue, Threads
<1>3. UNCHANGED clientVars /\ UNCHANGED queueVars
  BY Zenon DEF ServiceLoop
<1>4. Allowed(t, "loop", to)
  BY <1>2, Zenon DEF Allowed
<1>6. Data'
  BY <1>3, TypeParts, Zenon DEF IInv, Data, clientVars, queueVars
<1>7. NoneStranded'
  BY <1>1, <1>3, MovesStrandNone DEF IInv, TypeOK, queueVars
<1>8. FlushedAll'
  BY <1>1, <1>3, MovesFlushed, Zenon DEF queueVars, clientVars
<1> QED
  BY <1>1, <1>3, <1>4, <1>6, <1>7, <1>8, QuietStep, Zenon

\* serviceQueue: a ProcessQueue task taken is in the hands of its thread.
LEMMA TakeTaskStep ==
  ASSUME IInv, NEW t \in Threads, TakeTask(t)
  PROVE  IInv'
<1> USE SchedulerAssumption
<1>1. PICK to \in {"loop", "process", "repeat"} : Goto(t, to) /\ Moves(t, "timeout", to)
  <2>1. TypeOK /\ pc[t] = "timeout"
    BY Zenon DEF IInv, TakeTask
  <2>2. {"loop", "process", "repeat"} \subseteq Labels
    BY Zenon DEF Labels
  <2>3. PICK l \in {"loop", "process", "repeat"} : Goto(t, l)
    BY Zenon DEF TakeTask
  <2> QED
    BY <2>1, <2>2, <2>3, GotoMoves, Zenon
<1>2. t \in Services
  BY <1>1, Zenon DEF Moves, IInv, Places, InEmptyQueue, Threads
<1>3. UNCHANGED clientVars /\ UNCHANGED <<stopRequested, atFlush>>
  BY Zenon DEF TakeTask
<1>4. Allowed(t, "timeout", to)
  BY <1>2, Zenon DEF Allowed
<1>5. /\ tasks' \in Nat /\ ahead' \in 0..tasks'
      /\ tasks' >= tasks \/ pc'[t] = "process"
  <2>1. tasks \in Nat /\ ahead \in 0..tasks /\ pc \in [Threads -> Labels]
    BY Zenon DEF IInv, TypeOK
  <2>2. CASE UNCHANGED <<tasks, ahead>>
    BY <2>1, <2>2
  <2>3. CASE /\ tasks > 0 /\ tasks' = tasks - 1 /\ Goto(t, "process")
             /\ ahead' = IF ahead > 0 THEN ahead - 1 ELSE 0
    <3>1. tasks' \in Nat
      BY <2>1, <2>3
    <3>2. ahead' \in 0..tasks'
      BY <2>1, <2>3
    <3>3. pc'[t] = "process"
      BY <2>1, <2>3, Zenon DEF Goto
    <3> QED
      BY <3>1, <3>2, <3>3, Zenon
  <2> QED
    BY <2>2, <2>3, Zenon DEF TakeTask
<1>6. Data'
  <2>1. periodic' \in {"out", "later", "due"}
    BY Zenon DEF TakeTask, IInv, TypeOK
  <2>2. Data
    BY Zenon DEF IInv, TypeOK, Data
  <2> QED
    BY <1>3, <1>5, <2>1, <2>2, Zenon DEF Data, clientVars
<1>7. NoneStranded'
  <2>1. CASE tasks' >= tasks
    BY <1>1, <1>3, <1>5, <2>1, MovesStrandNone, Zenon
  <2>2. CASE pc'[t] = "process"
    BY <2>2, Zenon DEF NoneStranded
  <2> QED
    BY <1>5, <2>1, <2>2, Zenon
<1>8. FlushedAll'
  BY <1>1, <1>3, MovesFlushed, Zenon DEF clientVars
<1> QED
  BY <1>1, <1>3, <1>4, <1>6, <1>7, <1>8, QuietStep, Zenon

\* The periodic task keeps the invariant.
LEMMA RepeatStep ==
  ASSUME IInv, NEW t \in Threads, Repeat(t)
  PROVE  IInv'
<1> USE SchedulerAssumption
<1>1. Moves(t, "repeat", "notify")
  BY GotoMoves, Zenon DEF IInv, Repeat, Labels
<1>2. t \in Services
  BY <1>1, Zenon DEF Moves, IInv, Places, InEmptyQueue, Threads
<1>3. UNCHANGED clientVars /\ UNCHANGED <<tasks, ahead, stopRequested, atFlush>>
  BY Zenon DEF Repeat
<1>4. Allowed(t, "repeat", "notify")
  BY <1>2, Zenon DEF Allowed
<1>5. Data'
  <2>1. periodic' \in {"out", "later", "due"}
    BY Zenon DEF Repeat
  <2> QED
    BY <1>3, <2>1, Zenon DEF Data, clientVars, IInv, TypeOK
<1>6. NoneStranded'
  BY <1>1, <1>3, MovesStrandNone DEF IInv, TypeOK
<1>7. FlushedAll'
  BY <1>1, <1>3, MovesFlushed, Zenon DEF clientVars
<1> QED
  BY <1>1, <1>3, <1>4, <1>5, <1>6, <1>7, QuietStep, Zenon

\* Tick and Stop move only threads that wait, and main from idle to the join.
LEMMA WakeStep ==
  ASSUME IInv, Data', UNCHANGED clientVars, UNCHANGED <<tasks, atFlush>>,
         pc' \in [Threads -> Labels],
         \A u \in Threads :
           \/ pc'[u] = pc[u]
           \/ pc[u] \in {"wait", "wait_until"} /\ pc'[u] \in {"loop", "timeout"}
           \/ u = main /\ pc[u] = "idle" /\ pc'[u] = "join"
  PROVE  IInv'
<1> USE SchedulerAssumption
<1>1. Quiet
  <2>1. \A u \in Threads : InCallback(u) \/ InCallback(u)' => pc'[u] = pc[u]
    BY Zenon DEF InCallback
  <2>2. main \in Threads /\ Services \subseteq Threads /\ Producers \subseteq Threads
    BY Zenon DEF Threads
  <2>3. \/ pc[main] = "idle" /\ pc'[main] = "join"
        \/ pc'[main] = pc[main]
    BY <2>2, Zenon DEF IInv, Places, InEmptyQueue
  <2>4. \A u \in Producers : pc'[u] \in {"idle", "maybe", "schedule", "notify"}
    BY <2>2, Zenon DEF IInv, Places
  <2>5. \A u \in Services : pc[u] = "exited" => pc'[u] = "exited"
    BY <2>2, Zenon
  <2> QED
    BY <2>1, <2>3, <2>4, <2>5, Zenon DEF Quiet
<1>2. NoneStranded'
  <2>1. main \in Threads
    BY Zenon DEF Threads
  <2>2. pc[main] = "more" => pc'[main] = "more"
    BY <2>1, Zenon
  <2>3. \A u \in Threads : pc[u] \in {"process", "maybe", "schedule"} => pc'[u] = pc[u]
    BY Zenon
  <2> QED
    BY <2>2, <2>3, Zenon DEF IInv, NoneStranded, pending, clientVars
<1>3. FlushedAll'
  BY Zenon DEF IInv, FlushedAll, clientVars, Threads
<1>4. TypeOK'
  BY TypeParts, Zenon DEF TypeOK, Data
<1> QED
  BY <1>1, <1>2, <1>3, <1>4, QuietKeeps, Zenon DEF IInv

\* The coming of its time keeps the invariant.
LEMMA TickStep ==
  ASSUME IInv, Tick
  PROVE  IInv'
<1>1. pc \in [Threads -> Labels] /\ Data
  BY TypeParts, Zenon DEF IInv
<1>2. \A u \in Threads : pc'[u] = IF pc[u] = "wait_until" THEN "timeout" ELSE pc[u]
  BY Zenon DEF Tick
<1>3. pc' \in [Threads -> Labels]
  BY <1>1, Zenon DEF Tick, Labels
<1>4. UNCHANGED clientVars /\ UNCHANGED <<tasks, stopRequested, atFlush>>
  BY Zenon DEF Tick
<1>5. periodic' \in {"out", "later", "due"} /\ ahead' \in 0..tasks'
  BY <1>1 DEF Tick, Data
<1>6. Data'
  BY <1>1, <1>4, <1>5, Zenon DEF Data, clientVars
<1> QED
  BY <1>2, <1>3, <1>4, <1>6, WakeStep, Zenon

\* stop() keeps the invariant.
LEMMA StopStep ==
  ASSUME IInv, Stop
  PROVE  IInv'
<1>1. pc \in [Threads -> Labels] /\ Data
  BY TypeParts, Zenon DEF IInv
<1>2. \A u \in Threads : pc'[u] = IF u = main THEN "join" ELSE IF u \in Waiting THEN "loop" ELSE pc[u]
  BY Zenon DEF Stop
<1>3. pc' \in [Threads -> Labels]
  BY <1>1, Zenon DEF Stop, Labels
<1>4. UNCHANGED clientVars /\ UNCHANGED <<tasks, periodic, ahead, atFlush>>
  BY Zenon DEF Stop
<1>5. Data'
  <2>1. stopRequested' \in BOOLEAN
    BY Zenon DEF Stop
  <2> QED
    BY <1>1, <1>4, <2>1, Zenon DEF Data, clientVars
<1>6. \A u \in Threads :
           \/ pc'[u] = pc[u]
           \/ pc[u] \in {"wait", "wait_until"} /\ pc'[u] \in {"loop", "timeout"}
           \/ u = main /\ pc[u] = "idle" /\ pc'[u] = "join"
  BY <1>2, Zenon DEF Stop, Waiting
<1> QED
  BY <1>3, <1>4, <1>5, <1>6, WakeStep, Zenon

\* MaybeScheduleProcessQueue goes home only with nothing to do or a callback running.
LEMMA MaybeStep ==
  ASSUME IInv, NEW t \in Threads, MaybeScheduleProcessQueue(t)
  PROVE  IInv'
<1> USE SchedulerAssumption
<1>1. PICK to \in {Home(t), "schedule"} :
        Moves(t, "maybe", to) /\ (to = "schedule" \/ m_are_callbacks_running \/ pending = 0)
  <2>1. "schedule" \in Labels /\ Home(t) \in Labels /\ TypeOK /\ pc[t] = "maybe"
    BY HomeAllowed, Zenon DEF Labels, IInv, MaybeScheduleProcessQueue
  <2>2. CASE (m_are_callbacks_running \/ pending = 0) /\ Goto(t, Home(t))
    BY <2>1, <2>2, GotoMoves, Zenon
  <2>3. CASE Goto(t, "schedule")
    BY <2>1, <2>3, GotoMoves, Zenon
  <2> QED
    BY <2>2, <2>3, Zenon DEF MaybeScheduleProcessQueue
<1>2. UNCHANGED clientVars /\ UNCHANGED queueVars
  BY Zenon DEF MaybeScheduleProcessQueue
<1>3. Allowed(t, "maybe", to)
  BY HomeAllowed, Zenon DEF Allowed
<1>4. Data'
  BY <1>2, TypeParts, Zenon DEF IInv, Data, clientVars, queueVars
<1>5. NoneStranded'
  <2>1. CASE to = "schedule"
    BY <1>1, <2>1, Zenon DEF Moves, NoneStranded
  <2>2. CASE m_are_callbacks_running \/ pending = 0
    BY <1>2, <2>2 DEF NoneStranded, pending, clientVars
  <2> QED
    BY <1>1, <2>1, <2>2, Zenon
<1>6. FlushedAll'
  <2>1. to # "flushed"
    BY HomeAllowed, Zenon
  <2> QED
    BY <1>1, <1>2, <2>1, MovesFlushed, Zenon DEF clientVars, queueVars
<1> QED
  BY <1>1, <1>2, <1>3, <1>4, <1>5, <1>6, QuietStep, Zenon

\* CScheduler::schedule puts a task in the queue before it lets go of it.
LEMMA ScheduleStep ==
  ASSUME IInv, NEW t \in Threads, Schedule(t)
  PROVE  IInv'
<1> USE SchedulerAssumption
<1>1. Moves(t, "schedule", "notify")
  BY GotoMoves, Zenon DEF IInv, Schedule, Labels
<1>2. /\ UNCHANGED clientVars /\ UNCHANGED <<periodic, ahead, stopRequested, atFlush>>
      /\ tasks' = tasks + 1
  BY Zenon DEF Schedule
<1>3. Allowed(t, "schedule", "notify")
  BY Zenon DEF Allowed
<1>4. Data'
  <2>1. Data
    BY TypeParts, Zenon DEF IInv
  <2>2. tasks' \in Nat /\ ahead' \in 0..tasks'
    BY <1>2, <2>1 DEF Data
  <2> QED
    BY <1>2, <2>1, <2>2, Zenon DEF Data, clientVars
<1>5. NoneStranded'
  BY <1>2 DEF IInv, TypeOK, NoneStranded
<1>6. FlushedAll'
  BY <1>1, <1>2, MovesFlushed, Zenon DEF clientVars
<1> QED
  BY <1>1, <1>2, <1>3, <1>4, <1>5, <1>6, QuietStep, Zenon

\* The notification of schedule keeps the invariant.
LEMMA NotifyStep ==
  ASSUME IInv, NEW t \in Threads, Notify(t)
  PROVE  IInv'
<1> USE SchedulerAssumption
<1>1. Moves(t, "notify", Home(t))
  BY HomeAllowed, NotifyOneMoves, Zenon DEF IInv, Notify
<1>2. UNCHANGED clientVars /\ UNCHANGED queueVars
  BY Zenon DEF Notify
<1>3. Allowed(t, "notify", Home(t))
  BY HomeAllowed, Zenon DEF Allowed
<1>4. Data'
  BY <1>2, TypeParts, Zenon DEF IInv, Data, clientVars, queueVars
<1>5. NoneStranded'
  BY <1>1, <1>2, MovesStrandNone DEF IInv, TypeOK, queueVars
<1>6. FlushedAll'
  <2>1. Home(t) # "flushed"
    BY HomeAllowed, Zenon
  <2> QED
    BY <1>1, <1>2, <2>1, MovesFlushed, Zenon DEF clientVars, queueVars
<1> QED
  BY <1>1, <1>2, <1>3, <1>4, <1>5, <1>6, QuietStep, Zenon

\* Between its calls of ProcessQueue, main is the only thread that could run a
\* callback, and runs none.
LEMMA NoneRuns ==
  ASSUME IInv, pc[main] \in {"more", "process"}
  PROVE  finished = started /\ ~m_are_callbacks_running
<1>1. \A t \in Threads : ~InCallback(t)
  BY Zenon DEF IInv, Places, InEmptyQueue, InCallback, Threads
<1>2. \A t \in Threads : pc[t] # "callback"
  BY <1>1, Zenon DEF InCallback
<1> QED
  BY <1>1, <1>2, Zenon DEF IInv, FlagIsThread, Counts

\* EmptyQueue ends only when all callbacks have finished.
LEMMA EmptyQueueStep ==
  ASSUME IInv, EmptyQueue
  PROVE  IInv'
<1> USE SchedulerAssumption
<1>0. main \in Threads
  BY Zenon DEF Threads
<1>1. PICK to \in {"flushed", "process"} :
        Moves(main, "more", to) /\ (to = "flushed" <=> pending = 0)
  <2>1. {"flushed", "process"} \subseteq Labels /\ TypeOK /\ pc[main] = "more"
    BY Zenon DEF Labels, IInv, EmptyQueue
  <2>2. CASE pending = 0 /\ Goto(main, "flushed")
    BY <1>0, <2>1, <2>2, GotoMoves, Zenon
  <2>3. CASE pending # 0 /\ Goto(main, "process")
    BY <1>0, <2>1, <2>3, GotoMoves, Zenon
  <2> QED
    BY <2>2, <2>3, Zenon DEF EmptyQueue
<1>2. UNCHANGED clientVars /\ UNCHANGED queueVars
  BY Zenon DEF EmptyQueue
<1>3. Allowed(main, "more", to)
  BY Zenon DEF Allowed
<1>4. Data'
  BY <1>2, TypeParts, Zenon DEF IInv, Data, clientVars, queueVars
<1>5. NoneStranded'
  <2>1. CASE pending = 0
    BY <1>2, <2>1 DEF NoneStranded, pending, clientVars
  <2>2. CASE to = "process"
    BY <1>0, <1>1, <2>2, Zenon DEF Moves, NoneStranded
  <2> QED
    BY <1>1, <2>1, <2>2, Zenon
<1>6. FlushedAll'
  <2>1. CASE to = "process"
    BY <1>0, <1>1, <1>2, <2>1, MovesFlushed, Zenon DEF clientVars, queueVars
  <2>2. CASE pending = 0
    <3>1. finished = started
      BY NoneRuns, Zenon DEF EmptyQueue
    <3>2. added = started
      BY <2>2 DEF pending, IInv, TypeOK
    <3>3. finished' >= atFlush'
      BY <1>2, <3>1, <3>2, Zenon DEF IInv, TypeOK, clientVars, queueVars
    <3> QED
      BY <3>3, Zenon DEF FlushedAll
  <2> QED
    BY <1>1, <2>1, <2>2, Zenon
<1> QED
  BY <1>0, <1>1, <1>2, <1>3, <1>4, <1>5, <1>6, QuietStep, Zenon

-----------------------------------------------------------------------------
(* The steps on the client.                                                *)

\* AddToProcessQueue has its task to schedule in hand.
LEMMA AddStep ==
  ASSUME IInv, NEW t \in Threads, AddToProcessQueue(t)
  PROVE  IInv'
<1> USE SchedulerAssumption
<1>1. Moves(t, "idle", "maybe") /\ t \in Producers
  BY GotoMoves, Zenon DEF IInv, AddToProcessQueue, Labels
<1>2. /\ UNCHANGED queueVars /\ UNCHANGED <<m_are_callbacks_running, started, finished>>
      /\ added' = added + 1
  BY Zenon DEF AddToProcessQueue
<1>3. \A u \in Threads : InCallback(u) \/ InCallback(u)' => pc'[u] = pc[u]
  BY <1>1, Zenon DEF Moves, InCallback
<1>4. pc'[main] = pc[main] /\ main \in Threads
  BY <1>1, Zenon DEF Moves, Threads, IInv, Places, InEmptyQueue
<1>5. TypeOK'
  <2>1. pc' \in [Threads -> Labels]
    BY <1>1, Zenon DEF Moves
  <2>2. Data'
    <3>1. Data
      BY TypeParts, Zenon DEF IInv
    <3>2. {added', started, finished, atFlush} \subseteq Nat /\ atFlush <= added'
      BY <1>2, <3>1 DEF Data
    <3> QED
      BY <1>2, <3>1, <3>2, Zenon DEF Data, queueVars
  <2> QED
    BY <2>1, <2>2, TypeParts, Zenon DEF TypeOK, Data
<1>6. FlagIsThread'
  BY <1>2, <1>3, Zenon DEF IInv, FlagIsThread, InCallback
<1>7. Counts'
  BY <1>2, <1>3 DEF IInv, TypeOK, Counts, InCallback
<1>8. Places'
  <2>1. \A u \in Producers : pc'[u] \in {"idle", "maybe", "schedule", "notify"}
    BY <1>1, Zenon DEF Moves, IInv, Places, Threads
  <2>2. \A u \in Services : pc[u] = "exited" => pc'[u] = "exited"
    BY <1>1, Zenon DEF Moves, Threads
  <2> QED
    BY <1>4, <2>1, <2>2, Zenon DEF IInv, Places, InEmptyQueue
<1>9. NoneStranded'
  BY <1>1, Zenon DEF Moves, NoneStranded
<1>10. FlushedAll'
  BY <1>1, <1>2, MovesFlushed, Zenon DEF queueVars
<1> QED
  BY <1>5, <1>6, <1>7, <1>8, <1>9, <1>10, Zenon DEF IInv

\* When EmptyQueue begins, the service threads have gone.
LEMMA JoinStep ==
  ASSUME IInv, Join
  PROVE  IInv'
<1> USE SchedulerAssumption
<1>0. main \in Threads
  BY Zenon DEF Threads
<1>1. PICK to \in {"process", "maybe"} : Moves(main, "join", to)
  <2>1. {"process", "maybe"} \subseteq Labels /\ TypeOK /\ pc[main] = "join"
    BY Zenon DEF Labels, IInv, Join
  <2>2. PICK l \in {"process", "maybe"} : Goto(main, l)
    BY Zenon DEF Join
  <2> QED
    BY <1>0, <2>1, <2>2, GotoMoves, Zenon
<1>2. /\ UNCHANGED <<tasks, periodic, ahead, stopRequested>>
      /\ UNCHANGED <<m_are_callbacks_running, started, finished>>
      /\ atFlush' = added' /\ added' \in {added, added + 1}
  BY Zenon DEF Join
<1>3. \A u \in Threads : InCallback(u) \/ InCallback(u)' => pc'[u] = pc[u]
  BY <1>1, Zenon DEF Moves, InCallback
<1>4. pc'[main] = to
  BY <1>1, Zenon DEF Moves
<1>5. TypeOK'
  <2>1. pc' \in [Threads -> Labels]
    BY <1>1, Zenon DEF Moves
  <2>2. Data'
    <3>1. Data
      BY TypeParts, Zenon DEF IInv
    <3>2. {added', started, finished, atFlush'} \subseteq Nat /\ atFlush' <= added'
      BY <1>2, <3>1 DEF Data
    <3> QED
      BY <1>2, <3>1, <3>2, Zenon DEF Data
  <2> QED
    BY <2>1, <2>2, TypeParts, Zenon DEF TypeOK, Data
<1>6. FlagIsThread'
  BY <1>2, <1>3, Zenon DEF IInv, FlagIsThread, InCallback
<1>7. Counts'
  BY <1>2, <1>3 DEF IInv, TypeOK, Counts, InCallback
<1>8. Places'
  <2>1. \A u \in Producers : pc'[u] \in {"idle", "maybe", "schedule", "notify"}
    BY <1>1, Zenon DEF Moves, IInv, Places, Threads
  <2>2. \A u \in Services : pc'[u] = "exited"
    BY <1>1, Zenon DEF Moves, Threads, Join
  <2>3. InEmptyQueue'
    BY <1>4, Zenon DEF InEmptyQueue
  <2> QED
    BY <2>1, <2>2, <2>3, Zenon DEF Places
<1>9. NoneStranded'
  BY <1>0, <1>4, Zenon DEF NoneStranded
<1>10. FlushedAll'
  BY <1>4, Zenon DEF FlushedAll
<1> QED
  BY <1>5, <1>6, <1>7, <1>8, <1>9, <1>10, Zenon DEF IInv

\* ProcessQueue returns early only with nothing to do or a callback running.
LEMMA ProcessReturns ==
  ASSUME IInv, NEW t \in Threads, pc[t] = "process", m_are_callbacks_running \/ pending = 0,
         Goto(t, Home(t)), UNCHANGED clientVars, UNCHANGED queueVars
  PROVE  IInv'
<1> USE SchedulerAssumption
<1>1. Moves(t, "process", Home(t))
  BY HomeAllowed, GotoMoves, Zenon DEF IInv
<1>2. t \notin Producers
  BY Zenon DEF IInv, Places
<1>3. Allowed(t, "process", Home(t))
  BY <1>2, HomeAllowed, Zenon DEF Allowed
<1>4. Data'
  BY TypeParts, Zenon DEF IInv, Data, clientVars, queueVars
<1>5. NoneStranded'
  BY DEF NoneStranded, pending, clientVars
<1>6. FlushedAll'
  <2>1. Home(t) # "flushed"
    BY HomeAllowed, Zenon
  <2> QED
    BY <1>1, <2>1, MovesFlushed, Zenon DEF clientVars, queueVars
<1> QED
  BY <1>1, <1>3, <1>4, <1>5, <1>6, QuietStep, Zenon

\* A step into, through or out of a callback leaves the other threads and the
\* queue alone.
LEMMA CallbackMoves ==
  ASSUME IInv, NEW t \in Threads, NEW to \in {"callback", "end", "maybe"}, Goto(t, to),
         pc[t] \in {"process", "callback", "end"}, UNCHANGED queueVars, added' = added
  PROVE  /\ pc' \in [Threads -> Labels]
         /\ pc'[t] = to
         /\ \A u \in Threads \ {t} : pc'[u] = pc[u]
         /\ Places'
         /\ pc'[main] # "flushed" \/ pc'[main] = pc[main]
<1> USE SchedulerAssumption
<1>1. Moves(t, pc[t], to)
  BY GotoMoves, Zenon DEF IInv, Labels
<1>2. pc' \in [Threads -> Labels] /\ pc'[t] = to
  BY <1>1, Zenon DEF Moves
<1>3. \A u \in Threads \ {t} : pc'[u] = pc[u]
  BY Zenon DEF Goto, IInv, TypeOK
<1>4. t \notin Producers
  BY Zenon DEF IInv, Places
<1>5. \A u \in Producers : pc'[u] \in {"idle", "maybe", "schedule", "notify"}
  BY <1>3, <1>4, Zenon DEF IInv, Places, Threads
<1>6. CASE t = main
  <2>1. InEmptyQueue /\ InEmptyQueue'
    BY <1>2, <1>6, Zenon DEF InEmptyQueue
  <2>2. \A s \in Services : pc'[s] = pc[s]
    BY <1>3, <1>6, Zenon DEF Threads
  <2> QED
    BY <1>2, <1>3, <1>5, <1>6, <2>1, <2>2, Zenon DEF IInv, Places, InEmptyQueue
<1>7. CASE t \in Services
  <2>1. ~InEmptyQueue /\ pc'[main] = pc[main]
    BY <1>3, <1>7, Zenon DEF IInv, Places, Threads
  <2> QED
    BY <1>2, <1>3, <1>5, <2>1, Zenon DEF IInv, Places, InEmptyQueue
<1> QED
  BY <1>4, <1>6, <1>7, Zenon DEF Threads

\* ProcessQueue starts a callback only when none runs.
LEMMA ProcessStarts ==
  ASSUME IInv, NEW t \in Threads, pc[t] = "process", ~m_are_callbacks_running, pending > 0,
         m_are_callbacks_running' = TRUE, started' = started + 1, Goto(t, "callback"),
         UNCHANGED queueVars, UNCHANGED <<added, finished>>
  PROVE  IInv'
<1>1. /\ pc' \in [Threads -> Labels] /\ pc'[t] = "callback"
      /\ \A u \in Threads \ {t} : pc'[u] = pc[u]
      /\ Places'
      /\ pc'[main] # "flushed" \/ pc'[main] = pc[main]
  BY CallbackMoves, Zenon
<1>2. \A u \in Threads : ~InCallback(u)
  BY Zenon DEF IInv, FlagIsThread
<1>3. TypeOK'
  <2>1. Data
    BY TypeParts, Zenon DEF IInv
  <2>2. {added, started', finished, atFlush} \subseteq Nat
    BY <2>1 DEF Data
  <2>3. m_are_callbacks_running' \in BOOLEAN
    BY Zenon
  <2>4. Data'
    BY <2>1, <2>2, <2>3, Zenon DEF Data, queueVars
  <2> QED
    BY <1>1, <2>4, TypeParts, Zenon DEF TypeOK, Data
<1>4. FlagIsThread'
  BY <1>1, <1>2, Zenon DEF FlagIsThread, InCallback
<1>5. Counts'
  <2>1. finished = started
    BY <1>2, Zenon DEF IInv, Counts, InCallback
  <2>2. started' <= added'
    BY DEF pending, IInv, TypeOK
  <2>3. finished' = started' - 1
    BY <2>1 DEF IInv, TypeOK
  <2> QED
    BY <1>1, <2>2, <2>3, Zenon DEF Counts
<1>6. NoneStranded'
  BY Zenon DEF NoneStranded
<1>7. FlushedAll'
  BY <1>1, Zenon DEF IInv, FlushedAll, queueVars
<1> QED
  BY <1>1, <1>3, <1>4, <1>5, <1>6, <1>7, Zenon DEF IInv

\* Both ways of ProcessQueue keep the invariant.
LEMMA ProcessQueueStep ==
  ASSUME IInv, NEW t \in Threads, ProcessQueue(t)
  PROVE  IInv'
<1>1. CASE (m_are_callbacks_running \/ pending = 0) /\ Goto(t, Home(t)) /\ UNCHANGED <<m_are_callbacks_running, started>>
  BY <1>1, ProcessReturns, Zenon DEF ProcessQueue, clientVars
<1>2. CASE /\ ~m_are_callbacks_running /\ pending > 0
           /\ m_are_callbacks_running' = TRUE /\ started' = started + 1 /\ Goto(t, "callback")
  BY <1>2, ProcessStarts, Zenon DEF ProcessQueue
<1> QED
  BY <1>1, <1>2, Zenon DEF ProcessQueue

\* The end of a callback keeps the invariant.
LEMMA CallbackStep ==
  ASSUME IInv, NEW t \in Threads, Callback(t)
  PROVE  IInv'
<1>0. /\ pc[t] = "callback" /\ finished' = finished + 1 /\ Goto(t, "end")
      /\ UNCHANGED queueVars /\ UNCHANGED <<m_are_callbacks_running, added, started>>
  BY Zenon DEF Callback
<1>1. /\ pc' \in [Threads -> Labels] /\ pc'[t] = "end"
      /\ \A u \in Threads \ {t} : pc'[u] = pc[u]
      /\ Places'
      /\ pc'[main] # "flushed" \/ pc'[main] = pc[main]
  BY <1>0, CallbackMoves, Zenon
<1>2. \A u \in Threads : InCallback(u) => u = t
  BY <1>0, Zenon DEF IInv, FlagIsThread, InCallback
<1>3. TypeOK'
  <2>1. Data
    BY TypeParts, Zenon DEF IInv
  <2>2. {added, started, finished', atFlush} \subseteq Nat
    BY <1>0, <2>1 DEF Data
  <2>3. Data'
    BY <1>0, <2>1, <2>2, Zenon DEF Data, queueVars
  <2> QED
    BY <1>1, <2>3, TypeParts, Zenon DEF TypeOK, Data
<1>4. m_are_callbacks_running
  BY <1>0, Zenon DEF IInv, FlagIsThread, InCallback
<1>5. FlagIsThread'
  BY <1>0, <1>1, <1>2, <1>4, Zenon DEF FlagIsThread, InCallback
<1>6. Counts'
  <2>1. finished = started - 1 /\ started <= added
    BY <1>0, Zenon DEF IInv, Counts
  <2>2. finished' = started' /\ started' <= added'
    BY <1>0, <2>1 DEF IInv, TypeOK
  <2>3. \A u \in Threads : pc'[u] # "callback"
    BY <1>1, <1>2, Zenon DEF InCallback
  <2> QED
    BY <2>2, <2>3, Zenon DEF Counts
<1>7. NoneStranded'
  BY <1>0, <1>4, Zenon DEF NoneStranded
<1>8. FlushedAll'
  BY <1>0, <1>1 DEF IInv, TypeOK, FlushedAll, queueVars
<1> QED
  BY <1>1, <1>3, <1>5, <1>6, <1>7, <1>8, Zenon DEF IInv

\* ~RAIICallbacksRunning clears the flag with MaybeScheduleProcessQueue still to come.
LEMMA EndCallbackStep ==
  ASSUME IInv, NEW t \in Threads, EndCallback(t)
  PROVE  IInv'
<1>0. /\ pc[t] = "end" /\ m_are_callbacks_running' = FALSE /\ Goto(t, "maybe")
      /\ UNCHANGED queueVars /\ UNCHANGED <<added, started, finished>>
  BY Zenon DEF EndCallback
<1>1. /\ pc' \in [Threads -> Labels] /\ pc'[t] = "maybe"
      /\ \A u \in Threads \ {t} : pc'[u] = pc[u]
      /\ Places'
      /\ pc'[main] # "flushed" \/ pc'[main] = pc[main]
  BY <1>0, CallbackMoves, Zenon
<1>2. \A u \in Threads : InCallback(u) => u = t
  BY <1>0, Zenon DEF IInv, FlagIsThread, InCallback
<1>3. TypeOK'
  <2>1. Data
    BY TypeParts, Zenon DEF IInv
  <2>2. m_are_callbacks_running' \in BOOLEAN
    BY <1>0, Zenon
  <2>3. Data'
    BY <1>0, <2>1, <2>2, Zenon DEF Data, queueVars
  <2> QED
    BY <1>1, <2>3, TypeParts, Zenon DEF TypeOK, Data
<1>4. \A u \in Threads : ~InCallback(u)'
  BY <1>1, <1>2, Zenon DEF InCallback
<1>5. FlagIsThread'
  BY <1>0, <1>4, Zenon DEF FlagIsThread, InCallback
<1>6. Counts'
  <2>1. \A u \in Threads : pc[u] # "callback"
    BY <1>0, <1>2, Zenon DEF InCallback
  <2>2. finished = started /\ started <= added
    BY <2>1, Zenon DEF IInv, Counts
  <2>3. \A u \in Threads : pc'[u] # "callback"
    BY <1>4, Zenon DEF InCallback
  <2> QED
    BY <1>0, <2>2, <2>3, Zenon DEF Counts
<1>7. NoneStranded'
  BY <1>1, Zenon DEF NoneStranded
<1>8. FlushedAll'
  BY <1>0, <1>1, Zenon DEF IInv, FlushedAll, queueVars
<1> QED
  BY <1>1, <1>3, <1>5, <1>6, <1>7, <1>8, Zenon DEF IInv

\* A stuttering step keeps the invariant.
LEMMA StutterKeeps ==
  ASSUME IInv, UNCHANGED vars
  PROVE  IInv'
<1>1. TypeOK' /\ FlagIsThread'
  BY Zenon DEF vars, IInv, TypeOK, FlagIsThread, InCallback
<1>2. Counts' /\ Places'
  BY Zenon DEF vars, IInv, Counts, Places, InEmptyQueue
<1>3. NoneStranded' /\ FlushedAll'
  BY Zenon DEF vars, IInv, NoneStranded, pending, FlushedAll
<1> QED
  BY <1>1, <1>2, <1>3, Zenon DEF IInv

\* Every step of every thread keeps the invariant.
LEMMA Inductive == IInv /\ [Next]_vars => IInv'
<1> SUFFICES ASSUME IInv, [Next]_vars PROVE IInv'
  BY Zenon
<1>1. ASSUME NEW t \in Threads, Service(t) PROVE IInv'
  BY <1>1, ServiceLoopStep, TakeTaskStep, RepeatStep, Zenon DEF Service
<1>2. ASSUME NEW t \in Threads, Client(t) PROVE IInv'
  BY <1>2, MaybeStep, ScheduleStep, NotifyStep, ProcessQueueStep, CallbackStep, EndCallbackStep, Zenon
  DEF Client
<1>3. ASSUME NEW t \in Threads, AddToProcessQueue(t) PROVE IInv'
  BY <1>3, AddStep, Zenon
<1>4. CASE Stop
  BY <1>4, StopStep, Zenon
<1>5. CASE Join
  BY <1>5, JoinStep, Zenon
<1>6. CASE EmptyQueue
  BY <1>6, EmptyQueueStep, Zenon
<1>7. CASE Tick
  BY <1>7, TickStep, Zenon
<1>8. CASE UNCHANGED vars
  BY <1>8, StutterKeeps, Zenon
<1> QED
  BY <1>1, <1>2, <1>3, <1>4, <1>5, <1>6, <1>7, <1>8, Zenon DEF Next

\* The inductive invariant holds in every reachable state of the scheduler.
THEOREM Invariance == Spec => []IInv
<1>1. Init => IInv
  BY InitIInv, Zenon
<1>2. IInv /\ [Next]_vars => IInv'
  BY Inductive, Zenon
<1> QED
  BY <1>1, <1>2, PTL DEF Spec

\* ProcessQueue runs one callback at a time, on whichever thread, and each one
\* only when all before it have finished, however many service threads there are.
THEOREM RunSerially == Spec => []CallbacksSerial
<1>1. IInv => CallbacksSerial
  <2> SUFFICES ASSUME IInv PROVE CallbacksSerial
    BY Zenon
  <2>1. \A t, u \in Threads : pc[t] = "callback" /\ pc[u] = "callback" => t = u
    BY Zenon DEF IInv, FlagIsThread, InCallback
  <2>2. finished \in {started, started - 1}
    BY Zenon DEF IInv, Counts
  <2> QED
    BY <2>1, <2>2, Zenon DEF IInv, Counts, CallbacksSerial
<1> QED
  BY <1>1, Invariance, PTL

\* MaybeScheduleProcessQueue, which schedules nothing while a callback runs,
\* never leaves a callback in the list with no task to run it.
THEOREM NothingStranded == Spec => []NoneStranded
<1>1. IInv => NoneStranded
  BY Zenon DEF IInv
<1> QED
  BY <1>1, Invariance, PTL

\* When the EmptyQueue of the shutdown returns, every callback added before its
\* call has finished.
THEOREM FlushIsComplete == Spec => []FlushedAll
<1>1. IInv => FlushedAll
  BY Zenon DEF IInv
<1> QED
  BY <1>1, Invariance, PTL
=============================================================================
