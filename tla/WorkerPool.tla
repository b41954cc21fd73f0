----------------------------- MODULE WorkerPool -----------------------------
(***************************************************************************)
(* What iris_async_worker_t promises for the tasks that are queued to it:   *)
(* each is run once, and the less urgent a task is the fewer threads may be *)
(* busy with such tasks, so that urgent ones find a thread.  A pool that has *)
(* been told to stop queues all tasks as urgent ones.                       *)
(***************************************************************************)
EXTENDS Integers, FiniteSets

CONSTANTS
  NThreads,   \* worker threads
  Tasks,
  Priority    \* of each task: 0 is the most urgent, NThreads - 1 the least

VARIABLES
  queued,     \* tasks that wait
  running,    \* tasks that workers run
  guests,     \* tasks that a thread runs which polls from outside
  draining,   \* tasks that join() runs once the workers have stopped
  done,
  stopping    \* the pool has been told to stop

vars == <<queued, running, guests, draining, done, stopping>>

Init ==
  /\ queued = {} /\ running = {} /\ guests = {} /\ draining = {} /\ done = {}
  /\ stopping = FALSE

Queue(j) ==
  /\ j \notin queued \cup running \cup guests \cup draining \cup done
  /\ queued' = queued \cup {j}
  /\ UNCHANGED <<running, guests, draining, done, stopping>>

\* Tasks of priority p and less urgent ones occupy at most NThreads - p threads.
AtLeast(S, p) == {j \in S : Priority[j] >= p}

Start(j) ==
  /\ j \in queued
  /\ queued' = queued \ {j}
  /\ running' = running \cup {j}
  /\ \/ stopping
     \/ \A p \in 0..(NThreads - 1) : Cardinality(AtLeast(running', p)) <= NThreads - p
  /\ UNCHANGED <<guests, draining, done, stopping>>

Finish(j) ==
  /\ j \in running
  /\ running' = running \ {j}
  /\ done' = done \cup {j}
  /\ UNCHANGED <<queued, guests, draining, stopping>>

StartOutside(j) ==
  /\ j \in queued
  /\ queued' = queued \ {j}
  /\ guests' = guests \cup {j}
  /\ UNCHANGED <<running, draining, done, stopping>>

FinishOutside(j) ==
  /\ j \in guests
  /\ guests' = guests \ {j}
  /\ done' = done \cup {j}
  /\ UNCHANGED <<queued, running, draining, stopping>>

StartDraining(j) ==
  /\ j \in queued
  /\ running = {} /\ guests = {} /\ draining = {}
  /\ queued' = queued \ {j}
  /\ draining' = {j}
  /\ UNCHANGED <<running, guests, done, stopping>>

FinishDraining(j) ==
  /\ draining = {j}
  /\ draining' = {}
  /\ done' = done \cup {j}
  /\ UNCHANGED <<queued, running, guests, stopping>>

Stop ==
  /\ stopping' = TRUE
  /\ UNCHANGED <<queued, running, guests, draining, done>>

Next ==
  \/ \E j \in Tasks :
       \/ Queue(j) \/ Start(j) \/ Finish(j) \/ StartOutside(j) \/ FinishOutside(j)
       \/ StartDraining(j) \/ FinishDraining(j)
  \/ Stop

Spec == Init /\ [][Next]_vars
=============================================================================
