---------------------------- MODULE AsyncWorker ----------------------------
(***************************************************************************)
(* iris_async_worker_t (src/src/iris_dispatcher.h): a pool of threads that  *)
(* share one lock-free list of tasks for each priority and duplicate        *)
(* (task_heads), built with IRIS_ATOMIC_WAIT.                               *)
(*                                                                         *)
(* Each action is one shared access of the code.  A thread whose call is    *)
(* made inside another one returns to back[t].  The looks of delay() that   *)
(* precede the last one before it parks change nothing and are left out, and *)
(* so are threads added by append() and the priority handler.  One thread    *)
(* that is not a worker (Main) queues tasks, polls them for a limited time,  *)
(* terminates and joins.                                                    *)
(***************************************************************************)
EXTENDS Integers, Sequences, FiniteSets

CONSTANTS
  NThreads,     \* internal threads: the workers
  Duplicates,   \* task_head_duplicate_count
  Tasks,
  Priority,     \* of each task: 0 is the most urgent
  Limit,        \* limit_count
  Queuers,      \* threads that queue tasks
  Terminators,  \* threads that call terminate()
  Polled,       \* bound: priorities that Main polls, each once
  Main,
  None

Workers == 1..NThreads
Threads == Workers \cup {Main}
Priorities == 0..(NThreads - 1)

ASSUME WorkerAssumption ==
  /\ NThreads \in Nat \ {0} /\ Duplicates \in Nat \ {0}
  /\ Priority \in [Tasks -> Priorities]
  /\ Limit \in Nat /\ Polled \subseteq Priorities
  /\ Queuers \subseteq Threads /\ Terminators \subseteq Threads
  /\ Main \notin Workers
  /\ None \notin Tasks

\* A list of tasks: the one of a priority and a duplicate, newest task first.
Slots == [priority : Priorities, duplicate : 0..(Duplicates - 1)]
Slot(p, d) == [priority |-> p, duplicate |-> d]

VARIABLES
  heads,        \* task_heads
  terminated,
  running,      \* running_count
  waiting,      \* waiting_thread_count
  timed,        \* Main is counted in timed_waiters
  stale,        \* threads with a snapshot of wake_epoch that is not the latest value
  pc, back,     \* of each thread: where it is, where its inner call returns to
  goal,         \* what a thread looks for a task for
  size, pos,    \* of a look: how many priorities, how many slots are done
  slot,         \* the slot a thread works on
  chain,        \* tasks a thread has taken out of a slot
  job,          \* the task a thread has taken to run it
  arg,          \* the task a thread is about to queue
  drained,      \* poll() by join() has found a task in this round
  polls,        \* priorities that Main has polled
  status        \* history: how far each task has got

vars == <<heads, terminated, running, waiting, timed, stale, pc, back, goal, size,
          pos, slot, chain, job, arg, drained, polls, status>>

look == <<goal, size, pos>>
local == <<look, slot, back>>
timing == <<timed, polls>>

PollStates  == {"loop", "poll", "fetch", "take", "putback", "repush", "check",
                "start", "body", "polled", "missed", "exited"}
DelayStates == {"delay", "snapshot", "wait", "sleep", "spin", "park", "leave"}
TimedStates == {"register", "relook", "doze", "unregister"}
QueueStates == {"queue", "try", "chain", "append", "wake", "bump", "notify",
                "look timed", "notify timed"}
EndStates   == {"terminate", "bump all", "notify all"}
MainStates  == {"idle", "join", "drain", "joined"}

TypeOK ==
  /\ heads \in [Slots -> Seq(Tasks)]
  /\ terminated \in BOOLEAN
  /\ running \in 0..(NThreads + 1) /\ waiting \in 0..NThreads
  /\ timed \in BOOLEAN
  /\ stale \in [Threads -> BOOLEAN]
  /\ pc \in [Threads -> PollStates \cup DelayStates \cup TimedStates \cup QueueStates
                          \cup EndStates \cup MainStates]
  /\ back \in [Threads -> {"start", "body", "idle"}]
  /\ goal \in [Threads -> {"poll", "recheck", "park"}]
  /\ size \in [Threads -> 0..NThreads]
  /\ pos \in [Threads -> 0..(NThreads * Duplicates)]
  /\ slot \in [Threads -> Slots]
  /\ chain \in [Threads -> Seq(Tasks)]
  /\ job \in [Threads -> Tasks \cup {None}]
  /\ arg \in [Threads -> Tasks \cup {None}]
  /\ drained \in BOOLEAN
  /\ polls \subseteq Polled
  /\ status \in [Tasks -> {"new", "queued", "running", "guest", "draining", "done"}]

Init ==
  /\ heads = [s \in Slots |-> <<>>]
  /\ terminated = FALSE
  /\ running = 0 /\ waiting = 0
  /\ timed = FALSE /\ polls = {}
  /\ stale = [t \in Threads |-> FALSE]
  /\ pc = [t \in Threads |-> IF t = Main THEN "idle" ELSE "loop"]
  /\ back = [t \in Threads |-> "idle"]
  /\ goal = [t \in Threads |-> "poll"]
  /\ size = [t \in Threads |-> 0]
  /\ pos = [t \in Threads |-> 0]
  /\ slot = [t \in Threads |-> Slot(0, 0)]
  /\ chain = [t \in Threads |-> <<>>]
  /\ job = [t \in Threads |-> None]
  /\ arg = [t \in Threads |-> None]
  /\ drained = FALSE
  /\ status = [j \in Tasks |-> "new"]

Goto(t, label) == pc' = [pc EXCEPT ![t] = label]

\* get_current_thread_index(), 0 for a thread that is not a worker.
Index(t) == IF t = Main THEN 0 ELSE t - 1

\* An exchange, and a push by compare-exchange.
Exchange(s, list) == heads' = [heads EXCEPT ![s] = list]
Push(s, j) == heads' = [heads EXCEPT ![s] = <<j>> \o @]

(***************************************************************************)
(* queue_task                                                              *)
(***************************************************************************)
\* The thread may call the worker: Main between two calls, or any thread inside
\* the body of a task.
InClient(t) == pc[t] \in {"idle", "body"}

QueueTask(t, j) ==
  /\ InClient(t) /\ t \in Queuers
  /\ status[j] = "new"
  /\ status' = [status EXCEPT ![j] = "queued"]
  /\ arg' = [arg EXCEPT ![t] = j]
  /\ back' = [back EXCEPT ![t] = pc[t]]
  /\ Goto(t, "queue")
  /\ UNCHANGED <<heads, terminated, running, waiting, stale, look, slot, chain, job,
                 drained, timing>>

CheckTerminated(t) ==
  /\ pc[t] = "queue"
  /\ IF terminated
     THEN Goto(t, "append") /\ UNCHANGED pos
     ELSE Goto(t, "try") /\ pos' = [pos EXCEPT ![t] = 0]
  /\ UNCHANGED <<heads, terminated, running, waiting, stale, back, goal, size, slot,
                 chain, job, arg, drained, timing, status>>

\* Looks for an empty slot of the priority, from one that depends on the thread.
TrySlot(t) ==
  LET s == Slot(Priority[arg[t]], (pos[t] + Index(t)) % Duplicates) IN
  /\ pc[t] = "try"
  /\ IF heads[s] = <<>>
     THEN /\ Exchange(s, <<arg[t]>>)
          /\ arg' = [arg EXCEPT ![t] = None]
          /\ slot' = [slot EXCEPT ![t] = s]
          /\ Goto(t, "wake")
          /\ UNCHANGED pos
     ELSE /\ pos' = [pos EXCEPT ![t] = @ + 1]
          /\ Goto(t, IF pos[t] + 1 < Duplicates THEN "try" ELSE "chain")
          /\ UNCHANGED <<heads, arg, slot>>
  /\ UNCHANGED <<terminated, running, waiting, stale, back, goal, size, chain, job,
                 drained, timing, status>>

\* No slot was empty: addresses of tasks decide which one is taken.
Chain(t) ==
  /\ pc[t] = "chain"
  /\ \E d \in 0..(Duplicates - 1) :
       LET s == Slot(Priority[arg[t]], d) IN
       Push(s, arg[t]) /\ slot' = [slot EXCEPT ![t] = s]
  /\ arg' = [arg EXCEPT ![t] = None]
  /\ Goto(t, "wake")
  /\ UNCHANGED <<terminated, running, waiting, stale, back, look, chain, job,
                 drained, timing, status>>

\* The worker is terminated: the task is left to join().
AppendLast(t) ==
  /\ pc[t] = "append"
  /\ Push(Slot(0, 0), arg[t])
  /\ arg' = [arg EXCEPT ![t] = None]
  /\ Goto(t, back[t])
  /\ UNCHANGED <<terminated, running, waiting, stale, local, chain, job, drained,
                 timing, status>>

\* The locals of a call end with it: cleared, so that the states are fewer.
Forget(t) ==
  /\ goal' = [goal EXCEPT ![t] = "poll"]
  /\ size' = [size EXCEPT ![t] = 0]
  /\ pos' = [pos EXCEPT ![t] = 0]
  /\ slot' = [slot EXCEPT ![t] = Slot(0, 0)]
  /\ back' = [back EXCEPT ![t] = "idle"]

Return(t) == Goto(t, back[t]) /\ Forget(t)

(***************************************************************************)
(* wakeup_one_with_priority                                                *)
(***************************************************************************)
\* So many threads wait that one of them may run a task of this priority.
MayWake(p) == waiting > p + Limit

Wake(t) ==
  /\ pc[t] = "wake"
  /\ IF MayWake(slot[t].priority)
     THEN Goto(t, "bump") /\ UNCHANGED local
     ELSE Return(t)
  /\ UNCHANGED <<heads, terminated, running, waiting, stale, chain, job, arg,
                 drained, timing, status>>

HasSnapshot(u) ==
  \/ pc[u] \in {"park", "wait", "sleep", "register", "relook", "doze"}
  \/ pc[u] = "fetch" /\ goal[u] = "park"

Bump(t) ==
  /\ pc[t] \in {"bump", "bump all"}
  /\ stale' = [u \in Threads |-> HasSnapshot(u)]
  /\ Goto(t, IF pc[t] = "bump" THEN "notify" ELSE "notify all")
  /\ UNCHANGED <<heads, terminated, running, waiting, local, chain, job, arg,
                 drained, timing, status>>

\* Workers asleep that a notification may wake: their wait() began before.
Sleepers == {w \in Workers : pc[w] = "sleep" /\ stale[w]}

NotifyOne(t) ==
  /\ pc[t] = "notify"
  /\ \/ Sleepers = {} /\ Goto(t, "look timed")
     \/ \E w \in Sleepers : pc' = [pc EXCEPT ![t] = "look timed", ![w] = "spin"]
  /\ UNCHANGED <<heads, terminated, running, waiting, stale, local, chain, job, arg,
                 drained, timing, status>>

\* A timed poll sleeps on a condition variable of its own.
LookTimed(t) ==
  /\ pc[t] = "look timed"
  /\ IF timed
     THEN Goto(t, "notify timed") /\ UNCHANGED local
     ELSE Return(t)
  /\ UNCHANGED <<heads, terminated, running, waiting, stale, chain, job, arg,
                 drained, timing, status>>

NotifyTimed(t) ==
  /\ pc[t] = "notify timed"
  /\ pc' = [pc EXCEPT ![t] = back[t], ![Main] = IF @ = "doze" THEN "poll" ELSE @]
  /\ Forget(t)
  /\ UNCHANGED <<heads, terminated, running, waiting, stale, chain, job, arg,
                 drained, timing, status>>

(***************************************************************************)
(* poll_one and fetch                                                      *)
(***************************************************************************)
Loop(t) ==
  /\ pc[t] = "loop"
  /\ Goto(t, IF terminated THEN "exited" ELSE "poll")
  /\ Forget(t)
  /\ UNCHANGED <<heads, terminated, running, waiting, stale, chain, job, arg,
                 drained, timing, status>>

Lesser(a, b) == IF a <= b THEN a ELSE b

Fetch(t, what, n) ==
  /\ goal' = [goal EXCEPT ![t] = what]
  /\ size' = [size EXCEPT ![t] = n]
  /\ pos' = [pos EXCEPT ![t] = 0]
  /\ Goto(t, "fetch")

\* Mutant: the polls that run at the moment are not counted.
PollAll(t) ==
  /\ pc[t] = "poll"
  /\ running' = running + 1
  /\ Fetch(t, "poll", NThreads)
  /\ UNCHANGED <<heads, terminated, waiting, stale, back, slot, chain, job, arg,
                 drained, timing, status>>

\* Mutant: a poll without company does not serve the last priority either.
PollOneLess(t) ==
  /\ pc[t] = "poll"
  /\ running' = running + 1
  /\ Fetch(t, "poll", NThreads - Lesser(running + 1, NThreads))
  /\ UNCHANGED <<heads, terminated, waiting, stale, back, slot, chain, job, arg,
                 drained, timing, status>>

\* The more polls are running, the fewer priorities this one serves.
PollOne(t) ==
  /\ pc[t] = "poll"
  /\ running' = running + 1
  /\ Fetch(t, "poll", NThreads + 1 - Lesser(running + 1, NThreads))
  /\ UNCHANGED <<heads, terminated, waiting, stale, back, slot, chain, job, arg,
                 drained, timing, status>>

\* The slot that a look is at: priorities within each duplicate.
Looked(t) == Slot(pos[t] % size[t], ((pos[t] \div size[t]) + Index(t)) % Duplicates)

FetchSome(t) ==
  /\ pc[t] = "fetch" /\ pos[t] < size[t] * Duplicates
  /\ heads[Looked(t)] # <<>>
  /\ slot' = [slot EXCEPT ![t] = IF goal[t] = "poll" THEN Looked(t) ELSE @]
  /\ Goto(t, CASE goal[t] = "poll"    -> "take"
               [] goal[t] = "recheck" -> "wake"
               [] goal[t] = "park"    -> "leave")
  /\ UNCHANGED <<heads, terminated, running, waiting, stale, back, look, chain, job,
                 arg, drained, timing, status>>

FetchNext(t) ==
  /\ pc[t] = "fetch" /\ pos[t] < size[t] * Duplicates
  /\ heads[Looked(t)] = <<>>
  /\ pos' = [pos EXCEPT ![t] = @ + 1]
  /\ UNCHANGED <<heads, terminated, running, waiting, stale, pc, back, goal, size,
                 slot, chain, job, arg, drained, timing, status>>

FetchNone(t) ==
  /\ pc[t] = "fetch" /\ pos[t] = size[t] * Duplicates
  /\ Goto(t, CASE goal[t] = "poll"    -> "missed"
               [] goal[t] = "recheck" -> "start"
               [] goal[t] = "park"    -> "wait")
  /\ UNCHANGED <<heads, terminated, running, waiting, stale, local, chain, job, arg,
                 drained, timing, status>>

Take(t) ==
  /\ pc[t] = "take"
  /\ chain' = [chain EXCEPT ![t] = heads[slot[t]]]
  /\ Exchange(slot[t], <<>>)
  /\ Goto(t, IF heads[slot[t]] = <<>> THEN "polled" ELSE "putback")
  /\ UNCHANGED <<terminated, running, waiting, stale, local, job, arg, drained,
                 timing, status>>

\* The rest of the list goes back; what was pushed meanwhile comes out.
PutBack(t) ==
  /\ pc[t] = "putback"
  /\ job' = [job EXCEPT ![t] = Head(chain[t])]
  /\ Exchange(slot[t], Tail(chain[t]))
  /\ chain' = [chain EXCEPT ![t] = heads[slot[t]]]
  /\ back' = [back EXCEPT ![t] = "start"]
  /\ Goto(t, IF heads[slot[t]] = <<>> THEN "check" ELSE "repush")
  /\ UNCHANGED <<terminated, running, waiting, stale, look, slot, arg, drained,
                 timing, status>>

Repush(t) ==
  /\ pc[t] = "repush"
  /\ Push(slot[t], Head(chain[t]))
  /\ chain' = [chain EXCEPT ![t] = Tail(@)]
  /\ Goto(t, IF Tail(chain[t]) = <<>> THEN "wake" ELSE "repush")
  /\ UNCHANGED <<terminated, running, waiting, stale, local, job, arg, drained,
                 timing, status>>

\* Someone may have to be woken for what was put back.
Check(t) ==
  /\ pc[t] = "check"
  /\ IF MayWake(slot[t].priority)
     THEN Fetch(t, "recheck", size[t])
     ELSE Goto(t, "start") /\ UNCHANGED look
  /\ UNCHANGED <<heads, terminated, running, waiting, stale, back, slot, chain, job,
                 arg, drained, timing, status>>

StartTask(t) ==
  /\ pc[t] = "start"
  /\ status' = [status EXCEPT ![job[t]] = IF t = Main THEN "guest" ELSE "running"]
  /\ Goto(t, "body")
  /\ Forget(t)
  /\ UNCHANGED <<heads, terminated, running, waiting, stale, chain, job, arg,
                 drained, timing>>

EndTask(t) ==
  /\ pc[t] = "body"
  /\ status' = [status EXCEPT ![job[t]] = "done"]
  /\ job' = [job EXCEPT ![t] = None]
  /\ Goto(t, IF status[job[t]] = "draining" THEN "drain" ELSE "polled")
  /\ UNCHANGED <<heads, terminated, running, waiting, stale, local, chain, arg,
                 drained, timing>>

\* A worker sleeps when it has found nothing, Main does so once.
AfterPoll(t) ==
  Goto(t, IF t # Main THEN IF pc[t] = "polled" THEN "loop" ELSE "delay"
          ELSE IF timed THEN "unregister"
          ELSE IF pc[t] = "polled" THEN "idle" ELSE "snapshot")

\* Mutant: a poll that has found nothing is counted for ever.
EndPollFound(t) ==
  /\ pc[t] \in {"polled", "missed"}
  /\ running' = running - IF pc[t] = "polled" THEN 1 ELSE 0
  /\ AfterPoll(t)
  /\ UNCHANGED <<heads, terminated, waiting, stale, local, chain, job, arg, drained,
                 timing, status>>

EndPoll(t) ==
  /\ pc[t] \in {"polled", "missed"}
  /\ running' = running - 1
  /\ AfterPoll(t)
  /\ UNCHANGED <<heads, terminated, waiting, stale, local, chain, job, arg, drained,
                 timing, status>>

(***************************************************************************)
(* delay                                                                   *)
(***************************************************************************)
BeginDelay(t) ==
  /\ pc[t] = "delay"
  /\ IF terminated
     THEN Goto(t, "loop") /\ UNCHANGED waiting
     ELSE Goto(t, "snapshot") /\ waiting' = waiting + 1
  /\ Forget(t)
  /\ UNCHANGED <<heads, terminated, running, stale, chain, job, arg, drained, timing,
                 status>>

Snapshot(t) ==
  /\ pc[t] = "snapshot"
  /\ stale' = [stale EXCEPT ![t] = FALSE]
  /\ Goto(t, IF t = Main THEN "register" ELSE "park")
  /\ UNCHANGED <<heads, terminated, running, waiting, local, chain, job, arg,
                 drained, timing, status>>

\* The last look before the thread parks, at as many priorities as threads wait.
Park(t) ==
  /\ pc[t] = "park"
  /\ IF terminated
     THEN Goto(t, "leave") /\ UNCHANGED look
     ELSE Fetch(t, "park", waiting)
  /\ UNCHANGED <<heads, terminated, running, waiting, stale, back, slot, chain, job,
                 arg, drained, timing, status>>

\* Mutant: the thread goes to sleep whatever has happened since its snapshot.
WaitAnyway(t) ==
  /\ pc[t] = "wait"
  /\ stale' = [stale EXCEPT ![t] = FALSE]
  /\ Goto(t, "sleep")
  /\ Forget(t)
  /\ UNCHANGED <<heads, terminated, running, waiting, chain, job, arg, drained,
                 timing, status>>

\* wake_epoch.wait: returns at once if the epoch is another one.
Wait(t) ==
  /\ pc[t] = "wait"
  /\ Goto(t, IF stale[t] THEN "spin" ELSE "sleep")
  /\ Forget(t)
  /\ UNCHANGED <<heads, terminated, running, waiting, stale, chain, job, arg,
                 drained, timing, status>>

Spin(t) ==
  /\ pc[t] = "spin"
  /\ Goto(t, IF terminated THEN "leave" ELSE "snapshot")
  /\ stale' = [stale EXCEPT ![t] = FALSE]
  /\ UNCHANGED <<heads, terminated, running, waiting, local, chain, job, arg,
                 drained, timing, status>>

LeaveDelay(t) ==
  /\ pc[t] = "leave"
  /\ waiting' = waiting - 1
  /\ Goto(t, "loop")
  /\ stale' = [stale EXCEPT ![t] = FALSE]
  /\ UNCHANGED <<heads, terminated, running, local, chain, job, arg, drained, timing,
                 status>>

(***************************************************************************)
(* poll_one with a priority and a duration                                 *)
(***************************************************************************)
PollFor(p) ==
  /\ pc[Main] = "idle" /\ p \in Polled \ polls
  /\ polls' = polls \cup {p}
  /\ running' = running + 1
  /\ Fetch(Main, "poll", p + 1)
  /\ UNCHANGED <<heads, terminated, waiting, timed, stale, back, slot, chain, job,
                 arg, drained, status>>

Register ==
  /\ pc[Main] = "register"
  /\ timed' = TRUE
  /\ Goto(Main, "relook")
  /\ UNCHANGED <<heads, terminated, running, waiting, stale, local, chain, job, arg,
                 drained, polls, status>>

\* Mutant: the thread sleeps whatever has happened since its snapshot.
DozeAnyway ==
  /\ pc[Main] = "relook"
  /\ Goto(Main, "doze")
  /\ UNCHANGED <<heads, terminated, running, waiting, stale, local, chain, job, arg,
                 drained, timing, status>>

\* The mutex is held from here to the sleep, and by who notifies.
Relook ==
  /\ pc[Main] = "relook"
  /\ Goto(Main, IF stale[Main] THEN "poll" ELSE "doze")
  /\ UNCHANGED <<heads, terminated, running, waiting, stale, local, chain, job, arg,
                 drained, timing, status>>

Deadline ==
  /\ pc[Main] = "doze"
  /\ Goto(Main, "poll")
  /\ UNCHANGED <<heads, terminated, running, waiting, stale, local, chain, job, arg,
                 drained, timing, status>>

PollAgain ==
  /\ pc[Main] = "poll"
  /\ running' = running + 1
  /\ Fetch(Main, "poll", size[Main])
  /\ UNCHANGED <<heads, terminated, waiting, stale, back, slot, chain, job, arg,
                 drained, timing, status>>

Unregister ==
  /\ pc[Main] = "unregister"
  /\ timed' = FALSE
  /\ stale' = [stale EXCEPT ![Main] = FALSE]
  /\ Goto(Main, "idle") /\ Forget(Main)
  /\ UNCHANGED <<heads, terminated, running, waiting, chain, job, arg, drained,
                 polls, status>>

(***************************************************************************)
(* terminate and join                                                      *)
(***************************************************************************)
Terminate(t) ==
  /\ InClient(t) /\ t \in Terminators /\ ~terminated
  /\ terminated' = TRUE
  /\ back' = [back EXCEPT ![t] = pc[t]]
  /\ Goto(t, "bump all")
  /\ UNCHANGED <<heads, running, waiting, stale, look, slot, chain, job, arg,
                 drained, timing, status>>

NotifyAll(t) ==
  /\ pc[t] = "notify all"
  /\ pc' = [u \in Threads |-> IF u = t THEN "look timed"
                              ELSE IF u \in Sleepers THEN "spin" ELSE pc[u]]
  /\ UNCHANGED <<heads, terminated, running, waiting, stale, local, chain, job, arg,
                 drained, timing, status>>

Join ==
  /\ pc[Main] = "idle"
  /\ Goto(Main, "join")
  /\ UNCHANGED <<heads, terminated, running, waiting, stale, local, chain, job, arg,
                 drained, timing, status>>

\* The workers have stopped: poll() runs what is left, slot by slot, until a
\* round has found nothing.
Drain(found) ==
  /\ drained' = found
  /\ pos' = [pos EXCEPT ![Main] = 0]
  /\ Goto(Main, "drain")

Joined ==
  /\ pc[Main] = "join" /\ \A t \in Workers : pc[t] = "exited"
  /\ Drain(FALSE)
  /\ UNCHANGED <<heads, terminated, running, waiting, stale, back, goal, size, slot,
                 chain, job, arg, timing, status>>

DrainTake ==
  LET s == Slot(pos[Main] % NThreads, pos[Main] \div NThreads) IN
  /\ pc[Main] = "drain" /\ chain[Main] = <<>> /\ pos[Main] < NThreads * Duplicates
  /\ chain' = [chain EXCEPT ![Main] = heads[s]]
  /\ Exchange(s, <<>>)
  /\ drained' = (drained \/ heads[s] # <<>>)
  /\ pos' = [pos EXCEPT ![Main] = @ + 1]
  /\ UNCHANGED <<terminated, running, waiting, stale, pc, back, goal, size, slot,
                 job, arg, timing, status>>

DrainTask ==
  /\ pc[Main] = "drain" /\ chain[Main] # <<>>
  /\ job' = [job EXCEPT ![Main] = Head(chain[Main])]
  /\ chain' = [chain EXCEPT ![Main] = Tail(@)]
  /\ status' = [status EXCEPT ![Head(chain[Main])] = "draining"]
  /\ Goto(Main, "body")
  /\ UNCHANGED <<heads, terminated, running, waiting, stale, local, arg, drained,
                 timing>>

\* Mutant: one round is enough.
DrainOnce ==
  /\ pc[Main] = "drain" /\ chain[Main] = <<>> /\ pos[Main] = NThreads * Duplicates
  /\ Goto(Main, "joined") /\ UNCHANGED <<drained, pos>>
  /\ UNCHANGED <<heads, terminated, running, waiting, stale, back, goal, size, slot,
                 chain, job, arg, timing, status>>

DrainEnd ==
  /\ pc[Main] = "drain" /\ chain[Main] = <<>> /\ pos[Main] = NThreads * Duplicates
  /\ IF drained THEN Drain(FALSE) ELSE Goto(Main, "joined") /\ UNCHANGED <<drained, pos>>
  /\ UNCHANGED <<heads, terminated, running, waiting, stale, back, goal, size, slot,
                 chain, job, arg, timing, status>>

(***************************************************************************)
(* The specification                                                       *)
(***************************************************************************)
\* The rest of a call that a thread has begun.
Inside(t) ==
  \/ CheckTerminated(t) \/ TrySlot(t) \/ Chain(t) \/ AppendLast(t)
  \/ Wake(t) \/ Bump(t) \/ NotifyOne(t) \/ NotifyAll(t) \/ LookTimed(t)
  \/ NotifyTimed(t) \/ EndTask(t)

Poll(t) ==
  \/ FetchSome(t) \/ FetchNext(t) \/ FetchNone(t) \/ Take(t) \/ PutBack(t)
  \/ Repush(t) \/ Check(t) \/ StartTask(t) \/ EndPoll(t) \/ Snapshot(t)

Work(t) ==
  \/ Loop(t) \/ PollOne(t) \/ Poll(t)
  \/ BeginDelay(t) \/ Park(t) \/ Wait(t) \/ Spin(t) \/ LeaveDelay(t)

TimedPoll ==
  Poll(Main) \/ Register \/ Relook \/ Deadline \/ PollAgain \/ Unregister

Finish == Joined \/ DrainTake \/ DrainTask \/ DrainEnd

Next ==
  \/ \E t \in Threads : \/ \E j \in Tasks : QueueTask(t, j)
                        \/ Terminate(t)
                        \/ Inside(t)
  \/ \E t \in Workers : Work(t)
  \/ \E p \in Polled : PollFor(p)
  \/ TimedPoll \/ Join \/ Finish

Spec == Init /\ [][Next]_vars

\* Workers run, bodies of tasks and timed polls end, and a thread that terminates
\* the worker has it joined: its destructor does both.
FairSpec ==
  /\ Spec
  /\ \A t \in Workers : WF_vars(Work(t) \/ Inside(t))
  /\ WF_vars(Inside(Main)) /\ WF_vars(TimedPoll)
  /\ WF_vars(Finish) /\ WF_vars(terminated /\ Join)

(***************************************************************************)
(* Properties                                                              *)
(***************************************************************************)
With(s) == {j \in Tasks : status[j] = s}

\* The worker runs each task that is queued to it once, on a worker or in join(),
\* and tasks of priority p and less urgent ones are run by at most NThreads - p
\* threads at a time until it is terminated: the count of running polls that
\* poll_one reads is never lower than that of the polls which run such tasks.
Pool == INSTANCE WorkerPool WITH
  queued <- With("queued"), running <- With("running"), guests <- With("guest"),
  draining <- With("draining"), done <- With("done"), stopping <- terminated

RefinesPool == Pool!Spec

Asleep(t) == pc[t] = "sleep"

\* When all workers are asleep and the other thread is in no call, or asleep in a
\* timed poll, no task is in a list: the snapshot of wake_epoch, the count of waiting
\* threads and the looks on both sides of the put-back leave no order of steps in
\* which a wakeup is lost.
NoSleepOverWork ==
  (\A t \in Workers : Asleep(t)) /\ pc[Main] \in {"idle", "join", "doze"}
     => \A s \in Slots : heads[s] = <<>>

\* While a timed poll sleeps and the epoch is no longer the one of its snapshot, a
\* thread has yet to look at timed_waiters or to notify: the sleep ends before its
\* deadline, whichever comes first, the registration or the bump.
Announcing(t) == pc[t] \in {"notify", "notify all", "look timed", "notify timed"}

NoTimedSleepMissed ==
  pc[Main] = "doze" /\ stale[Main] => \E t \in Workers : Announcing(t)

\* When join() is over, every task that was ever queued has been run, those
\* queued after terminate() and by the tasks that join() runs included.
JoinedMeansDone == pc[Main] = "joined" => With("queued") = {}

\* Every task that is queued is run: by a worker, whose poll serves its priority
\* sooner or later, or by join().
EventuallyDone == []<>(\A j \in Tasks : status[j] \in {"new", "done"})
=============================================================================
