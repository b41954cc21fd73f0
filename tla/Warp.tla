-------------------------------- MODULE Warp --------------------------------
(***************************************************************************)
(* One warp of the scheduler (iris_warp_t, src/src/iris_dispatcher.h) and  *)
(* the threads that use it.  A warp is a queue of tasks that at most one   *)
(* thread at a time may own.  A thread owns it by writing thread_warp with *)
(* a CAS, and a warp with a positive suspend_count may not start tasks.    *)
(*                                                                         *)
(* Every step of a thread is one access to shared memory: a load, a store, *)
(* an exchange or a CAS, with the local work that precedes it.  Accesses   *)
(* that commute with those of all other threads are merged with the next   *)
(* one (taking a closure out of the worker pool; handing a whole list of   *)
(* parallel tasks to it).  Atomics are sequentially consistent: on x86     *)
(* every read-modify-write the protocol relies on is a full fence.         *)
(*                                                                         *)
(* The pool of the async worker is a set of closures of three kinds: calls *)
(* of execute_t (counted by execs), suspend_t around a parallel task       *)
(* (poolPar) and external_t around a normal task (poolExt).  The pool is a *)
(* set because its workers pop concurrently and by priority.               *)
(***************************************************************************)
EXTENDS Integers, Sequences, FiniteSets

CONSTANTS
  NWorkers,     \* number of worker threads of the async worker
  Externals,    \* threads that have no index in the async worker
  Pollers,      \* threads that call iris_warp_t::poll
  Posted,       \* normal tasks sent with queue_routine_post
  Called,       \* normal tasks sent with queue_routine
  Parallels,    \* tasks sent with queue_routine_parallel(_post)
  Raw,          \* tokens of explicit suspend() calls that await their resume()
  Yielding,     \* normal tasks whose body may call yield()
  ParallelAt,   \* from where parallel tasks are sent: a subset of HoldStates
  MaxExecs,     \* bound: nobody starts a poll or a suspend while the pool holds
                \* this many execute_t closures (each may leave one more there)
  Strand,       \* TRUE: chain_storage_t, one queue; FALSE: a queue per worker
  None

Workers == 1..NWorkers
Threads == Workers \cup Externals
Normal  == Posted \cup Called
Jobs    == Normal \cup Parallels

\* The values that count in suspend_count: one token for each outstanding suspend().
Tokens == Parallels \cup Raw \cup Pollers

HoldStates == {"none", "guard", "run", "gone"}

ASSUME WarpAssumption ==
  /\ NWorkers \in Nat \ {0}
  /\ Externals \cap Workers = {}
  /\ Pollers \subseteq Threads
  /\ Posted \cap Called = {} /\ Normal \cap Parallels = {}
  /\ Jobs \cap Raw = {} /\ Tokens \cap Normal = {}
  /\ Threads \cap (Jobs \cup Raw) = {}
  /\ Yielding \subseteq Normal
  /\ ParallelAt \subseteq {"none", "run", "gone"}
  /\ MaxExecs \in Nat
  /\ Strand \in BOOLEAN
  /\ None \notin Threads \cup Jobs \cup Raw

Slots == 1..(IF Strand THEN 1 ELSE NWorkers)

VARIABLES
  owner,      \* thread_warp: the thread that owns the warp
  suspended,  \* suspend_count, as the set of the tokens it counts
  queueing,   \* queueing: "idle", "pending" or "executing"
  storage,    \* storage: the queue of each slot, oldest task first
  parallel,   \* parallel_task_head: parallel tasks waiting for the owner
  execs,      \* pool: number of execute_t closures
  poolPar,    \* pool: parallel tasks, each in a suspend_t closure
  poolExt,    \* pool: normal tasks, each in an external_t closure
  pc,         \* the next access of each thread
  ret,        \* where the thread goes on after push, flush or resume
  after,      \* where the thread goes on after its preempt guard has yielded
  hold,       \* none: not an owner; guard: owner; run: owner that may run
              \* tasks; gone: gave the warp up with yield() inside a task
  job,        \* the normal task a thread runs or is about to queue
  par,        \* the parallel task a thread runs or is about to queue
  slot,       \* execute_internal: the slot being scanned
  found,      \* execute_internal: execute_counter # 0 in this pass
  status      \* history: how far each job has got

vars == <<owner, suspended, queueing, storage, parallel, execs, poolPar,
          poolExt, pc, ret, after, hold, job, par, slot, found, status>>

pool    == <<execs, poolPar, poolExt>>
scan    == <<slot, found>>
thread  == <<ret, after, hold, job, par>>

PCs == {"idle", "body", "shared", "qr_cas", "qr_recheck", "qr_post",
        "flush", "flush_xchg", "flush_queue", "yield", "yield_xchg",
        "ex_cas", "ex_recheck", "ex_par", "ex_sus", "ex_pend", "ex_start",
        "scan", "after_body", "ex_tail", "tail_cas",
        "par_check", "par_push", "res_xchg",
        "poll_scan", "poll_cas", "poll_resume"}

RetPCs == {"idle", "body", "yield", "ex_tail", "poll_resume"}

TypeOK ==
  /\ owner \in Threads \cup {None}
  /\ suspended \subseteq Tokens
  /\ queueing \in {"idle", "pending", "executing"}
  /\ storage \in [Slots -> Seq(Normal)]
  /\ parallel \subseteq Parallels
  /\ execs \in Nat
  /\ poolPar \subseteq Parallels
  /\ poolExt \subseteq Normal
  /\ pc \in [Threads -> PCs]
  /\ ret \in [Threads -> RetPCs]
  /\ after \in [Threads -> {"idle", "ex_tail", "poll_resume"}]
  /\ hold \in [Threads -> HoldStates]
  /\ job \in [Threads -> Normal \cup {None}]
  /\ par \in [Threads -> Parallels \cup {None}]
  /\ slot \in [Threads -> Slots]
  /\ found \in [Threads -> BOOLEAN]
  /\ status \in [Jobs -> {"new", "queued", "running", "detached", "done"}]

Init ==
  /\ owner = None
  /\ suspended = {}
  /\ queueing = "idle"
  /\ storage = [i \in Slots |-> <<>>]
  /\ parallel = {}
  /\ execs = 0
  /\ poolPar = {}
  /\ poolExt = {}
  /\ pc = [t \in Threads |-> "idle"]
  /\ ret = [t \in Threads |-> "idle"]
  /\ after = [t \in Threads |-> "idle"]
  /\ hold = [t \in Threads |-> "none"]
  /\ job = [t \in Threads |-> None]
  /\ par = [t \in Threads |-> None]
  /\ slot = [t \in Threads |-> 1]
  /\ found = [t \in Threads |-> FALSE]
  /\ status = [j \in Jobs |-> "new"]

(***************************************************************************)
(* Helpers                                                                 *)
(***************************************************************************)
Goto(t, to) == pc' = [pc EXCEPT ![t] = to]

Step(t, from, to) == pc[t] = from /\ Goto(t, to)

Mark(j, s) == status' = [status EXCEPT ![j] = s]

\* A thread that is between two calls, or inside the body of a normal task.
InClient(t) == pc[t] \in {"idle", "body"}

\* Where push, flush and resume return to: a parallel task that is running
\* is the innermost frame of its thread.
Back(t) == IF par[t] # None THEN "shared" ELSE ret[t]

\* Whether the task goes through the pool instead of straight into storage:
\* grid storage has a slot for worker threads only.
ViaPool(t) == ~Strand /\ t \in Externals

MySlot(t) == IF Strand THEN 1 ELSE t

\* queue_routine_post without its flush.  The task j becomes visible and the
\* thread goes on with flush, then with `to`; external_t needs no flush.
Put(t, j, to) ==
  IF ViaPool(t)
  THEN /\ poolExt' = poolExt \cup {j}
       /\ Goto(t, to)
       /\ UNCHANGED <<storage, ret>>
  ELSE /\ storage' = [storage EXCEPT ![MySlot(t)] = Append(@, j)]
       /\ Goto(t, "flush")
       /\ ret' = IF pc[t] = "shared" THEN ret ELSE [ret EXCEPT ![t] = to]
       /\ UNCHANGED poolExt

\* Mutant: thread_warp is written with a plain store after the load.
PreemptByStore(t, won, lost) ==
  /\ owner' = t
  /\ hold' = [hold EXCEPT ![t] = "guard"]
  /\ Goto(t, won)

\* Tries to write thread_warp: the thread owns the warp and goes on at
\* `won`, or goes on at `lost`.
Preempt(t, won, lost) ==
  IF owner = None
  THEN /\ owner' = t
       /\ hold' = [hold EXCEPT ![t] = "guard"]
       /\ Goto(t, won)
  ELSE Goto(t, lost) /\ UNCHANGED <<owner, hold>>

(***************************************************************************)
(* queue_routine and queue_routine_post                                    *)
(***************************************************************************)
Post(t, j) ==
  /\ InClient(t) \/ pc[t] = "shared"
  /\ j \in Posted /\ status[j] = "new"
  /\ Mark(j, "queued")
  /\ Put(t, j, pc[t])
  /\ UNCHANGED <<owner, suspended, queueing, parallel, execs, poolPar, after,
                 hold, job, par, scan>>

\* The first load of preempt_guard_t, for the task j: suspended, so post it,
\* or try to run it now.
BeginQueue(t, j) ==
  /\ job' = [job EXCEPT ![t] = j]
  /\ Goto(t, IF suspended = {} THEN "qr_cas" ELSE "qr_post")

QueueRoutine(t, j) ==
  /\ pc[t] = "idle"
  /\ j \in Called /\ status[j] = "new"
  /\ Mark(j, "queued")
  /\ BeginQueue(t, j)
  /\ UNCHANGED <<owner, suspended, queueing, storage, parallel, pool, ret,
                 after, hold, par, scan>>

QueueCas(t) ==
  /\ pc[t] = "qr_cas"
  /\ Preempt(t, "qr_recheck", "qr_post")
  /\ UNCHANGED <<suspended, queueing, storage, parallel, pool, ret, after, job,
                 par, scan, status>>

\* Mutant: the guard does not look at suspend_count again once it owns the warp.
QueueNoRecheck(t) ==
  /\ Step(t, "qr_recheck", "body")
  /\ hold' = [hold EXCEPT ![t] = "run"]
  /\ Mark(job[t], "running")
  /\ UNCHANGED <<owner, suspended, queueing, storage, parallel, pool, ret,
                 after, job, par, scan>>

\* The warp is owned: run the task at once, unless a suspend came in between.
QueueRecheck(t) ==
  /\ pc[t] = "qr_recheck"
  /\ IF suspended = {}
     THEN /\ Goto(t, "body")
          /\ hold' = [hold EXCEPT ![t] = "run"]
          /\ Mark(job[t], "running")
     ELSE Goto(t, "qr_post") /\ UNCHANGED <<hold, status>>
  /\ UNCHANGED <<owner, suspended, queueing, storage, parallel, pool, ret,
                 after, job, par, scan>>

\* It could not be run: post it.  The guard that failed on its second look
\* at suspend_count still owns the warp, and yields after the post.
QueuePost(t) ==
  /\ pc[t] = "qr_post"
  /\ Put(t, job[t], IF hold[t] = "guard" THEN "yield" ELSE "idle")
  /\ job' = [job EXCEPT ![t] = None]
  /\ UNCHANGED <<owner, suspended, queueing, parallel, execs, poolPar, after,
                 hold, par, scan, status>>

\* queue_routine by the body of a task of the same warp: the callable runs
\* inside the caller's task when nothing is suspended, and is posted otherwise.
QueueInside(t, j) ==
  /\ pc[t] = "body" /\ hold[t] = "run"
  /\ j \in Called /\ status[j] = "new"
  /\ IF suspended = {}
     THEN Mark(j, "done") /\ UNCHANGED <<storage, poolExt, pc, ret>>
     ELSE Mark(j, "queued") /\ Put(t, j, "body")
  /\ UNCHANGED <<owner, suspended, queueing, parallel, execs, poolPar, after,
                 hold, job, par, scan>>

(***************************************************************************)
(* flush and yield                                                         *)
(***************************************************************************)
Flush(t) ==
  /\ Step(t, "flush", IF queueing # "pending" THEN "flush_xchg" ELSE Back(t))
  /\ UNCHANGED <<owner, suspended, queueing, storage, parallel, pool, thread,
                 scan, status>>

FlushExchange(t) ==
  /\ Step(t, "flush_xchg", IF queueing = "idle" THEN "flush_queue" ELSE Back(t))
  /\ queueing' = "pending"
  /\ UNCHANGED <<owner, suspended, storage, parallel, pool, thread, scan, status>>

FlushQueue(t) ==
  /\ Step(t, "flush_queue", Back(t))
  /\ execs' = execs + 1
  /\ UNCHANGED <<owner, suspended, queueing, storage, parallel, poolPar, poolExt,
                 thread, scan, status>>

\* The guard's yield at the end of a scope.  It fails when the task has
\* already yielded; execute then flushes once more.
Yield(t) ==
  /\ pc[t] = "yield"
  /\ hold' = [hold EXCEPT ![t] = "none"]
  /\ after' = [after EXCEPT ![t] = "idle"]
  /\ ret' = [ret EXCEPT ![t] = after[t]]
  /\ IF owner = t
     THEN owner' = None /\ Goto(t, "yield_xchg")
     ELSE /\ Goto(t, IF after[t] = "ex_tail" THEN "flush" ELSE after[t])
          /\ UNCHANGED owner
  /\ UNCHANGED <<suspended, queueing, storage, parallel, pool, job, par, scan,
                 status>>

\* Mutant: yield resets queueing and does not look at what it was.
YieldNoFlush(t) ==
  /\ Step(t, "yield_xchg", Back(t))
  /\ queueing' = "idle"
  /\ UNCHANGED <<owner, suspended, storage, parallel, pool, thread, scan, status>>

YieldExchange(t) ==
  /\ Step(t, "yield_xchg", IF queueing = "pending" THEN "flush" ELSE Back(t))
  /\ queueing' = "idle"
  /\ UNCHANGED <<owner, suspended, storage, parallel, pool, thread, scan, status>>

\* The body of a task calls yield() and goes on without the warp.
YieldInside(t) ==
  /\ Step(t, "body", "yield_xchg")
  /\ hold[t] = "run" /\ job[t] \in Yielding
  /\ owner' = None
  /\ hold' = [hold EXCEPT ![t] = "gone"]
  /\ ret' = [ret EXCEPT ![t] = "body"]
  /\ Mark(job[t], "detached")
  /\ UNCHANGED <<suspended, queueing, storage, parallel, pool, after, job, par,
                 scan>>

(***************************************************************************)
(* execute                                                                 *)
(***************************************************************************)
\* A thread that runs closures of the pool: a worker, or a thread in poll.
RunsPool(t) == pc[t] = "idle" /\ (t \in Workers \/ t \in Pollers)

TakeExecute(t) ==
  /\ RunsPool(t) /\ execs > 0
  /\ execs' = execs - 1
  /\ IF suspended = {}
     THEN /\ Goto(t, "ex_cas")
          /\ after' = [after EXCEPT ![t] = "ex_tail"]
     ELSE Goto(t, "ex_tail") /\ UNCHANGED after
  /\ UNCHANGED <<owner, suspended, queueing, storage, parallel, poolPar, poolExt,
                 ret, hold, job, par, scan, status>>

TakeExternal(t, j) ==
  /\ RunsPool(t) /\ j \in poolExt
  /\ poolExt' = poolExt \ {j}
  /\ BeginQueue(t, j)
  /\ UNCHANGED <<owner, suspended, queueing, storage, parallel, execs, poolPar,
                 ret, after, hold, par, scan, status>>

ExecuteCas(t) ==
  /\ pc[t] = "ex_cas"
  /\ Preempt(t, "ex_recheck", "ex_tail")
  /\ after' = IF owner = None THEN after ELSE [after EXCEPT ![t] = "idle"]
  /\ UNCHANGED <<suspended, queueing, storage, parallel, pool, ret, job, par,
                 scan, status>>

ExecuteRecheck(t) ==
  /\ Step(t, "ex_recheck", IF suspended = {} THEN "ex_par" ELSE "yield")
  /\ UNCHANGED <<owner, suspended, queueing, storage, parallel, pool, thread,
                 scan, status>>

\* execute_parallel: hands the list over until it is seen empty.  The owner
\* goes on to the tasks (execute, poll) or to its guard's yield (the tail).
ExecuteParallel(t) ==
  /\ pc[t] = "ex_par"
  /\ IF parallel # {}
     THEN /\ poolPar' = poolPar \cup parallel
          /\ parallel' = {}
          /\ UNCHANGED <<pc, hold>>
     ELSE /\ Goto(t, IF after[t] = "ex_tail" THEN "ex_sus"
                 ELSE IF after[t] = "poll_resume" THEN "ex_start"
                 ELSE "yield")
          /\ hold' = IF after[t] = "poll_resume"
                     THEN [hold EXCEPT ![t] = "run"] ELSE hold
          /\ UNCHANGED <<parallel, poolPar>>
  /\ UNCHANGED <<owner, suspended, queueing, storage, execs, poolExt, ret, after,
                 job, par, scan, status>>

\* Mutant: no double check for suspend_count after the parallel tasks went out.
ExecuteNoCheck(t) ==
  /\ Step(t, "ex_sus", "ex_start")
  /\ hold' = [hold EXCEPT ![t] = "run"]
  /\ UNCHANGED <<owner, suspended, queueing, storage, parallel, pool, ret, after,
                 job, par, scan, status>>

\* The double check: handing out parallel tasks leaves the warp suspended.
ExecuteCheck(t) ==
  /\ pc[t] = "ex_sus"
  /\ IF suspended = {}
     THEN Goto(t, "ex_start") /\ hold' = [hold EXCEPT ![t] = "run"]
     ELSE Goto(t, "ex_pend") /\ UNCHANGED hold
  /\ UNCHANGED <<owner, suspended, queueing, storage, parallel, pool, ret, after,
                 job, par, scan, status>>

ExecutePending(t) ==
  /\ Step(t, "ex_pend", "yield")
  /\ queueing' = "pending"
  /\ UNCHANGED <<owner, suspended, storage, parallel, pool, thread, scan, status>>

ExecuteStart(t) ==
  /\ Step(t, "ex_start", "scan")
  /\ queueing' = "executing"
  /\ UNCHANGED <<owner, suspended, storage, parallel, pool, thread, scan, status>>

\* Mutant: a task is called while it is still at the front of its slot.
ScanNoPop(t) ==
  /\ Step(t, "scan", "body")
  /\ storage[slot[t]] # <<>>
  /\ job' = [job EXCEPT ![t] = Head(storage[slot[t]])]
  /\ Mark(Head(storage[slot[t]]), "running")
  /\ UNCHANGED <<owner, suspended, queueing, storage, parallel, pool, ret, after,
                 hold, par, scan>>

\* One look at one slot of execute_internal: run its oldest task, or go on to
\* the next slot; a pass that found nothing in any slot is the last one.
Scan(t) ==
  /\ pc[t] = "scan"
  /\ \/ /\ storage[slot[t]] # <<>>
        /\ job' = [job EXCEPT ![t] = Head(storage[slot[t]])]
        /\ storage' = [storage EXCEPT ![slot[t]] = Tail(@)]
        /\ found' = [found EXCEPT ![t] = TRUE]
        /\ Mark(Head(storage[slot[t]]), "running")
        /\ Goto(t, "body")
        /\ UNCHANGED <<hold, slot>>
     \/ /\ storage[slot[t]] = <<>>
        /\ slot' = [slot EXCEPT ![t] = IF @ + 1 \in Slots THEN @ + 1 ELSE 1]
        /\ IF slot[t] + 1 \in Slots
           THEN UNCHANGED <<found, pc, hold>>
           ELSE /\ found' = [found EXCEPT ![t] = FALSE]
                /\ Goto(t, IF found[t] THEN "scan" ELSE "yield")
                /\ hold' = IF found[t] THEN hold ELSE [hold EXCEPT ![t] = "guard"]
        /\ UNCHANGED <<storage, job, status>>
  /\ UNCHANGED <<owner, suspended, queueing, parallel, pool, ret, after, par>>

\* The end of a normal task: back to queue_routine, or into the loop.
BodyEnd(t) ==
  /\ Step(t, "body", IF after[t] = "idle" THEN "yield" ELSE "after_body")
  /\ Mark(job[t], "done")
  /\ job' = [job EXCEPT ![t] = None]
  /\ ret' = [ret EXCEPT ![t] = "idle"]
  /\ UNCHANGED <<owner, suspended, queueing, storage, parallel, pool, after, hold,
                 par, scan>>

\* The loop stops when the warp is suspended (poll ignores that) and when the
\* task has yielded.
AfterBody(t) ==
  /\ pc[t] = "after_body"
  /\ IF (after[t] # "poll_resume" /\ suspended # {}) \/ hold[t] = "gone"
     THEN /\ Goto(t, "yield")
          /\ hold' = IF hold[t] = "run" THEN [hold EXCEPT ![t] = "guard"] ELSE hold
          /\ slot' = [slot EXCEPT ![t] = 1]
          /\ found' = [found EXCEPT ![t] = FALSE]
     ELSE Goto(t, "scan") /\ UNCHANGED <<hold, scan>>
  /\ UNCHANGED <<owner, suspended, queueing, storage, parallel, pool, ret, after,
                 job, par, status>>

\* "always try to execute parallel tasks", with a guard that ignores suspends.
ExecuteTail(t) ==
  /\ Step(t, "ex_tail", IF parallel # {} THEN "tail_cas" ELSE "idle")
  /\ ret' = [ret EXCEPT ![t] = "idle"]
  /\ after' = [after EXCEPT ![t] = "idle"]
  /\ UNCHANGED <<owner, suspended, queueing, storage, parallel, pool, hold, job,
                 par, scan, status>>

TailCas(t) ==
  /\ pc[t] = "tail_cas"
  /\ Preempt(t, "ex_par", "idle")
  /\ UNCHANGED <<suspended, queueing, storage, parallel, pool, ret, after, job,
                 par, scan, status>>

(***************************************************************************)
(* Parallel tasks, suspend and resume                                      *)
(***************************************************************************)
QueueParallel(t, p) ==
  /\ InClient(t) /\ hold[t] \in ParallelAt
  /\ p \in Parallels /\ status[p] = "new"
  /\ suspended' = suspended \cup {p}
  /\ Mark(p, "queued")
  /\ par' = [par EXCEPT ![t] = p]
  /\ ret' = [ret EXCEPT ![t] = pc[t]]
  /\ Goto(t, "par_check")
  /\ UNCHANGED <<owner, queueing, storage, parallel, pool, after, hold, job, scan>>

\* No owner: run the task here (queue_routine_parallel) or hand it to the pool
\* (queue_routine_parallel_post).  An owner: leave the task to it.
ParallelCheck(t) ==
  /\ pc[t] = "par_check"
  /\ \/ /\ owner = None
        /\ Goto(t, "shared")
        /\ Mark(par[t], "running")
        /\ UNCHANGED <<poolPar, par>>
     \/ /\ owner = None
        /\ poolPar' = poolPar \cup {par[t]}
        /\ par' = [par EXCEPT ![t] = None]
        /\ Goto(t, ret[t])
        /\ UNCHANGED status
     \/ /\ owner # None
        /\ Goto(t, "par_push")
        /\ UNCHANGED <<poolPar, par, status>>
  /\ UNCHANGED <<owner, suspended, queueing, storage, parallel, execs, poolExt,
                 ret, after, hold, job, scan>>

ParallelPush(t) ==
  /\ Step(t, "par_push", "flush")
  /\ parallel' = parallel \cup {par[t]}
  /\ par' = [par EXCEPT ![t] = None]
  /\ UNCHANGED <<owner, suspended, queueing, storage, pool, ret, after, hold, job,
                 scan, status>>

TakeParallel(t, p) ==
  /\ RunsPool(t) /\ p \in poolPar
  /\ poolPar' = poolPar \ {p}
  /\ par' = [par EXCEPT ![t] = p]
  /\ ret' = [ret EXCEPT ![t] = "idle"]
  /\ Goto(t, "shared")
  /\ Mark(p, "running")
  /\ UNCHANGED <<owner, suspended, queueing, storage, parallel, execs, poolExt,
                 after, hold, job, scan>>

\* resume(): the token s no longer counts, and the last one looks at queueing.
Resume(t, s, to) ==
  /\ suspended' = suspended \ {s}
  /\ Goto(t, IF suspended = {s} THEN "res_xchg" ELSE to)

SharedEnd(t) ==
  /\ pc[t] = "shared"
  /\ Mark(par[t], "done")
  /\ Resume(t, par[t], ret[t])
  /\ par' = [par EXCEPT ![t] = None]
  /\ UNCHANGED <<owner, queueing, storage, parallel, pool, ret, after, hold, job,
                 scan>>

\* Mutant: the last resume does not flush.
ResumeNoFlush(t) ==
  /\ Step(t, "res_xchg", ret[t])
  /\ UNCHANGED <<owner, suspended, queueing, storage, parallel, pool, thread,
                 scan, status>>

ResumeExchange(t) ==
  /\ Step(t, "res_xchg", IF queueing = "pending" THEN "flush" ELSE ret[t])
  /\ queueing' = "idle"
  /\ UNCHANGED <<owner, suspended, storage, parallel, pool, thread, scan, status>>

\* The public suspend() and resume(), called by clients in pairs that any two
\* threads may share.
RawSuspend(t, s) ==
  /\ InClient(t) /\ execs < MaxExecs
  /\ s \in Raw \ suspended
  /\ suspended' = suspended \cup {s}
  /\ UNCHANGED <<owner, queueing, storage, parallel, pool, pc, thread, scan,
                 status>>

RawResume(t, s) ==
  /\ InClient(t)
  /\ s \in Raw \cap suspended
  /\ Resume(t, s, pc[t])
  /\ ret' = [ret EXCEPT ![t] = pc[t]]
  /\ UNCHANGED <<owner, queueing, storage, parallel, pool, after, hold, job, par,
                 scan, status>>

(***************************************************************************)
(* poll: suspend the warp, take it over, and run everything that is queued *)
(***************************************************************************)
PollSuspend(t) ==
  /\ Step(t, "idle", "poll_scan")
  /\ t \in Pollers /\ execs < MaxExecs
  /\ suspended' = suspended \cup {t}
  /\ UNCHANGED <<owner, queueing, storage, parallel, pool, thread, scan, status>>

\* empty() reads the storage of an owner that may be popping it: it may then
\* answer either way.
PollScan(t) ==
  /\ pc[t] = "poll_scan"
  /\ \E empty \in BOOLEAN :
       /\ owner = None => (empty <=> \A i \in Slots : storage[i] = <<>>)
       /\ Goto(t, IF ~empty \/ parallel # {} THEN "poll_cas" ELSE "poll_resume")
  /\ UNCHANGED <<owner, suspended, queueing, storage, parallel, pool, thread,
                 scan, status>>

PollCas(t) ==
  /\ pc[t] = "poll_cas"
  /\ Preempt(t, "ex_par", "poll_resume")
  /\ after' = IF owner = None THEN [after EXCEPT ![t] = "poll_resume"] ELSE after
  /\ UNCHANGED <<suspended, queueing, storage, parallel, pool, ret, job, par,
                 scan, status>>

PollResume(t) ==
  /\ pc[t] = "poll_resume"
  /\ Resume(t, t, "idle")
  /\ ret' = [ret EXCEPT ![t] = "idle"]
  /\ UNCHANGED <<owner, queueing, storage, parallel, pool, after, hold, job, par,
                 scan, status>>

(***************************************************************************)
(* The specification                                                       *)
(***************************************************************************)
\* What clients choose to do.
Client(t) ==
  \/ \E j \in Posted : Post(t, j)
  \/ \E j \in Called : QueueRoutine(t, j) \/ QueueInside(t, j)
  \/ YieldInside(t)
  \/ \E p \in Parallels : QueueParallel(t, p)
  \/ \E s \in Raw : RawSuspend(t, s)
  \/ PollSuspend(t)

\* What the warp and the pool do on their own.
Internal(t) ==
  \/ QueueCas(t) \/ QueueRecheck(t) \/ QueuePost(t)
  \/ Flush(t) \/ FlushExchange(t) \/ FlushQueue(t)
  \/ Yield(t) \/ YieldExchange(t)
  \/ TakeExecute(t) \/ \E j \in Normal : TakeExternal(t, j)
  \/ ExecuteCas(t) \/ ExecuteRecheck(t) \/ ExecuteParallel(t) \/ ExecuteCheck(t)
  \/ ExecutePending(t) \/ ExecuteStart(t)
  \/ Scan(t) \/ BodyEnd(t) \/ AfterBody(t) \/ ExecuteTail(t) \/ TailCas(t)
  \/ ParallelCheck(t) \/ ParallelPush(t)
  \/ \E p \in Parallels : TakeParallel(t, p)
  \/ SharedEnd(t) \/ ResumeExchange(t)
  \/ PollScan(t) \/ PollCas(t) \/ PollResume(t)

Resumes(t) == \E s \in Raw : RawResume(t, s)

Next == \E t \in Threads : Client(t) \/ Internal(t) \/ Resumes(t)

Spec == Init /\ [][Next]_vars

\* A thread that has something to do goes on, tasks end, workers empty the
\* pool and clients resume what they have suspended.  Nobody has to submit
\* anything.
Fairness == \A t \in Threads : WF_vars(Internal(t)) /\ WF_vars(Resumes(t))

FairSpec == Spec /\ Fairness

(***************************************************************************)
(* Properties                                                              *)
(***************************************************************************)
RunningNormal == {j \in Normal : status[j] = "running"}
RunningShared == {p \in Parallels : status[p] = "running"}

\* Normal tasks of a warp never overlap (the warp restriction), as long as
\* their bodies do not give the warp up with yield().
NormalExclusion == \A j, k \in RunningNormal : j = k

\* A parallel task and a normal task of the warp never overlap: parallel tasks
\* are to normal tasks what readers are to a writer, unless poll() is used.
SharedExclusion == Pollers = {} => RunningShared = {} \/ RunningNormal = {}

\* Nobody is executing anything and no closure is left in the pool.
Quiescent ==
  /\ \A t \in Threads : pc[t] = "idle"
  /\ execs = 0 /\ poolPar = {} /\ poolExt = {}

\* Parallel tasks that were left to the owner of the warp are always handed to
\* the pool ("always try to execute parallel tasks").
ParallelHandedOut == Quiescent => parallel = {}

\* The final resume flushes the warp ("all suspend requests removed, try to
\* flush me"), so that a warp at rest that nobody suspends has nothing queued.
ResumeFlushes ==
  Quiescent /\ suspended = {} => \A i \in Slots : storage[i] = <<>>

\* Thread t has job j in hand and is about to queue it.
Queues(t, j) ==
  \/ job[t] = j /\ pc[t] \in {"qr_cas", "qr_recheck", "qr_post"}
  \/ par[t] = j /\ pc[t] \in {"par_check", "par_push"}

\* Where job j waits to be run: positions in storage, threads that have it in
\* hand, the list of parallel tasks, and the pool.
InSlot(j, i)  == {<<"storage", i, n>> : n \in {m \in DOMAIN storage[i] : storage[i][m] = j}}
InSlots(j)    == UNION {InSlot(j, i) : i \in Slots}
InHands(j)    == {<<"thread", t, 0>> : t \in {u \in Threads : Queues(u, j)}}
InParallel(j) == {<<"parallel", 0, 0>> : p \in parallel \cap {j}}
InPool(j)     == {<<"pool", 0, 0>> : p \in (poolPar \cup poolExt) \cap {j}}

Places(j) == InSlots(j) \cup InHands(j) \cup InParallel(j) \cup InPool(j)

\* A job waits in exactly one place from the call that submits it until its
\* body starts, and nowhere after.
WaitsOnce(j) == Cardinality(Places(j)) = IF status[j] = "queued" THEN 1 ELSE 0

\* No task is lost and none is run twice, whoever posts, suspends and polls.
NothingLost == \A j \in Jobs : WaitsOnce(j)

\* Every job that was submitted is run to its end.
EventuallyDone == []<>(\A j \in Jobs : status[j] \in {"new", "done"})

(***************************************************************************)
(* What the warp implements                                                *)
(***************************************************************************)
Abstract == INSTANCE WarpTasks WITH Exclusive <- Normal, Shared <- Parallels

\* The steps of the threads change the state of the tasks only in ways that
\* the promise of a warp allows.  (Threads that poll break it by design.)
RefinesTasks == Abstract!Spec
=============================================================================
