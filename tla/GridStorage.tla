----------------------------- MODULE GridStorage -----------------------------
(***************************************************************************)
(* The storage of a warp that is not a strand (grid_storage_t) and the loop *)
(* that runs its tasks (execute_internal, src/src/iris_dispatcher.h): one   *)
(* queue for each worker, and barriers that order tasks across the queues.  *)
(*                                                                         *)
(* queue_barrier takes the next barrier version and posts a task that       *)
(* raises next_version to it.  The loop keeps a version for each slot; it   *)
(* does not run a slot whose version is ahead of current_version, and after *)
(* each pass over the slots it advances current_version by at most one.     *)
(*                                                                         *)
(* Who owns the warp, suspends and flushes are those of module Warp, in     *)
(* larger steps: a free warp is taken in one, and so is a flush, and giving *)
(* the warp up with the flush that this may ask for.                        *)
(***************************************************************************)
EXTENDS Integers, Sequences, FiniteSets

CONSTANTS
  NWorkers,     \* worker threads, each with a slot of its own
  Bodies,
  Yielding,     \* tasks whose body may call yield()
  Fencers,      \* workers that call queue_barrier
  MaxBarriers,  \* bound: calls of queue_barrier by workers
  MaxExternal,  \* bound: calls of queue_barrier by a thread without a slot
  MaxSuspends,  \* bound: times that somebody suspends the warp
  Mixing,       \* a warp may have barriers as well as suspends and yields
  Modulus,      \* 2^w, for versions of w bits
  First,        \* the version to start from
  None

Workers == 1..NWorkers
Version == 0..(Modulus - 1)

ASSUME GridAssumption ==
  /\ NWorkers \in Nat \ {0}
  /\ Yielding \subseteq Bodies /\ Fencers \subseteq Workers
  /\ Mixing \in BOOLEAN
  /\ MaxBarriers \in Nat /\ MaxExternal \in Nat /\ MaxSuspends \in Nat
  /\ Modulus \in Nat /\ Modulus % 2 = 0 /\ 2 * (MaxBarriers + MaxExternal) < Modulus
  /\ First \in Version
  /\ None \notin Bodies \cup Workers

\* What a slot holds: tasks of clients, and the tasks that barriers post.
Task(j) == [kind |-> "task", task |-> j, version |-> First]
Barrier(v) == [kind |-> "barrier", task |-> None, version |-> v]
Items == [kind : {"task", "barrier"}, task : Bodies \cup {None}, version : Version]

VARIABLES
  slots,      \* queue_buffers: the queue of each worker, oldest item first
  versions,   \* queue_versions
  current,    \* current_version
  next,       \* next_version
  barrier,    \* barrier_version
  owner,      \* the thread that owns the warp
  suspended,  \* suspend_count is not zero
  queueing,   \* what is known of the flushes of the warp
  execs,      \* how many execute_t of the warp are in the pool
  pool,       \* barriers of threads without a slot, in external_t closures
  calls,      \* calls of queue_barrier, by workers and by others, and suspends
  pc, pos, step, found, job,  \* of each thread that executes
  taken,      \* the version of a barrier that a thread is about to post
  status,     \* history: how far each task has got
  earlier,    \* history: the tasks sent before the last barrier of a thread
  must,       \* history: the tasks that have to be run before a task
  held        \* history: a suspend stopped the loop, and nobody flushing since

storage  == <<slots, versions, current, next>>
flushing == <<suspended, queueing, execs, held>>
loop     == <<pos, step, found>>
history  == <<status, earlier, must>>

vars == <<slots, versions, current, next, barrier, owner, flushing, pool, calls,
          pc, pos, step, found, job, taken, status, earlier, must>>

FlushingTypeOK ==
  /\ suspended \in BOOLEAN /\ held \in BOOLEAN
  /\ queueing \in {"idle", "pending", "executing"}
  /\ execs \in Nat

TypeOK ==
  /\ slots \in [Workers -> Seq(Items)]
  /\ versions \in [Workers -> Version]
  /\ current \in Version /\ next \in Version /\ barrier \in Version
  /\ owner \in Workers \cup {None}
  /\ FlushingTypeOK
  /\ pool \subseteq Version
  /\ calls \in [{"worker", "external", "suspend"} -> Nat]
  /\ pc \in [Workers -> {"idle", "enter", "look", "body", "after"}]
  /\ pos \in [Workers -> Workers]
  /\ step \in [Workers -> Version]
  /\ found \in [Workers -> BOOLEAN]
  /\ job \in [Workers -> Bodies \cup {None}]
  /\ taken \in [Workers -> Version \cup {-1}]
  /\ status \in [Bodies -> {"new", "queued", "running", "done"}]
  /\ earlier \in [Workers -> SUBSET Bodies]
  /\ must \in [Bodies -> SUBSET Bodies]

Init ==
  /\ slots = [w \in Workers |-> <<>>]
  /\ versions = [w \in Workers |-> First]
  /\ current = First /\ next = First /\ barrier = First
  /\ owner = None
  /\ suspended = FALSE /\ queueing = "idle" /\ execs = 0 /\ held = FALSE
  /\ pool = {}
  /\ calls = [worker |-> 0, external |-> 0, suspend |-> 0]
  /\ pc = [w \in Workers |-> "idle"]
  /\ pos = [w \in Workers |-> 1]
  /\ step = [w \in Workers |-> First]
  /\ found = [w \in Workers |-> FALSE]
  /\ job = [w \in Workers |-> None]
  /\ taken = [w \in Workers |-> -1]
  /\ status = [j \in Bodies |-> "new"]
  /\ earlier = [w \in Workers |-> {}]
  /\ must = [j \in Bodies |-> {}]

\* Mutant: versions do not wrap around.
PlusNoWrap(a, n) == a + n

\* Arithmetic on versions: they wrap around.
Plus(a, n) == (a + n) % Modulus
Ahead(a, b) == (a - b) % Modulus

\* Mutant: versions are compared without regard to overflow.
PlainAtLeast(a, b) == a >= b

\* static_cast<ptrdiff_t>(a - b) >= 0
AtLeast(a, b) == Ahead(a, b) < Modulus \div 2

\* flush(): who finds the warp idle sends an execute_t; a loop that runs, or an
\* execute_t that is on its way, is only told.
Flush ==
  /\ queueing' = "pending"
  /\ execs' = IF queueing = "idle" THEN execs + 1 ELSE execs
  /\ held' = FALSE
  /\ UNCHANGED suspended

\* Mutant: who gives the warp up forgets the flushes of meanwhile.
ResetQuietly ==
  /\ queueing' = "idle"
  /\ UNCHANGED execs

\* What yield() and resume() do with queueing: they make it idle, and flush if that was
\* asked for meanwhile.
Reset ==
  /\ queueing' = IF queueing = "pending" THEN "pending" ELSE "idle"
  /\ execs' = IF queueing = "pending" THEN execs + 1 ELSE execs

(***************************************************************************)
(* Clients                                                                 *)
(***************************************************************************)
\* A worker between two calls, or inside the body of a task.
InClient(t) == pc[t] \in {"idle", "body"} /\ taken[t] = -1

\* Whether clients may queue a barrier, and suspend the warp or queue a routine
\* that may yield it.
MayFence == Mixing \/ (calls.suspend = 0 /\ \A j \in Yielding : status[j] = "new")
MayDisturb == Mixing \/ calls.worker + calls.external = 0

Push(t, item) ==
  /\ slots' = [slots EXCEPT ![t] = Append(@, item)]
  /\ Flush

Post(t, j) ==
  /\ InClient(t)
  /\ status[j] = "new"
  /\ (j \in Yielding => MayDisturb)
  /\ Push(t, Task(j))
  /\ status' = [status EXCEPT ![j] = "queued"]
  /\ must' = [must EXCEPT ![j] = earlier[t]]
  /\ UNCHANGED <<versions, current, next, barrier, owner, pool, calls, pc, loop,
                 job, taken, earlier>>

Sent == {j \in Bodies : status[j] # "new"}

\* queue_barrier: takes a version, and posts it in a second step.
TakeVersion(t) ==
  /\ InClient(t) /\ t \in Fencers
  /\ calls.worker < MaxBarriers /\ MayFence
  /\ calls' = [calls EXCEPT !.worker = @ + 1]
  /\ barrier' = Plus(barrier, 1)
  /\ taken' = [taken EXCEPT ![t] = Plus(barrier, 1)]
  /\ earlier' = [earlier EXCEPT ![t] = Sent]
  /\ UNCHANGED <<storage, owner, flushing, pool, pc, loop, job, status, must>>

PostBarrier(t) ==
  /\ taken[t] # -1
  /\ Push(t, Barrier(taken[t]))
  /\ taken' = [taken EXCEPT ![t] = -1]
  /\ UNCHANGED <<versions, current, next, barrier, owner, pool, calls, pc, loop,
                 job, history>>

\* queue_barrier by a thread that has no slot: its post goes through the pool.
ExternalBarrier ==
  /\ calls.external < MaxExternal /\ MayFence
  /\ calls' = [calls EXCEPT !.external = @ + 1]
  /\ barrier' = Plus(barrier, 1)
  /\ pool' = pool \cup {Plus(barrier, 1)}
  /\ UNCHANGED <<storage, owner, flushing, pc, loop, job, taken, history>>

\* external_t calls queue_routine, which runs the task of the barrier at once
\* if it can take the warp, and gives the warp up again; it posts the task to the
\* slot of the worker otherwise.
RunExternal(t, v) ==
  /\ pc[t] = "idle" /\ taken[t] = -1
  /\ v \in pool
  /\ pool' = pool \ {v}
  /\ \/ /\ owner = None /\ ~suspended
        /\ next' = v /\ Reset
        /\ UNCHANGED <<slots, suspended, held>>
     \/ /\ owner # None \/ suspended
        /\ Push(t, Barrier(v))
        /\ UNCHANGED next
  /\ UNCHANGED <<versions, current, barrier, owner, calls, pc, loop, job, taken,
                 history>>

\* Somebody suspends the warp, and resumes it later.
Suspend ==
  /\ ~suspended /\ suspended' = TRUE
  /\ calls.suspend < MaxSuspends /\ MayDisturb
  /\ calls' = [calls EXCEPT !.suspend = @ + 1]
  /\ UNCHANGED <<storage, barrier, owner, queueing, execs, held, pool, pc, loop, job,
                 taken, history>>

Resume ==
  /\ suspended /\ suspended' = FALSE
  /\ Reset
  /\ UNCHANGED <<storage, barrier, owner, held, pool, calls, pc, loop, job, taken,
                 history>>

(***************************************************************************)
(* execute and execute_internal                                            *)
(***************************************************************************)
\* An execute_t that finds the warp suspended or taken does nothing.
Discard(t) ==
  /\ pc[t] = "idle" /\ taken[t] = -1
  /\ execs > 0 /\ execs' = execs - 1
  /\ owner # None \/ suspended
  /\ UNCHANGED <<storage, barrier, owner, suspended, queueing, held, pool, calls, pc,
                 loop, job, taken, history>>

Begin(t) ==
  /\ pc[t] = "idle" /\ taken[t] = -1
  /\ execs > 0 /\ execs' = execs - 1
  /\ ~suspended /\ UNCHANGED suspended
  /\ owner = None /\ owner' = t
  /\ queueing' = "executing" /\ held' = FALSE
  /\ pc' = [pc EXCEPT ![t] = "enter"]
  /\ pos' = [pos EXCEPT ![t] = 1]
  /\ step' = [step EXCEPT ![t] = current]
  /\ found' = [found EXCEPT ![t] = FALSE]
  /\ UNCHANGED <<storage, barrier, pool, calls, job, taken, history>>

EnterSlot(t) ==
  /\ pc[t] = "enter"
  /\ next' = versions[pos[t]]
  /\ pc' = [pc EXCEPT ![t] = "look"]
  /\ UNCHANGED <<slots, versions, current, barrier, owner, flushing, pool, calls,
                 loop, job, taken, history>>

\* The slot may be run: its version is not ahead of the current one.
Open(w) == AtLeast(current, versions[w])

\* Mutant: a slot is run whatever its version is.
RunAnyway(t) ==
  LET w == pos[t] IN
  /\ pc[t] = "look"
  /\ slots[w] # <<>> /\ Head(slots[w]).kind = "task"
  /\ slots' = [slots EXCEPT ![w] = Tail(@)]
  /\ pc' = [pc EXCEPT ![t] = "body"]
  /\ job' = [job EXCEPT ![t] = Head(slots[w]).task]
  /\ status' = [status EXCEPT ![Head(slots[w]).task] = "running"]
  /\ UNCHANGED <<versions, current, next, barrier, owner, flushing, pool, calls,
                 loop, taken, earlier, must>>

RunTask(t) ==
  LET w == pos[t] IN
  /\ pc[t] = "look" /\ Open(w)
  /\ slots[w] # <<>> /\ Head(slots[w]).kind = "task"
  /\ slots' = [slots EXCEPT ![w] = Tail(@)]
  /\ pc' = [pc EXCEPT ![t] = "body"]
  /\ job' = [job EXCEPT ![t] = Head(slots[w]).task]
  /\ status' = [status EXCEPT ![Head(slots[w]).task] = "running"]
  /\ UNCHANGED <<versions, current, next, barrier, owner, flushing, pool, calls,
                 loop, taken, earlier, must>>

RunBarrier(t) ==
  LET w == pos[t] IN
  /\ pc[t] = "look" /\ Open(w)
  /\ slots[w] # <<>> /\ Head(slots[w]).kind = "barrier"
  /\ slots' = [slots EXCEPT ![w] = Tail(@)]
  /\ next' = Head(slots[w]).version
  /\ pc' = [pc EXCEPT ![t] = "after"]
  /\ UNCHANGED <<versions, current, barrier, owner, flushing, pool, calls, loop,
                 job, taken, history>>

\* The body of the task gives the warp up and goes on without it.
Yield(t) ==
  /\ pc[t] = "body" /\ job[t] \in Yielding /\ taken[t] = -1
  /\ owner = t /\ owner' = None
  /\ Reset
  /\ UNCHANGED <<storage, barrier, suspended, held, pool, calls, pc, loop, job, taken,
                 history>>

EndBody(t) ==
  /\ pc[t] = "body" /\ taken[t] = -1
  /\ pc' = [pc EXCEPT ![t] = "after"]
  /\ status' = [status EXCEPT ![job[t]] = "done"]
  /\ job' = [job EXCEPT ![t] = None]
  /\ UNCHANGED <<storage, barrier, owner, flushing, pool, calls, loop, taken,
                 earlier, must>>

\* After each item: the slot takes the version that a barrier has set, and the
\* loop stops if the warp was suspended meanwhile or was given up.
TakeNext(t) ==
  /\ pc[t] = "after"
  /\ versions' = [versions EXCEPT ![pos[t]] = next]
  /\ found' = [found EXCEPT ![t] = TRUE]
  /\ UNCHANGED <<slots, current, next, barrier, pool, calls, pos, step, job, taken,
                 history>>

GoOn(t) ==
  /\ TakeNext(t)
  /\ owner = t /\ ~suspended
  /\ pc' = [pc EXCEPT ![t] = "look"]
  /\ UNCHANGED <<owner, flushing>>

\* execute() gives the warp up.  The loop has left queueing at executing, unless
\* something was sent meanwhile: nobody flushes for what is still in the slots,
\* neither here nor when the warp is resumed.
StopSuspended(t) ==
  /\ TakeNext(t)
  /\ suspended /\ UNCHANGED suspended
  /\ owner = t /\ owner' = None
  /\ Reset
  /\ held' = (queueing # "pending" /\ \E w \in Workers : slots[w] # <<>>)
  /\ pc' = [pc EXCEPT ![t] = "idle"]

\* execute() finds that it has no warp to give up, and flushes.
StopYielded(t) ==
  /\ TakeNext(t)
  /\ owner # t
  /\ Flush
  /\ pc' = [pc EXCEPT ![t] = "idle"]
  /\ UNCHANGED owner

\* The slot has nothing to run: its version catches up with the current one, or
\* lets the current one advance at the end of the pass.
LeaveSlot(t) ==
  LET w == pos[t]
      reached == IF versions[w] = Plus(current, 1) THEN versions[w] ELSE step[t]
  IN
  /\ pc[t] = "look"
  /\ ~Open(w) \/ slots[w] = <<>>
  /\ versions' = [versions EXCEPT ![w] =
                    IF @ # Plus(current, 1) /\ AtLeast(current, @) THEN current ELSE @]
  /\ IF w # NWorkers
     THEN /\ step' = [step EXCEPT ![t] = reached]
          /\ pos' = [pos EXCEPT ![t] = w + 1]
          /\ pc' = [pc EXCEPT ![t] = "enter"]
          /\ UNCHANGED <<current, found, owner, queueing, execs>>
     ELSE /\ current' = reached
          /\ step' = [step EXCEPT ![t] = reached]
          /\ pos' = [pos EXCEPT ![t] = 1]
          /\ found' = [found EXCEPT ![t] = FALSE]
          /\ pc' = [pc EXCEPT ![t] = IF found[t] THEN "enter" ELSE "idle"]
          /\ IF found[t] THEN UNCHANGED <<owner, queueing, execs>>
             ELSE owner' = None /\ Reset
  /\ UNCHANGED <<slots, next, barrier, suspended, held, pool, calls, job, taken, history>>

(***************************************************************************)
(* The specification                                                       *)
(***************************************************************************)
Execute(t) ==
  \/ Discard(t) \/ Begin(t) \/ EnterSlot(t) \/ RunTask(t) \/ RunBarrier(t)
  \/ EndBody(t) \/ GoOn(t) \/ StopSuspended(t) \/ StopYielded(t) \/ LeaveSlot(t)

Next ==
  \/ \E t \in Workers :
       \/ \E j \in Bodies : Post(t, j)
       \/ TakeVersion(t) \/ PostBarrier(t)
       \/ \E v \in pool : RunExternal(t, v)
       \/ Execute(t) \/ Yield(t)
  \/ ExternalBarrier \/ Suspend \/ Resume

Spec == Init /\ [][Next]_vars

\* Workers do not stop: a call that has begun is carried on, and a worker takes
\* what is in the pool.  Who suspends the warp resumes it.
Fairness ==
  /\ \A t \in Workers :
       WF_vars(Execute(t) \/ PostBarrier(t) \/ \E v \in pool : RunExternal(t, v))
  /\ WF_vars(Resume)

FairSpec == Spec /\ Fairness

(***************************************************************************)
(* Properties                                                              *)
(***************************************************************************)
\* A routine that a thread queues after it has queued a barrier is started only
\* when every routine that any thread had queued before that barrier has been
\* started, across the queues of the warp (the version test of the loop).
BarrierOrder ==
  \A j \in Bodies :
    status[j] \in {"running", "done"} => \A k \in must[j] : status[k] # "queued"

Rest ==
  /\ \A t \in Workers : pc[t] = "idle" /\ taken[t] = -1
  /\ execs = 0 /\ ~suspended /\ pool = {}

\* When no thread is at work for the warp and no execute_t is pending, no slot
\* holds a routine back: the loop that stops has emptied every slot.
NoneHeldBack == Rest => \A w \in Workers : slots[w] = <<>>

\* Every routine that is queued is run, whatever barriers are queued with it and
\* whoever yields, suspends and resumes the warp.  The exception is what a loop that
\* was stopped by a suspend left in its slots: that is run when somebody flushes again.
EventuallyRun ==
  []<>(\A j \in Bodies :
         status[j] \in {"new", "done"} \/ (held /\ status[j] = "queued"))
==============================================================================
