# A verification project for Iristorm

Iristorm is a header-only C++ library: an M:N task scheduler built from
lock-free warps, an asynchronous worker, a DAG dispatcher, coroutine
primitives, the lock-free containers and allocators they stand on, an
entity-component store and a Lua binding. This directory models its scheduler,
its coroutine primitives and its containers in TLA+, checks the models with TLC on
small instances, and proves the central theorems with TLAPS for every number of
threads and tasks.

## 1. Inventory

| Part | Source | State | Operations | What is hard |
|---|---|---|---|---|
| Warp | `src/iris_dispatcher.h` 81-872 | `thread_warp`, `suspend_count`, `queueing`, `parallel_task_head`, `storage` (one chain for a strand, a queue per worker and barrier versions for a grid) | `queue_routine`, `queue_routine_post`, `queue_routine_parallel(_post)`, `queue_barrier`, `execute`, `yield`, `suspend`, `resume`, `poll` | ownership by CAS, a three-valued flush flag that two resets share, readers released by a writer |
| Dispatcher | same, 874-1118 | a DAG of routines with `lock_count` and four `next_tasks`; `pending_count` | `allocate`, `order`, `defer`, `dispatch`, `execute` | a routine freed while a caller still holds a handle, junction nodes, defer against execution |
| Async worker | same, 1120-1781 | `task_heads` per priority and duplicate, `waiting_thread_count`, `wake_epoch`, `terminated`, `running_count`, `task_count` | `queue_task`, `poll_one`, `delay`, `wakeup_one`, `poll`, `terminate`, `join` | lost wake-ups, take one and put the rest back, drain on termination |
| Balancer | same, 1783-1819 | `balance`, `current_limit` | `up`, `down` | hysteresis of an unsynchronised counter |
| Coroutine glue | `src/iris_coroutine.h` 125-652 | a coroutine's handle and its completion; the target warp | `iris_awaitable_t`, `iris_switch_t`, `iris_select_t` | a coroutine is resumed by another thread before `await_suspend` returns |
| Event, pipe, barrier | same, 655-1067 | a signal word or counters, and a list of waiting coroutines, under a mutex for events and pipes | `notify`, `reset`, `emplace`, `co_await`, `dispatch` | a signal between the check and the registration of a waiter |
| Coroutine dispatch, quota queue | same, 1069-1343 | a routine handle per coroutine; quota amounts and a queue of waiters | `dispatch`, `acquire`, `release` | starvation, releases between the attempt and the registration |
| Quota | `src/iris_common.h` 3009-3102 | an atomic vector of amounts | `acquire`, `release` | several amounts taken one by one and given back on failure |
| Queue, queue list, quick list, pool | same, 1345-2941 | ring indices and blocks | `push`, `pop`, `top`, batches | one producer and one consumer on weak counters |
| Allocators | same, 678-1072, 3105-3170 | reference-counted blocks with bit maps, free lists | `allocate`, `deallocate` | block reuse, the last reference |
| Fences | same, 155-312 | debug counters of readers and writers | `acquire_read`, `acquire_write`, ... | checks only in debug builds |
| Entity systems | `src/iris_system.h` | component arrays, the entity to index map | `insert`, `remove`, `iterate`, `compress` | a remove that swaps the last component in |
| Spatial tree | `src/iris_tree.h` | intrusive kd-tree nodes | `attach`, `detach`, `optimize`, `query` | rotations and rebalancing |
| Lua binding | `src/iris_lua.h` | the Lua stack and registry | templates that wrap C++ types | typed glue over the Lua API |
| Lua, tests, tutorials | `src/lua`, `test`, `tutorial` | - | vendored interpreter, demos | not part of the library's own logic |

The parts interact in one direction. A warp owns tasks and hands *closures* to
the async worker: `execute_t` (run my storage), `suspend_t` (run this parallel
task and resume me) and `external_t` (call `queue_routine` for me). The worker
runs closures on its threads. The dispatcher turns a routine whose predecessors
are done into a `queue_routine` on its warp; the coroutine primitives keep
lists of (warp, coroutine) pairs and resume each coroutine by
`queue_routine_post` on its warp. The quota queue combines quota, warp and
coroutines.

**What makes each correct.** A warp: normal tasks exclude each other, parallel
tasks exclude normal ones, no task is lost, repeated or left behind at rest, a
strand keeps its order, a barrier separates what is before it from what is
after it. A worker: no thread sleeps while a task it may run is queued and
nobody else will take it, no task is lost when the rest of a chain is put back or
when the pool terminates. A dispatcher: a routine runs after all its
predecessors, once, and is freed once, after its last use. Events, pipes and
barriers: a waiter is resumed exactly once, and no signal falls between a check
and a registration. Quotas: never more taken than there is, all or nothing, and
nobody waits for what is available.

## 2. Modules

| Module | Models |
|---|---|
| `WarpTasks` | the promise of a warp: an abstract state machine of task states, with no threads, queues or counters |
| `Warp` | `iris_warp_t` and the threads that use it, one shared access per step |
| `Warp_proofs` | types and the control invariant of `Warp`; exclusion, the refinement of `WarpTasks`, and that no task is lost; proved |
| `GridStorage` | the slots of a grid warp, `queue_barrier` and the versions that the loop of `execute_internal` keeps |
| `GridStorage_proofs` | types of `GridStorage`, that one thread at a time is in the loop, and that barriers keep the order of what they separate; proved |
| `WorkerPool` | the promise of the worker: each task is run once, and less urgent ones leave threads free |
| `AsyncWorker` | `iris_async_worker_t`: the task lists, `poll_one`, `delay`, wake-ups, `terminate` and `join` |
| `AsyncWorker_proofs` | its types and counters, `join`, the timed poll, no worker sleeps over a task, and the refinement of `WorkerPool`; proved |
| `TaskGraph` | the promise of the dispatcher: routines run once, in the order of their edges, held back by handles |
| `Dispatcher` | `iris_dispatcher_t`: `lock_count`, slots for successors, junctions, memory |
| `Dispatcher_proofs` | `lock_count` is a reference count, memory, `pending_count`, and the refinement of `TaskGraph`; proved |
| `Sync` | `iris_sync_t`: what the objects that coroutines wait on share, a mutex and the handles on their way back |
| `Quota`, `QuotaQueue` | the promise of a quota; `iris_quota_t` and `iris_quota_queue_t` |
| `Event`, `Pipe` | `iris_event_t`, `iris_pipe_t` |
| `Rounds`, `RoundBarrier` | the promise of a barrier; `iris_barrier_t` |
| `Coroutines_proofs` | the main invariants of `Event`, `Pipe`, `QuotaQueue`, `RoundBarrier` and `Awaitables`, and the refinements of `Quota` and `Rounds`; proved |
| `Counting` | lemmas that the proofs share: finite sets that change by one element, sums over them; proved |
| `Awaitables` | `iris_awaitable_t`, `iris_switch_t` and `iris_select_t`, over warps that keep the promise of `WarpTasks` |
| `Heap`, `BlockAllocator` | the promise of an allocator; `iris_allocator_t` as several threads use it |
| `Fifo`, `QueueList` | the promise of a queue; `iris_queue_t` and `iris_queue_list_t` between a producer and a consumer |
| `Queue_proofs` | that the nodes of a queue list are its chain and hold what lies between their counters, and the refinement of `Fifo`; proved |
| `QuickList` | `iris_queue_quick_list_t` used from one thread, as a value |
| `Store`, `EntitySystem` | the promise of an entity system; `iris_system_t`, `iris_systems_t`, `iris_entity_allocator_t` |
| `SpatialTree` | `iris_tree_t` with `iris_overlap_t` |
| `LinearCache` | `iris_cache_t`, `iris_cache_allocator_t` |
| `Data_proofs` | the main invariants of `LinearCache`, `BlockAllocator` and `EntitySystem`, and the refinements of `Heap` and `Store`; proved |
| `MCWarp`, `MCGridStorage`, `MCAsyncWorker`, `MCDispatcher`, `MCExclusion`, `MCProgress`, `MCCoroutines`, `MCData` | the instances that TLC checks |

Eight components implement an abstract module: `Warp` (`RefinesTasks`),
`AsyncWorker` (`RefinesPool`), `Dispatcher` (`RefinesGraph`), `QuotaQueue`
(`RefinesQuota`), `RoundBarrier` (`RefinesRounds`), `BlockAllocator`
(`RefinesHeap`), `QueueList` (`RefinesFifo`) and `EntitySystem` (`RefinesStore`).
The components meet at these promises. `Warp` uses the worker as a bag of closures
that are run once each (`WorkerPool`). `Dispatcher`, `Sync` and `Awaitables` use
warps and the worker as something that runs what is queued once (`WarpTasks`,
`WorkerPool`), and `Awaitables` also uses that a normal job of a warp waits until
nobody holds the warp. `GridStorage` takes ownership, suspension and flushing from
`Warp` and adds what `Warp` leaves out, the versions of the slots. `EntitySystem`
stands on `QuickList`, which is the sequential side of what `QueueList` shows
element by element.

### How `Warp` corresponds to the code

A thread is at a program counter `pc[t]` that names its next access to shared
memory, and each action is that access with the local work in front of it. The
call structure is small enough for three registers: `ret[t]` is where `push`,
`flush` and `resume` go back to, `after[t]` is where the preempt guard's yield
goes back to (the end of `queue_routine`, the tail of `execute`, or `poll`), and
`hold[t]` says what the thread is to the warp: `none`, an owner by its guard
(`guard`), an owner that has passed the last look at `suspend_count` (`run`), or
an owner that gave the warp up with `yield()` inside a task (`gone`).

| Variable | Field |
|---|---|
| `owner` | `thread_warp` |
| `suspended` | `suspend_count`: the set of the outstanding suspends, one token each (a parallel task, an explicit suspend, a poller); its cardinality is the counter |
| `queueing` | `queueing` |
| `storage` | `chain_storage_t` (one slot) or `grid_storage_t` (a slot per worker), each slot a sequence, oldest task first |
| `parallel` | `parallel_task_head` |
| `execs`, `poolPar`, `poolExt` | the closures of this warp in the async worker |
| `status` | a history variable: how far each task has got |

| Code | Actions |
|---|---|
| `queue_routine_post`, `push` | `Post`, `Put`, then `Flush*` |
| `queue_routine` | `QueueRoutine`, `QueueCas`, `QueueRecheck`, `QueuePost`; `QueueInside` from a task of the warp |
| `flush`, `yield`, `~preempt_guard_t` | `Flush`, `FlushExchange`, `FlushQueue`, `Yield`, `YieldExchange`, `YieldInside` |
| `execute`, `execute_internal`, `execute_parallel` | `TakeExecute`, `Execute*`, `Scan`, `BodyEnd`, `AfterBody`, `ExecuteTail`, `TailCas` |
| `queue_routine_parallel(_post)`, `suspend_t` | `QueueParallel`, `ParallelCheck`, `ParallelPush`, `TakeParallel`, `SharedEnd` |
| `suspend`, `resume` | `RawSuspend`, `RawResume`, `Resume`, `ResumeExchange` |
| `poll` | `PollSuspend`, `PollScan`, `PollCas`, `PollResume` |

What is abstracted: the Treiber list and its reversal in `chain_storage_t` are a
FIFO sequence; the worker's queues are a set of closures that any worker may take
from; popping a closure and the first load of what it calls are one step (they
commute with everything else); memory is sequentially consistent; exceptions and
the hooks of derived classes (`enter_warp`, ...) are left out.

### How `GridStorage` corresponds to the code

| Variable | Field |
|---|---|
| `slots`, `versions` | `queue_buffers`, `queue_versions` |
| `current`, `next`, `barrier` | `current_version`, `next_version`, `barrier_version`, all modulo `2^w` |
| `owner`, `suspended` | `thread_warp`; whether `suspend_count` is not zero |
| `queueing`, `execs` | `queueing`; the `execute_t` closures of this warp in the pool |
| `pool` | barriers of threads without a slot, in `external_t` closures |
| `pos`, `step`, `found` | the slot, `step_version` and `execute_counter` of the loop |
| `held` | a history variable: a suspend has stopped the loop before the slots were empty, nothing was sent meanwhile, and nobody has flushed since |

`queue_barrier` is `TakeVersion` and `PostBarrier`, since the version is taken
before the post; `ExternalBarrier` and `RunExternal` for a thread without a slot.
`execute` is `Discard` (the warp is suspended or taken) or the loop: `Begin`,
`EnterSlot`, `RunTask` or `RunBarrier`, `EndBody`, `GoOn`, `LeaveSlot`. It stops in
`StopSuspended` (the warp was suspended) or `StopYielded` (a body gave the warp up).
`Flush` is `flush()`. `Reset` is what `yield()` and `resume()` do with `queueing`: they
make it `idle`, and flush only if it was `pending`. The loop keeps it at `executing`, so
after `StopSuspended` neither of the two flushes unless somebody has sent something
meanwhile, and the rest of the slots stays where it is: finding 2, for a grid.
`StopYielded` flushes, as `execute` does when `yield()` fails. `Suspend` and `Resume`
are the calls of a client.

### How `AsyncWorker` corresponds to the code

Each thread has a `pc` as in `Warp`; `back` is where a call made inside another
one returns to. `heads` is `task_heads`, one list for each priority and
duplicate, newest first; `running`, `waiting` and `terminated` are
`running_count`, `waiting_thread_count` and `terminated`. `wake_epoch` only grows,
and a thread only compares it with its snapshot, so `stale[t]` stands for "the
epoch is not the one of t's snapshot"; `wait` returns at once when it is. Main may
poll with a deadline: `timed` is `timed_waiters`, and the mutex it holds from its
second look at the epoch to its sleep makes `Relook` one step, as whoever notifies
takes it too. Locals of a call are cleared when it ends (`Forget`), which changes
nothing but the number of states.

| Code | Actions |
|---|---|
| `queue_task` | `QueueTask`, `CheckTerminated`, `TrySlot`, `Chain`, `AppendLast` |
| `wakeup_one_with_priority`, `wakeup_one`, `wakeup_all` | `Wake`, `Bump`, `NotifyOne`, `NotifyAll`, `LookTimed`, `NotifyTimed` |
| `poll_one`, `fetch`, `poll_one_internal` | `PollOne`, `FetchSome`, `FetchNext`, `FetchNone`, `Take`, `PutBack`, `Repush`, `Check`, `StartTask`, `EndTask`, `EndPoll` |
| `poll_one` with a priority and a duration | `PollFor`, `Snapshot`, `Register`, `Relook`, `Deadline`, `PollAgain`, `Unregister` |
| `delay` | `BeginDelay`, `Snapshot`, `Park`, `Wait`, `Spin`, `LeaveDelay` |
| `terminate`, `join`, `poll` | `Terminate`, `Join`, `Joined`, `DrainTake`, `DrainTask`, `DrainEnd` |

Left out: threads added by `append()`, the priority handler, and the
looks of `delay()` before the last one, which change nothing.

### How `Dispatcher` corresponds to the code

`lock`, `function`, `next` and `pending` are `lock_count`, whether `func` is set,
`next_tasks` and `pending_count`; `Closed` is `~0`. `memory` says whether a node
is allocated or given back. `handles[r]` counts the `routine_handle_t`s of r that
have not been dispatched. Each call of `execute` for a node is a process at
`at[r][c]`: `"own"` is the call that runs the function, `"bare"` one without a
function, by `dispatch` of a junction, of a routine without a function, or of one
whose body is over. `order` is `OrderInSlot` or `OrderByJunction`; `execute` is
`Execute`, `EndBody`, then `Deferred`, or `Close`, `Forward` for each slot, `Free`
and `Count`.

A client orders two routines only while it holds handles of both and makes no
cycle (`validate` checks this in debug builds), and defers a routine that it holds
or that comes after the one it runs in. `Racing` are routines that defer
themselves and whose handle may be dispatched before `execute` has returned.

### How `Sync` and the objects correspond to the code

An actor is a coroutine or a thread that calls the object; `pc[a]` names its next
shared access. A coroutine that suspends is at `"suspended"`; `iris_sync_t::dispatch`
puts it into `posted`, and a later step of its own resumes it. That a coroutine
may be in `posted` only while it is suspended is part of the type invariant, so
resuming anybody twice, or before it has suspended, is a type error.

| Code | Actions |
|---|---|
| `iris_quota_t::acquire`, `release` | `TakeKind`, `GiveBack`, `Failed`, `ReleaseKind`, one per amount |
| `guard()`, `acquire_queued`, `release` of the queue | `Acquire`, `Keep`, `Granted`, `Refused`; `AcquireQueued`, `RetryGranted`, `RetryRefused`; `Release`, `Walk`, `WakeGranted`, `WakeRefused`, `Over` |
| `iris_event_t` | `AwaitEvent`, `LookAgain`, `LookLocked`, `JoinSleepers`, `ResumeWaiter`; `Notify`, `SwapSleepers`, `WakeSleepers`; `Reset` |
| `iris_pipe_t` | `AwaitPipe`, `ConsumerFast`, `ConsumerSlow`, `ConsumerCount`, `ResumeConsumer`, `TakeElement`; `Emplace`, `ProducerFast`, `ProducerSlow`, `ProducerPop` |
| `iris_barrier_t` | `Arrive`, `WriteHandle`, `Commit`, `Compare`, `Leave`; `complete()` is `ResetCommit`, `ResetSlots`, `Shrink`, `Gather`, `Wake`; `ResumeParticipant` |

A participant of a barrier may be resumed by `complete()` while its own
`await_suspend` still has steps to go, so calls are kept in a set of their own
(`calls`), told apart by the round they belong to.

### How `Awaitables` corresponds to the code

`jobs` are the closures that wait on a warp or in the worker, `execs` the
executions: a thread in a function, in a coroutine, or in the `await_suspend` of a
coroutine that may meanwhile have gone on elsewhere. An execution says which warps
it holds, alone or in parallel. `round[c]` tells the objects of successive awaits
apart; a late step of an old round (`LateDispatch`, `LookEnd`) is possible, and
finds what was there before.

| Code | Actions |
|---|---|
| `iris_awaitable_t::dispatch`, `await_ready` | `DispatchEarly`, `AwaitEarly`, `StartFunc`, `FuncReturns`, `Complete` |
| `await_suspend`, `resume_one` | `Await`, `MarkWaited`, `LateDispatch`, `Answer`, `ResumeCoroutine` |
| `iris_select_t` | `Select`, `PostCandidate`, `LookTaken`, `LookEnd`, `CandidateWins`, `CandidateLoses` |
| `iris_switch_t` | `SwitchStays`, `Switch`, `StartHandler`, `HandlerOne`, `HandlerShares`, `HandlerPreempts`, `HandlerSwaps` |

### How the data modules correspond to the code

`BlockAllocator`: `control`, `recycled` and `count` are `control_blocks`, the list
at `recycled_head` and `recycle_count`; `refs`, `managed` and `bits` are the fields
of a block. An allocation is `Scan`, `TakeSlot` or `TakeList` with `PutBack` or
`PushBack`, `TakeRoot`, `Unmanage`, then `LoadWord`, `SetBit`, `Refer`; both calls
end in `Recycle`, `Manage`, `PutSlot`, `CountSlots`, `PushList` and `DropBlock`.
There are two kinds of initial state: a new allocator with `MaxCalls` calls of each
thread, and one whose blocks already lie in slots, in the list or nowhere, with the
calls up to `Late` made, so that the deep cases come early.

`QueueList`: a node has its counters, the copies that each side keeps of the
other's, its ring and `next`. The producer's calls are `Push` for one element or a
batch (`PushMaybeFull`, `PushFull`, `Fill`, `Publish`, `AllocateNode`, `ChainNode`,
`SwitchPushHead`), the consumer's are `Call` and the looks and pops that follow
(`NodeMaybeEmpty` to `Finish`), with `Cleanup`, `RemoveNode` and `KeepNode` for an
emptied node. `ClearList` is `reset(0)` between calls. Counters wrap at `Limit`,
which is a power of two or `counter_limit`, and `DiffCounter` is the difference that
`diff_counter()` takes: in `size_t`, with the limit taken off if it is reached, read as
a `ptrdiff_t`. For a power of two of slots that is the signed distance between two
counters; for other numbers it is not when the first is behind the second.
The code subtracts two `ptrdiff_t` in the first case, which is undefined in C++ where it
overflows in the middle of the range of `size_t`; it is taken to wrap around, as
compilers for two's complement machines do it.

`QuickList` is a value, `EntitySystem` operations are single steps: `Insert`,
`Remove` of a sequence of entities, `Compress`, `Clear`, `AllocateId`, `Destroy`
(removal from every system, then the id is free again) and `ResetIds` (`reset()` of the
ids, by a client that has no entity left in a system). A write fence in the code
asserts that they do not overlap. `SpatialTree` likewise: `AttachNode`,
`DetachNode`, `Optimize`, and the queries as operators. `Optimize` builds from any
order of the nodes, which stands for the order of the Morton codes. `LinearCache`:
`AllocateLinear`, `ResetCache`, `ClearCache`.

## 3. Runs

Several instances share one run: `shape` (in `MCExclusion` and `MCProgress`),
`object` (in `MCCoroutines`) or `part` (in `MCData`) chooses in the initial state
which of them moves, the others stay as they were made. Each behaviour is that of
one instance, with its own constants.

| Run | Question | Instances |
|---|---|---|
| `exclusion` | Do tasks exclude each other, does the warp implement `WarpTasks`, is a task ever lost, with a poll or without, does a routine overtake the barriers of several workers? | a strand with 2 workers and an outside thread, one posted task, one called that may yield, one parallel; a warp with a worker and a thread that polls, an explicit suspend; a grid with barriers of 2 workers and of an outside thread, versions starting at 7 of 8; the same with one barrier less and a suspend |
| `progress` | Is everything run in the end, and no routine before its turn? | a grid with 4 routines and either 3 barriers of one worker or yields and a suspend; a grid warp with posted, called and parallel tasks; 2 workers with 2 tasks of the last priority in one list; fairness |
| `worker_pool` | Is a wake-up lost, a task lost or repeated, the reserve for urgent tasks kept, and nothing left by `join`? | 2 workers, 2 duplicates, 3 tasks; Main and a worker queue, the other worker terminates, Main polls once with a deadline |
| `coroutines` | Does the dispatcher implement `TaskGraph` and free each node after its last use? Does each object keep its promise, and does everybody who waits go on? | a graph of 4 routines, one without a function, 2 slots, a junction, a deferral; a quota of 2 kinds, 2 users, a thread that tries; an event, 2 waiters, 2 setters; a pipe, 2 producers, 2 consumers; a barrier of 3, one of which may leave; 2 coroutines that await, switch and select on 2 warps; fairness |
| `data` | Is anything lost, given twice, or found where it is not? | an allocator, 2 threads, 4 blocks of 2 items, one slot; a queue of nodes of 2 slots, 4 elements, counters that wrap around; a system with 3 ids, lists of 2 and 3 slots; a tree of 5 nodes; a cache of nodes of 6 slots |
| `warp_parallel_stranded` | Is a parallel task always handed out? | finding 1 |
| `warp_resume_lost` | Does the last resume restart the warp? | finding 2 |
| `grid_two_fences` | Does the loop of a grid leave anything behind? | finding 3 |
| `graph_self_defer` | May a body defer its own routine? | finding 4 |
| `quota_forgotten` | Does anybody wait for a quota that is free? | finding 5 |
| `barrier_twice` | Is a round completed once? | finding 6 |
| `entity_reuse` | Does `get()` read the component of the entity? | finding 7 |

**What the properties say.** Warp: `NormalExclusion`, `SharedExclusion`,
`RefinesTasks`, `NothingLost` (each task waits in one place or has been run).
Grid: `BarrierOrder`, and `EventuallyRun`: every routine is run, but for those that a
loop stopped by a suspend has left in its slots and nobody has flushed since (`held`).
These the code does lose (finding 2), so the property does not claim them; it does
claim what is sent before, during and after a suspend in every other case, and what was
left as soon as anything else is sent. `OthersInOrder` is `NothingLost` of the polled
warp and `BarrierOrder` of the mixed grid; `OthersEventuallyDone` joins the liveness
of the grid warp and of the worker that nobody terminates.
Worker: `JoinedMeansDone`, `NoSleepOverWork`, `NoTimedSleepMissed` (a timed poll
sleeps on only while whoever moved the epoch has yet to notify it), `RefinesPool`.
Dispatcher: `NoUseAfterFree`, `PendingCovers` (it is not reported complete while a
node is in use), `RefinesGraph`, `EventuallyDone`. Objects: `Conserved` (amounts
neither appear nor vanish in the middle of a request), `RefinesQuota`,
`AnsweredOnce` (a sleeper is in the list or about to be woken, not both),
`NeverPopsEmpty`, `RefinesRounds`, `OneWayBack` (exactly one thing will resume a
coroutine that does not run), `HasWhatItAsked` (it comes back with the warps it
asked for, and only them), `ComesBack`, and `WaitersGoOn`, which joins the liveness
of quota, event, pipe and barrier. Data: `BlocksKept` (reference counts, each block
in one place, none lost), `RefinesHeap`, `NodesSound` (nodes are neither leaked nor
used after they were freed, and the slots between the counters are those that hold
elements, and what the shadow counters rule out is not so), `RefinesFifo`, `EverythingArrives`, `ListsAgree`, `GetsAComponent`,
`RefinesStore`, `SearchTree`, `QueriesFind`, `RegionsApart`.

**Bounds.** Two workers and an outside thread are enough for every pair of
concurrent roles (owner and pusher, owner and second owner, resumer and flusher,
taker and pusher, last looker and waker), with a third thread to interfere. Each
task is one model value: one to hold the warp or the list, one behind it and a
parallel one give every ordering of the kinds. `MaxExecs` bounds only repeated
polls and suspends, each of which may leave one more redundant `execute_t` in the
pool. The worker has three tasks, so that the third finds both lists of
its priority taken, and Main polls once, for all priorities; with two tasks and
lists of one duplicate, polls for the first priority alone and Main as a second
terminator were checked too.
Barriers: two from different workers and one from outside give every order
in which versions are taken and posted, and starting at 7 modulo 8 makes them wrap
around. The dispatcher has two slots (`Fan`) for four in the code, so that three
successors already need a junction; one deferral lets a handle appear late at every
stage of a routine but one, after its body has ended and before `lock_count` is
read, which takes a second deferral: two were checked too, apart from the run, and
that is why `Defer` of `TaskGraph` allows an ended routine. Of each kind of actor of an event or a pipe there are two,
who call twice: a call can then meet one of its own kind, one of the other, and
what an earlier round has left. A quota of two kinds is the smallest that can be
taken in part; two rounds of three participants let a late arrival meet the next
round. The allocator has one slot, so that the second free block already goes to
the list, and blocks of two items, so that a block is empty, partial and full; a
list of three blocks is the smallest whose remainder is not one block. Queue nodes
have two slots: the fourth element needs the third node while the first may be on
its way out. `CounterBits = 5` and `FirstCount = 31` let the counters wrap on the
first push. What `data` says of the queue it says for a power of two of slots: with
`NodeSlots = 3`, where the counters wrap at `counter_limit`, `NodesSound` and
`RefinesFifo` were checked where no counter wraps (`FirstCount = 3`), and where one does
(22 or 23) both fail, see the list at the end of this section. Three ids and lists of two slots
reach removal of the first, of the last and of a tombstone's neighbour across nodes.
Trees of five nodes have both kinds of replacement in `detach`, and one more: a node
whose replacement has two children and must be replaced in turn before it moves up,
which four do not reach; `MaxAttached = 5` calls of `attach` put them in, or bring back
what was detached. Two coordinates make most keys equal in the dimension of a
split; with three coordinates the tree was checked too.

Two constants restrict what clients do, and each stands at a finding. `Serial`:
calls of a barrier do not overlap in a round that somebody leaves (finding 6 is
`Serial = FALSE`). `Reuses`: a list does not take new elements into the slots that
removals have freed in its last node (finding 7 is `Reuses = TRUE`). And in
`coroutines` the thread that only tries asks for one kind (finding 5: for two).

Deadlock checking is off: clients may stop sending, and then the system rests.
What should not be left at rest is stated by `NoneHeldBack` and `NoSleepOverWork`,
and by the liveness properties.

**Fairness.** `Warp`: weak fairness of `Internal(t)` for every thread (a thread
that is inside a call goes on, bodies end, and a worker takes from the pool:
`thread_loop` polls until it is terminated) and of `Resumes(t)` (a client that
suspended a warp resumes it). `GridStorage`: weak fairness of the loop, of a
barrier that has its version, of closures in the pool, and of `Resume` (whoever suspended
the warp resumes it). `AsyncWorker`: weak
fairness of each worker's steps, and of the calls Main has begun (a timed poll ends
by its deadline at the latest). `Dispatcher`:
queued routines are run, calls go on, and clients dispatch the handles they hold.
Objects: a call that has begun goes on, what is posted is resumed, whoever holds a
quota gives it back, and a participant that is woken takes note of it (`Takes`).
Nothing is assumed about how often anybody calls; calls are bounded, so that
nobody is overtaken for ever. `PipeServes` and `SignalReleases` have the elements
or the lasting signal as their premise. `Awaitables`: weak fairness of steps, and
strong fairness of `StartsOf(c)`, since a job of a warp that others take and leave
is again and again able to start: a warp runs its jobs in turn, which is what
`EventuallyDone` of `Warp` shows. `QueueList`: weak fairness of the producer inside
a call, and of a consumer that keeps popping.

**Mutants.** Each property of a passing run is broken by a change to an operator of
the model that stands for a plausible bug: ownership by store instead of
compare-exchange (`PreemptByStore`), a missing second look (`QueueNoRecheck`,
`ExecuteNoCheck`, `WaitAnyway`, `ConsumerNoLook`, `MarkWaitedBlind`,
`LookNoFurther`), a flush or a walk that is forgotten (`YieldNoFlush`,
`ResumeNoFlush`, `ResetQuietly`, `ReleaseQuietly`), a list that is copied or cut short
(`CopySleepers`, `TakeHead`), arithmetic without regard to
overflow (`PlainAtLeast`, `PlusNoWrap`), a count that is left out (`OrderNoCount`,
`OrderNotPending`, `PollAll`, `PollOneLess`, `EndPollFound`, `ReferNot`,
`ShrinkNot`), and others
that stand above the operator they change.

### Findings

1. `warp_parallel_stranded`: a parallel task pushed after the pending
   `execute_t` was consumed by a suspended `execute` is never handed out.
2. `warp_resume_lost`: an executor that stops because of a suspend leaves
   `queueing` at `executing`; neither its yield nor the last resume flushes, and
   the rest of its tasks stays in storage.
3. `grid_two_fences`: the loop of a grid stops after a pass that has run nothing,
   although that pass has advanced `current_version` and so opened a slot.
4. `graph_self_defer`: a body that defers its own routine races with the dispatch
   of the handle; both complete the routine. `iris_dispatch_coroutine` uses
   `defer` in this way.
5. `quota_forgotten`: a request that fails half way holds an amount while another
   one is refused because of it, twice, and joins the queue; the amount is given
   back without a look at the queue.
6. `barrier_twice`: a participant's number is compared with a `max_await_count`
   that the `complete()` of the same round has lowered in between; the round is
   completed a second time.
7. `entity_reuse`: the last node of a quick list takes new elements into slots that
   pops have freed, so an index may belong to the node after the one that holds the
   element; `get()` divides the index and looks into that other node.

The passing runs keep away from these: in the grid instance of `progress` parallel
tasks are sent by running tasks only, with no explicit suspend and no poller (1,
2); one worker queues barriers and does not mix them with suspends and yields
(`Mixing = FALSE`, 3), and what a suspend leaves in slots is excepted by name (2);
the handle of a routine that has deferred itself is
dispatched after `execute` has returned (4); for 5 to 7 see the bounds.

The models and the reading for them also show, without a run of their own, that

- `queue_routine` on a free strand overtakes tasks that were posted before it
  (the code does not look at storage, `iris_dispatcher.h` 407);
- a barrier of a thread without a slot that is run outside the loop sets
  `next_version` where no slot takes it over, and the next barrier then blocks its
  slot for ever (653; one barrier of a worker and `MaxExternal = 1`, `NoneHeldBack`);
- a body that yields a grid warp lets a second loop exchange versions with the
  first one, and a routine may overtake a barrier (731; `Yielding` with
  `Fencers`, `BarrierOrder`);
- with `limit(1)` a task of the last priority wakes nobody (1671; `Limit = 1`,
  `NoSleepOverWork`);
- a routine without a function that is the first successor of a full one is taken
  for a junction, and a later successor then waits for it (1023; put such a
  routine first in `Links`);
- `await_suspend` of a select and of an awaitable look at their object after the
  coroutine may have gone on and destroyed it (`iris_coroutine.h` 638 and 624, 419;
  `LookEnd` and `LateDispatch` of a round that is over);
- two coroutines that switch to the same two warps in opposite order may let go and
  start again for ever (528), and a swap with no second target exchanges the
  flags with it (547);
- for a number of slots that is not a power of two, `diff_counter()` returns a large
  positive number where the difference should be negative, when the second counter has
  wrapped around at `counter_limit` and the first has not (`iris_common.h` 2117;
  `NodeSlots = 3` with `FirstCount = 22`, `NodesSound` and `RefinesFifo`): a pop of
  several elements across the limit leaves the shadow of `push_count` behind
  `pop_count`, and `maybe_empty()` says that the empty node is not empty, although "a
  negative answer is always exact" (1727). With 64 bits a chain of nodes takes some
  2^63 elements to come to that;
- `acquire()` of a frame queue without a prepared frame frees the node its
  iterator points to (`iris_common.h` 2986); `reset(reserved)` loses reserved nodes
  that are behind `push_head` (2515); the iterators of a queue list compare and add
  by the counter alone (2617); the single-threaded `allocate_unsafe` leaves a block
  in its slot (838) and counts a recycled block where it leaves the list (853).

## 4. Proofs

`Warp_proofs` proves, for any constants that satisfy
`WarpAssumption`:

- `TypesCorrect`: `Spec => []TypeOK`.
- `TypesAndControl`: `owner = t` exactly when `hold[t]` is `guard` or `run`, and
  each thread's task, parallel task and return place fit its program counter.
- `NormalTasksExclude`: `Spec => []NormalExclusion`.
- `SharedTasksExclude`: `Spec => []SharedExclusion`.
- `Refinement`: without pollers, `Spec => RefinesTasks`.
- `EachWaitsOnce`: `Spec => []NothingLost`, suspends and polls included.

The exclusion of normal tasks is not inductive: it needs to know where a running
task is. The inductive invariant is `IInv == TypeOK /\ Control /\ NormalInv /\
SharedInv`. `NormalInv` says that a task is in one place (storage, pool, or the
hands of one thread) and that a running normal task is the task of a thread with
the license `run`; by `Control` that thread is the owner, so there is one.
`SharedInv` says that a parallel task that waits, runs or is in a pool counts in
`suspend_count`, and `Licensed`: while a thread holds the license, no parallel
task is released. A parallel task is released when there is no owner or by an
owner that has not yet taken the license, and the license is taken only by an
owner that has seen `suspend_count` at zero. Each conjunct was checked with TLC
on the instances above before it was proved.

`NothingLost` counts the places of a task. That there are not two follows from
`NormalInv` and `SharedInv`; that there is one needs `NormalWaits` and
`ParallelWaits`: a task whose status is `queued` is in storage, in the list of
parallel tasks, in the pool or in the hands of a thread. By `Control` and `JobState` a
thread has a queued task in hand exactly while it is about to queue it.

`GridStorage_proofs` proves, for any constants that satisfy `GridAssumption`:

- `TypesCorrect`: `Spec => []TypeOK`. Every version stays a word, a task that is
  run is a task, and the loop never stands at a slot that does not exist.
- `LoopAlone`: without yields at most one thread is inside the loop, which is why
  `queue_versions`, `current_version` and `next_version` need no synchronisation.

Both follow from one inductive invariant: a thread about to enter or look at a slot
owns the warp, one in or after a body owns it unless bodies yield, an owner is
always inside the loop (`Control`), and a task item names a task (`ItemsNamed`).

- `BarriersKeepOrder`: without yields, `Spec => []BarrierOrder`. (With yields it is
  refuted, see the list at the end of section 3.)

`BarrierOrder` compares what has run with what was queued when, and says nothing of
slots, so it is far from inductive. `OrderInv` says why it holds. Versions are
measured by their distance from `First`, which counts the barriers and does not wrap
around (`Levels`; `GridAssumption` bounds the barriers below half of the modulus, as
the comparison by sign in the code needs). A version that was taken is in one place: in
a slot, with the thread that took it, in the pool, or in the one slot that waits for
it (`Distinct`). A pass of the loop works for the current version, or for the next one
if some slot it has passed waits for that (`LoopInv`). And for each task that must run
before another there is a version that keeps them `Apart`: the earlier one needs none
so late, and the later one is behind a barrier with that version, or its slot waits
for that version, or the loop has just come to it and the pass reaches the earlier
task's slot first. `EarlierInv` says the same of tasks that are yet to be sent, and
`MustInv` is what makes the step that starts a task safe. TLC checked `OrderInv` on
the instances of the runs before it was proved.

`Dispatcher_proofs` proves, for any finite set of routines, any number of slots,
junctions and deferrals and any graph that satisfy `DispatcherAssumption`, and for
clients that do not dispatch a handle of a routine while the call of `execute` that
runs its body is under way (`Racing = {}`; finding 4 is what happens otherwise):

- `NobodyTouchesFreed`: `Spec => []NoUseAfterFree`.
- `PendingIsExact`: `Spec => []PendingCovers`.
- `TypesCorrect`: `Spec => []TypeOK`.
- `Refinement`: `Spec => RefinesGraph`.

`NoUseAfterFree` says nothing of counts, and is not inductive. `Counted` makes it
so: `lock[r]` is the number of handles of `r` that are not dispatched plus the
number of slots that have `r`, or `r` is closed and there is none of either.
`Stages` ties the rest to it: at most one call of `execute` is inside a node, one
that is queued has a function and a count of zero, one that is freed has no slots
left. The refinement needs one thing more, that what comes before a routine still
leads to it: `Held` says that every set of nodes that has the earlier routine and is
closed under successors without a function has a slot with the later one. It is
stated with sets and not by a recursive walk over junctions, so that the provers can
use it. That a call of `order` always finds a place for a junction is shown by a
descent over finite sets (`HostFound`).

`Coroutines_proofs` proves, for any finite sets of coroutines and threads, any
numbers of calls, any kinds and amounts:

- `EventAnswersOnce`: `EventSpec => []AnsweredOnce`.
- `PipeCountsRight`: `PipeSpec => []NeverPopsEmpty`.
- `NothingIsLost`: `QuotaSpec => []Conserved`.
- `GrantsWholeRequests`: `QuotaSpec => RefinesQuota`.
- `NobodyPassesEarly`, `CompletesOnce`, `WaitersAreKept`: `BarrierSpec` implies
  `RefinesRounds`, `[]OnceARound` and `[]Remembered`, if `Orderly`: calls of a
  barrier do not overlap (`Serial`), or nobody leaves.
- `ComesBackOnce`: `AwaitablesSpec => []OneWayBack`.
- `ComesBackWithWarps`: `AwaitablesSpec => []HasWhatItAsked`.

`EventSpec`, `PipeSpec`, `QuotaSpec`, `BarrierSpec` and `AwaitablesSpec` are the
specifications of one object by itself; in the run `coroutines` the object moves the same way. For the event,
`WaitsOnce` gives each coroutine one place (running, on its way into the list, in
it, in the hands of a notifier, posted). For the pipe, `PipeCounts` says what
`waiting_count` and `prepared_count` count between two of their updates: the
coroutines that listen, join or are about to be popped, and the elements that
are there, are being given or are promised to somebody who was resumed. For the
quota, `Conserved` is inductive together with `QuotaPlaces`, which says what each
client holds at each step of an `acquire` that takes one kind after the other, and
who of those that wait owns the place in the queue.

The barrier's invariant `BarrierInv` divides a round into two phases. While it is
`Opened`, the counters count the calls of the round that have committed and everybody
who is to come is still short of the maximum; while it is `Closing`, one call, the
one whose number was the maximum, is in `complete()` and resets the counters in their
order, and the others of the round only wait. Without `Orderly` the invariant fails,
as the run `barrier_twice` shows: `complete()` lowers the maximum under a call that has
yet to compare its number with it.

The invariant of awaitables, `AwaitInv`, says of each coroutine what is under way
that will resume it (`Main`), what function it awaits (`Func`), that each is at most
one thing and belongs to this round, and which flags go with them: while both are
there they race (`Races`), and the one that finds the other's flag set resumes; and
of the warps that whoever holds one holds it alone (`Excluded`), but for a parallel
function that was already counted when it started. A job of a switch carries what is
left of it (`ToSwitch`), whichever of the two warps is its target by then.

The counters need sums over finite sets (handles, amounts), which the community modules
define as folds. `Counting` proves what is needed about them: a fold over a set
exists and is one (`SumsExist`, `SumsUnique`), any element may be taken out first
(`SumElement`), and a sum changes by as much as one of its values (`SumChange`). No
induction theorem with an operator parameter is used: a smallest counterexample is
taken with `WFMin` over the subsets of a finite set.

`AsyncWorker_proofs` proves, for any number of workers and duplicates, any finite or
infinite set of tasks with any priorities, any set of threads that queue and any that
terminate:

- `TypesCorrect`: `Spec => []TypeOK`.
- `TimedSleepEnds`: `Spec => []NoTimedSleepMissed`.
- `JoinRunsAll`: `Spec => []JoinedMeansDone`.
- `PoolRefined`: `Spec => RefinesPool`.
- `NobodySleepsOverWork`: `Limit = 0` implies `Spec => []NoSleepOverWork`.

`BaseInvariant` is what they share: what a thread has in its hands at each place
(`Control`), how far its look at the slots goes (`Sized`), `waiting` as the number of
workers that are counted in `delay` and `running` as the number of threads that
poll or run a task outside `join` (`Waiting`, `Running`), and every queued task in
one slot or in one thread's hands, once (`Placed`). Each property adds an invariant
to it.

- `JoinInv`: once `join` looks at slots the workers have exited, and in a round that
  has found nothing yet the slots before `pos` are empty. Only a task that `join`
  runs can queue another, and it sets `drained`, so one more round follows. `pos`
  runs over all slots (`RoundIsWhole`, by the arithmetic of `/` and `%`).
- `PrioInv`: until the worker is terminated, a task is in a slot of its own priority,
  and at most `NThreads - p` workers serve priority `p` or less urgent ones. A worker
  that begins to poll takes the size of its look from `running`, which counts it and
  all those that serve already: if `k` workers serve `p`, `running` is at least `k + 1`
  and the look comes to `p` only if `k < NThreads - p`.
- `Awake` and `Term`: for each slot with a task there is a witness that it will be
  looked at: a worker that is in a poll or has yet to take its snapshot, a look
  before parking that has not passed the slot, a worker with an old snapshot, or
  the one thread outside the pool on its way to a wake-up that no test can stop.
  The last case needs `waiting > p` when all workers wait, which is why the limit
  is 0: with `limit_count` a push wakes nobody unless that many more sleep, and
  whether a task then stays is what the option asks for.

TLC checked `JoinInv`, `PrioInv`, `Awake` and `Term` on the constants of
`worker_pool` before they were proved.

`Data_proofs` proves, for any constants that satisfy `CacheAssumption`,
`AllocatorAssumption` (any finite sets of threads and blocks, any number of slots)
and `EntityAssumption` (any systems, values, number of ids and slots of a node):

- `CacheRegionsApart`: `CacheSpec => []RegionsApart`.
- `BlocksStayKept`: `AllocatorSpec => []BlocksKept`.
- `ItemsGivenOnce`: `AllocatorSpec => RefinesHeap`.
- If `~ Reuses`: `EntityTypes`: `EntitySpec => []EntityTypeOK`, `EntityListsAgree`:
  `EntitySpec => []ListsAgree`, `EntityGetsComponent`: `EntitySpec => []GetsAComponent`,
  and `EntitiesAreAStore`: `EntitySpec => RefinesStore`. The hypothesis is the one that
  the run `data` makes and finding 7 shows to be needed; nothing else is assumed of
  the client but what the guards of the actions say.

`RegionsApart` needs that every region lies in a node that is there (`RegionsLie`),
and that the padding is a natural number, none at the start of a node, for any
alignment (`PaddingType`).

The allocator has one inductive invariant, `AllocatorInv`, for both theorems.
`Spots`: `managed` is true of a block exactly while it is in a slot, in the list, in
the rest of a list that a thread has taken, or in the hands of a thread that has
taken it out or is to put it away (`Lot`), and it is in one of them only. `BitsMean`:
a bit is set while a client has the item or one thread is about to hand it out, never
both, which is what `fetch_or` decides between two threads that found the same free
bit. `Counts`: `ref_count` is the place of a block, if it has one, plus the threads
that have it in hand plus the items that clients have, and blocks in use are those
with a count. So a block whose count falls to zero is nowhere, and the fields of a
block that the root allocator hands out again are already clear (`RootStep`). TLC
checked `AllocatorInv` on a small allocator before it was proved.

The entity systems have one inductive invariant, `EntityInv` (`EntitiesSound`). A quick
list is `Dense` if its nodes stand at successive multiples of the number of slots: then
the quotient by which `get()` finds a node is right (`Located`) and the iterators meet
every index from the first to the last (`WalkedIs`). A push keeps a list dense unless it
reuses a slot of the last node, at an index that falls to the node after it, which is
`Wraps`: here the hypothesis enters. `Agree` relates the three structures of a system: the vector
is sorted, so that `iris_binary_find` finds the one entry of an entity also from the
middle (`FindIs`); an entry that is no tombstone has an index inside both lists, and the
list of entities has its entity there; and every index inside the lists has an entry,
so a removal finds the entry of the first entity, which it moves (`FirstMoves`). A
removal of several entities is a recursion over the sequence that stops early; `Agree`
and `Left`, that whoever is left has the components it had, hold after each round
(`RemovedIs`, by induction over the rounds). `IdsSound`: an id is held by the client, or
once in the list of free ids, or neither, and below `maxId`. Each step then gives
components to one entity (`Gives`) or leaves what is there (`Takes`), which are the steps
of `Store`. TLC checked `EntityInv`, with indices up to 20, on the constants of the run
`data` before it was proved.

`Queue_proofs` proves, for any constants that satisfy `QueueAssumption` and
`CounterAssumption` (any finite set of nodes, any number of elements, any width of the
counters, and a first node whose counters start anywhere, also just before they wrap
around), if the number of slots is a power of two (`PowerOfTwoSlots`):

- `ListIsSound`: `QueueSpec => []NodesSound`.
- `ListIsAFifo`: `QueueSpec => RefinesFifo`.

The hypothesis is needed: both fail for three slots where a counter passes its limit
(end of section 3). It enters in one place, `DiffIs`, that `DiffCounter` is the
signed distance of two counters that are less than half the circle apart.

The counters of a node are compared by their distance around the circle that they run
on (`Dist`), which is at most the number of slots from `pop` to `push` and at most the
number of elements ever sent from a shadow to `push` (`RingFits`); so a difference by
sign tells a shadow that is behind from one that is ahead (`NotMaybeFull`,
`NotMaybeEmpty`), so that its "no" is exact (`QueueExact`), and `size()` is exact (`SizeIs`). `RingHolds` says which slots hold
elements. The limit being a multiple of the slots is what keeps a slot where it is when
a counter wraps around (`SlotWraps`). Only the first node of the chain may be empty, so
the node that follows one that is removed has an element, and what the consumer found
out about a node stays true until it acts on it (`ConsumerAt`): the producer only adds.
TLC checked `QueueInv` on the constants of the run `data` before it was proved.

`RefinesFifo` needs the contents too, and `Queued` joins the contents of the nodes by a
function that is recursive along the chain. The proof adds to `QueueInv` that the
elements can be numbered (`InOrder`): some function gives each node how many elements
came `before` its first one, the slots of a node hold the numbers that follow
(`RingsNumbered`), the next node goes on where this one ends (`LinksNumbered`), and the
last published number is at the end of `push_head` (`EndNumbered`). What a consumer has
read and not yet counted out are the numbers at the front (`SeenNumbered`). The function
is a witness of the proof, not a state of the model, and each step changes it at one
node at most: the `...Goes` lemmas, one per action, give the new one and say what
passed in or out (`Passes`). Whatever the numbers are, what is inside is then the stretch
of numbers from the front to the last published one (`InsideIs`, by an induction over the
length of the chain, `NatSetInduction`), and the three ways of `Passes` are `Extend`,
`Remove` and `Clear` of `Fifo` (`ListMoves`).

Only model-checked: what concerns rest and progress, and what the `MC` modules say of
several modules at once (`PolledNothingLost`, `MixedBarrierOrder`, `ObjectsTypeOK`,
`TypeOK`). Liveness under fairness and `ENABLED` are out of the prover's reach, and so is
`SpatialTree` (`SearchTree`, `QueriesFind`), whose walks are recursive operators. `Dispatcher` with `Racing # {}` and `QuotaQueue`'s
`NobodyForgotten` are refuted, not proved (findings 4 and 5).

## 5. What is not modelled, and the plan

Not modelled: the Lua interpreter and the binding (typed glue over a C API),
tests and tutorials, the balancer (a heuristic whose callers the repository does
not name), the debug fences, the frame of a coroutine, which the compiler makes,
and the two adapters of coroutine dispatch (what is hard in them is the `defer` of
finding 4). The memory model: all models are sequentially consistent, so an ordering
that is too weak on some machine is not seen. Exceptions and the hooks of derived
classes. Of the modelled parts: `append()` and the priority handler of
the worker; `reset()` and `dispatch()` of a barrier; merging and moving resources
of a quota; iterators, frames and pools; the single-threaded allocator; `iterate`
and `filter` of entity systems. `PROJECT.json` names them part by part.
