------------------------- MODULE AsyncWorker_proofs -------------------------
(***************************************************************************)
(* What AsyncWorker promises, for any number of workers, duplicates and     *)
(* tasks.                                                                   *)
(*                                                                         *)
(* Base is the inductive invariant: what each thread has in its hands at    *)
(* each place (Control), how far its looks go (Sized), waiting_thread_count *)
(* and running_count as the numbers of threads they count (Waiting,         *)
(* Running), and every queued task in one list or in one thread's hands,    *)
(* once (Placed).  One more invariant for each property rests on it:        *)
(*   TimedInv   a timed poll does not sleep through a wake-up              *)
(*   JoinInv    join() has run every task                                  *)
(*   PrioInv    only NThreads - p workers serve priority p and those after *)
(*   Term       no worker sleeps for good once the pool is terminated      *)
(*   Awake      somebody is about to look at a slot that holds a task       *)
(* The steps are taken apart the same way each time: those that keep the    *)
(* state an invariant is about, by one lemma; then the others, one by one.  *)
(***************************************************************************)
EXTENDS AsyncWorker, Counting

(***************************************************************************)
(* Slots: the order in which a look and a round of join() come to them     *)
(***************************************************************************)
\* The remainder and the quotient of a division.
LEMMA Remainder ==
  ASSUME NEW a \in Nat, NEW n \in Nat \ {0}
  PROVE  a % n \in 0..(n - 1) /\ a \div n \in Nat /\ a = n * (a \div n) + (a % n)
OBVIOUS

\* The remainder and the quotient of a number built from them.
LEMMA Divided ==
  ASSUME NEW n \in Nat \ {0}, NEW e \in Nat, NEW p \in 0..(n - 1)
  PROVE  (n * e + p) % n = p /\ (n * e + p) \div n = e
OBVIOUS

\* A product grows with its first factor.
LEMMA Times ==
  ASSUME NEW a \in Nat, NEW b \in Nat, a <= b, NEW n \in Nat
  PROVE  a * n <= b * n /\ a * n \in Nat
OBVIOUS

\* A number built from a remainder and a quotient is below the product.
LEMMA Below ==
  ASSUME NEW n \in Nat \ {0}, NEW m \in Nat \ {0}, NEW e \in 0..(m - 1), NEW p \in 0..(n - 1)
  PROVE  n * e + p \in 0..(n * m - 1)
OBVIOUS

\* The quotient of a number below a product.
LEMMA Quotient ==
  ASSUME NEW n \in Nat \ {0}, NEW m \in Nat \ {0}, NEW i \in 0..(n * m - 1)
  PROVE  i \div n \in 0..(m - 1)
OBVIOUS

\* Indices modulo m that start at x come to every d.
LEMMA Rotates ==
  ASSUME NEW m \in Nat \ {0}, NEW d \in 0..(m - 1), NEW x \in Nat
  PROVE  \E e \in 0..(m - 1) : (e + x) % m = d
<1> DEFINE q == x \div m
           r == x % m
<1>1. r \in 0..(m - 1) /\ q \in Nat /\ x = m * q + r
  BY Remainder
<1> HIDE DEF q, r
<1>2. CASE d >= r
  <2>1. (d - r) + x = m * q + d /\ d - r \in 0..(m - 1)
    BY <1>1, <1>2
  <2> QED
    BY <1>1, <2>1, Divided, ZenonT(40)
<1>3. CASE d < r
  <2>1. (d - r + m) + x = m * (q + 1) + d /\ d - r + m \in 0..(m - 1) /\ q + 1 \in Nat
    BY <1>1, <1>3
  <2>2. (m * (q + 1) + d) % m = d
    BY <2>1, Divided
  <2> QED
    BY <2>1, <2>2
<1> QED
  BY <1>1, <1>2, <1>3

\* A duplicate index modulo Duplicates names a slot.
LEMMA SlotIsIn ==
  ASSUME NEW p \in Priorities, NEW x \in Nat
  PROVE  Slot(p, x % Duplicates) \in Slots
<1>1. x % Duplicates \in 0..(Duplicates - 1)
  BY WorkerAssumption, Remainder
<1> QED
  BY <1>1 DEF Slot, Slots

\* The slot that a look of n priorities by t is at.
SlotAt(t, n, i) == Slot(i % n, ((i \div n) + Index(t)) % Duplicates)

\* A look at n priorities is at a slot of one of them.
LEMMA LookedAt ==
  ASSUME NEW t \in Threads, NEW n \in 1..NThreads, NEW i \in Nat
  PROVE  SlotAt(t, n, i) \in Slots /\ SlotAt(t, n, i).priority < n
<1>1. i % n \in 0..(n - 1) /\ i \div n \in Nat /\ Index(t) \in Nat
  <2>1. n \in Nat \ {0}
    BY WorkerAssumption
  <2>2. Index(t) \in Nat
    BY WorkerAssumption DEF Index, Threads, Workers
  <2> QED
    BY <2>1, <2>2, Remainder
<1>2. i % n \in Priorities /\ (i \div n) + Index(t) \in Nat
  BY <1>1, WorkerAssumption DEF Priorities
<1> QED
  BY <1>1, <1>2, SlotIsIn DEF SlotAt, Slot

\* A look at n priorities comes to every slot of them.
LEMMA LooksEverywhere ==
  ASSUME NEW t \in Threads, NEW n \in 1..NThreads, NEW s \in Slots, s.priority < n
  PROVE  \E i \in 0..(n * Duplicates - 1) : SlotAt(t, n, i) = s
<1>1. s.priority \in 0..(n - 1) /\ s.duplicate \in 0..(Duplicates - 1)
      /\ s = [priority |-> s.priority, duplicate |-> s.duplicate]
  BY DEF Slots, Priorities
<1>2. Index(t) \in Nat /\ Duplicates \in Nat \ {0} /\ n \in Nat \ {0}
  BY WorkerAssumption DEF Index, Threads, Workers
<1>3. PICK e \in 0..(Duplicates - 1) : (e + Index(t)) % Duplicates = s.duplicate
  BY <1>1, <1>2, Rotates
<1>4. (n * e + s.priority) % n = s.priority /\ (n * e + s.priority) \div n = e
  BY <1>1, <1>2, Divided
<1>5. n * e + s.priority \in 0..(n * Duplicates - 1)
  BY <1>1, <1>2, Below
<1>6. SlotAt(t, n, n * e + s.priority) = s
  BY <1>1, <1>3, <1>4 DEF SlotAt, Slot
<1> QED
  BY <1>5, <1>6

\* The i-th slot of a round of join().
SlotOf(i) == Slot(i % NThreads, i \div NThreads)

\* The i-th slot of a round of join() is a slot.
LEMMA SlotOfIsIn ==
  ASSUME NEW i \in 0..(NThreads * Duplicates - 1)
  PROVE  SlotOf(i) \in Slots
<1>1. i % NThreads \in 0..(NThreads - 1) /\ i \div NThreads \in 0..(Duplicates - 1)
  <2>1. i \in Nat
    BY WorkerAssumption
  <2> QED
    BY <2>1, WorkerAssumption, Remainder, Quotient
<1> QED
  BY <1>1 DEF SlotOf, Slot, Slots, Priorities

\* A round of join() comes to every slot.
LEMMA RoundIsWhole ==
  ASSUME NEW s \in Slots
  PROVE  \E i \in 0..(NThreads * Duplicates - 1) : SlotOf(i) = s
<1>1. s.priority \in 0..(NThreads - 1) /\ s.duplicate \in 0..(Duplicates - 1)
      /\ s = [priority |-> s.priority, duplicate |-> s.duplicate]
  BY DEF Slots, Priorities
<1> DEFINE i == NThreads * s.duplicate + s.priority
<1>2. i \in 0..(NThreads * Duplicates - 1) /\ i % NThreads = s.priority /\ i \div NThreads = s.duplicate
  BY <1>1, WorkerAssumption, Divided, Below
<1>3. SlotOf(i) = s
  BY <1>1, <1>2 DEF SlotOf, Slot
<1> QED
  BY <1>2, <1>3

\* Where a thread can be.
Labels ==
  PollStates \cup DelayStates \cup TimedStates \cup QueueStates \cup EndStates \cup MainStates

CallStates == QueueStates \cup EndStates
Asking == {"queue", "try", "chain", "append"}

\* A look that decides whether somebody has to be woken, one that decides whether
\* to sleep.
Rechecks(t) == pc[t] = "fetch" /\ goal[t] = "recheck"
Parks(t) == pc[t] = "fetch" /\ goal[t] = "park"
Polls(t) == pc[t] = "fetch" /\ goal[t] = "poll"

\* t has a task in its hand that it will start; t runs its task.
Holds(t) ==
  \/ pc[t] \in {"repush", "check", "start"} \/ Rechecks(t)
  \/ pc[t] \in CallStates /\ back[t] = "start"
Runs(t) == pc[t] = "body" \/ (pc[t] \in CallStates /\ back[t] = "body")

\* t is in delay(), and counted in waiting_thread_count.
Waits(t) == pc[t] \in {"snapshot", "park", "wait", "sleep", "spin", "leave"} \/ Parks(t)

\* The types of the variables, in four parts.
TaskTypes ==
  /\ heads \in [Slots -> Seq(Tasks)]
  /\ chain \in [Threads -> Seq(Tasks)]
  /\ job \in [Threads -> Tasks \cup {None}]
  /\ arg \in [Threads -> Tasks \cup {None}]
  /\ status \in [Tasks -> {"new", "queued", "running", "guest", "draining", "done"}]

PlaceTypes == pc \in [Threads -> Labels]

LocalTypes ==
  /\ back \in [Threads -> {"start", "body", "idle"}]
  /\ goal \in [Threads -> {"poll", "recheck", "park"}]
  /\ size \in [Threads -> 0..NThreads]
  /\ pos \in [Threads -> 0..(NThreads * Duplicates)]
  /\ slot \in [Threads -> Slots]

FlagTypes ==
  /\ terminated \in BOOLEAN /\ timed \in BOOLEAN /\ drained \in BOOLEAN
  /\ stale \in [Threads -> BOOLEAN]
  /\ polls \subseteq Polled

Types == TaskTypes /\ PlaceTypes /\ LocalTypes /\ FlagTypes

\* Where each thread can be, and what it has in its hands there.
ControlOf(t) ==
  /\ t # Main => pc[t] \notin MainStates \cup TimedStates
  /\ t = Main => pc[t] \notin {"loop", "exited"} \cup (DelayStates \ {"snapshot"}) /\ ~Parks(t)
  /\ pc[t] \in CallStates => t = Main \/ back[t] # "idle"
  /\ pc[t] \in Asking \cup EndStates => back[t] # "start"
  /\ pc[t] \in {"repush", "check"} \/ Rechecks(t) => back[t] = "start"
  /\ job[t] # None <=> Holds(t) \/ Runs(t)
  /\ arg[t] # None <=> pc[t] \in Asking
  /\ pc[t] \in {"putback", "repush"} => chain[t] # <<>>
  /\ chain[t] # <<>> =>
       pc[t] \in {"putback", "repush"} \/ (t = Main /\ (pc[t] = "drain" \/ Runs(t)))
  /\ pc[t] = "append" \/ pc[t] \in EndStates \/ pc[t] = "exited" => terminated

Control == \A t \in Threads : ControlOf(t)

\* How far the looks of a thread go.
SizedOf(t) ==
  /\ pc[t] \in {"fetch", "take", "putback", "repush", "check"} => size[t] \in 1..NThreads
  /\ t = Main /\ pc[t] \in {"snapshot", "poll", "missed"} \cup (TimedStates \ {"unregister"})
       => size[t] \in 1..NThreads
  /\ pc[t] = "fetch" => pos[t] <= size[t] * Duplicates
  /\ pc[t] = "try" => pos[t] < Duplicates
  /\ pc[t] \in {"take", "putback", "check"} => slot[t].priority < size[t]

Sized == \A t \in Threads : SizedOf(t)

\* waiting_thread_count is the number of workers in delay().
Waiting == waiting = Cardinality({w \in Workers : Waits(w)})

\* t is in a poll, and counted in running_count.
Busy(t) ==
  pc[t] \in {"take", "putback", "polled", "missed"} \/ Polls(t) \/ Holds(t)

\* t is counted in running_count: it polls, or runs a task outside join().
Counted(t) == Busy(t) \/ (Runs(t) /\ status[job[t]] # "draining")

Running == running = Cardinality({t \in Threads : Counted(t)})

\* The tasks that t has in its hands, and that are in no list.
Pending(t) == (IF arg[t] # None THEN {arg[t]} ELSE {}) \cup (IF Holds(t) THEN {job[t]} ELSE {})
Hand(t) == Range(chain[t]) \cup Pending(t)

HandOnce(t) ==
  /\ Once(chain[t]) /\ Range(chain[t]) \cap Pending(t) = {}
  /\ Holds(t) => arg[t] # job[t]

\* Every queued task is in one list or in the hands of one thread, and there once.
ListsOnce == \A s \in Slots : Once(heads[s])
HandsOnce == \A t \in Threads : HandOnce(t)
ListsApart == \A s, r \in Slots : s # r => Range(heads[s]) \cap Range(heads[r]) = {}
HandsApart == \A t, u \in Threads : t # u => Hand(t) \cap Hand(u) = {}
ListsAndHands == \A s \in Slots, t \in Threads : Range(heads[s]) \cap Hand(t) = {}
QueuedThere ==
  \A j \in Tasks :
    status[j] = "queued" <=> \/ \E s \in Slots : j \in Range(heads[s])
                            \/ \E t \in Threads : j \in Hand(t)

\* Every task that runs is run by one thread, Main's as guests or in join().
RunsOf(t) ==
  Runs(t) =>
    IF t = Main
    THEN /\ status[job[t]] \in {"guest", "draining"}
         /\ chain[t] # <<>> => status[job[t]] = "draining"
    ELSE status[job[t]] = "running"
JobsRun == \A t \in Threads : RunsOf(t)
JobsOnce == \A t, u \in Threads : Runs(t) /\ Runs(u) /\ t # u => job[t] # job[u]
RunByOne ==
  \A j \in Tasks : status[j] \in {"guest", "draining", "running"} =>
    \E t \in Threads : Runs(t) /\ job[t] = j

\* Where the tasks are, and who runs them.
Placed ==
  /\ ListsOnce /\ HandsOnce /\ ListsApart /\ HandsApart /\ ListsAndHands /\ QueuedThere
  /\ JobsRun /\ JobsOnce /\ RunByOne

\* u does nothing, but it may be woken.
Keeps(u) ==
  /\ \/ pc'[u] = pc[u]
     \/ u # Main /\ pc[u] = "sleep" /\ pc'[u] = "spin"
     \/ u = Main /\ pc[u] = "doze" /\ pc'[u] = "poll"
  /\ back'[u] = back[u] /\ goal'[u] = goal[u] /\ size'[u] = size[u] /\ pos'[u] = pos[u]
  /\ slot'[u] = slot[u] /\ chain'[u] = chain[u] /\ job'[u] = job[u] /\ arg'[u] = arg[u]

\* What a thread that does nothing has in its hands.
LEMMA KeepsControl ==
  ASSUME NEW u \in Threads, ControlOf(u), Keeps(u), terminated => terminated'
  PROVE  ControlOf(u)'
BY ZenonT(40) DEF ControlOf, Keeps, Holds, Runs, Rechecks, Parks, CallStates, Asking, QueueStates, EndStates,
       MainStates, TimedStates, DelayStates

\* How far the look of a thread that does nothing goes.
LEMMA KeepsSized ==
  ASSUME NEW u \in Threads, SizedOf(u), Keeps(u)
  PROVE  SizedOf(u)'
BY DEF SizedOf, Keeps, TimedStates

\* A thread that does nothing holds, runs and counts what it did.
LEMMA KeepsKinds ==
  ASSUME NEW u \in Threads, Keeps(u)
  PROVE  /\ Holds(u)' <=> Holds(u)
         /\ Runs(u)' <=> Runs(u)
         /\ Waits(u)' <=> Waits(u)
         /\ Busy(u)' <=> Busy(u)
         /\ Hand(u)' = Hand(u)
BY DEF Keeps, Holds, Runs, Waits, Busy, Hand, Pending, Rechecks, Parks, Polls, CallStates, QueueStates, EndStates

\* A step of t, with nothing done to any task.
LEMMA TasksKept ==
  ASSUME Placed, heads' = heads, chain' = chain, arg' = arg, job' = job, status' = status,
         \A u \in Threads : (Holds(u)' <=> Holds(u)) /\ (Runs(u)' <=> Runs(u))
  PROVE  Placed'
<1>1. \A u \in Threads : Pending(u)' = Pending(u) /\ Hand(u)' = Hand(u)
  BY DEF Pending, Hand
<1>2. ListsOnce' /\ ListsApart'
  BY DEF Placed, ListsOnce, ListsApart, Once
<1>3. HandsOnce'
  BY <1>1 DEF Placed, HandsOnce, HandOnce, Once
<1>4. HandsApart' /\ ListsAndHands' /\ QueuedThere'
  BY <1>1 DEF Placed, HandsApart, ListsAndHands, QueuedThere
<1>5. JobsRun' /\ JobsOnce' /\ RunByOne'
  BY DEF Placed, JobsRun, RunsOf, JobsOnce, RunByOne
<1> QED
  BY <1>2, <1>3, <1>4, <1>5 DEF Placed

\* running_count is right after a step that changes none of those it counts.
LEMMA RunningKept ==
  ASSUME Running, running' = running, \A u \in Threads : Counted(u)' <=> Counted(u)
  PROVE  Running'
<1>1. {u \in Threads : Counted(u)'} = {u \in Threads : Counted(u)}
  OBVIOUS
<1> QED
  BY <1>1 DEF Running

\* waiting_thread_count is right after a step that changes none of those it counts.
LEMMA WaitingKept ==
  ASSUME Waiting, waiting' = waiting, \A u \in Workers : Waits(u)' <=> Waits(u)
  PROVE  Waiting'
<1>1. {u \in Workers : Waits(u)'} = {u \in Workers : Waits(u)}
  OBVIOUS
<1> QED
  BY <1>1 DEF Waiting

\* How the counts change with one thread.
LEMMA RunningMoves ==
  ASSUME Running, NEW t \in Threads, \A u \in Threads \ {t} : Counted(u)' <=> Counted(u),
         running' = running - One(Counted(t)) + One(Counted(t)')
  PROVE  Running'
<1> DEFINE A == {u \in Threads : Counted(u)}
           B == {u \in Threads : Counted(u)'}
<1>1. IsFiniteSet(Threads)
  <2>1. IsFiniteSet(Workers)
    BY WorkerAssumption, FS_Interval DEF Workers
  <2> QED
    BY <2>1, FS_AddElement DEF Threads
<1>2. IsFiniteSet(A)
  BY <1>1, FS_Subset
<1>3. (\A u : u # t => (u \in A <=> u \in B)) /\ (t \in A <=> Counted(t)) /\ (t \in B <=> Counted(t)')
  OBVIOUS
<1> HIDE DEF A, B
<1>4. Cardinality(B) = Cardinality(A) - (IF t \in A THEN 1 ELSE 0) + (IF t \in B THEN 1 ELSE 0)
  BY <1>2, <1>3, OneMoves
<1>5. running = Cardinality(A)
  BY DEF Running, A
<1>6. running' = Cardinality(B)
  BY <1>3, <1>4, <1>5 DEF One
<1> QED
  BY <1>6 DEF Running, B

\* How waiting_thread_count changes with one worker.
LEMMA WaitingMoves ==
  ASSUME Waiting, NEW t \in Workers, \A u \in Workers \ {t} : Waits(u)' <=> Waits(u),
         waiting' = waiting - One(Waits(t)) + One(Waits(t)')
  PROVE  Waiting'
<1> DEFINE A == {u \in Workers : Waits(u)}
           B == {u \in Workers : Waits(u)'}
<1>1. IsFiniteSet(Workers)
  BY WorkerAssumption, FS_Interval DEF Workers
<1>2. IsFiniteSet(A)
  BY <1>1, FS_Subset
<1>3. (\A u : u # t => (u \in A <=> u \in B)) /\ (t \in A <=> Waits(t)) /\ (t \in B <=> Waits(t)')
  OBVIOUS
<1> HIDE DEF A, B
<1>4. Cardinality(B) = Cardinality(A) - (IF t \in A THEN 1 ELSE 0) + (IF t \in B THEN 1 ELSE 0)
  BY <1>2, <1>3, OneMoves
<1>5. waiting = Cardinality(A)
  BY DEF Waiting, A
<1>6. waiting' = Cardinality(B)
  BY <1>3, <1>4, <1>5 DEF One
<1> QED
  BY <1>6 DEF Waiting, B

\* The bounds of running_count and waiting_thread_count.
LEMMA CountTypes ==
  ASSUME Running, Waiting
  PROVE  /\ running \in 0..(NThreads + 1) /\ waiting \in 0..NThreads
         /\ \A w \in Workers : Waits(w) => waiting \in 1..NThreads
         /\ (\A w \in Workers : Waits(w)) => waiting = NThreads
         /\ \A t \in Threads : Counted(t) => running \in 1..(NThreads + 1)
<1> DEFINE A == {u \in Workers : Waits(u)}
           B == {u \in Threads : Counted(u)}
<1>1. IsFiniteSet(Workers) /\ Cardinality(Workers) = NThreads
  BY WorkerAssumption, FS_Interval DEF Workers
<1>2. IsFiniteSet(Threads) /\ Cardinality(Threads) = NThreads + 1
  BY <1>1, WorkerAssumption, FS_AddElement DEF Threads
<1>3. A \in SUBSET Workers /\ B \in SUBSET Threads
  OBVIOUS
<1>4. /\ IsFiniteSet(A) /\ Cardinality(A) <= NThreads /\ Cardinality(A) \in Nat
      /\ IsFiniteSet(B) /\ Cardinality(B) <= NThreads + 1 /\ Cardinality(B) \in Nat
  BY <1>1, <1>2, <1>3, FS_Subset, FS_CardinalityType
<1>5. (\A w \in Workers : Waits(w)) => A = Workers
  OBVIOUS
<1>6. /\ \A w \in Workers : Waits(w) => A # {}
      /\ \A t \in Threads : Counted(t) => B # {}
  OBVIOUS
<1>7. waiting = Cardinality(A) /\ running = Cardinality(B)
  BY DEF Waiting, Running
<1> HIDE DEF A, B
<1>8. (A # {} => Cardinality(A) # 0) /\ (B # {} => Cardinality(B) # 0)
  BY <1>4, FS_EmptySet
<1> QED
  BY <1>1, <1>4, <1>5, <1>6, <1>7, <1>8, WorkerAssumption

\* Lists of tasks.
LEMMA ListFacts ==
  ASSUME NEW L \in Seq(Tasks), Once(L)
  PROVE  /\ \A j \in Tasks : j \notin Range(L) =>
              /\ <<j>> \o L \in Seq(Tasks) /\ Once(<<j>> \o L) /\ <<j>> \o L # <<>>
              /\ Range(<<j>> \o L) = {j} \cup Range(L)
         /\ L # <<>> =>
              /\ Head(L) \in Tasks /\ Tail(L) \in Seq(Tasks) /\ Once(Tail(L))
              /\ Range(L) = {Head(L)} \cup Range(Tail(L)) /\ Head(L) \notin Range(Tail(L))
         /\ Range(L) \subseteq Tasks
         /\ L = <<>> <=> Range(L) = {}
BY ListOnce

\* The list without a task.
LEMMA NoList ==
  /\ <<>> \in Seq(Tasks) /\ Once(<<>>) /\ Range(<<>>) = {}
  /\ \A j \in Tasks : <<j>> \in Seq(Tasks) /\ Once(<<j>>) /\ Range(<<j>>) = {j} /\ <<j>> # <<>>
BY DEF Once, Range

\* t moves tasks between a list and its hands.
LEMMA TasksMove ==
  ASSUME Placed, NEW t \in Threads, NEW s \in Slots, NEW L,
         heads' = [heads EXCEPT ![s] = L], heads \in [Slots -> Seq(Tasks)], status' = status,
         \A u \in Threads \ {t} : Keeps(u),
         Runs(t)' <=> Runs(t), Runs(t) => job'[t] = job[t] /\ chain'[t] = chain[t],
         Range(L) \cup Hand(t)' = Range(heads[s]) \cup Hand(t),
         Range(L) \cap Hand(t)' = {}, Once(L), HandOnce(t)'
  PROVE  Placed'
<1>1. heads'[s] = L /\ \A r \in Slots \ {s} : heads'[r] = heads[r]
  OBVIOUS
<1>2. \A u \in Threads \ {t} :
        /\ Hand(u)' = Hand(u) /\ (Holds(u)' <=> Holds(u)) /\ (Runs(u)' <=> Runs(u))
        /\ chain'[u] = chain[u] /\ arg'[u] = arg[u] /\ job'[u] = job[u]
  BY KeepsKinds DEF Keeps
<1>3. ListsOnce' /\ ListsApart'
  <2>1. ASSUME NEW r \in Slots PROVE Once(heads'[r])
    BY <1>1 DEF Placed, ListsOnce
  <2>2. \A r \in Slots \ {s} : Range(heads[r]) \cap (Range(heads[s]) \cup Hand(t)) = {}
    BY DEF Placed, ListsApart, ListsAndHands
  <2>3. ListsApart'
    BY <1>1, <2>2 DEF Placed, ListsApart
  <2> QED
    BY <2>1, <2>3 DEF ListsOnce
<1>4. HandsOnce'
  <2>1. ASSUME NEW u \in Threads \ {t} PROVE HandOnce(u)'
    <3>1. HandOnce(u) /\ Pending(u)' = Pending(u)
      BY <1>2 DEF Placed, HandsOnce, Pending
    <3> QED
      BY <1>2, <3>1 DEF HandOnce, Once
  <2> QED
    BY <2>1 DEF HandsOnce
<1>5. HandsApart' /\ ListsAndHands'
  <2>1. \A u \in Threads \ {t} : Hand(u) \cap (Range(heads[s]) \cup Hand(t)) = {}
    BY DEF Placed, HandsApart, ListsAndHands
  <2>2. \A u \in Threads \ {t} : Hand(u)' \cap Hand(t)' = {} /\ Hand(u)' \cap Range(heads'[s]) = {}
    BY <1>1, <1>2, <2>1
  <2>3. HandsApart'
    BY <1>2, <2>2 DEF Placed, HandsApart
  <2>4. \A r \in Slots \ {s} : Range(heads'[r]) \cap Hand(t)' = {}
    BY <1>1 DEF Placed, ListsApart, ListsAndHands
  <2>5. ListsAndHands'
    BY <1>1, <1>2, <2>2, <2>4 DEF Placed, ListsAndHands
  <2> QED
    BY <2>3, <2>5
<1>6. QueuedThere'
  <2> SUFFICES ASSUME NEW j \in Tasks
               PROVE  (status[j] = "queued" <=> \/ \E r \in Slots : j \in Range(heads'[r])
                                               \/ \E u \in Threads : j \in Hand(u)')
    BY DEF QueuedThere
  <2>1. status[j] = "queued" <=> \/ \E r \in Slots : j \in Range(heads[r])
                                \/ \E u \in Threads : j \in Hand(u)
    BY DEF Placed, QueuedThere
  <2>2. j \in Range(heads'[s]) \/ j \in Hand(t)' <=> j \in Range(heads[s]) \/ j \in Hand(t)
    BY <1>1
  <2> QED
    BY <1>1, <1>2, <2>1, <2>2
<1>7. JobsRun' /\ JobsOnce' /\ RunByOne'
  BY <1>2 DEF Placed, JobsRun, RunsOf, JobsOnce, RunByOne
<1> QED
  BY <1>3, <1>4, <1>5, <1>6, <1>7 DEF Placed

(***************************************************************************)
(* The inductive invariant                                                 *)
(***************************************************************************)
\* The inductive invariant.
Base == Types /\ Control /\ Sized /\ Waiting /\ Running /\ Placed

\* t holds and runs a task as before.
KindsKept(t) == (Holds(t)' <=> Holds(t)) /\ (Runs(t)' <=> Runs(t))

\* A step of t that does nothing to a task, but may bring t into another list of calls.
LEMMA Quiet ==
  ASSUME Base, NEW t \in Threads, Types',
         heads' = heads, status' = status, chain' = chain, job' = job, arg' = arg,
         terminated => terminated',
         \A u \in Threads \ {t} : Keeps(u),
         ControlOf(t)', SizedOf(t)', KindsKept(t),
         running' = running - One(Counted(t)) + One(Counted(t)'),
         waiting' = waiting - One(t # Main /\ Waits(t)) + One(t # Main /\ Waits(t)')
  PROVE  Base'
<1>1. Control' /\ Sized'
  BY KeepsControl, KeepsSized DEF Base, Control, Sized
<1>2. \A u \in Threads \ {t} : /\ Holds(u)' <=> Holds(u)
                               /\ Runs(u)' <=> Runs(u)
                               /\ Waits(u)' <=> Waits(u)
                               /\ Busy(u)' <=> Busy(u)
  BY KeepsKinds
<1>3. \A u \in Threads \ {t} : Counted(u)' <=> Counted(u)
  BY <1>2 DEF Counted
<1>4. Running'
  BY <1>3, RunningMoves DEF Base
<1>5. Waiting'
  <2>1. CASE t = Main
    <3>1. \A u \in Workers : Waits(u)' <=> Waits(u)
      BY <1>2, <2>1, WorkerAssumption DEF Threads
    <3>2. waiting' = waiting - 0 + 0
      BY <2>1 DEF One
    <3>3. waiting \in Int
      BY CountTypes DEF Base
    <3> QED
      BY <3>1, <3>2, <3>3, WaitingKept DEF Base
  <2>2. CASE t # Main
    <3>1. t \in Workers /\ \A u \in Workers \ {t} : Waits(u)' <=> Waits(u)
      BY <1>2, <2>2 DEF Threads
    <3>2. waiting' = waiting - One(Waits(t)) + One(Waits(t)')
      BY <2>2 DEF One
    <3> QED
      BY <3>1, <3>2, WaitingMoves DEF Base
  <2> QED
    BY <2>1, <2>2
<1>6. Placed'
  BY <1>2, TasksKept DEF Base, KindsKept
<1> QED
  BY <1>1, <1>4, <1>5, <1>6 DEF Base

\* t keeps its tasks, and stays counted or not.
Alike(t) ==
  /\ Holds(t)' <=> Holds(t)
  /\ Runs(t)' <=> Runs(t)
  /\ Busy(t)' <=> Busy(t)
  /\ t # Main => (Waits(t)' <=> Waits(t))

\* The tasks are where they were; nobody begins or ends a poll or a sleep.
TasksStay == heads' = heads /\ status' = status /\ chain' = chain /\ job' = job /\ arg' = arg
CountsStay == running' = running /\ waiting' = waiting
Others(t) == \A u \in Threads \ {t} : Keeps(u)

\* The locals of the calls of t.
LocalsKept(t) ==
  back'[t] = back[t] /\ goal'[t] = goal[t] /\ size'[t] = size[t] /\ pos'[t] = pos[t] /\ slot'[t] = slot[t]
LocalsGone(t) ==
  back'[t] = "idle" /\ goal'[t] = "poll" /\ size'[t] = 0 /\ pos'[t] = 0 /\ slot'[t] = Slot(0, 0)

\* What is known of t before a step.
Known(t) ==
  /\ ControlOf(t) /\ SizedOf(t)
  /\ goal[t] \in {"poll", "recheck", "park"} /\ back[t] \in {"start", "body", "idle"}
  /\ t = Main \/ t \in Workers
  /\ size[t] \in 0..NThreads /\ pos[t] \in 0..(NThreads * Duplicates) /\ slot[t] \in Slots
  /\ t \in Workers /\ Waits(t) => waiting \in 1..NThreads
  /\ pc[t] = "fetch" =>
       /\ Looked(t) \in Slots /\ Looked(t).priority < size[t]
       /\ pos[t] < size[t] * Duplicates => pos[t] + 1 \in 0..(NThreads * Duplicates)

\* Bounds that do not depend on the state.
LEMMA Bounds ==
  /\ Slot(0, 0) \in Slots /\ 0 \in 0..NThreads /\ 0 \in 0..(NThreads * Duplicates)
  /\ NThreads * Duplicates \in Nat \ {0}
  /\ \A n \in 1..NThreads : n * Duplicates \in Nat /\ n * Duplicates <= NThreads * Duplicates
<1>1. NThreads \in Nat \ {0} /\ Duplicates \in Nat \ {0}
  BY WorkerAssumption
<1>2. NThreads * Duplicates \in Nat \ {0}
  BY <1>1
<1>3. \A n \in 1..NThreads : n * Duplicates \in Nat /\ n * Duplicates <= NThreads * Duplicates
  BY <1>1, Times
<1>4. Slot(0, 0) \in Slots
  BY <1>1 DEF Slot, Slots, Priorities
<1> QED
  BY <1>1, <1>2, <1>3, <1>4

\* What the invariant says of one thread.
LEMMA WhatIsKnown == ASSUME Base PROVE \A t \in Threads : Known(t)
<1> SUFFICES ASSUME NEW t \in Threads PROVE Known(t)
  OBVIOUS
<1>1. /\ ControlOf(t) /\ SizedOf(t)
      /\ goal[t] \in {"poll", "recheck", "park"} /\ back[t] \in {"start", "body", "idle"}
      /\ t = Main \/ t \in Workers
      /\ size[t] \in 0..NThreads /\ pos[t] \in 0..(NThreads * Duplicates) /\ slot[t] \in Slots
      /\ t \in Workers /\ Waits(t) => waiting \in 1..NThreads
  BY CountTypes DEF Base, Types, LocalTypes, Control, Sized, Threads
<1>2. CASE pc[t] = "fetch"
  <2>1. size[t] \in 1..NThreads
    BY <1>1, <1>2 DEF SizedOf
  <2>2. pos[t] \in Nat
    BY <1>1, Bounds
  <2> DEFINE m == NThreads * Duplicates
             n == size[t] * Duplicates
  <2>3. m \in Nat /\ n \in Nat /\ n <= m
    BY <2>1, Bounds
  <2> HIDE DEF m, n
  <2>4. pos[t] < n => pos[t] + 1 \in 0..m
    BY <2>2, <2>3
  <2>5. Looked(t) \in Slots /\ Looked(t).priority < size[t]
    BY <2>1, <2>2, LookedAt DEF Looked, SlotAt
  <2> QED
    BY <1>1, <2>4, <2>5 DEF Known, m, n
<1> QED
  BY <1>1, <1>2 DEF Known

\* A step that leaves the tasks where they are and begins or ends no poll and no sleep.
LEMMA Silent ==
  ASSUME Base, NEW t \in Threads, PlaceTypes', LocalTypes', FlagTypes', TasksStay, CountsStay, terminated => terminated',
         Others(t), ControlOf(t)', SizedOf(t)', Alike(t)
  PROVE  Base'
<1> USE DEF TasksStay, CountsStay, Others
<1>0. Types'
  BY DEF Base, Types, TaskTypes
<1>1. KindsKept(t) /\ (Counted(t)' <=> Counted(t))
  BY DEF Alike, KindsKept, Counted
<1>2. running' = running - One(Counted(t)) + One(Counted(t)')
  BY <1>1, CountTypes DEF Base, One
<1>3. waiting' = waiting - One(t # Main /\ Waits(t)) + One(t # Main /\ Waits(t)')
  BY CountTypes DEF Base, One, Alike
<1> QED
  BY <1>0, <1>1, <1>2, <1>3, Quiet

(***************************************************************************)
(* Steps that move no task and are not counted                             *)
(***************************************************************************)
\* Steps that leave the tasks where they are and begin or end no poll and no sleep.
SilentStep ==
  \/ \E t \in Threads :
       \/ Terminate(t)
       \/ CheckTerminated(t)
       \/ Wake(t)
       \/ Bump(t)
       \/ NotifyOne(t)
       \/ NotifyAll(t)
       \/ LookTimed(t)
       \/ NotifyTimed(t)
       \/ FetchNext(t)
       \/ FetchNone(t)
       \/ FetchSome(t)
       \/ Check(t)
       \/ Snapshot(t)
  \/ \E t \in Workers : Loop(t) \/ Park(t) \/ Wait(t) \/ Spin(t)
  \/ Register \/ Relook \/ Deadline \/ Unregister \/ Join \/ Joined \/ DrainEnd

\* The actions that are such steps keep the invariant.
LEMMA SilentSteps == ASSUME Base, SilentStep PROVE Base'
<1> USE DEF Goto, look, local, timing, Holds, Runs, Rechecks, Parks, Polls, CallStates, Asking,
            QueueStates, EndStates, MainStates, TimedStates, DelayStates
<1>1. ASSUME NEW t \in Threads, Terminate(t) PROVE Base'
  <2>1. t \in Threads /\ Known(t)
    BY WhatIsKnown DEF Threads
  <2>2. /\ pc[t] \in {"idle", "body"} /\ back'[t] = pc[t] /\ pc'[t] = "bump all"
        /\ terminated'
        /\ goal'[t] = goal[t] /\ size'[t] = size[t] /\ pos'[t] = pos[t] /\ slot'[t] = slot[t]
        /\ TasksStay /\ CountsStay /\ (terminated => terminated') /\ Others(t)
    BY <1>1, <2>1 DEF Terminate, InClient, Base, Types, PlaceTypes, LocalTypes, FlagTypes, TasksStay, CountsStay, Others, Keeps, LocalsKept, LocalsGone
  <2>3. PlaceTypes'
    BY <1>1, <2>1 DEF Terminate, InClient, Base, Types, PlaceTypes, LocalTypes, FlagTypes, Labels, PollStates, Known
  <2>4. LocalTypes'
    BY <1>1, <2>1, Bounds DEF Terminate, InClient, Base, Types, PlaceTypes, LocalTypes, FlagTypes, Known, Waits
  <2>5. FlagTypes'
    BY <1>1 DEF Terminate, InClient, Base, Types, FlagTypes
  <2>6. ControlOf(t)'
    BY <2>1, <2>2 DEF ControlOf, Known, TasksStay, LocalsKept, LocalsGone
  <2>7. SizedOf(t)'
    BY <2>1, <2>2, Bounds, WorkerAssumption DEF SizedOf, Known, Waits, LocalsKept, LocalsGone
  <2>8. Alike(t)
    BY <2>1, <2>2 DEF Alike, Busy, Waits, ControlOf, Known, LocalsKept, LocalsGone
  <2> QED
    BY <2>1, <2>2, <2>3, <2>4, <2>5, <2>6, <2>7, <2>8, Silent
<1>2. ASSUME NEW t \in Threads, CheckTerminated(t) PROVE Base'
  <2>1. t \in Threads /\ Known(t)
    BY WhatIsKnown DEF Threads
  <2>2. /\ pc[t] = "queue"
        /\ \/ terminated /\ pc'[t] = "append" /\ pos'[t] = pos[t]
           \/ pc'[t] = "try" /\ pos'[t] = 0
        /\ back'[t] = back[t] /\ goal'[t] = goal[t] /\ size'[t] = size[t] /\ slot'[t] = slot[t]
        /\ TasksStay /\ CountsStay /\ (terminated => terminated') /\ Others(t)
    BY <1>2, <2>1 DEF CheckTerminated, Base, Types, PlaceTypes, LocalTypes, FlagTypes, TasksStay, CountsStay, Others, Keeps, LocalsKept, LocalsGone
  <2>3. PlaceTypes'
    BY <1>2, <2>1 DEF CheckTerminated, Base, Types, PlaceTypes, LocalTypes, FlagTypes, Labels, PollStates, Known
  <2>4. LocalTypes'
    BY <1>2, <2>1, Bounds DEF CheckTerminated, Base, Types, PlaceTypes, LocalTypes, FlagTypes, Known, Waits
  <2>5. FlagTypes'
    BY <1>2 DEF CheckTerminated, Base, Types, FlagTypes
  <2>6. ControlOf(t)'
    BY <2>1, <2>2 DEF ControlOf, Known, TasksStay, LocalsKept, LocalsGone
  <2>7. SizedOf(t)'
    BY <2>1, <2>2, Bounds, WorkerAssumption DEF SizedOf, Known, Waits, LocalsKept, LocalsGone
  <2>8. Alike(t)
    BY <2>1, <2>2 DEF Alike, Busy, Waits, ControlOf, Known, LocalsKept, LocalsGone
  <2> QED
    BY <2>1, <2>2, <2>3, <2>4, <2>5, <2>6, <2>7, <2>8, Silent
<1>3. ASSUME NEW t \in Threads, Wake(t) PROVE Base'
  <2>1. t \in Threads /\ Known(t)
    BY WhatIsKnown DEF Threads
  <2>2. /\ pc[t] = "wake"
        /\ \/ pc'[t] = "bump" /\ LocalsKept(t)
           \/ pc'[t] = back[t] /\ LocalsGone(t)
        /\ TasksStay /\ CountsStay /\ (terminated => terminated') /\ Others(t)
    BY <1>3, <2>1 DEF Wake, Return, Forget, Base, Types, PlaceTypes, LocalTypes, FlagTypes, TasksStay, CountsStay, Others, Keeps, LocalsKept, LocalsGone
  <2>3. PlaceTypes'
    BY <1>3, <2>1, ZenonT(40) DEF Wake, Return, Forget, Base, Types, PlaceTypes, LocalTypes, FlagTypes, Labels, PollStates, Known
  <2>4. LocalTypes'
    BY <1>3, <2>1, Bounds DEF Wake, Return, Forget, Base, Types, PlaceTypes, LocalTypes, FlagTypes, Known, Waits
  <2>5. FlagTypes'
    BY <1>3 DEF Wake, Return, Forget, Base, Types, FlagTypes
  <2>6. ControlOf(t)'
    BY <2>1, <2>2 DEF ControlOf, Known, TasksStay, LocalsKept, LocalsGone
  <2>7. SizedOf(t)'
    BY <2>1, <2>2, Bounds, WorkerAssumption DEF SizedOf, Known, Waits, LocalsKept, LocalsGone
  <2>8. Alike(t)
    BY <2>1, <2>2 DEF Alike, Busy, Waits, ControlOf, Known, LocalsKept, LocalsGone
  <2> QED
    BY <2>1, <2>2, <2>3, <2>4, <2>5, <2>6, <2>7, <2>8, Silent
<1>4. ASSUME NEW t \in Threads, Bump(t) PROVE Base'
  <2>1. t \in Threads /\ Known(t)
    BY WhatIsKnown DEF Threads
  <2>2. /\ \/ pc[t] = "bump" /\ pc'[t] = "notify"
           \/ pc[t] = "bump all" /\ pc'[t] = "notify all"
        /\ LocalsKept(t)
        /\ TasksStay /\ CountsStay /\ (terminated => terminated') /\ Others(t)
    BY <1>4, <2>1 DEF Bump, Base, Types, PlaceTypes, LocalTypes, FlagTypes, TasksStay, CountsStay, Others, Keeps, LocalsKept, LocalsGone
  <2>3. PlaceTypes'
    BY <1>4, <2>1 DEF Bump, Base, Types, PlaceTypes, LocalTypes, FlagTypes, Labels, PollStates, Known
  <2>4. LocalTypes'
    BY <1>4, <2>1, Bounds DEF Bump, Base, Types, PlaceTypes, LocalTypes, FlagTypes, Known, Waits
  <2>5. FlagTypes'
    <3>1. \A u \in Threads : HasSnapshot(u) \in BOOLEAN
      BY DEF HasSnapshot
    <3> QED
      BY <1>4, <3>1 DEF Bump, Base, Types, FlagTypes
  <2>6. ControlOf(t)'
    BY <2>1, <2>2 DEF ControlOf, Known, TasksStay, LocalsKept, LocalsGone
  <2>7. SizedOf(t)'
    BY <2>1, <2>2, Bounds, WorkerAssumption DEF SizedOf, Known, Waits, LocalsKept, LocalsGone
  <2>8. Alike(t)
    BY <2>1, <2>2 DEF Alike, Busy, Waits, ControlOf, Known, LocalsKept, LocalsGone
  <2> QED
    BY <2>1, <2>2, <2>3, <2>4, <2>5, <2>6, <2>7, <2>8, Silent
<1>5. ASSUME NEW t \in Threads, NotifyOne(t) PROVE Base'
  <2>1. t \in Threads /\ Known(t)
    BY WhatIsKnown DEF Threads
  <2>2. /\ pc[t] = "notify" /\ pc'[t] = "look timed" /\ \A u \in Threads \ {t} :
             pc'[u] = pc[u] \/ (u # Main /\ pc[u] = "sleep" /\ pc'[u] = "spin")
        /\ LocalsKept(t) /\ TasksStay /\ CountsStay /\ (terminated => terminated') /\ Others(t)
    <3>1. /\ LocalsKept(t) /\ TasksStay /\ CountsStay /\ (terminated => terminated') /\ pc[t] = "notify"
          /\ UNCHANGED <<back, goal, size, pos, slot, chain, job, arg>>
      BY <1>5 DEF NotifyOne, TasksStay, CountsStay, LocalsKept
    <3>2. pc'[t] = "look timed" /\ \A u \in Threads \ {t} :
            pc'[u] = pc[u] \/ (u # Main /\ pc[u] = "sleep" /\ pc'[u] = "spin")
      BY <1>5, <2>1, WorkerAssumption DEF NotifyOne, Sleepers, Base, Types, PlaceTypes, Threads
    <3> QED
      BY <3>1, <3>2 DEF Others, Keeps
  <2>3. PlaceTypes'
    BY <1>5, <2>1 DEF NotifyOne, Base, Types, PlaceTypes, Labels, Known
  <2>4. LocalTypes'
    BY <1>5, <2>1, Bounds DEF NotifyOne, Sleepers, Base, Types, PlaceTypes, LocalTypes, FlagTypes, Known, Waits
  <2>5. FlagTypes'
    BY <1>5 DEF NotifyOne, Sleepers, Base, Types, FlagTypes
  <2>6. ControlOf(t)'
    BY <2>1, <2>2 DEF ControlOf, Known, TasksStay, LocalsKept, LocalsGone
  <2>7. SizedOf(t)'
    BY <2>1, <2>2, Bounds, WorkerAssumption DEF SizedOf, Known, Waits, LocalsKept, LocalsGone
  <2>8. Alike(t)
    BY <2>1, <2>2 DEF Alike, Busy, Waits, ControlOf, Known, LocalsKept, LocalsGone
  <2> QED
    BY <2>1, <2>2, <2>3, <2>4, <2>5, <2>6, <2>7, <2>8, Silent
<1>6. ASSUME NEW t \in Threads, NotifyAll(t) PROVE Base'
  <2>1. t \in Threads /\ Known(t)
    BY WhatIsKnown DEF Threads
  <2>2. /\ pc[t] = "notify all" /\ pc'[t] = "look timed" /\ \A u \in Threads \ {t} :
             pc'[u] = pc[u] \/ (u # Main /\ pc[u] = "sleep" /\ pc'[u] = "spin")
        /\ LocalsKept(t) /\ TasksStay /\ CountsStay /\ (terminated => terminated') /\ Others(t)
    <3>1. /\ LocalsKept(t) /\ TasksStay /\ CountsStay /\ (terminated => terminated') /\ pc[t] = "notify all"
          /\ UNCHANGED <<back, goal, size, pos, slot, chain, job, arg>>
      BY <1>6 DEF NotifyAll, TasksStay, CountsStay, LocalsKept
    <3>2. pc'[t] = "look timed" /\ \A u \in Threads \ {t} :
            pc'[u] = pc[u] \/ (u # Main /\ pc[u] = "sleep" /\ pc'[u] = "spin")
      BY <1>6, <2>1, WorkerAssumption DEF NotifyAll, Sleepers, Base, Types, PlaceTypes, Threads
    <3> QED
      BY <3>1, <3>2 DEF Others, Keeps
  <2>3. PlaceTypes'
    BY <1>6, <2>1 DEF NotifyAll, Sleepers, Base, Types, PlaceTypes, LocalTypes, FlagTypes, Labels, PollStates, Known
  <2>4. LocalTypes'
    BY <1>6, <2>1, Bounds DEF NotifyAll, Sleepers, Base, Types, PlaceTypes, LocalTypes, FlagTypes, Known, Waits
  <2>5. FlagTypes'
    BY <1>6 DEF NotifyAll, Sleepers, Base, Types, FlagTypes
  <2>6. ControlOf(t)'
    BY <2>1, <2>2 DEF ControlOf, Known, TasksStay, LocalsKept, LocalsGone
  <2>7. SizedOf(t)'
    BY <2>1, <2>2, Bounds, WorkerAssumption DEF SizedOf, Known, Waits, LocalsKept, LocalsGone
  <2>8. Alike(t)
    BY <2>1, <2>2 DEF Alike, Busy, Waits, ControlOf, Known, LocalsKept, LocalsGone
  <2> QED
    BY <2>1, <2>2, <2>3, <2>4, <2>5, <2>6, <2>7, <2>8, Silent
<1>7. ASSUME NEW t \in Threads, LookTimed(t) PROVE Base'
  <2>1. t \in Threads /\ Known(t)
    BY WhatIsKnown DEF Threads
  <2>2. /\ pc[t] = "look timed"
        /\ \/ pc'[t] = "notify timed" /\ LocalsKept(t)
           \/ pc'[t] = back[t] /\ LocalsGone(t)
        /\ TasksStay /\ CountsStay /\ (terminated => terminated') /\ Others(t)
    <3>1. pc[t] = "look timed" /\ TasksStay /\ CountsStay /\ terminated' = terminated
      BY <1>7 DEF LookTimed, TasksStay, CountsStay
    <3>2. /\ \/ pc' = [pc EXCEPT ![t] = "notify timed"] /\ UNCHANGED local
             \/ pc' = [pc EXCEPT ![t] = back[t]] /\ Forget(t)
          /\ UNCHANGED <<chain, job, arg>>
      BY <1>7 DEF LookTimed, Return
    <3> QED
      BY <3>1, <3>2 DEF Base, Types, PlaceTypes, LocalTypes, LocalsKept, LocalsGone, Forget, Others, Keeps
  <2>3. PlaceTypes'
    BY <1>7, <2>1, ZenonT(40) DEF LookTimed, Return, Forget, Base, Types, PlaceTypes, LocalTypes, FlagTypes, Labels, PollStates, Known
  <2>4. LocalTypes'
    <3>1. UNCHANGED local \/ Forget(t)
      BY <1>7 DEF LookTimed, Return
    <3> QED
      BY <3>1, Bounds DEF Base, Types, LocalTypes, Forget
  <2>5. FlagTypes'
    BY <1>7 DEF LookTimed, Return, Forget, Base, Types, FlagTypes
  <2>6. ControlOf(t)'
    BY <2>1, <2>2 DEF ControlOf, Known, TasksStay, LocalsKept, LocalsGone
  <2>7. SizedOf(t)'
    BY <2>1, <2>2, Bounds, WorkerAssumption DEF SizedOf, Known, Waits, LocalsKept, LocalsGone
  <2>8. Alike(t)
    BY <2>1, <2>2 DEF Alike, Busy, Waits, ControlOf, Known, LocalsKept, LocalsGone
  <2> QED
    BY <2>1, <2>2, <2>3, <2>4, <2>5, <2>6, <2>7, <2>8, Silent
<1>8. ASSUME NEW t \in Threads, NotifyTimed(t) PROVE Base'
  <2>1. t \in Threads /\ Known(t)
    BY WhatIsKnown DEF Threads
  <2>2. /\ pc[t] = "notify timed" /\ pc'[t] = back[t] /\ \A u \in Threads \ {t} :
             pc'[u] = pc[u] \/ (u = Main /\ pc[u] = "doze" /\ pc'[u] = "poll")
        /\ LocalsGone(t) /\ TasksStay /\ CountsStay /\ (terminated => terminated') /\ Others(t)
    <3>1. /\ TasksStay /\ CountsStay /\ (terminated => terminated') /\ pc[t] = "notify timed"
          /\ UNCHANGED <<chain, job, arg>>
      BY <1>8 DEF NotifyTimed, TasksStay, CountsStay
    <3>2. /\ LocalsGone(t)
          /\ \A u \in Threads \ {t} : LocalsKept(u)
      BY <1>8 DEF NotifyTimed, Forget, Base, Types, LocalTypes, LocalsGone, LocalsKept
    <3>3. pc'[t] = back[t] /\ \A u \in Threads \ {t} :
            pc'[u] = pc[u] \/ (u = Main /\ pc[u] = "doze" /\ pc'[u] = "poll")
      <4>1. CASE t = Main
        <5>1. back[t] # "doze"
          BY <2>1 DEF Known
        <5>2. pc \in [Threads -> Labels]
          BY DEF Base, Types, PlaceTypes
        <5>3. pc' = [pc EXCEPT ![t] = back[t], ![t] = IF @ = "doze" THEN "poll" ELSE @]
          BY <1>8, <4>1 DEF NotifyTimed
        <5>4. pc'[t] = back[t] /\ \A u \in Threads \ {t} : pc'[u] = pc[u]
          BY <5>1, <5>2, <5>3
        <5> QED
          BY <5>4
      <4>2. CASE t # Main
        BY <1>8, <2>1, <4>2 DEF NotifyTimed, Base, Types, PlaceTypes, Threads
      <4> QED
        BY <4>1, <4>2
    <3> QED
      BY <3>1, <3>2, <3>3 DEF Others, Keeps, LocalsKept
  <2>3. PlaceTypes'
    BY <1>8, <2>1 DEF NotifyTimed, Forget, Base, Types, PlaceTypes, LocalTypes, FlagTypes, Labels, PollStates, Known
  <2>4. LocalTypes'
    BY <1>8, <2>1, Bounds DEF NotifyTimed, Forget, Base, Types, PlaceTypes, LocalTypes, FlagTypes, Known, Waits
  <2>5. FlagTypes'
    BY <1>8 DEF NotifyTimed, Forget, Base, Types, FlagTypes
  <2>6. ControlOf(t)'
    BY <2>1, <2>2 DEF ControlOf, Known, TasksStay, LocalsKept, LocalsGone
  <2>7. SizedOf(t)'
    BY <2>1, <2>2, Bounds, WorkerAssumption DEF SizedOf, Known, Waits, LocalsKept, LocalsGone
  <2>8. Alike(t)
    BY <2>1, <2>2 DEF Alike, Busy, Waits, ControlOf, Known, LocalsKept, LocalsGone
  <2> QED
    BY <2>1, <2>2, <2>3, <2>4, <2>5, <2>6, <2>7, <2>8, Silent
<1>9. ASSUME NEW t \in Threads, FetchNext(t) PROVE Base'
  <2>1. t \in Threads /\ Known(t)
    BY WhatIsKnown DEF Threads
  <2>2. /\ pc[t] = "fetch" /\ pos[t] < size[t] * Duplicates /\ pos'[t] = pos[t] + 1
        /\ pc'[t] = pc[t] /\ back'[t] = back[t] /\ goal'[t] = goal[t] /\ size'[t] = size[t] /\ slot'[t] = slot[t]
        /\ TasksStay /\ CountsStay /\ (terminated => terminated') /\ Others(t)
    BY <1>9, <2>1 DEF FetchNext, Base, Types, PlaceTypes, LocalTypes, FlagTypes, TasksStay, CountsStay, Others, Keeps, LocalsKept, LocalsGone
  <2>3. PlaceTypes'
    BY <1>9, <2>1 DEF FetchNext, Base, Types, PlaceTypes, LocalTypes, FlagTypes, Labels, PollStates, Known
  <2>4. LocalTypes'
    BY <1>9, <2>1, Bounds DEF FetchNext, Base, Types, PlaceTypes, LocalTypes, FlagTypes, Known, Waits
  <2>5. FlagTypes'
    BY <1>9 DEF FetchNext, Base, Types, FlagTypes
  <2>6. ControlOf(t)'
    BY <2>1, <2>2 DEF ControlOf, Known, TasksStay, LocalsKept, LocalsGone
  <2>7. SizedOf(t)'
    BY <2>1, <2>2, Bounds, WorkerAssumption DEF SizedOf, Known, Waits, LocalsKept, LocalsGone
  <2>8. Alike(t)
    BY <2>1, <2>2 DEF Alike, Busy, Waits, ControlOf, Known, LocalsKept, LocalsGone
  <2> QED
    BY <2>1, <2>2, <2>3, <2>4, <2>5, <2>6, <2>7, <2>8, Silent
<1>10. ASSUME NEW t \in Threads, FetchNone(t) PROVE Base'
  <2>1. t \in Threads /\ Known(t)
    BY WhatIsKnown DEF Threads
  <2>2. /\ pc[t] = "fetch"
        /\ \/ goal[t] = "poll" /\ pc'[t] = "missed"
           \/ goal[t] = "recheck" /\ pc'[t] = "start"
           \/ goal[t] = "park" /\ pc'[t] = "wait"
        /\ LocalsKept(t)
        /\ TasksStay /\ CountsStay /\ (terminated => terminated') /\ Others(t)
    BY <1>10, <2>1 DEF FetchNone, Base, Types, PlaceTypes, LocalTypes, FlagTypes, TasksStay, CountsStay, Others, Keeps, LocalsKept, LocalsGone
  <2>3. PlaceTypes'
    BY <1>10, <2>1 DEF FetchNone, Base, Types, PlaceTypes, LocalTypes, FlagTypes, Labels, PollStates, Known
  <2>4. LocalTypes'
    BY <1>10, <2>1, Bounds DEF FetchNone, Base, Types, PlaceTypes, LocalTypes, FlagTypes, Known, Waits
  <2>5. FlagTypes'
    BY <1>10 DEF FetchNone, Base, Types, FlagTypes
  <2>6. ControlOf(t)'
    BY <2>1, <2>2 DEF ControlOf, Known, TasksStay, LocalsKept, LocalsGone
  <2>7. SizedOf(t)'
    BY <2>1, <2>2, Bounds, WorkerAssumption DEF SizedOf, Known, Waits, LocalsKept, LocalsGone
  <2>8. Alike(t)
    BY <2>1, <2>2 DEF Alike, Busy, Waits, ControlOf, Known, LocalsKept, LocalsGone
  <2> QED
    BY <2>1, <2>2, <2>3, <2>4, <2>5, <2>6, <2>7, <2>8, Silent
<1>11. ASSUME NEW t \in Threads, FetchSome(t) PROVE Base'
  <2>1. t \in Threads /\ Known(t)
    BY WhatIsKnown DEF Threads
  <2>2. /\ pc[t] = "fetch"
        /\ \/ goal[t] = "poll" /\ pc'[t] = "take" /\ slot'[t] = Looked(t)
           \/ goal[t] = "recheck" /\ pc'[t] = "wake" /\ slot'[t] = slot[t]
           \/ goal[t] = "park" /\ pc'[t] = "leave" /\ slot'[t] = slot[t]
        /\ back'[t] = back[t] /\ goal'[t] = goal[t] /\ size'[t] = size[t] /\ pos'[t] = pos[t]
        /\ TasksStay /\ CountsStay /\ (terminated => terminated') /\ Others(t)
    BY <1>11, <2>1 DEF FetchSome, Base, Types, PlaceTypes, LocalTypes, FlagTypes, TasksStay, CountsStay, Others, Keeps, LocalsKept, LocalsGone
  <2>3. PlaceTypes'
    BY <1>11, <2>1 DEF FetchSome, Base, Types, PlaceTypes, LocalTypes, FlagTypes, Labels, PollStates, Known
  <2>4. LocalTypes'
    BY <1>11, <2>1, Bounds DEF FetchSome, Base, Types, PlaceTypes, LocalTypes, FlagTypes, Known, Waits
  <2>5. FlagTypes'
    BY <1>11 DEF FetchSome, Base, Types, FlagTypes
  <2>6. ControlOf(t)'
    BY <2>1, <2>2 DEF ControlOf, Known, TasksStay, LocalsKept, LocalsGone
  <2>7. SizedOf(t)'
    BY <2>1, <2>2, Bounds, WorkerAssumption DEF SizedOf, Known, Waits, LocalsKept, LocalsGone
  <2>8. Alike(t)
    BY <2>1, <2>2 DEF Alike, Busy, Waits, ControlOf, Known, LocalsKept, LocalsGone
  <2> QED
    BY <2>1, <2>2, <2>3, <2>4, <2>5, <2>6, <2>7, <2>8, Silent
<1>12. ASSUME NEW t \in Threads, Check(t) PROVE Base'
  <2>1. t \in Threads /\ Known(t)
    BY WhatIsKnown DEF Threads
  <2>2. /\ pc[t] = "check"
        /\ \/ pc'[t] = "fetch" /\ goal'[t] = "recheck" /\ size'[t] = size[t] /\ pos'[t] = 0
           \/ pc'[t] = "start" /\ goal'[t] = goal[t] /\ size'[t] = size[t] /\ pos'[t] = pos[t]
        /\ back'[t] = back[t] /\ slot'[t] = slot[t]
        /\ TasksStay /\ CountsStay /\ (terminated => terminated') /\ Others(t)
    BY <1>12, <2>1 DEF Check, Fetch, Base, Types, PlaceTypes, LocalTypes, FlagTypes, TasksStay, CountsStay, Others, Keeps, LocalsKept, LocalsGone
  <2>3. PlaceTypes'
    <3>1. pc' = [pc EXCEPT ![t] = "fetch"] \/ pc' = [pc EXCEPT ![t] = "start"]
      BY <1>12 DEF Check, Fetch
    <3> QED
      BY <3>1 DEF Base, Types, PlaceTypes, Labels, PollStates
  <2>4. LocalTypes'
    BY <1>12, <2>1, Bounds DEF Check, Fetch, Base, Types, PlaceTypes, LocalTypes, FlagTypes, Known, Waits
  <2>5. FlagTypes'
    BY <1>12 DEF Check, Fetch, Base, Types, FlagTypes
  <2>6. ControlOf(t)'
    BY <2>1, <2>2 DEF ControlOf, Known, TasksStay, LocalsKept, LocalsGone
  <2>7. SizedOf(t)'
    BY <2>1, <2>2, Bounds, WorkerAssumption DEF SizedOf, Known, Waits, LocalsKept, LocalsGone
  <2>8. Alike(t)
    BY <2>1, <2>2 DEF Alike, Busy, Waits, ControlOf, Known, LocalsKept, LocalsGone
  <2> QED
    BY <2>1, <2>2, <2>3, <2>4, <2>5, <2>6, <2>7, <2>8, Silent
<1>13. ASSUME NEW t \in Threads, Snapshot(t) PROVE Base'
  <2>1. t \in Threads /\ Known(t)
    BY WhatIsKnown DEF Threads
  <2>2. /\ pc[t] = "snapshot"
        /\ pc'[t] = IF t = Main THEN "register" ELSE "park"
        /\ LocalsKept(t)
        /\ TasksStay /\ CountsStay /\ (terminated => terminated') /\ Others(t)
    BY <1>13, <2>1 DEF Snapshot, Base, Types, PlaceTypes, LocalTypes, FlagTypes, TasksStay, CountsStay, Others, Keeps, LocalsKept, LocalsGone
  <2>3. PlaceTypes'
    BY <1>13, <2>1 DEF Snapshot, Base, Types, PlaceTypes, LocalTypes, FlagTypes, Labels, PollStates, Known
  <2>4. LocalTypes'
    BY <1>13, <2>1, Bounds DEF Snapshot, Base, Types, PlaceTypes, LocalTypes, FlagTypes, Known, Waits
  <2>5. FlagTypes'
    BY <1>13 DEF Snapshot, Base, Types, FlagTypes
  <2>6. ControlOf(t)'
    BY <2>1, <2>2 DEF ControlOf, Known, TasksStay, LocalsKept, LocalsGone
  <2>7. SizedOf(t)'
    BY <2>1, <2>2, Bounds, WorkerAssumption DEF SizedOf, Known, Waits, LocalsKept, LocalsGone
  <2>8. Alike(t)
    BY <2>1, <2>2 DEF Alike, Busy, Waits, ControlOf, Known, LocalsKept, LocalsGone
  <2> QED
    BY <2>1, <2>2, <2>3, <2>4, <2>5, <2>6, <2>7, <2>8, Silent
<1>14. ASSUME NEW t \in Workers, Loop(t) PROVE Base'
  <2>1. t \in Threads /\ Known(t)
    BY WhatIsKnown DEF Threads
  <2>2. /\ pc[t] = "loop"
        /\ \/ terminated /\ pc'[t] = "exited"
           \/ pc'[t] = "poll"
        /\ LocalsGone(t)
        /\ TasksStay /\ CountsStay /\ (terminated => terminated') /\ Others(t)
    BY <1>14, <2>1 DEF Loop, Forget, Base, Types, PlaceTypes, LocalTypes, FlagTypes, TasksStay, CountsStay, Others, Keeps, LocalsKept, LocalsGone
  <2>3. PlaceTypes'
    BY <1>14, <2>1 DEF Loop, Forget, Base, Types, PlaceTypes, LocalTypes, FlagTypes, Labels, PollStates, Known
  <2>4. LocalTypes'
    BY <1>14, <2>1, Bounds DEF Loop, Forget, Base, Types, PlaceTypes, LocalTypes, FlagTypes, Known, Waits
  <2>5. FlagTypes'
    BY <1>14 DEF Loop, Forget, Base, Types, FlagTypes
  <2>6. ControlOf(t)'
    BY <2>1, <2>2 DEF ControlOf, Known, TasksStay, LocalsKept, LocalsGone
  <2>7. SizedOf(t)'
    BY <2>1, <2>2, Bounds, WorkerAssumption DEF SizedOf, Known, Waits, LocalsKept, LocalsGone
  <2>8. Alike(t)
    BY <2>1, <2>2 DEF Alike, Busy, Waits, ControlOf, Known, LocalsKept, LocalsGone
  <2> QED
    BY <2>1, <2>2, <2>3, <2>4, <2>5, <2>6, <2>7, <2>8, Silent
<1>15. ASSUME NEW t \in Workers, Park(t) PROVE Base'
  <2>1. t \in Threads /\ Known(t)
    BY WhatIsKnown DEF Threads
  <2>2. /\ pc[t] = "park"
        /\ \/ pc'[t] = "leave" /\ goal'[t] = goal[t] /\ size'[t] = size[t] /\ pos'[t] = pos[t]
           \/ pc'[t] = "fetch" /\ goal'[t] = "park" /\ size'[t] = waiting /\ pos'[t] = 0
        /\ back'[t] = back[t] /\ slot'[t] = slot[t]
        /\ TasksStay /\ CountsStay /\ (terminated => terminated') /\ Others(t)
    BY <1>15, <2>1 DEF Park, Fetch, Base, Types, PlaceTypes, LocalTypes, FlagTypes, TasksStay, CountsStay, Others, Keeps, LocalsKept, LocalsGone
  <2>3. PlaceTypes'
    <3>1. pc' = [pc EXCEPT ![t] = "fetch"] \/ pc' = [pc EXCEPT ![t] = "leave"]
      BY <1>15 DEF Park, Fetch
    <3> QED
      BY <3>1 DEF Base, Types, PlaceTypes, Labels, PollStates
  <2>4. LocalTypes'
    BY <1>15, <2>1, Bounds DEF Park, Fetch, Base, Types, PlaceTypes, LocalTypes, FlagTypes, Known, Waits
  <2>5. FlagTypes'
    BY <1>15 DEF Park, Fetch, Base, Types, FlagTypes
  <2>6. ControlOf(t)'
    BY <2>1, <2>2 DEF ControlOf, Known, TasksStay, LocalsKept, LocalsGone
  <2>7. SizedOf(t)'
    BY <2>1, <2>2, Bounds, WorkerAssumption DEF SizedOf, Known, Waits, LocalsKept, LocalsGone
  <2>8. Alike(t)
    BY <2>1, <2>2 DEF Alike, Busy, Waits, ControlOf, Known, LocalsKept, LocalsGone
  <2> QED
    BY <2>1, <2>2, <2>3, <2>4, <2>5, <2>6, <2>7, <2>8, Silent
<1>16. ASSUME NEW t \in Workers, Wait(t) PROVE Base'
  <2>1. t \in Threads /\ Known(t)
    BY WhatIsKnown DEF Threads
  <2>2. /\ pc[t] = "wait" /\ pc'[t] \in {"spin", "sleep"}
        /\ LocalsGone(t)
        /\ TasksStay /\ CountsStay /\ (terminated => terminated') /\ Others(t)
    BY <1>16, <2>1 DEF Wait, Forget, Base, Types, PlaceTypes, LocalTypes, FlagTypes, TasksStay, CountsStay, Others, Keeps, LocalsKept, LocalsGone
  <2>3. PlaceTypes'
    BY <1>16, <2>1 DEF Wait, Forget, Base, Types, PlaceTypes, LocalTypes, FlagTypes, Labels, PollStates, Known
  <2>4. LocalTypes'
    BY <1>16, <2>1, Bounds DEF Wait, Forget, Base, Types, PlaceTypes, LocalTypes, FlagTypes, Known, Waits
  <2>5. FlagTypes'
    BY <1>16 DEF Wait, Forget, Base, Types, FlagTypes
  <2>6. ControlOf(t)'
    BY <2>1, <2>2 DEF ControlOf, Known, TasksStay, LocalsKept, LocalsGone
  <2>7. SizedOf(t)'
    BY <2>1, <2>2, Bounds, WorkerAssumption DEF SizedOf, Known, Waits, LocalsKept, LocalsGone
  <2>8. Alike(t)
    BY <2>1, <2>2 DEF Alike, Busy, Waits, ControlOf, Known, LocalsKept, LocalsGone
  <2> QED
    BY <2>1, <2>2, <2>3, <2>4, <2>5, <2>6, <2>7, <2>8, Silent
<1>17. ASSUME NEW t \in Workers, Spin(t) PROVE Base'
  <2>1. t \in Threads /\ Known(t)
    BY WhatIsKnown DEF Threads
  <2>2. /\ pc[t] = "spin" /\ pc'[t] \in {"leave", "snapshot"}
        /\ LocalsKept(t)
        /\ TasksStay /\ CountsStay /\ (terminated => terminated') /\ Others(t)
    BY <1>17, <2>1 DEF Spin, Base, Types, PlaceTypes, LocalTypes, FlagTypes, TasksStay, CountsStay, Others, Keeps, LocalsKept, LocalsGone
  <2>3. PlaceTypes'
    BY <1>17, <2>1 DEF Spin, Base, Types, PlaceTypes, LocalTypes, FlagTypes, Labels, PollStates, Known
  <2>4. LocalTypes'
    BY <1>17, <2>1, Bounds DEF Spin, Base, Types, PlaceTypes, LocalTypes, FlagTypes, Known, Waits
  <2>5. FlagTypes'
    BY <1>17 DEF Spin, Base, Types, FlagTypes
  <2>6. ControlOf(t)'
    BY <2>1, <2>2 DEF ControlOf, Known, TasksStay, LocalsKept, LocalsGone
  <2>7. SizedOf(t)'
    BY <2>1, <2>2, Bounds, WorkerAssumption DEF SizedOf, Known, Waits, LocalsKept, LocalsGone
  <2>8. Alike(t)
    BY <2>1, <2>2 DEF Alike, Busy, Waits, ControlOf, Known, LocalsKept, LocalsGone
  <2> QED
    BY <2>1, <2>2, <2>3, <2>4, <2>5, <2>6, <2>7, <2>8, Silent
<1>18. ASSUME Register PROVE Base'
  <2> DEFINE t == Main
  <2>1. t \in Threads /\ Known(t)
    BY WhatIsKnown DEF Threads
  <2>2. /\ pc[t] = "register" /\ pc'[t] = "relook"
        /\ LocalsKept(t)
        /\ TasksStay /\ CountsStay /\ (terminated => terminated') /\ Others(t)
    BY <1>18, <2>1 DEF Register, Base, Types, PlaceTypes, LocalTypes, FlagTypes, TasksStay, CountsStay, Others, Keeps, LocalsKept, LocalsGone
  <2>3. PlaceTypes'
    BY <1>18, <2>1 DEF Register, Base, Types, PlaceTypes, LocalTypes, FlagTypes, Labels, PollStates, Known
  <2>4. LocalTypes'
    BY <1>18, <2>1, Bounds DEF Register, Base, Types, PlaceTypes, LocalTypes, FlagTypes, Known, Waits
  <2>5. FlagTypes'
    BY <1>18 DEF Register, Base, Types, FlagTypes
  <2> HIDE DEF t
  <2>6. ControlOf(t)'
    BY <2>1, <2>2 DEF ControlOf, Known, TasksStay, LocalsKept, LocalsGone
  <2>7. SizedOf(t)'
    BY <2>1, <2>2, Bounds, WorkerAssumption DEF SizedOf, Known, Waits, LocalsKept, LocalsGone
  <2>8. Alike(t)
    BY <2>1, <2>2 DEF Alike, Busy, Waits, ControlOf, Known, LocalsKept, LocalsGone
  <2> QED
    BY <2>1, <2>2, <2>3, <2>4, <2>5, <2>6, <2>7, <2>8, Silent
<1>19. ASSUME Relook PROVE Base'
  <2> DEFINE t == Main
  <2>1. t \in Threads /\ Known(t)
    BY WhatIsKnown DEF Threads
  <2>2. /\ pc[t] = "relook" /\ pc'[t] \in {"poll", "doze"}
        /\ LocalsKept(t)
        /\ TasksStay /\ CountsStay /\ (terminated => terminated') /\ Others(t)
    BY <1>19, <2>1 DEF Relook, Base, Types, PlaceTypes, LocalTypes, FlagTypes, TasksStay, CountsStay, Others, Keeps, LocalsKept, LocalsGone
  <2>3. PlaceTypes'
    BY <1>19, <2>1 DEF Relook, Base, Types, PlaceTypes, LocalTypes, FlagTypes, Labels, PollStates, Known
  <2>4. LocalTypes'
    BY <1>19, <2>1, Bounds DEF Relook, Base, Types, PlaceTypes, LocalTypes, FlagTypes, Known, Waits
  <2>5. FlagTypes'
    BY <1>19 DEF Relook, Base, Types, FlagTypes
  <2> HIDE DEF t
  <2>6. ControlOf(t)'
    BY <2>1, <2>2 DEF ControlOf, Known, TasksStay, LocalsKept, LocalsGone
  <2>7. SizedOf(t)'
    BY <2>1, <2>2, Bounds, WorkerAssumption DEF SizedOf, Known, Waits, LocalsKept, LocalsGone
  <2>8. Alike(t)
    BY <2>1, <2>2 DEF Alike, Busy, Waits, ControlOf, Known, LocalsKept, LocalsGone
  <2> QED
    BY <2>1, <2>2, <2>3, <2>4, <2>5, <2>6, <2>7, <2>8, Silent
<1>20. ASSUME Deadline PROVE Base'
  <2> DEFINE t == Main
  <2>1. t \in Threads /\ Known(t)
    BY WhatIsKnown DEF Threads
  <2>2. /\ pc[t] = "doze" /\ pc'[t] = "poll"
        /\ LocalsKept(t)
        /\ TasksStay /\ CountsStay /\ (terminated => terminated') /\ Others(t)
    BY <1>20, <2>1 DEF Deadline, Base, Types, PlaceTypes, LocalTypes, FlagTypes, TasksStay, CountsStay, Others, Keeps, LocalsKept, LocalsGone
  <2>3. PlaceTypes'
    BY <1>20, <2>1 DEF Deadline, Base, Types, PlaceTypes, LocalTypes, FlagTypes, Labels, PollStates, Known
  <2>4. LocalTypes'
    BY <1>20, <2>1, Bounds DEF Deadline, Base, Types, PlaceTypes, LocalTypes, FlagTypes, Known, Waits
  <2>5. FlagTypes'
    BY <1>20 DEF Deadline, Base, Types, FlagTypes
  <2> HIDE DEF t
  <2>6. ControlOf(t)'
    BY <2>1, <2>2 DEF ControlOf, Known, TasksStay, LocalsKept, LocalsGone
  <2>7. SizedOf(t)'
    BY <2>1, <2>2, Bounds, WorkerAssumption DEF SizedOf, Known, Waits, LocalsKept, LocalsGone
  <2>8. Alike(t)
    BY <2>1, <2>2 DEF Alike, Busy, Waits, ControlOf, Known, LocalsKept, LocalsGone
  <2> QED
    BY <2>1, <2>2, <2>3, <2>4, <2>5, <2>6, <2>7, <2>8, Silent
<1>21. ASSUME Unregister PROVE Base'
  <2> DEFINE t == Main
  <2>1. t \in Threads /\ Known(t)
    BY WhatIsKnown DEF Threads
  <2>2. /\ pc[t] = "unregister" /\ pc'[t] = "idle"
        /\ LocalsGone(t)
        /\ TasksStay /\ CountsStay /\ (terminated => terminated') /\ Others(t)
    BY <1>21, <2>1 DEF Unregister, Forget, Base, Types, PlaceTypes, LocalTypes, FlagTypes, TasksStay, CountsStay, Others, Keeps, LocalsKept, LocalsGone
  <2>3. PlaceTypes'
    BY <1>21, <2>1 DEF Unregister, Forget, Base, Types, PlaceTypes, LocalTypes, FlagTypes, Labels, PollStates, Known
  <2>4. LocalTypes'
    BY <1>21, <2>1, Bounds DEF Unregister, Forget, Base, Types, PlaceTypes, LocalTypes, FlagTypes, Known, Waits
  <2>5. FlagTypes'
    BY <1>21 DEF Unregister, Forget, Base, Types, FlagTypes
  <2> HIDE DEF t
  <2>6. ControlOf(t)'
    BY <2>1, <2>2 DEF ControlOf, Known, TasksStay, LocalsKept, LocalsGone
  <2>7. SizedOf(t)'
    BY <2>1, <2>2, Bounds, WorkerAssumption DEF SizedOf, Known, Waits, LocalsKept, LocalsGone
  <2>8. Alike(t)
    BY <2>1, <2>2 DEF Alike, Busy, Waits, ControlOf, Known, LocalsKept, LocalsGone
  <2> QED
    BY <2>1, <2>2, <2>3, <2>4, <2>5, <2>6, <2>7, <2>8, Silent
<1>22. ASSUME Join PROVE Base'
  <2> DEFINE t == Main
  <2>1. t \in Threads /\ Known(t)
    BY WhatIsKnown DEF Threads
  <2>2. /\ pc[t] = "idle" /\ pc'[t] = "join"
        /\ LocalsKept(t)
        /\ TasksStay /\ CountsStay /\ (terminated => terminated') /\ Others(t)
    BY <1>22, <2>1 DEF Join, Base, Types, PlaceTypes, LocalTypes, FlagTypes, TasksStay, CountsStay, Others, Keeps, LocalsKept, LocalsGone
  <2>3. PlaceTypes'
    BY <1>22, <2>1 DEF Join, Base, Types, PlaceTypes, LocalTypes, FlagTypes, Labels, PollStates, Known
  <2>4. LocalTypes'
    BY <1>22, <2>1, Bounds DEF Join, Base, Types, PlaceTypes, LocalTypes, FlagTypes, Known, Waits
  <2>5. FlagTypes'
    BY <1>22 DEF Join, Base, Types, FlagTypes
  <2> HIDE DEF t
  <2>6. ControlOf(t)'
    BY <2>1, <2>2 DEF ControlOf, Known, TasksStay, LocalsKept, LocalsGone
  <2>7. SizedOf(t)'
    BY <2>1, <2>2, Bounds, WorkerAssumption DEF SizedOf, Known, Waits, LocalsKept, LocalsGone
  <2>8. Alike(t)
    BY <2>1, <2>2 DEF Alike, Busy, Waits, ControlOf, Known, LocalsKept, LocalsGone
  <2> QED
    BY <2>1, <2>2, <2>3, <2>4, <2>5, <2>6, <2>7, <2>8, Silent
<1>23. ASSUME Joined PROVE Base'
  <2> DEFINE t == Main
  <2>1. t \in Threads /\ Known(t)
    BY WhatIsKnown DEF Threads
  <2>2. /\ pc[t] = "join" /\ pc'[t] = "drain" /\ pos'[t] = 0
        /\ back'[t] = back[t] /\ goal'[t] = goal[t] /\ size'[t] = size[t] /\ slot'[t] = slot[t]
        /\ TasksStay /\ CountsStay /\ (terminated => terminated') /\ Others(t)
    BY <1>23, <2>1 DEF Joined, Drain, Base, Types, PlaceTypes, LocalTypes, FlagTypes, TasksStay, CountsStay, Others, Keeps, LocalsKept, LocalsGone
  <2>3. PlaceTypes'
    BY <1>23, <2>1 DEF Joined, Drain, Base, Types, PlaceTypes, LocalTypes, FlagTypes, Labels, PollStates, Known
  <2>4. LocalTypes'
    BY <1>23, <2>1, Bounds DEF Joined, Drain, Base, Types, PlaceTypes, LocalTypes, FlagTypes, Known, Waits
  <2>5. FlagTypes'
    BY <1>23 DEF Joined, Drain, Base, Types, FlagTypes
  <2> HIDE DEF t
  <2>6. ControlOf(t)'
    BY <2>1, <2>2 DEF ControlOf, Known, TasksStay, LocalsKept, LocalsGone
  <2>7. SizedOf(t)'
    BY <2>1, <2>2, Bounds, WorkerAssumption DEF SizedOf, Known, Waits, LocalsKept, LocalsGone
  <2>8. Alike(t)
    BY <2>1, <2>2 DEF Alike, Busy, Waits, ControlOf, Known, LocalsKept, LocalsGone
  <2> QED
    BY <2>1, <2>2, <2>3, <2>4, <2>5, <2>6, <2>7, <2>8, Silent
<1>24. ASSUME DrainEnd PROVE Base'
  <2> DEFINE t == Main
  <2>1. t \in Threads /\ Known(t)
    BY WhatIsKnown DEF Threads
  <2>2. /\ pc[t] = "drain" /\ chain[t] = <<>>
        /\ \/ pc'[t] = "drain" /\ pos'[t] = 0
           \/ pc'[t] = "joined" /\ pos'[t] = pos[t]
        /\ back'[t] = back[t] /\ goal'[t] = goal[t] /\ size'[t] = size[t] /\ slot'[t] = slot[t]
        /\ TasksStay /\ CountsStay /\ (terminated => terminated') /\ Others(t)
    BY <1>24, <2>1 DEF DrainEnd, Drain, Base, Types, PlaceTypes, LocalTypes, FlagTypes, TasksStay, CountsStay, Others, Keeps, LocalsKept, LocalsGone
  <2>3. PlaceTypes'
    BY <1>24, <2>1 DEF DrainEnd, Drain, Base, Types, PlaceTypes, LocalTypes, FlagTypes, Labels, PollStates, Known
  <2>4. LocalTypes'
    BY <1>24, <2>1, Bounds DEF DrainEnd, Drain, Base, Types, PlaceTypes, LocalTypes, FlagTypes, Known, Waits
  <2>5. FlagTypes'
    BY <1>24 DEF DrainEnd, Drain, Base, Types, FlagTypes
  <2> HIDE DEF t
  <2>6. ControlOf(t)'
    BY <2>1, <2>2 DEF ControlOf, Known, TasksStay, LocalsKept, LocalsGone
  <2>7. SizedOf(t)'
    BY <2>1, <2>2, Bounds, WorkerAssumption DEF SizedOf, Known, Waits, LocalsKept, LocalsGone
  <2>8. Alike(t)
    BY <2>1, <2>2 DEF Alike, Busy, Waits, ControlOf, Known, LocalsKept, LocalsGone
  <2> QED
    BY <2>1, <2>2, <2>3, <2>4, <2>5, <2>6, <2>7, <2>8, Silent
<1> QED
  BY <1>1, <1>2, <1>3, <1>4, <1>5, <1>6, <1>7, <1>8, <1>9, <1>10, <1>11, <1>12, <1>13, <1>14, <1>15, <1>16, <1>17, <1>18, <1>19, <1>20, <1>21, <1>22, <1>23, <1>24 DEF SilentStep

(***************************************************************************)
(* Steps with which a poll or a sleep begins or ends                       *)
(***************************************************************************)
\* A step with which a poll or a sleep begins or ends.
LEMMA Kept ==
  ASSUME Base, NEW t \in Threads, PlaceTypes', LocalTypes', FlagTypes', TasksStay,
         terminated => terminated', Others(t), ControlOf(t)', SizedOf(t)',
         ~Holds(t) /\ ~Runs(t) /\ ~Holds(t)' /\ ~Runs(t)',
         running' = running - One(Busy(t)) + One(Busy(t)'),
         waiting' = waiting - One(t # Main /\ Waits(t)) + One(t # Main /\ Waits(t)')
  PROVE  Base'
<1>1. Types'
  BY DEF Base, Types, TaskTypes, TasksStay
<1>2. KindsKept(t)
  BY DEF KindsKept
<1>3. (Counted(t) <=> Busy(t)) /\ (Counted(t)' <=> Busy(t)')
  BY DEF Counted
<1>4. running' = running - One(Counted(t)) + One(Counted(t)')
  BY <1>3 DEF One
<1> QED
  BY <1>1, <1>2, <1>4, Quiet DEF TasksStay, Others

\* The actions that begin or end a poll or a sleep.
CountingStep ==
  \/ \E t \in Threads : EndPoll(t)
  \/ \E t \in Workers : PollOne(t) \/ BeginDelay(t) \/ LeaveDelay(t)
  \/ (\E p \in Polled : PollFor(p)) \/ PollAgain

\* The actions that begin or end a poll or a sleep keep the invariant.
LEMMA CountingSteps == ASSUME Base, CountingStep PROVE Base'
<1> USE DEF Goto, look, local, timing, Holds, Runs, Rechecks, Parks, Polls, CallStates, Asking,
            QueueStates, EndStates, MainStates, TimedStates, DelayStates
<1>1. ASSUME NEW t \in Workers, PollOne(t) PROVE Base'
  <2>0. NThreads + 1 - Lesser(running + 1, NThreads) \in 1..NThreads
    BY CountTypes, WorkerAssumption DEF Base, Lesser
  <2>a. PICK n \in 1..NThreads : n = NThreads + 1 - Lesser(running + 1, NThreads)
    BY <2>0
  <2>1. t \in Threads /\ Known(t)
    BY WhatIsKnown DEF Threads
  <2>2. /\ pc[t] = "poll" /\ pc'[t] = "fetch" /\ goal'[t] = "poll" /\ pos'[t] = 0
        /\ size'[t] \in 1..NThreads /\ back'[t] = back[t] /\ slot'[t] = slot[t]
        /\ running' = running + 1 /\ waiting' = waiting
        /\ TasksStay /\ (terminated => terminated') /\ Others(t)
    BY <1>1, <2>1, <2>a DEF PollOne, Fetch, Base, Types, PlaceTypes, LocalTypes, FlagTypes, TasksStay, Others, Keeps, LocalsKept, LocalsGone
  <2>3. PlaceTypes'
    BY <1>1 DEF PollOne, Fetch, Base, Types, PlaceTypes, FlagTypes, Labels, PollStates
  <2>4. LocalTypes'
    <3>1. /\ goal' = [goal EXCEPT ![t] = "poll"] /\ size' = [size EXCEPT ![t] = n]
          /\ pos' = [pos EXCEPT ![t] = 0] /\ back' = back /\ slot' = slot
      BY <1>1, <2>a DEF PollOne, Fetch
    <3>2. n \in 0..NThreads
      BY WorkerAssumption
    <3> QED
      BY <3>1, <3>2, Bounds DEF Base, Types, LocalTypes
  <2>5. FlagTypes'
    BY <1>1 DEF PollOne, Fetch, Base, Types, FlagTypes
  <2>6. ControlOf(t)'
    BY <2>1, <2>2 DEF ControlOf, Known, TasksStay, LocalsKept, LocalsGone
  <2>7. SizedOf(t)'
    BY <2>1, <2>2, Bounds, WorkerAssumption DEF SizedOf, Known, LocalsKept, LocalsGone
  <2>8. /\ ~Holds(t) /\ ~Runs(t) /\ ~Holds(t)' /\ ~Runs(t)'
    BY <2>1, <2>2 DEF Known, ControlOf, LocalsKept, LocalsGone
  <2>9. (~Busy(t) /\ Busy(t)') /\ (~Waits(t) /\ ~Waits(t)')
    BY <2>1, <2>2, <2>8, WorkerAssumption DEF Busy, Waits, Known, ControlOf
  <2>10. running \in Int /\ waiting \in Int
    BY CountTypes DEF Base
  <2>11. running' = running - One(Busy(t)) + One(Busy(t)')
    BY <2>2, <2>9, <2>10 DEF One
  <2>12. waiting' = waiting - One(t # Main /\ Waits(t)) + One(t # Main /\ Waits(t)')
    BY <2>2, <2>9, <2>10 DEF One
  <2> QED
    BY <2>1, <2>2, <2>3, <2>4, <2>5, <2>6, <2>7, <2>8, <2>11, <2>12, Kept
<1>2. ASSUME NEW p \in Polled, PollFor(p) PROVE Base'
  <2> DEFINE t == Main
  <2>0. p + 1 \in 1..NThreads
    BY WorkerAssumption DEF Priorities
  <2>a. PICK n \in 1..NThreads : n = p + 1
    BY <2>0
  <2>1. t \in Threads /\ Known(t)
    BY WhatIsKnown DEF Threads
  <2>2. /\ pc[t] = "idle" /\ pc'[t] = "fetch" /\ goal'[t] = "poll" /\ pos'[t] = 0
        /\ size'[t] \in 1..NThreads /\ back'[t] = back[t] /\ slot'[t] = slot[t]
        /\ running' = running + 1 /\ waiting' = waiting
        /\ TasksStay /\ (terminated => terminated') /\ Others(t)
    BY <1>2, <2>1, <2>a DEF PollFor, Fetch, Base, Types, PlaceTypes, LocalTypes, FlagTypes, TasksStay, Others, Keeps, LocalsKept, LocalsGone
  <2>3. PlaceTypes'
    BY <1>2 DEF PollFor, Fetch, Base, Types, PlaceTypes, FlagTypes, Labels, PollStates
  <2>4. LocalTypes'
    <3>1. /\ goal' = [goal EXCEPT ![t] = "poll"] /\ size' = [size EXCEPT ![t] = n]
          /\ pos' = [pos EXCEPT ![t] = 0] /\ back' = back /\ slot' = slot
      BY <1>2, <2>a DEF PollFor, Fetch
    <3>2. n \in 0..NThreads
      BY WorkerAssumption
    <3> QED
      BY <3>1, <3>2, Bounds DEF Base, Types, LocalTypes
  <2>5. FlagTypes'
    BY <1>2 DEF PollFor, Fetch, Base, Types, FlagTypes
  <2> HIDE DEF t
  <2>6. ControlOf(t)'
    BY <2>1, <2>2 DEF ControlOf, Known, TasksStay, LocalsKept, LocalsGone
  <2>7. SizedOf(t)'
    BY <2>1, <2>2, Bounds, WorkerAssumption DEF SizedOf, Known, LocalsKept, LocalsGone
  <2>8. /\ ~Holds(t) /\ ~Runs(t) /\ ~Holds(t)' /\ ~Runs(t)'
    BY <2>1, <2>2 DEF Known, ControlOf, LocalsKept, LocalsGone
  <2>9. (~Busy(t) /\ Busy(t)') /\ (~Waits(t) /\ ~Waits(t)')
    BY <2>1, <2>2, <2>8, WorkerAssumption DEF Busy, Waits, Known, ControlOf
  <2>10. running \in Int /\ waiting \in Int
    BY CountTypes DEF Base
  <2>11. running' = running - One(Busy(t)) + One(Busy(t)')
    BY <2>2, <2>9, <2>10 DEF One
  <2>12. waiting' = waiting - One(t # Main /\ Waits(t)) + One(t # Main /\ Waits(t)')
    BY <2>2, <2>9, <2>10 DEF One
  <2> QED
    BY <2>1, <2>2, <2>3, <2>4, <2>5, <2>6, <2>7, <2>8, <2>11, <2>12, Kept
<1>3. ASSUME PollAgain PROVE Base'
  <2> DEFINE t == Main
  <2>0. size[Main] \in 1..NThreads
    <3>1. Main \in Threads
      BY DEF Threads
    <3> QED
      BY <1>3, <3>1 DEF PollAgain, Base, Sized, SizedOf
  <2>a. PICK n \in 1..NThreads : n = size[Main]
    BY <2>0
  <2>1. t \in Threads /\ Known(t)
    BY WhatIsKnown DEF Threads
  <2>2. /\ pc[t] = "poll" /\ pc'[t] = "fetch" /\ goal'[t] = "poll" /\ pos'[t] = 0
        /\ size'[t] \in 1..NThreads /\ back'[t] = back[t] /\ slot'[t] = slot[t]
        /\ running' = running + 1 /\ waiting' = waiting
        /\ TasksStay /\ (terminated => terminated') /\ Others(t)
    BY <1>3, <2>1, <2>a DEF PollAgain, Fetch, Base, Types, PlaceTypes, LocalTypes, FlagTypes, TasksStay, Others, Keeps, LocalsKept, LocalsGone
  <2>3. PlaceTypes'
    BY <1>3 DEF PollAgain, Fetch, Base, Types, PlaceTypes, FlagTypes, Labels, PollStates
  <2>4. LocalTypes'
    <3>1. /\ goal' = [goal EXCEPT ![t] = "poll"] /\ size' = [size EXCEPT ![t] = n]
          /\ pos' = [pos EXCEPT ![t] = 0] /\ back' = back /\ slot' = slot
      BY <1>3, <2>a DEF PollAgain, Fetch
    <3>2. n \in 0..NThreads
      BY WorkerAssumption
    <3> QED
      BY <3>1, <3>2, Bounds DEF Base, Types, LocalTypes
  <2>5. FlagTypes'
    BY <1>3 DEF PollAgain, Fetch, Base, Types, FlagTypes
  <2> HIDE DEF t
  <2>6. ControlOf(t)'
    BY <2>1, <2>2 DEF ControlOf, Known, TasksStay, LocalsKept, LocalsGone
  <2>7. SizedOf(t)'
    BY <2>1, <2>2, Bounds, WorkerAssumption DEF SizedOf, Known, LocalsKept, LocalsGone
  <2>8. /\ ~Holds(t) /\ ~Runs(t) /\ ~Holds(t)' /\ ~Runs(t)'
    BY <2>1, <2>2 DEF Known, ControlOf, LocalsKept, LocalsGone
  <2>9. (~Busy(t) /\ Busy(t)') /\ (~Waits(t) /\ ~Waits(t)')
    BY <2>1, <2>2, <2>8, WorkerAssumption DEF Busy, Waits, Known, ControlOf
  <2>10. running \in Int /\ waiting \in Int
    BY CountTypes DEF Base
  <2>11. running' = running - One(Busy(t)) + One(Busy(t)')
    BY <2>2, <2>9, <2>10 DEF One
  <2>12. waiting' = waiting - One(t # Main /\ Waits(t)) + One(t # Main /\ Waits(t)')
    BY <2>2, <2>9, <2>10 DEF One
  <2> QED
    BY <2>1, <2>2, <2>3, <2>4, <2>5, <2>6, <2>7, <2>8, <2>11, <2>12, Kept
<1>4. ASSUME NEW t \in Threads, EndPoll(t) PROVE Base'
  <2>1. t \in Threads /\ Known(t)
    BY WhatIsKnown DEF Threads
  <2>2. /\ pc[t] \in {"polled", "missed"} /\ LocalsKept(t)
        /\ \/ t # Main /\ pc'[t] \in {"loop", "delay"}
           \/ t = Main /\ pc'[t] \in {"unregister", "idle"}
           \/ t = Main /\ pc[t] = "missed" /\ pc'[t] = "snapshot"
        /\ running' = running - 1 /\ waiting' = waiting
        /\ TasksStay /\ (terminated => terminated') /\ Others(t)
    BY <1>4, <2>1 DEF EndPoll, AfterPoll, Base, Types, PlaceTypes, LocalTypes, FlagTypes, TasksStay, Others, Keeps, LocalsKept, LocalsGone
  <2>3. PlaceTypes'
    BY <1>4 DEF EndPoll, AfterPoll, Base, Types, PlaceTypes, FlagTypes, Labels, PollStates
  <2>4. LocalTypes'
    BY <1>4, Bounds DEF EndPoll, AfterPoll, Base, Types, LocalTypes
  <2>5. FlagTypes'
    BY <1>4 DEF EndPoll, AfterPoll, Base, Types, FlagTypes
  <2>6. ControlOf(t)'
    BY <2>1, <2>2 DEF ControlOf, Known, TasksStay, LocalsKept, LocalsGone
  <2>7. SizedOf(t)'
    BY <2>1, <2>2, Bounds, WorkerAssumption DEF SizedOf, Known, LocalsKept, LocalsGone
  <2>8. /\ ~Holds(t) /\ ~Runs(t) /\ ~Holds(t)' /\ ~Runs(t)'
    BY <2>1, <2>2 DEF Known, ControlOf, LocalsKept, LocalsGone
  <2>9. (Busy(t) /\ ~Busy(t)') /\ (t # Main => ~Waits(t) /\ ~Waits(t)')
    BY <2>1, <2>2, <2>8, WorkerAssumption DEF Busy, Waits, Known, ControlOf
  <2>10. running \in Int /\ waiting \in Int
    BY CountTypes DEF Base
  <2>11. running' = running - One(Busy(t)) + One(Busy(t)')
    BY <2>2, <2>9, <2>10 DEF One
  <2>12. waiting' = waiting - One(t # Main /\ Waits(t)) + One(t # Main /\ Waits(t)')
    BY <2>2, <2>9, <2>10 DEF One
  <2> QED
    BY <2>1, <2>2, <2>3, <2>4, <2>5, <2>6, <2>7, <2>8, <2>11, <2>12, Kept
<1>5. ASSUME NEW t \in Workers, BeginDelay(t) PROVE Base'
  <2>1. t \in Threads /\ Known(t)
    BY WhatIsKnown DEF Threads
  <2>2. /\ pc[t] = "delay" /\ LocalsGone(t)
        /\ \/ pc'[t] = "loop" /\ waiting' = waiting
           \/ pc'[t] = "snapshot" /\ waiting' = waiting + 1
        /\ running' = running
        /\ TasksStay /\ (terminated => terminated') /\ Others(t)
    BY <1>5, <2>1 DEF BeginDelay, Forget, Base, Types, PlaceTypes, LocalTypes, FlagTypes, TasksStay, Others, Keeps, LocalsKept, LocalsGone
  <2>3. PlaceTypes'
    BY <1>5 DEF BeginDelay, Forget, Base, Types, PlaceTypes, FlagTypes, Labels, PollStates
  <2>4. LocalTypes'
    BY <1>5, Bounds DEF BeginDelay, Forget, Base, Types, LocalTypes
  <2>5. FlagTypes'
    BY <1>5 DEF BeginDelay, Forget, Base, Types, FlagTypes
  <2>6. ControlOf(t)'
    BY <2>1, <2>2 DEF ControlOf, Known, TasksStay, LocalsKept, LocalsGone
  <2>7. SizedOf(t)'
    BY <2>1, <2>2, Bounds, WorkerAssumption DEF SizedOf, Known, LocalsKept, LocalsGone
  <2>8. /\ ~Holds(t) /\ ~Runs(t) /\ ~Holds(t)' /\ ~Runs(t)'
    BY <2>1, <2>2 DEF Known, ControlOf, LocalsKept, LocalsGone
  <2>9. (~Busy(t) /\ ~Busy(t)') /\ (t # Main /\ ~Waits(t) /\ (Waits(t)' <=> pc'[t] = "snapshot"))
    BY <2>1, <2>2, <2>8, WorkerAssumption DEF Busy, Waits, Known, ControlOf
  <2>10. running \in Int /\ waiting \in Int
    BY CountTypes DEF Base
  <2>11. running' = running - One(Busy(t)) + One(Busy(t)')
    BY <2>2, <2>9, <2>10 DEF One
  <2>12. waiting' = waiting - One(t # Main /\ Waits(t)) + One(t # Main /\ Waits(t)')
    BY <2>2, <2>9, <2>10 DEF One
  <2> QED
    BY <2>1, <2>2, <2>3, <2>4, <2>5, <2>6, <2>7, <2>8, <2>11, <2>12, Kept
<1>6. ASSUME NEW t \in Workers, LeaveDelay(t) PROVE Base'
  <2>1. t \in Threads /\ Known(t)
    BY WhatIsKnown DEF Threads
  <2>2. /\ pc[t] = "leave" /\ pc'[t] = "loop" /\ LocalsKept(t)
        /\ running' = running /\ waiting' = waiting - 1
        /\ TasksStay /\ (terminated => terminated') /\ Others(t)
    BY <1>6, <2>1 DEF LeaveDelay, Base, Types, PlaceTypes, LocalTypes, FlagTypes, TasksStay, Others, Keeps, LocalsKept, LocalsGone
  <2>3. PlaceTypes'
    BY <1>6 DEF LeaveDelay, Base, Types, PlaceTypes, FlagTypes, Labels, PollStates
  <2>4. LocalTypes'
    BY <1>6, Bounds DEF LeaveDelay, Base, Types, LocalTypes
  <2>5. FlagTypes'
    BY <1>6 DEF LeaveDelay, Base, Types, FlagTypes
  <2>6. ControlOf(t)'
    BY <2>1, <2>2 DEF ControlOf, Known, TasksStay, LocalsKept, LocalsGone
  <2>7. SizedOf(t)'
    BY <2>1, <2>2, Bounds, WorkerAssumption DEF SizedOf, Known, LocalsKept, LocalsGone
  <2>8. /\ ~Holds(t) /\ ~Runs(t) /\ ~Holds(t)' /\ ~Runs(t)'
    BY <2>1, <2>2 DEF Known, ControlOf, LocalsKept, LocalsGone
  <2>9. (~Busy(t) /\ ~Busy(t)') /\ (t # Main /\ Waits(t) /\ ~Waits(t)')
    BY <2>1, <2>2, <2>8, WorkerAssumption DEF Busy, Waits, Known, ControlOf
  <2>10. running \in Int /\ waiting \in Int
    BY CountTypes DEF Base
  <2>11. running' = running - One(Busy(t)) + One(Busy(t)')
    BY <2>2, <2>9, <2>10 DEF One
  <2>12. waiting' = waiting - One(t # Main /\ Waits(t)) + One(t # Main /\ Waits(t)')
    BY <2>2, <2>9, <2>10 DEF One
  <2> QED
    BY <2>1, <2>2, <2>3, <2>4, <2>5, <2>6, <2>7, <2>8, <2>11, <2>12, Kept
<1> QED
  BY <1>1, <1>2, <1>3, <1>4, <1>5, <1>6 DEF CountingStep

(***************************************************************************)
(* Steps that move tasks between a list and a hand                         *)
(***************************************************************************)
\* Where the tasks of t are.
Held(t) ==
  /\ HandOnce(t) /\ chain[t] \in Seq(Tasks)
  /\ job[t] \in Tasks \cup {None} /\ arg[t] \in Tasks \cup {None}
  /\ \A s \in Slots :
       /\ heads[s] \in Seq(Tasks) /\ Once(heads[s])
       /\ \A j \in Range(heads[s]) : j \notin Hand(t)

\* What the invariant says of the tasks of one thread.
LEMMA WhatIsHeld == ASSUME Base PROVE \A t \in Threads : Held(t)
<1> SUFFICES ASSUME NEW t \in Threads PROVE Held(t)
  OBVIOUS
<1>1. HandOnce(t) /\ \A s \in Slots : Once(heads[s]) /\ \A j \in Range(heads[s]) : j \notin Hand(t)
  BY DEF Base, Placed, HandsOnce, ListsOnce, ListsAndHands
<1>2. /\ chain[t] \in Seq(Tasks) /\ job[t] \in Tasks \cup {None} /\ arg[t] \in Tasks \cup {None}
      /\ \A s \in Slots : heads[s] \in Seq(Tasks)
  BY DEF Base, Types, TaskTypes
<1> QED
  BY <1>1, <1>2 DEF Held

\* A step of t that moves tasks between its hands and a list.
LEMMA Moved ==
  ASSUME Base, NEW t \in Threads, PlaceTypes', LocalTypes', FlagTypes', TaskTypes',
         CountsStay, terminated => terminated', Others(t), ControlOf(t)', SizedOf(t)',
         Runs(t)' <=> Runs(t), Runs(t) => job'[t] = job[t] /\ chain'[t] = chain[t], Busy(t)' <=> Busy(t),
         t # Main => (Waits(t)' <=> Waits(t)),
         NEW s \in Slots, NEW L, heads' = [heads EXCEPT ![s] = L], status' = status,
         Range(L) \cup Hand(t)' = Range(heads[s]) \cup Hand(t),
         Range(L) \cap Hand(t)' = {}, Once(L), HandOnce(t)'
  PROVE  Base'
<1> USE DEF CountsStay, Others
<1>1. Types'
  BY DEF Types
<1>2. Control' /\ Sized'
  BY KeepsControl, KeepsSized DEF Base, Control, Sized
<1>3. \A u \in Threads : /\ Runs(u)' <=> Runs(u)
                         /\ Runs(u) => job'[u] = job[u]
                         /\ Busy(u)' <=> Busy(u)
                         /\ u # Main => (Waits(u)' <=> Waits(u))
  BY KeepsKinds DEF Keeps
<1>4. \A u \in Threads : Counted(u)' <=> Counted(u)
  BY <1>3 DEF Counted
<1>5. Running'
  BY <1>4, RunningKept DEF Base
<1>6. Waiting'
  <2>1. \A u \in Workers : Waits(u)' <=> Waits(u)
    BY <1>3, WorkerAssumption DEF Threads
  <2> QED
    BY <2>1, WaitingKept DEF Base
<1>7. Placed'
  <2>1. heads \in [Slots -> Seq(Tasks)]
    BY DEF Base, Types, TaskTypes
  <2> QED
    BY <2>1, TasksMove DEF Base
<1> QED
  BY <1>1, <1>2, <1>5, <1>6, <1>7 DEF Base

\* The actions that move tasks between a list and a hand.
MovingStep ==
  \/ \E t \in Threads : Chain(t) \/ AppendLast(t) \/ Take(t) \/ PutBack(t) \/ Repush(t)
  \/ DrainTake

\* The actions that move tasks between a list and a hand keep the invariant.
LEMMA MovingSteps == ASSUME Base, MovingStep PROVE Base'
<1> USE DEF Goto, look, local, timing, Holds, Runs, Rechecks, Parks, Polls, CallStates, Asking,
            QueueStates, EndStates, MainStates, TimedStates, DelayStates
<1>1. ASSUME NEW t \in Threads, Chain(t) PROVE Base'
  <2>1. t \in Threads /\ Known(t)
    BY WhatIsKnown
  <2>2. Held(t)
    BY <2>1, WhatIsHeld
  <2>0. PICK d \in 0..(Duplicates - 1) :
          /\ heads' = [heads EXCEPT ![Slot(Priority[arg[t]], d)] =
                          <<arg[t]>> \o heads[Slot(Priority[arg[t]], d)]]
          /\ slot' = [slot EXCEPT ![t] = Slot(Priority[arg[t]], d)]
    BY <1>1 DEF Chain, Push
  <2> DEFINE s == Slot(Priority[arg[t]], d)
             L == <<arg[t]>> \o heads[s]
  <2>3. s \in Slots
    <3>1. arg[t] \in Tasks
      BY <1>1, <2>1, <2>2 DEF Chain, Known, ControlOf, Held
    <3> QED
      BY <3>1, WorkerAssumption DEF Slot, Slots
  <2>4. /\ pc[t] = "chain" /\ pc'[t] = "wake" /\ arg'[t] = None /\ chain'[t] = chain[t] /\ job'[t] = job[t]
        /\ back'[t] = back[t] /\ goal'[t] = goal[t] /\ size'[t] = size[t] /\ pos'[t] = pos[t]
        /\ heads' = [heads EXCEPT ![s] = L] /\ status' = status /\ CountsStay /\ terminated' = terminated
        /\ Others(t)
    BY <1>1, <2>1, <2>0 DEF Chain, Push, SlotOf, Base, Types, TaskTypes, PlaceTypes, LocalTypes, CountsStay, Others, Keeps, LocalsKept, Known
  <2>5. PlaceTypes'
    BY <1>1, <2>1 DEF Chain, Push, Base, Types, PlaceTypes, Labels, PollStates, Known
  <2>6. LocalTypes'
    BY <1>1, <2>1, <2>3, <2>0, Bounds DEF Chain, Push, Base, Types, LocalTypes, Known
  <2>7. FlagTypes'
    BY <1>1 DEF Chain, Push, Base, Types, FlagTypes
  <2> HIDE DEF s, L
  <2>8. ControlOf(t)'
    BY <2>1, <2>2, <2>4 DEF ControlOf, Known, LocalsKept, Held
  <2>9. SizedOf(t)'
    BY <2>1, <2>4 DEF SizedOf, Known, LocalsKept
  <2>10. /\ Runs(t)' <=> Runs(t)
         /\ Runs(t) => job'[t] = job[t] /\ chain'[t] = chain[t]
         /\ Busy(t)' <=> Busy(t)
         /\ t # Main => (Waits(t)' <=> Waits(t))
         /\ ~Holds(t) /\ ~Holds(t)'
    BY <2>1, <2>4 DEF Known, ControlOf, LocalsKept, Busy, Waits
  <2>11. Hand(t) = Range(chain[t]) \cup {arg[t]} /\ Hand(t)' = Range(chain[t]) /\ arg[t] \in Tasks
    BY <2>1, <2>2, <2>4, <2>10, NoList DEF Hand, Pending, Known, ControlOf, Held
  <2>12. /\ L \in Seq(Tasks) /\ Once(L) /\ Range(L) = {arg[t]} \cup Range(heads[s])
         /\ arg[t] \notin Range(chain[t])
    <3>1. arg[t] \notin Range(heads[s]) /\ heads[s] \in Seq(Tasks) /\ Once(heads[s])
      BY <2>2, <2>3, <2>11 DEF Held
    <3>2. arg[t] \notin Range(chain[t])
      BY <2>2, <2>4, <2>10, <2>11, WorkerAssumption DEF Held, HandOnce, Pending
    <3> QED
      BY <2>11, <3>1, <3>2, ListFacts DEF L
  <2>13. HandOnce(t)'
    BY <2>2, <2>4, <2>10, <2>12 DEF Held, HandOnce, Pending, Once
  <2>14. TaskTypes'
    BY <1>1, <2>1, <2>2, <2>3, <2>4, <2>12 DEF Chain, Push, SlotOf, Base, Types, TaskTypes, Held
  <2>15. Range(L) \cup Hand(t)' = Range(heads[s]) \cup Hand(t) /\ Range(L) \cap Hand(t)' = {}
    BY <2>2, <2>3, <2>11, <2>12 DEF Held
  <2> QED
    BY <2>1, <2>3, <2>4, <2>5, <2>6, <2>7, <2>8, <2>9, <2>10, <2>12, <2>13, <2>14, <2>15, Moved
<1>2. ASSUME NEW t \in Threads, AppendLast(t) PROVE Base'
  <2>1. t \in Threads /\ Known(t)
    BY WhatIsKnown
  <2>2. Held(t)
    BY <2>1, WhatIsHeld
  <2> DEFINE s == Slot(0, 0)
             L == <<arg[t]>> \o heads[s]
  <2>3. s \in Slots
    BY Bounds
  <2>4. /\ pc[t] = "append" /\ pc'[t] = back[t] /\ arg'[t] = None /\ chain'[t] = chain[t] /\ job'[t] = job[t]
        /\ LocalsKept(t)
        /\ heads' = [heads EXCEPT ![s] = L] /\ status' = status /\ CountsStay /\ terminated' = terminated
        /\ Others(t)
    BY <1>2, <2>1 DEF AppendLast, Push, SlotOf, Base, Types, TaskTypes, PlaceTypes, LocalTypes, CountsStay, Others, Keeps, LocalsKept, Known
  <2>5. PlaceTypes'
    BY <1>2, <2>1 DEF AppendLast, Push, Base, Types, PlaceTypes, Labels, PollStates, Known
  <2>6. LocalTypes'
    BY <1>2, <2>1, <2>3, Bounds DEF AppendLast, Push, Base, Types, LocalTypes, Known
  <2>7. FlagTypes'
    BY <1>2 DEF AppendLast, Push, Base, Types, FlagTypes
  <2> HIDE DEF s, L
  <2>8. ControlOf(t)'
    BY <2>1, <2>2, <2>4 DEF ControlOf, Known, LocalsKept, Held
  <2>9. SizedOf(t)'
    BY <2>1, <2>4 DEF SizedOf, Known, LocalsKept
  <2>10. /\ Runs(t)' <=> Runs(t)
         /\ Runs(t) => job'[t] = job[t] /\ chain'[t] = chain[t]
         /\ Busy(t)' <=> Busy(t)
         /\ t # Main => (Waits(t)' <=> Waits(t))
         /\ ~Holds(t) /\ ~Holds(t)'
    BY <2>1, <2>4 DEF Known, ControlOf, LocalsKept, Busy, Waits
  <2>11. Hand(t) = Range(chain[t]) \cup {arg[t]} /\ Hand(t)' = Range(chain[t]) /\ arg[t] \in Tasks
    BY <2>1, <2>2, <2>4, <2>10, NoList DEF Hand, Pending, Known, ControlOf, Held
  <2>12. /\ L \in Seq(Tasks) /\ Once(L) /\ Range(L) = {arg[t]} \cup Range(heads[s])
         /\ arg[t] \notin Range(chain[t])
    <3>1. arg[t] \notin Range(heads[s]) /\ heads[s] \in Seq(Tasks) /\ Once(heads[s])
      BY <2>2, <2>3, <2>11 DEF Held
    <3>2. arg[t] \notin Range(chain[t])
      BY <2>2, <2>4, <2>10, <2>11, WorkerAssumption DEF Held, HandOnce, Pending
    <3> QED
      BY <2>11, <3>1, <3>2, ListFacts DEF L
  <2>13. HandOnce(t)'
    BY <2>2, <2>4, <2>10, <2>12 DEF Held, HandOnce, Pending, Once
  <2>14. TaskTypes'
    BY <1>2, <2>1, <2>2, <2>3, <2>4, <2>12 DEF AppendLast, Push, SlotOf, Base, Types, TaskTypes, Held
  <2>15. Range(L) \cup Hand(t)' = Range(heads[s]) \cup Hand(t) /\ Range(L) \cap Hand(t)' = {}
    BY <2>2, <2>3, <2>11, <2>12 DEF Held
  <2> QED
    BY <2>1, <2>3, <2>4, <2>5, <2>6, <2>7, <2>8, <2>9, <2>10, <2>12, <2>13, <2>14, <2>15, Moved
<1>3. ASSUME NEW t \in Threads, Take(t) PROVE Base'
  <2>1. t \in Threads /\ Known(t)
    BY WhatIsKnown
  <2>2. Held(t)
    BY <2>1, WhatIsHeld
  <2> DEFINE s == slot[t]
             L == <<>>
  <2>3. s \in Slots
    BY <2>1 DEF Known
  <2>4. /\ pc[t] = "take" /\ chain'[t] = heads[s] /\ arg'[t] = arg[t] /\ job'[t] = job[t]
        /\ \/ heads[s] = <<>> /\ pc'[t] = "polled"
           \/ heads[s] # <<>> /\ pc'[t] = "putback"
        /\ LocalsKept(t)
        /\ heads' = [heads EXCEPT ![s] = L] /\ status' = status /\ CountsStay /\ terminated' = terminated
        /\ Others(t)
    BY <1>3, <2>1 DEF Take, Exchange, SlotOf, Base, Types, TaskTypes, PlaceTypes, LocalTypes, CountsStay, Others, Keeps, LocalsKept, Known
  <2>5. PlaceTypes'
    BY <1>3, <2>1 DEF Take, Exchange, Base, Types, PlaceTypes, Labels, PollStates, Known
  <2>6. LocalTypes'
    BY <1>3, <2>1, <2>3, Bounds DEF Take, Exchange, Base, Types, LocalTypes, Known
  <2>7. FlagTypes'
    BY <1>3 DEF Take, Exchange, Base, Types, FlagTypes
  <2> HIDE DEF s, L
  <2>8. ControlOf(t)'
    BY <2>1, <2>2, <2>4 DEF ControlOf, Known, LocalsKept, Held
  <2>9. SizedOf(t)'
    BY <2>1, <2>4 DEF SizedOf, Known, LocalsKept
  <2>10. /\ Runs(t)' <=> Runs(t)
         /\ Runs(t) => job'[t] = job[t] /\ chain'[t] = chain[t]
         /\ Busy(t)' <=> Busy(t)
         /\ t # Main => (Waits(t)' <=> Waits(t))
         /\ ~Holds(t) /\ ~Holds(t)'
    BY <2>1, <2>4 DEF Known, ControlOf, LocalsKept, Busy, Waits
  <2>11. Hand(t) = {} /\ Hand(t)' = Range(heads[s])
    BY <2>1, <2>2, <2>4, <2>10, NoList DEF Hand, Pending, Known, ControlOf, Held
  <2>12. L \in Seq(Tasks) /\ Once(L) /\ Range(L) = {}
    BY NoList DEF L
  <2>13. HandOnce(t)'
    BY <2>1, <2>2, <2>3, <2>4, <2>10 DEF Held, HandOnce, Pending, Once, Known, ControlOf
  <2>14. TaskTypes'
    BY <1>3, <2>1, <2>2, <2>3, <2>4, <2>12 DEF Take, Exchange, SlotOf, Base, Types, TaskTypes, Held
  <2>15. Range(L) \cup Hand(t)' = Range(heads[s]) \cup Hand(t) /\ Range(L) \cap Hand(t)' = {}
    BY <2>2, <2>3, <2>11, <2>12 DEF Held
  <2> QED
    BY <2>1, <2>3, <2>4, <2>5, <2>6, <2>7, <2>8, <2>9, <2>10, <2>12, <2>13, <2>14, <2>15, Moved
<1>4. ASSUME NEW t \in Threads, PutBack(t) PROVE Base'
  <2>1. t \in Threads /\ Known(t)
    BY WhatIsKnown
  <2>2. Held(t)
    BY <2>1, WhatIsHeld
  <2> DEFINE s == slot[t]
             L == Tail(chain[t])
  <2>3. s \in Slots
    BY <2>1 DEF Known
  <2>4. /\ pc[t] = "putback" /\ chain'[t] = heads[s] /\ arg'[t] = arg[t] /\ job'[t] = Head(chain[t])
        /\ \/ heads[s] = <<>> /\ pc'[t] = "check"
           \/ heads[s] # <<>> /\ pc'[t] = "repush"
        /\ back'[t] = "start" /\ goal'[t] = goal[t] /\ size'[t] = size[t] /\ pos'[t] = pos[t] /\ slot'[t] = slot[t]
        /\ heads' = [heads EXCEPT ![s] = L] /\ status' = status /\ CountsStay /\ terminated' = terminated
        /\ Others(t)
    BY <1>4, <2>1 DEF PutBack, Exchange, SlotOf, Base, Types, TaskTypes, PlaceTypes, LocalTypes, CountsStay, Others, Keeps, LocalsKept, Known
  <2>5. PlaceTypes'
    BY <1>4, <2>1 DEF PutBack, Exchange, Base, Types, PlaceTypes, Labels, PollStates, Known
  <2>6. LocalTypes'
    BY <1>4, <2>1, <2>3, Bounds DEF PutBack, Exchange, Base, Types, LocalTypes, Known
  <2>7. FlagTypes'
    BY <1>4 DEF PutBack, Exchange, Base, Types, FlagTypes
  <2> HIDE DEF s, L
  <2>h. Head(chain[t]) \in Tasks /\ Head(chain[t]) # None
    <3>1. chain[t] \in Seq(Tasks) /\ Once(chain[t]) /\ chain[t] # <<>>
      BY <2>1, <2>2, <2>4 DEF Known, ControlOf, Held, HandOnce
    <3> QED
      BY <3>1, ListFacts, WorkerAssumption
  <2>8. ControlOf(t)'
    BY <2>1, <2>2, <2>4, <2>h DEF ControlOf, Known, LocalsKept, Held
  <2>9. SizedOf(t)'
    BY <2>1, <2>4 DEF SizedOf, Known, LocalsKept
  <2>10. /\ Runs(t)' <=> Runs(t)
         /\ Runs(t) => job'[t] = job[t] /\ chain'[t] = chain[t]
         /\ Busy(t)' <=> Busy(t)
         /\ t # Main => (Waits(t)' <=> Waits(t))
         /\ ~Holds(t) /\ Holds(t)'
    BY <2>1, <2>4 DEF Known, ControlOf, LocalsKept, Busy, Waits
  <2>11. Hand(t) = Range(chain[t]) /\ Hand(t)' = Range(heads[s]) \cup {Head(chain[t])} /\ chain[t] # <<>>
    BY <2>1, <2>2, <2>4, <2>10, NoList DEF Hand, Pending, Known, ControlOf, Held
  <2>12. /\ L \in Seq(Tasks) /\ Once(L) /\ Range(chain[t]) = {Head(chain[t])} \cup Range(L)
         /\ Head(chain[t]) \notin Range(L) /\ Head(chain[t]) \in Tasks
    BY <2>2, <2>11, ListFacts DEF Held, HandOnce, L
  <2>a. \A j \in Range(heads[s]) : j \notin Range(chain[t])
    BY <2>2, <2>3, <2>11 DEF Held
  <2>13. HandOnce(t)'
    <3>1. arg'[t] = None /\ Holds(t)' /\ job'[t] = Head(chain[t]) /\ chain'[t] = heads[s]
      BY <2>1, <2>4, <2>10 DEF Known, ControlOf
    <3>2. Pending(t)' = {Head(chain[t])}
      BY <3>1, <2>h DEF Pending
    <3>3. Once(chain[t])'
      BY <3>1, <2>2, <2>3 DEF Held, Once
    <3>4. Head(chain[t]) \notin Range(heads[s])
      BY <2>12, <2>a
    <3> QED
      BY <3>1, <3>2, <3>3, <3>4, <2>h DEF HandOnce
  <2>14. TaskTypes'
    BY <1>4, <2>1, <2>2, <2>3, <2>4, <2>12 DEF PutBack, Exchange, SlotOf, Base, Types, TaskTypes, Held
  <2>15. Range(L) \cup Hand(t)' = Range(heads[s]) \cup Hand(t) /\ Range(L) \cap Hand(t)' = {}
    BY <2>2, <2>3, <2>11, <2>12, <2>a DEF Held
  <2> QED
    BY <2>1, <2>3, <2>4, <2>5, <2>6, <2>7, <2>8, <2>9, <2>10, <2>12, <2>13, <2>14, <2>15, Moved
<1>5. ASSUME NEW t \in Threads, Repush(t) PROVE Base'
  <2>1. t \in Threads /\ Known(t)
    BY WhatIsKnown
  <2>2. Held(t)
    BY <2>1, WhatIsHeld
  <2> DEFINE s == slot[t]
             L == <<Head(chain[t])>> \o heads[s]
  <2>3. s \in Slots
    BY <2>1 DEF Known
  <2>4. /\ pc[t] = "repush" /\ chain'[t] = Tail(chain[t]) /\ arg'[t] = arg[t] /\ job'[t] = job[t]
        /\ \/ Tail(chain[t]) = <<>> /\ pc'[t] = "wake"
           \/ Tail(chain[t]) # <<>> /\ pc'[t] = "repush"
        /\ LocalsKept(t)
        /\ heads' = [heads EXCEPT ![s] = L] /\ status' = status /\ CountsStay /\ terminated' = terminated
        /\ Others(t)
    BY <1>5, <2>1 DEF Repush, Push, SlotOf, Base, Types, TaskTypes, PlaceTypes, LocalTypes, CountsStay, Others, Keeps, LocalsKept, Known
  <2>5. PlaceTypes'
    BY <1>5, <2>1 DEF Repush, Push, Base, Types, PlaceTypes, Labels, PollStates, Known
  <2>6. LocalTypes'
    BY <1>5, <2>1, <2>3, Bounds DEF Repush, Push, Base, Types, LocalTypes, Known
  <2>7. FlagTypes'
    BY <1>5 DEF Repush, Push, Base, Types, FlagTypes
  <2> HIDE DEF s, L
  <2>8. ControlOf(t)'
    BY <2>1, <2>2, <2>4 DEF ControlOf, Known, LocalsKept, Held
  <2>9. SizedOf(t)'
    BY <2>1, <2>4 DEF SizedOf, Known, LocalsKept
  <2>10. /\ Runs(t)' <=> Runs(t)
         /\ Runs(t) => job'[t] = job[t] /\ chain'[t] = chain[t]
         /\ Busy(t)' <=> Busy(t)
         /\ t # Main => (Waits(t)' <=> Waits(t))
         /\ Holds(t) /\ Holds(t)'
    BY <2>1, <2>4 DEF Known, ControlOf, LocalsKept, Busy, Waits
  <2>11. Hand(t) = Range(chain[t]) \cup {job[t]} /\ Hand(t)' = Range(Tail(chain[t])) \cup {job[t]} /\ chain[t] # <<>>
    BY <2>1, <2>2, <2>4, <2>10, NoList DEF Hand, Pending, Known, ControlOf, Held
  <2>12. /\ L \in Seq(Tasks) /\ Once(L) /\ Range(L) = {Head(chain[t])} \cup Range(heads[s])
         /\ Range(chain[t]) = {Head(chain[t])} \cup Range(Tail(chain[t])) /\ Once(Tail(chain[t]))
         /\ Head(chain[t]) \notin Range(Tail(chain[t])) /\ Tail(chain[t]) \in Seq(Tasks)
         /\ job[t] \notin Range(chain[t])
    <3>1. /\ Head(chain[t]) \in Tasks /\ Tail(chain[t]) \in Seq(Tasks) /\ Once(Tail(chain[t]))
          /\ Range(chain[t]) = {Head(chain[t])} \cup Range(Tail(chain[t]))
          /\ Head(chain[t]) \notin Range(Tail(chain[t]))
      BY <2>2, <2>11, ListFacts DEF Held, HandOnce
    <3>2. Head(chain[t]) \notin Range(heads[s]) /\ heads[s] \in Seq(Tasks) /\ Once(heads[s])
      BY <2>2, <2>3, <2>11, <3>1 DEF Held
    <3>3. job[t] \notin Range(chain[t])
      BY <2>1, <2>2, <2>4, <2>10 DEF Held, HandOnce, Pending
    <3> QED
      BY <3>1, <3>2, <3>3, ListFacts DEF L
  <2>13. HandOnce(t)'
    BY <2>1, <2>2, <2>4, <2>10, <2>12 DEF Held, HandOnce, Pending, Known, ControlOf
  <2>14. TaskTypes'
    BY <1>5, <2>1, <2>2, <2>3, <2>4, <2>12, ZenonT(40) DEF Repush, Push, SlotOf, Base, Types, TaskTypes, Held
  <2>15. Range(L) \cup Hand(t)' = Range(heads[s]) \cup Hand(t) /\ Range(L) \cap Hand(t)' = {}
    BY <2>2, <2>3, <2>11, <2>12 DEF Held
  <2> QED
    BY <2>1, <2>3, <2>4, <2>5, <2>6, <2>7, <2>8, <2>9, <2>10, <2>12, <2>13, <2>14, <2>15, Moved
<1>6. ASSUME DrainTake PROVE Base'
  <2> DEFINE t == Main
             s == SlotOf(pos[Main])
             L == <<>>
  <2>1. t \in Threads /\ Known(t)
    BY WhatIsKnown DEF Threads
  <2>2. Held(t)
    BY <2>1, WhatIsHeld
  <2>3. s \in Slots
    <3>1. pos[Main] \in 0..(NThreads * Duplicates) /\ pos[Main] < NThreads * Duplicates
      BY <1>6, <2>1 DEF DrainTake, Known
    <3>2. NThreads * Duplicates \in Nat
      BY Bounds
    <3>3. pos[Main] \in 0..(NThreads * Duplicates - 1)
      BY <3>1, <3>2
    <3> QED
      BY <3>3, SlotOfIsIn
  <2>4. /\ pc[t] = "drain" /\ pc'[t] = "drain" /\ chain'[t] = heads[s] /\ arg'[t] = arg[t] /\ job'[t] = job[t] /\ chain[t] = <<>>
        /\ back'[t] = back[t] /\ goal'[t] = goal[t] /\ size'[t] = size[t] /\ slot'[t] = slot[t]
        /\ heads' = [heads EXCEPT ![s] = L] /\ status' = status /\ CountsStay /\ terminated' = terminated
        /\ Others(t)
    BY <1>6, <2>1 DEF DrainTake, Exchange, SlotOf, Base, Types, TaskTypes, PlaceTypes, LocalTypes, CountsStay, Others, Keeps, LocalsKept, Known
  <2>5. PlaceTypes'
    BY <1>6, <2>1 DEF DrainTake, Exchange, Base, Types, PlaceTypes, Labels, PollStates, Known
  <2>6. LocalTypes'
    BY <1>6, <2>1, <2>3, Bounds DEF DrainTake, Exchange, Base, Types, LocalTypes, Known
  <2>7. FlagTypes'
    BY <1>6 DEF DrainTake, Exchange, Base, Types, FlagTypes
  <2> HIDE DEF t
  <2> HIDE DEF s, L
  <2>8. ControlOf(t)'
    BY <2>1, <2>2, <2>4 DEF ControlOf, Known, LocalsKept, Held
  <2>9. SizedOf(t)'
    BY <2>1, <2>4 DEF SizedOf, Known, LocalsKept
  <2>10. /\ Runs(t)' <=> Runs(t)
         /\ Runs(t) => job'[t] = job[t] /\ chain'[t] = chain[t]
         /\ Busy(t)' <=> Busy(t)
         /\ t # Main => (Waits(t)' <=> Waits(t))
         /\ ~Holds(t) /\ ~Holds(t)'
    BY <2>1, <2>4 DEF Known, ControlOf, LocalsKept, Busy, Waits
  <2>11. Hand(t) = {} /\ Hand(t)' = Range(heads[s])
    BY <2>1, <2>2, <2>4, <2>10, NoList DEF Hand, Pending, Known, ControlOf, Held
  <2>12. L \in Seq(Tasks) /\ Once(L) /\ Range(L) = {}
    BY NoList DEF L
  <2>13. HandOnce(t)'
    BY <2>1, <2>2, <2>3, <2>4, <2>10 DEF Held, HandOnce, Pending, Once, Known, ControlOf
  <2>14. TaskTypes'
    BY <1>6, <2>1, <2>2, <2>3, <2>4, <2>12 DEF DrainTake, Exchange, SlotOf, Base, Types, TaskTypes, Held, s, t
  <2>15. Range(L) \cup Hand(t)' = Range(heads[s]) \cup Hand(t) /\ Range(L) \cap Hand(t)' = {}
    BY <2>2, <2>3, <2>11, <2>12 DEF Held
  <2> QED
    BY <2>1, <2>3, <2>4, <2>5, <2>6, <2>7, <2>8, <2>9, <2>10, <2>12, <2>13, <2>14, <2>15, Moved
<1> QED
  BY <1>1, <1>2, <1>3, <1>4, <1>5, <1>6 DEF MovingStep

(***************************************************************************)
(* Steps that change how far a task has got                                *)
(***************************************************************************)
\* A step of t that changes how far task j has got, and may give it to t or take it.
LEMMA StatusMoves ==
  ASSUME Base, NEW t \in Threads, NEW j \in Tasks, NEW v,
         heads' = heads, status' = [status EXCEPT ![j] = v], Others(t), HandOnce(t)', RunsOf(t)',
         Hand(t)' \subseteq Hand(t) \cup {j}, Hand(t) \subseteq Hand(t)' \cup {j},
         j \in Hand(t)' <=> v = "queued",
         \/ status[j] = "new"
         \/ status[j] = "queued" /\ j \in Hand(t)
         \/ Runs(t) /\ job[t] = j,
         v \in {"guest", "draining", "running"} <=> Runs(t)' /\ job'[t] = j,
         Runs(t) /\ job[t] # j <=> Runs(t)' /\ job'[t] # j,
         Runs(t) /\ job[t] # j => job'[t] = job[t]
  PROVE  Placed' /\ \A u \in Threads : Runs(u) /\ job[u] = j => u = t
<1>0. Placed /\ TaskTypes /\ Control
  BY DEF Base, Types
<1> USE <1>0
<1>1. \A u \in Threads \ {t} :
        /\ Hand(u)' = Hand(u) /\ (Holds(u)' <=> Holds(u)) /\ (Runs(u)' <=> Runs(u))
        /\ chain'[u] = chain[u] /\ arg'[u] = arg[u] /\ job'[u] = job[u]
  BY KeepsKinds DEF Others, Keeps
<1>2. status'[j] = v /\ \A k \in Tasks \ {j} : status'[k] = status[k]
  BY DEF TaskTypes
<1>3. \A u \in Threads \ {t} : Runs(u) => job[u] # j
  <2> SUFFICES ASSUME NEW u \in Threads \ {t}, Runs(u), job[u] = j PROVE FALSE
    OBVIOUS
  <2>1. status[j] \in {"guest", "draining", "running"}
    BY DEF Placed, JobsRun, RunsOf
  <2>2. Runs(t) /\ job[t] = j
    BY <2>1
  <2> QED
    BY <2>2 DEF Placed, JobsOnce
<1>4. \A u \in Threads \ {t} : j \notin Hand(u)
  <2>1. status[j] = "queued" /\ j \in Hand(t) => \A u \in Threads \ {t} : j \notin Hand(u)
    BY DEF Placed, HandsApart
  <2>2. status[j] # "queued" => \A u \in Threads : j \notin Hand(u)
    BY DEF Placed, QueuedThere
  <2>3. Runs(t) /\ job[t] = j => status[j] # "queued"
    BY DEF Placed, JobsRun, RunsOf
  <2> QED
    BY <2>1, <2>2, <2>3
<1>5. \A s \in Slots : j \notin Range(heads[s])
  <2>1. status[j] = "queued" /\ j \in Hand(t) => \A s \in Slots : j \notin Range(heads[s])
    BY DEF Placed, ListsAndHands
  <2>2. status[j] # "queued" => \A s \in Slots : j \notin Range(heads[s])
    BY DEF Placed, QueuedThere
  <2>3. Runs(t) /\ job[t] = j => status[j] # "queued"
    BY DEF Placed, JobsRun, RunsOf
  <2> QED
    BY <2>1, <2>2, <2>3
<1>6. ListsOnce' /\ ListsApart'
  BY DEF Placed, ListsOnce, ListsApart
<1>7. HandsOnce'
  <2> SUFFICES ASSUME NEW u \in Threads \ {t} PROVE HandOnce(u)'
    BY DEF HandsOnce
  <2>1. HandOnce(u) /\ Pending(u)' = Pending(u)
    BY <1>1 DEF Placed, HandsOnce, Pending
  <2> QED
    BY <1>1, <2>1 DEF HandOnce, Once
<1>8. HandsApart'
  <2>1. \A u \in Threads \ {t} : Hand(u) \cap Hand(t)' = {}
    BY <1>4 DEF Placed, HandsApart
  <2> QED
    BY <1>1, <2>1 DEF Placed, HandsApart
<1>9. ListsAndHands'
  <2>1. \A s \in Slots : Range(heads[s]) \cap Hand(t)' = {}
    BY <1>5 DEF Placed, ListsAndHands
  <2> QED
    BY <1>1, <2>1 DEF Placed, ListsAndHands
<1>10. QueuedThere'
  <2> SUFFICES ASSUME NEW k \in Tasks
               PROVE  (status'[k] = "queued" <=> \/ \E s \in Slots : k \in Range(heads[s])
                                                \/ \E u \in Threads : k \in Hand(u)')
    BY DEF QueuedThere
  <2>1. CASE k = j
    BY <1>1, <1>2, <1>4, <1>5, <2>1
  <2>2. CASE k # j
    <3>1. status[k] = "queued" <=> \/ \E s \in Slots : k \in Range(heads[s])
                                  \/ \E u \in Threads : k \in Hand(u)
      BY DEF Placed, QueuedThere
    <3>2. k \in Hand(t)' <=> k \in Hand(t)
      BY <2>2
    <3> QED
      BY <1>1, <1>2, <2>2, <3>1, <3>2
  <2> QED
    BY <2>1, <2>2
<1>11. JobsRun'
  <2> SUFFICES ASSUME NEW u \in Threads \ {t} PROVE RunsOf(u)'
    BY DEF JobsRun
  <2>1. RunsOf(u) /\ (Runs(u) => job[u] \in Tasks /\ job[u] # j)
    <3>1. Runs(u) => status[job[u]] \in {"guest", "draining", "running"} /\ job[u] \in Tasks \cup {None}
      BY DEF Placed, JobsRun, RunsOf, TaskTypes
    <3>2. Runs(u) => job[u] # None
      BY DEF Control, ControlOf
    <3> QED
      BY <1>3, <3>1, <3>2 DEF Placed, JobsRun
  <2> QED
    BY <1>1, <1>2, <2>1 DEF RunsOf
<1>12. JobsOnce'
  BY <1>1, <1>3 DEF Placed, JobsOnce
<1>13. RunByOne'
  <2> SUFFICES ASSUME NEW k \in Tasks, status'[k] \in {"guest", "draining", "running"}
               PROVE  \E u \in Threads : Runs(u)' /\ job'[u] = k
    BY DEF RunByOne
  <2>1. CASE k = j
    BY <1>2, <2>1
  <2>2. CASE k # j
    <3>1. PICK u \in Threads : Runs(u) /\ job[u] = k
      BY <1>2, <2>2 DEF Placed, RunByOne
    <3> QED
      BY <1>1, <2>2, <3>1
  <2> QED
    BY <2>1, <2>2
<1> QED
  BY <1>3, <1>6, <1>7, <1>8, <1>9, <1>10, <1>11, <1>12, <1>13 DEF Placed

\* A step of t that changes the status of a task only t may run.
LEMMA Changed ==
  ASSUME Base, NEW t \in Threads, PlaceTypes', LocalTypes', FlagTypes', TaskTypes',
         CountsStay, terminated' = terminated, Others(t), ControlOf(t)', SizedOf(t)',
         Counted(t)' <=> Counted(t), t # Main => (Waits(t)' <=> Waits(t)),
         NEW j \in Tasks, NEW v, status' = [status EXCEPT ![j] = v],
         Placed', \A u \in Threads : Runs(u) /\ job[u] = j => u = t
  PROVE  Base'
<1> USE DEF CountsStay, Others
<1>1. Types'
  BY DEF Types
<1>2. Control' /\ Sized'
  BY KeepsControl, KeepsSized DEF Base, Control, Sized
<1>3. \A u \in Threads \ {t} : Counted(u)' <=> Counted(u)
  <2> SUFFICES ASSUME NEW u \in Threads \ {t} PROVE Counted(u)' <=> Counted(u)
    OBVIOUS
  <2>1. (Runs(u)' <=> Runs(u)) /\ (Busy(u)' <=> Busy(u)) /\ job'[u] = job[u]
    BY KeepsKinds DEF Keeps
  <2>2. Runs(u) => job[u] \in Tasks /\ job[u] # j
    BY DEF Base, Control, ControlOf, Types, TaskTypes
  <2>3. Runs(u) => status'[job[u]] = status[job[u]]
    BY <2>2 DEF Base, Types, TaskTypes
  <2> QED
    BY <2>1, <2>3 DEF Counted
<1>4. Running'
  <2>1. \A u \in Threads : Counted(u)' <=> Counted(u)
    BY <1>3
  <2> QED
    BY <2>1, RunningKept DEF Base
<1>5. Waiting'
  <2>1. \A u \in Workers : Waits(u)' <=> Waits(u)
    BY KeepsKinds, WorkerAssumption DEF Threads
  <2> QED
    BY <2>1, WaitingKept DEF Base
<1> QED
  BY <1>1, <1>2, <1>4, <1>5 DEF Base

\* What the invariant says of the task that a thread runs.
LEMMA JobFacts == ASSUME Base PROVE \A t \in Threads : RunsOf(t)
BY DEF Base, Placed, JobsRun

\* The actions that change how far a task has got.
StatusStep ==
  \/ \E t \in Threads : (\E j \in Tasks : QueueTask(t, j)) \/ StartTask(t) \/ EndTask(t)
  \/ DrainTask

\* The actions that queue, start or end a task keep the invariant.
LEMMA StatusSteps == ASSUME Base, StatusStep PROVE Base'
<1> USE DEF Goto, look, local, timing, Holds, Runs, Rechecks, Parks, Polls, CallStates, Asking,
            QueueStates, EndStates, MainStates, TimedStates, DelayStates
<1>1. ASSUME NEW t \in Threads, NEW j \in Tasks, QueueTask(t, j) PROVE Base'
  <2>1. t \in Threads /\ Known(t) /\ Held(t)
    BY WhatIsKnown, WhatIsHeld DEF Threads
  <2>2. j \in Tasks /\ j # None
    BY WorkerAssumption
  <2> DEFINE v == "queued"
  <2>3. /\ pc[t] \in {"idle", "body"} /\ pc'[t] = "queue" /\ back'[t] = pc[t] /\ status[j] = "new"
        /\ arg'[t] = j /\ chain'[t] = chain[t] /\ job'[t] = job[t]
        /\ goal'[t] = goal[t] /\ size'[t] = size[t] /\ pos'[t] = pos[t] /\ slot'[t] = slot[t]
        /\ heads' = heads /\ status' = [status EXCEPT ![j] = v] /\ CountsStay /\ terminated' = terminated /\ Others(t)
    BY <1>1, <2>1 DEF QueueTask, InClient, Base, Types, TaskTypes, PlaceTypes, LocalTypes, CountsStay, Others, Keeps, LocalsKept, LocalsGone
  <2>4. v \in {"queued", "running", "guest", "draining", "done"}
    OBVIOUS
  <2>5. PlaceTypes'
    BY <1>1, <2>1 DEF QueueTask, InClient, Base, Types, PlaceTypes, Labels, PollStates
  <2>6. LocalTypes'
    BY <1>1, Bounds DEF QueueTask, InClient, Base, Types, LocalTypes
  <2>7. FlagTypes' /\ TaskTypes'
    <3>1. FlagTypes'
      BY <1>1 DEF QueueTask, InClient, Base, Types, FlagTypes
    <3>2. TaskTypes'
      BY <1>1, <2>1, <2>2 DEF QueueTask, InClient, Base, Types, TaskTypes
    <3> QED
      BY <3>1, <3>2
  <2> HIDE DEF v
  <2>8. Hand(t) = Range(chain[t]) /\ Hand(t)' = Range(chain[t]) \cup {j} /\ ~Holds(t) /\ ~Holds(t)' /\ (Runs(t)' <=> Runs(t))
    BY <2>1, <2>2, <2>3, NoList DEF Hand, Pending, Known, ControlOf, Held, LocalsKept, LocalsGone
  <2>a. /\ RunsOf(t) /\ (Runs(t) => job[t] \in Tasks)
        /\ status'[j] = v /\ \A k \in Tasks \ {j} : status'[k] = status[k]
    BY <2>1, <2>2, <2>3, JobFacts DEF Known, ControlOf, Held, Base, Types, TaskTypes
  <2>9. j \notin Hand(t) /\ (Runs(t) => job[t] # j)
    BY <2>1, <2>2, <2>3, <2>a DEF Base, Placed, QueuedThere, RunsOf
  <2>10. ControlOf(t)'
    BY <2>1, <2>2, <2>3, <2>8, <2>9, <2>a DEF ControlOf, Known, RunsOf, LocalsKept, LocalsGone
  <2>11. SizedOf(t)'
    BY <2>1, <2>3 DEF SizedOf, Known, LocalsKept, LocalsGone
  <2> HIDE DEF Holds, Runs
  <2>12. HandOnce(t)'
    <3>1. Pending(t)' = {j}
      BY <2>2, <2>3, <2>8 DEF Pending
    <3>2. Once(chain'[t]) /\ j \notin Range(chain'[t])
      BY <2>1, <2>3, <2>8, <2>9 DEF Held, HandOnce, Once
    <3> QED
      BY <2>8, <3>1, <3>2 DEF HandOnce, Once
  <2>13. RunsOf(t)'
    BY <2>3, <2>8, <2>9, <2>a DEF RunsOf, v
  <2>14. Placed' /\ \A u \in Threads : Runs(u) /\ job[u] = j => u = t
    <3>1. /\ Hand(t)' \subseteq Hand(t) \cup {j} /\ Hand(t) \subseteq Hand(t)' \cup {j}
          /\ j \in Hand(t)' <=> v = "queued"
      BY <2>2, <2>8, <2>9 DEF v
    <3>2. /\ \/ status[j] = "new"
             \/ status[j] = "queued" /\ j \in Hand(t)
             \/ Runs(t) /\ job[t] = j
          /\ v \in {"guest", "draining", "running"} <=> Runs(t)' /\ job'[t] = j
          /\ Runs(t) /\ job[t] # j <=> Runs(t)' /\ job'[t] # j
          /\ Runs(t) /\ job[t] # j => job'[t] = job[t]
      BY <2>2, <2>3, <2>8, <2>9 DEF v
    <3> QED
      BY <2>1, <2>2, <2>3, <2>12, <2>13, <3>1, <3>2, StatusMoves
  <2>15. (Counted(t)' <=> Counted(t)) /\ (t # Main => (Waits(t)' <=> Waits(t)))
    BY <2>2, <2>3, <2>8, <2>9, <2>a DEF Counted, Busy, Waits, v
  <2>16. status' = [status EXCEPT ![j] = v] /\ CountsStay /\ terminated' = terminated /\ Others(t)
    BY <2>3
  <2> QED
    BY <2>1, <2>2, <2>16, <2>5, <2>6, <2>7, <2>10, <2>11, <2>14, <2>15, Changed
<1>2. ASSUME NEW t \in Threads, StartTask(t) PROVE Base'
  <2>1. t \in Threads /\ Known(t) /\ Held(t)
    BY WhatIsKnown, WhatIsHeld DEF Threads
  <2> DEFINE j == job[t]
  <2>2. j \in Tasks /\ j # None
    BY <1>2, <2>1, WorkerAssumption DEF StartTask, Known, ControlOf, Held
  <2> DEFINE v == IF t = Main THEN "guest" ELSE "running"
  <2>3. /\ pc[t] = "start" /\ pc'[t] = "body" /\ LocalsGone(t)
        /\ arg'[t] = arg[t] /\ chain'[t] = chain[t] /\ job'[t] = job[t]
        /\ heads' = heads /\ status' = [status EXCEPT ![j] = v] /\ CountsStay /\ terminated' = terminated /\ Others(t)
    BY <1>2, <2>1 DEF StartTask, Forget, Base, Types, TaskTypes, PlaceTypes, LocalTypes, CountsStay, Others, Keeps, LocalsKept, LocalsGone
  <2>4. v \in {"queued", "running", "guest", "draining", "done"}
    OBVIOUS
  <2>5. PlaceTypes'
    BY <1>2, <2>1 DEF StartTask, Forget, Base, Types, PlaceTypes, Labels, PollStates
  <2>6. LocalTypes'
    BY <1>2, Bounds DEF StartTask, Forget, Base, Types, LocalTypes
  <2>7. FlagTypes' /\ TaskTypes'
    <3>1. FlagTypes'
      BY <1>2 DEF StartTask, Forget, Base, Types, FlagTypes
    <3>2. TaskTypes'
      BY <1>2, <2>1, <2>2 DEF StartTask, Forget, Base, Types, TaskTypes
    <3> QED
      BY <3>1, <3>2
  <2> HIDE DEF v, j
  <2>8. Hand(t) = {j} /\ Hand(t)' = {} /\ Holds(t) /\ ~Holds(t)' /\ ~Runs(t) /\ Runs(t)' /\ chain[t] = <<>>
    BY <2>1, <2>2, <2>3, NoList DEF Hand, Pending, Known, ControlOf, Held, LocalsKept, LocalsGone, j
  <2>a. /\ RunsOf(t) /\ (Runs(t) => job[t] \in Tasks)
        /\ status'[j] = v /\ \A k \in Tasks \ {j} : status'[k] = status[k]
    BY <2>1, <2>2, <2>3, JobFacts DEF Known, ControlOf, Held, Base, Types, TaskTypes
  <2>9. status[j] = "queued"
    BY <2>1, <2>2, <2>8 DEF Base, Placed, QueuedThere
  <2>10. ControlOf(t)'
    BY <2>1, <2>2, <2>3, <2>8, <2>9, <2>a DEF ControlOf, Known, RunsOf, LocalsKept, LocalsGone, j
  <2>11. SizedOf(t)'
    BY <2>1, <2>3 DEF SizedOf, Known, LocalsKept, LocalsGone
  <2> HIDE DEF Holds, Runs
  <2>12. HandOnce(t)'
    BY <2>1, <2>2, <2>3, <2>8, <2>9 DEF HandOnce, Held, Pending, Hand, Known, ControlOf, Once
  <2>13. RunsOf(t)'
    BY <2>3, <2>8, <2>9, <2>a DEF RunsOf, v, j
  <2>14. Placed' /\ \A u \in Threads : Runs(u) /\ job[u] = j => u = t
    <3>1. /\ Hand(t)' \subseteq Hand(t) \cup {j} /\ Hand(t) \subseteq Hand(t)' \cup {j}
          /\ j \in Hand(t)' <=> v = "queued"
      BY <2>2, <2>8, <2>9 DEF v
    <3>2. /\ \/ status[j] = "new"
             \/ status[j] = "queued" /\ j \in Hand(t)
             \/ Runs(t) /\ job[t] = j
          /\ v \in {"guest", "draining", "running"} <=> Runs(t)' /\ job'[t] = j
          /\ Runs(t) /\ job[t] # j <=> Runs(t)' /\ job'[t] # j
          /\ Runs(t) /\ job[t] # j => job'[t] = job[t]
      BY <2>2, <2>3, <2>8, <2>9 DEF v, j
    <3> QED
      BY <2>1, <2>2, <2>3, <2>12, <2>13, <3>1, <3>2, StatusMoves
  <2>15. (Counted(t)' <=> Counted(t)) /\ (t # Main => (Waits(t)' <=> Waits(t)))
    BY <2>2, <2>3, <2>8, <2>9, <2>a DEF Counted, Busy, Waits, v, j
  <2>16. status' = [status EXCEPT ![j] = v] /\ CountsStay /\ terminated' = terminated /\ Others(t)
    BY <2>3
  <2> QED
    BY <2>1, <2>2, <2>16, <2>5, <2>6, <2>7, <2>10, <2>11, <2>14, <2>15, Changed
<1>3. ASSUME NEW t \in Threads, EndTask(t) PROVE Base'
  <2>1. t \in Threads /\ Known(t) /\ Held(t)
    BY WhatIsKnown, WhatIsHeld DEF Threads
  <2> DEFINE j == job[t]
  <2>2. j \in Tasks /\ j # None
    BY <1>3, <2>1, WorkerAssumption DEF EndTask, Known, ControlOf, Held
  <2> DEFINE v == "done"
  <2>3. /\ pc[t] = "body" /\ pc'[t] = (IF status[j] = "draining" THEN "drain" ELSE "polled") /\ LocalsKept(t)
        /\ arg'[t] = arg[t] /\ chain'[t] = chain[t] /\ job'[t] = None
        /\ heads' = heads /\ status' = [status EXCEPT ![j] = v] /\ CountsStay /\ terminated' = terminated /\ Others(t)
    BY <1>3, <2>1 DEF EndTask, Base, Types, TaskTypes, PlaceTypes, LocalTypes, CountsStay, Others, Keeps, LocalsKept, LocalsGone
  <2>4. v \in {"queued", "running", "guest", "draining", "done"}
    OBVIOUS
  <2>5. PlaceTypes'
    BY <1>3, <2>1 DEF EndTask, Base, Types, PlaceTypes, Labels, PollStates
  <2>6. LocalTypes'
    BY <1>3, Bounds DEF EndTask, Base, Types, LocalTypes
  <2>7. FlagTypes' /\ TaskTypes'
    <3>1. FlagTypes'
      BY <1>3 DEF EndTask, Base, Types, FlagTypes
    <3>2. TaskTypes'
      BY <1>3, <2>1, <2>2 DEF EndTask, Base, Types, TaskTypes
    <3> QED
      BY <3>1, <3>2
  <2> HIDE DEF v, j
  <2>8. Hand(t) = Range(chain[t]) /\ Hand(t)' = Range(chain[t]) /\ ~Holds(t) /\ ~Holds(t)' /\ Runs(t) /\ ~Runs(t)' 
    BY <2>1, <2>2, <2>3, NoList DEF Hand, Pending, Known, ControlOf, Held, LocalsKept, LocalsGone, j
  <2>a. /\ RunsOf(t) /\ (Runs(t) => job[t] \in Tasks)
        /\ status'[j] = v /\ \A k \in Tasks \ {j} : status'[k] = status[k]
    BY <2>1, <2>2, <2>3, JobFacts DEF Known, ControlOf, Held, Base, Types, TaskTypes
  <2>9. j \notin Hand(t) /\ status[j] # "queued"
    BY <2>1, <2>2, <2>8, <2>a DEF Base, Placed, QueuedThere, RunsOf, j
  <2>10. ControlOf(t)'
    BY <2>1, <2>2, <2>3, <2>8, <2>9, <2>a DEF ControlOf, Known, RunsOf, LocalsKept, LocalsGone, j
  <2>11. SizedOf(t)'
    BY <2>1, <2>3 DEF SizedOf, Known, LocalsKept, LocalsGone
  <2> HIDE DEF Holds, Runs
  <2>12. HandOnce(t)'
    BY <2>1, <2>2, <2>3, <2>8, <2>9 DEF HandOnce, Held, Pending, Hand, Known, ControlOf, Once
  <2>13. RunsOf(t)'
    BY <2>3, <2>8, <2>9, <2>a DEF RunsOf, v, j
  <2>14. Placed' /\ \A u \in Threads : Runs(u) /\ job[u] = j => u = t
    <3>1. /\ Hand(t)' \subseteq Hand(t) \cup {j} /\ Hand(t) \subseteq Hand(t)' \cup {j}
          /\ j \in Hand(t)' <=> v = "queued"
      BY <2>2, <2>8, <2>9 DEF v
    <3>2. /\ \/ status[j] = "new"
             \/ status[j] = "queued" /\ j \in Hand(t)
             \/ Runs(t) /\ job[t] = j
          /\ v \in {"guest", "draining", "running"} <=> Runs(t)' /\ job'[t] = j
          /\ Runs(t) /\ job[t] # j <=> Runs(t)' /\ job'[t] # j
          /\ Runs(t) /\ job[t] # j => job'[t] = job[t]
      BY <2>2, <2>3, <2>8, <2>9 DEF v, j
    <3> QED
      BY <2>1, <2>2, <2>3, <2>12, <2>13, <3>1, <3>2, StatusMoves
  <2>15. (Counted(t)' <=> Counted(t)) /\ (t # Main => (Waits(t)' <=> Waits(t)))
    BY <2>2, <2>3, <2>8, <2>9, <2>a DEF Counted, Busy, Waits, v, j
  <2>16. status' = [status EXCEPT ![j] = v] /\ CountsStay /\ terminated' = terminated /\ Others(t)
    BY <2>3
  <2> QED
    BY <2>1, <2>2, <2>16, <2>5, <2>6, <2>7, <2>10, <2>11, <2>14, <2>15, Changed
<1>4. ASSUME DrainTask PROVE Base'
  <2> DEFINE t == Main
  <2>1. t \in Threads /\ Known(t) /\ Held(t)
    BY WhatIsKnown, WhatIsHeld DEF Threads
  <2> DEFINE j == Head(chain[t])
  <2>b. /\ j \in Tasks /\ Tail(chain[t]) \in Seq(Tasks) /\ Once(Tail(chain[t]))
        /\ Range(chain[t]) = {j} \cup Range(Tail(chain[t])) /\ j \notin Range(Tail(chain[t]))
    <3>1. chain[t] \in Seq(Tasks) /\ Once(chain[t]) /\ chain[t] # <<>>
      BY <1>4, <2>1 DEF DrainTask, Held, HandOnce
    <3> QED
      BY <3>1, ListFacts
  <2>2. j \in Tasks /\ j # None
    BY <1>4, <2>1, <2>b, WorkerAssumption DEF DrainTask, Known, ControlOf, Held
  <2> DEFINE v == "draining"
  <2>3. /\ pc[t] = "drain" /\ pc'[t] = "body" /\ chain[t] # <<>> /\ LocalsKept(t)
        /\ arg'[t] = arg[t] /\ chain'[t] = Tail(chain[t]) /\ job'[t] = j
        /\ heads' = heads /\ status' = [status EXCEPT ![j] = v] /\ CountsStay /\ terminated' = terminated /\ Others(t)
    BY <1>4, <2>1 DEF DrainTask, Base, Types, TaskTypes, PlaceTypes, LocalTypes, CountsStay, Others, Keeps, LocalsKept, LocalsGone
  <2>4. v \in {"queued", "running", "guest", "draining", "done"}
    OBVIOUS
  <2>5. PlaceTypes'
    BY <1>4, <2>1 DEF DrainTask, Base, Types, PlaceTypes, Labels, PollStates
  <2>6. LocalTypes'
    BY <1>4, Bounds DEF DrainTask, Base, Types, LocalTypes
  <2>7. FlagTypes' /\ TaskTypes'
    <3>1. FlagTypes'
      BY <1>4 DEF DrainTask, Base, Types, FlagTypes
    <3>2. TaskTypes'
      BY <1>4, <2>1, <2>2, <2>b DEF DrainTask, Base, Types, TaskTypes
    <3> QED
      BY <3>1, <3>2
  <2> HIDE DEF v, j, t
  <2>8. Hand(t) = Range(chain[t]) /\ Hand(t)' = Range(Tail(chain[t])) /\ ~Holds(t) /\ ~Holds(t)' /\ ~Runs(t) /\ Runs(t)' 
    BY <2>1, <2>2, <2>3, NoList DEF Hand, Pending, Known, ControlOf, Held, LocalsKept, LocalsGone, j
  <2>a. /\ RunsOf(t) /\ (Runs(t) => job[t] \in Tasks)
        /\ status'[j] = v /\ \A k \in Tasks \ {j} : status'[k] = status[k]
    BY <2>1, <2>2, <2>3, JobFacts DEF Known, ControlOf, Held, Base, Types, TaskTypes
  <2>9. status[j] = "queued"
    BY <2>1, <2>2, <2>8, <2>b DEF Base, Placed, QueuedThere
  <2>10. ControlOf(t)'
    BY <2>1, <2>2, <2>3, <2>8, <2>9, <2>a, <2>b DEF ControlOf, Known, RunsOf, LocalsKept, LocalsGone
  <2>11. SizedOf(t)'
    BY <2>1, <2>3 DEF SizedOf, Known, LocalsKept, LocalsGone
  <2> HIDE DEF Holds, Runs
  <2>12. HandOnce(t)'
    BY <2>1, <2>2, <2>3, <2>8, <2>9, <2>b DEF HandOnce, Held, Pending, Hand, Known, ControlOf, Once
  <2>13. RunsOf(t)'
    BY <2>3, <2>8, <2>9, <2>a DEF RunsOf, v, t
  <2>14. Placed' /\ \A u \in Threads : Runs(u) /\ job[u] = j => u = t
    <3>1. /\ Hand(t)' \subseteq Hand(t) \cup {j} /\ Hand(t) \subseteq Hand(t)' \cup {j}
          /\ j \in Hand(t)' <=> v = "queued"
      BY <2>2, <2>8, <2>9, <2>b DEF v
    <3>2. /\ \/ status[j] = "new"
             \/ status[j] = "queued" /\ j \in Hand(t)
             \/ Runs(t) /\ job[t] = j
          /\ v \in {"guest", "draining", "running"} <=> Runs(t)' /\ job'[t] = j
          /\ Runs(t) /\ job[t] # j <=> Runs(t)' /\ job'[t] # j
          /\ Runs(t) /\ job[t] # j => job'[t] = job[t]
      BY <2>2, <2>3, <2>8, <2>9, <2>b DEF v
    <3> QED
      BY <2>1, <2>2, <2>3, <2>12, <2>13, <3>1, <3>2, StatusMoves
  <2>15. (Counted(t)' <=> Counted(t)) /\ (t # Main => (Waits(t)' <=> Waits(t)))
    BY <2>2, <2>3, <2>8, <2>9, <2>a DEF Counted, Busy, Waits, v
  <2>16. status' = [status EXCEPT ![j] = v] /\ CountsStay /\ terminated' = terminated /\ Others(t)
    BY <2>3
  <2> QED
    BY <2>1, <2>2, <2>16, <2>5, <2>6, <2>7, <2>10, <2>11, <2>14, <2>15, Changed
<1> QED
  BY <1>1, <1>2, <1>3, <1>4 DEF StatusStep

(***************************************************************************)
(* The invariant holds                                                     *)
(***************************************************************************)
\* One try of queue_task: the slot is empty, or the next one is tried.
LEMMA TryStep == ASSUME Base, NEW t \in Threads, TrySlot(t) PROVE Base'
<1> USE DEF Goto, look, local, timing, Holds, Runs, Rechecks, Parks, Polls, CallStates, Asking,
            QueueStates, EndStates, MainStates, TimedStates, DelayStates
<1> DEFINE s == Slot(Priority[arg[t]], (pos[t] + Index(t)) % Duplicates)
           L == <<arg[t]>>
<1>1. Known(t) /\ Held(t)
  BY WhatIsKnown, WhatIsHeld
<1>2. arg[t] \in Tasks /\ pc[t] = "try" /\ pos[t] < Duplicates /\ pos[t] \in Nat /\ Duplicates \in Nat
  BY <1>1, Bounds, WorkerAssumption DEF TrySlot, Known, ControlOf, SizedOf, Held
<1>3. s \in Slots
  <2>1. Index(t) \in Nat
    BY WorkerAssumption DEF Index, Threads, Workers
  <2>2. pos[t] + Index(t) \in Nat
    BY <1>2, <2>1
  <2>3. Priority[arg[t]] \in Priorities
    BY <1>2, WorkerAssumption
  <2> QED
    BY <2>2, <2>3, SlotIsIn
<1>4. FlagTypes'
  BY DEF TrySlot, Base, Types, FlagTypes
<1>5. CASE heads[s] = <<>>
  <2>1. /\ pc'[t] = "wake" /\ arg'[t] = None /\ chain'[t] = chain[t] /\ job'[t] = job[t]
        /\ back'[t] = back[t] /\ goal'[t] = goal[t] /\ size'[t] = size[t] /\ pos'[t] = pos[t]
        /\ heads' = [heads EXCEPT ![s] = L] /\ status' = status /\ CountsStay /\ terminated' = terminated
        /\ Others(t)
    BY <1>5 DEF TrySlot, Exchange, Base, Types, TaskTypes, PlaceTypes, LocalTypes, CountsStay, Others, Keeps
  <2>2. PlaceTypes'
    BY <1>5 DEF TrySlot, Base, Types, PlaceTypes, Labels
  <2>3. LocalTypes'
    <3>1. slot' = [slot EXCEPT ![t] = s] /\ UNCHANGED <<back, goal, size, pos>>
      BY <1>5 DEF TrySlot
    <3> HIDE DEF s
    <3> QED
      BY <3>1, <1>3 DEF Base, Types, LocalTypes
  <2> HIDE DEF s, L
  <2>4. ControlOf(t)'
    BY <1>1, <1>2, <2>1 DEF ControlOf, Known, Held
  <2>5. SizedOf(t)'
    BY <1>2, <2>1 DEF SizedOf
  <2>6. /\ Runs(t)' <=> Runs(t)
        /\ Runs(t) => job'[t] = job[t] /\ chain'[t] = chain[t]
        /\ Busy(t)' <=> Busy(t)
        /\ t # Main => (Waits(t)' <=> Waits(t))
        /\ ~Holds(t) /\ ~Holds(t)'
    BY <1>1, <1>2, <2>1 DEF Known, ControlOf, Busy, Waits
  <2>7. Hand(t) = Range(chain[t]) \cup {arg[t]} /\ Hand(t)' = Range(chain[t])
    BY <1>2, <2>1, <2>6, WorkerAssumption DEF Hand, Pending
  <2>8. L \in Seq(Tasks) /\ Once(L) /\ Range(L) = {arg[t]}
    BY <1>2, NoList DEF L
  <2>9. HandOnce(t)' /\ arg[t] \notin Range(chain[t])
    BY <1>1, <1>2, <2>1, <2>6, WorkerAssumption DEF Held, HandOnce, Pending, Once
  <2>10. TaskTypes'
    <3>1. heads' = [heads EXCEPT ![s] = L] /\ arg' = [arg EXCEPT ![t] = None] /\ UNCHANGED <<chain, job, status>>
      BY <1>5 DEF TrySlot, Exchange, s, L
    <3> QED
      BY <1>3, <2>8, <3>1 DEF Base, Types, TaskTypes
  <2>11. Range(heads[s]) = {}
    BY <1>5, NoList
  <2>12. Range(L) \cup Hand(t)' = Range(heads[s]) \cup Hand(t) /\ Range(L) \cap Hand(t)' = {}
    BY <2>7, <2>8, <2>9, <2>11
  <2> QED
    BY <1>3, <1>4, <2>1, <2>2, <2>3, <2>4, <2>5, <2>6, <2>8, <2>9, <2>10, <2>12, Moved
<1>6. CASE heads[s] # <<>>
  <2>1. /\ \/ pos[t] + 1 < Duplicates /\ pc'[t] = "try"
           \/ pc'[t] = "chain"
        /\ pos'[t] = pos[t] + 1
        /\ back'[t] = back[t] /\ goal'[t] = goal[t] /\ size'[t] = size[t] /\ slot'[t] = slot[t]
        /\ TasksStay /\ CountsStay /\ (terminated => terminated') /\ Others(t)
    BY <1>6 DEF TrySlot, Base, Types, PlaceTypes, LocalTypes, TasksStay, CountsStay, Others, Keeps
  <2>2. PlaceTypes'
    BY <1>6 DEF TrySlot, Base, Types, PlaceTypes, Labels
  <2>3. LocalTypes'
    <3>1. pos' = [pos EXCEPT ![t] = @ + 1] /\ UNCHANGED <<back, goal, size, slot>>
      BY <1>6 DEF TrySlot
    <3>2. pos[t] + 1 \in 0..(NThreads * Duplicates)
      <4>1. 1 * Duplicates <= NThreads * Duplicates /\ NThreads * Duplicates \in Nat
        BY Bounds, WorkerAssumption, Times
      <4> DEFINE m == NThreads * Duplicates
      <4>2. Duplicates <= m /\ m \in Nat
        BY <1>2, <4>1
      <4> HIDE DEF m
      <4>3. pos[t] + 1 \in 0..m
        BY <1>2, <4>2
      <4> QED
        BY <4>3 DEF m
    <3> QED
      BY <3>1, <3>2 DEF Base, Types, LocalTypes
  <2> HIDE DEF s, L
  <2>4. ControlOf(t)'
    BY <1>1, <1>2, <2>1 DEF ControlOf, Known, TasksStay
  <2>5. SizedOf(t)'
    BY <1>2, <2>1 DEF SizedOf
  <2>6. Alike(t)
    BY <1>2, <2>1 DEF Alike, Busy, Waits
  <2> QED
    BY <1>4, <2>1, <2>2, <2>3, <2>4, <2>5, <2>6, Silent
<1> QED
  BY <1>5, <1>6

\* Nothing is queued, counted or run at first.
LEMMA BaseInit == Init => Base
<1> SUFFICES ASSUME Init PROVE Base
  OBVIOUS
<1>1. Types
  <2>1. TaskTypes
    BY NoList DEF Init, TaskTypes
  <2>2. PlaceTypes
    BY DEF Init, PlaceTypes, Labels, PollStates, MainStates
  <2>3. LocalTypes
    BY Bounds DEF Init, LocalTypes
  <2>4. FlagTypes
    <3>1. FALSE \in BOOLEAN
      OBVIOUS
    <3> QED
      BY <3>1 DEF Init, FlagTypes
  <2> QED
    BY <2>1, <2>2, <2>3, <2>4 DEF Types
<1>2. ASSUME NEW t \in Threads
      PROVE  /\ pc[t] = (IF t = Main THEN "idle" ELSE "loop") /\ back[t] = "idle" /\ chain[t] = <<>>
             /\ job[t] = None /\ arg[t] = None /\ goal[t] = "poll"
  BY DEF Init
<1>3. ASSUME NEW t \in Threads
      PROVE  ~Holds(t) /\ ~Runs(t) /\ ~Waits(t) /\ ~Counted(t) /\ Hand(t) = {}
  <2>1. ~Holds(t) /\ ~Runs(t) /\ ~Waits(t) /\ ~Busy(t)
    BY <1>2 DEF Holds, Runs, Waits, Busy, Rechecks, Parks, Polls, CallStates, QueueStates, EndStates
  <2>2. Hand(t) = {}
    BY <1>2, <2>1, NoList DEF Hand, Pending
  <2> QED
    BY <2>1, <2>2 DEF Counted
<1>4. Control
  <2> SUFFICES ASSUME NEW t \in Threads PROVE ControlOf(t)
    BY DEF Control
  <2> QED
    BY <1>2, <1>3 DEF ControlOf, CallStates, Asking, QueueStates, EndStates, MainStates, TimedStates,
                      DelayStates, Rechecks, Parks
<1>5. Sized
  BY <1>2 DEF Sized, SizedOf, TimedStates
<1>6. Waiting /\ Running
  <2>1. {w \in Workers : Waits(w)} = {} /\ {t \in Threads : Counted(t)} = {}
    BY <1>3 DEF Threads
  <2>2. Cardinality({}) = 0
    BY FS_EmptySet
  <2>3. waiting = 0 /\ running = 0
    BY DEF Init
  <2> QED
    BY <2>1, <2>2, <2>3 DEF Waiting, Running
<1>7. Placed
  <2>1. \A s \in Slots : heads[s] = <<>>
    BY DEF Init
  <2>2. ListsOnce /\ ListsApart
    BY <2>1, NoList DEF ListsOnce, ListsApart
  <2>3. HandsOnce
    BY <1>2, <1>3, NoList DEF HandsOnce, HandOnce
  <2>4. HandsApart /\ ListsAndHands
    BY <1>3, <2>1, NoList DEF HandsApart, ListsAndHands
  <2>5. \A j \in Tasks : status[j] = "new"
    BY DEF Init
  <2>6. QueuedThere
    BY <1>3, <2>1, <2>5, NoList DEF QueuedThere
  <2>7. JobsRun /\ JobsOnce /\ RunByOne
    BY <1>3, <2>5 DEF JobsRun, RunsOf, JobsOnce, RunByOne
  <2> QED
    BY <2>2, <2>3, <2>4, <2>6, <2>7 DEF Placed
<1> QED
  BY <1>1, <1>4, <1>5, <1>6, <1>7 DEF Base

\* Every step keeps the invariant.
LEMMA BaseStep == ASSUME Base, [Next]_vars PROVE Base'
<1>1. CASE SilentStep
  BY <1>1, SilentSteps
<1>2. CASE CountingStep
  BY <1>2, CountingSteps
<1>3. CASE MovingStep
  BY <1>3, MovingSteps
<1>4. CASE StatusStep
  BY <1>4, StatusSteps
<1>5. CASE \E t \in Threads : TrySlot(t)
  BY <1>5, TryStep
<1>6. CASE UNCHANGED vars
  <2>1. Types' /\ Control' /\ Sized'
    BY <1>6 DEF vars, Base, Types, TaskTypes, PlaceTypes, LocalTypes, FlagTypes, Control, ControlOf, Sized,
                SizedOf, Holds, Runs, Rechecks, Parks
  <2>2. \A u \in Threads : /\ Holds(u)' <=> Holds(u)
                           /\ Runs(u)' <=> Runs(u)
                           /\ Waits(u)' <=> Waits(u)
                           /\ Busy(u)' <=> Busy(u)
    BY <1>6 DEF vars, Holds, Runs, Waits, Busy, Rechecks, Parks, Polls
  <2>3. Waiting' /\ Running' /\ Placed'
    BY <1>6, <2>2, WaitingKept, RunningKept, TasksKept DEF vars, Base, Counted, Threads
  <2> QED
    BY <2>1, <2>3 DEF Base
<1>7. Next => SilentStep \/ CountingStep \/ MovingStep \/ StatusStep \/ \E t \in Threads : TrySlot(t)
  <2>1. Main \in Threads /\ Workers \subseteq Threads
    BY DEF Threads
  <2>2. ASSUME NEW t \in Threads, Inside(t)
        PROVE  SilentStep \/ MovingStep \/ StatusStep \/ \E u \in Threads : TrySlot(u)
    BY <2>2 DEF Inside, SilentStep, MovingStep, StatusStep
  <2>3. ASSUME NEW t \in Threads, Poll(t)
        PROVE  SilentStep \/ CountingStep \/ MovingStep \/ StatusStep
    BY <2>3 DEF Poll, SilentStep, CountingStep, MovingStep, StatusStep
  <2>4. ASSUME NEW t \in Workers, Work(t)
        PROVE  SilentStep \/ CountingStep \/ MovingStep \/ StatusStep
    BY <2>1, <2>3, <2>4 DEF Work, SilentStep, CountingStep
  <2>5. TimedPoll => SilentStep \/ CountingStep \/ MovingStep \/ StatusStep
    BY <2>1, <2>3 DEF TimedPoll, SilentStep, CountingStep
  <2>6. Finish => SilentStep \/ MovingStep \/ StatusStep
    BY DEF Finish, SilentStep, MovingStep, StatusStep
  <2> QED
    BY <2>2, <2>4, <2>5, <2>6 DEF Next, SilentStep, CountingStep, StatusStep
<1> QED
  BY <1>1, <1>2, <1>3, <1>4, <1>5, <1>6, <1>7

\* What each thread has in its hands, what the two counters count, and where each queued
\* task is, at every step of the pool.
THEOREM BaseInvariant == Spec => []Base
  BY BaseInit, BaseStep, PTL DEF Spec

\* The types of the variables, for any number of workers, duplicates and tasks.
THEOREM TypesCorrect == Spec => []TypeOK
<1>1. Base => TypeOK
  <2> SUFFICES ASSUME Base PROVE TypeOK
    OBVIOUS
  <2>1. running \in 0..(NThreads + 1) /\ waiting \in 0..NThreads
    BY CountTypes DEF Base
  <2> QED
    BY <2>1 DEF Base, Types, TaskTypes, PlaceTypes, LocalTypes, FlagTypes, TypeOK, Labels
<1> QED
  BY <1>1, BaseInvariant, PTL

(***************************************************************************)
(* The timed poll                                                          *)
(***************************************************************************)
\* Main is registered while it looks at its snapshot and while it sleeps.
Registered == pc[Main] \in {"relook", "doze"} => timed
TimedInv == Registered /\ NoTimedSleepMissed

\* A step that lets Main's sleep, and who is to end it, as they were.
TimedKept ==
  /\ pc'[Main] \in {"relook", "doze"} => pc'[Main] = pc[Main]
  /\ timed' = timed
  /\ stale'[Main] => stale[Main]
  /\ \A u \in Workers : Announcing(u) => Announcing(u)'

\* A step that lets the timed poll as it was.
LEMMA TimedStays == ASSUME TimedInv, TimedKept PROVE TimedInv'
BY DEF TimedInv, TimedKept, Registered, NoTimedSleepMissed

\* The actions that are no part of the timed poll or of its wake-up.
OtherStep ==
  \/ \E t \in Threads :
       \/ Terminate(t)
       \/ CheckTerminated(t)
       \/ TrySlot(t)
       \/ Chain(t)
       \/ AppendLast(t)
       \/ Wake(t)
       \/ EndTask(t)
       \/ FetchSome(t)
       \/ FetchNext(t)
       \/ FetchNone(t)
       \/ Take(t)
       \/ PutBack(t)
       \/ Repush(t)
       \/ Check(t)
       \/ StartTask(t)
       \/ EndPoll(t)
       \/ Snapshot(t)
  \/ \E t \in Workers :
       \/ Loop(t)
       \/ PollOne(t)
       \/ BeginDelay(t)
       \/ Park(t)
       \/ Wait(t)
       \/ Spin(t)
       \/ LeaveDelay(t)
  \/ (\E t \in Threads, j \in Tasks : QueueTask(t, j)) \/ \E p \in Polled : PollFor(p)
  \/ Deadline \/ PollAgain \/ Join \/ Joined \/ DrainTake \/ DrainTask \/ DrainEnd

\* The actions that are such steps.
LEMMA TimedKeeps == ASSUME Base, OtherStep PROVE TimedKept
<1> USE DEF Goto, TimedKept, Announcing, Base, Types, PlaceTypes, LocalTypes, FlagTypes
<1>0. Main \in Threads /\ Workers \subseteq Threads /\ Main \notin Workers
  BY WorkerAssumption DEF Threads
<1>1. ASSUME NEW t \in Threads, NEW j \in Tasks, QueueTask(t, j) PROVE TimedKept
  BY <1>1, <1>0 DEF QueueTask, InClient, timing
<1>2. ASSUME NEW t \in Threads, Terminate(t) PROVE TimedKept
  BY <1>2, <1>0 DEF Terminate, InClient, timing
<1>3. ASSUME NEW t \in Threads, CheckTerminated(t) PROVE TimedKept
  BY <1>3, <1>0 DEF CheckTerminated, timing
<1>4. ASSUME NEW t \in Threads, TrySlot(t) PROVE TimedKept
  BY <1>4, <1>0 DEF TrySlot, Exchange, timing
<1>5. ASSUME NEW t \in Threads, Chain(t) PROVE TimedKept
  BY <1>5, <1>0 DEF Chain, Push, timing
<1>6. ASSUME NEW t \in Threads, AppendLast(t) PROVE TimedKept
  BY <1>6, <1>0 DEF AppendLast, Push, timing
<1>7. ASSUME NEW t \in Threads, Wake(t) PROVE TimedKept
  BY <1>7, <1>0 DEF Wake, Return, Forget, timing
<1>8. ASSUME NEW t \in Threads, EndTask(t) PROVE TimedKept
  BY <1>8, <1>0 DEF EndTask, timing
<1>9. ASSUME NEW t \in Threads, FetchSome(t) PROVE TimedKept
  BY <1>9, <1>0 DEF FetchSome, timing
<1>10. ASSUME NEW t \in Threads, FetchNext(t) PROVE TimedKept
  BY <1>10, <1>0 DEF FetchNext, timing
<1>11. ASSUME NEW t \in Threads, FetchNone(t) PROVE TimedKept
  BY <1>11, <1>0 DEF FetchNone, timing
<1>12. ASSUME NEW t \in Threads, Take(t) PROVE TimedKept
  BY <1>12, <1>0 DEF Take, Exchange, timing
<1>13. ASSUME NEW t \in Threads, PutBack(t) PROVE TimedKept
  BY <1>13, <1>0 DEF PutBack, Exchange, timing
<1>14. ASSUME NEW t \in Threads, Repush(t) PROVE TimedKept
  BY <1>14, <1>0 DEF Repush, Push, timing
<1>15. ASSUME NEW t \in Threads, Check(t) PROVE TimedKept
  BY <1>15, <1>0 DEF Check, Fetch, timing
<1>16. ASSUME NEW t \in Threads, StartTask(t) PROVE TimedKept
  BY <1>16, <1>0 DEF StartTask, Forget, timing
<1>17. ASSUME NEW t \in Threads, EndPoll(t) PROVE TimedKept
  BY <1>17, <1>0 DEF EndPoll, AfterPoll, timing
<1>18. ASSUME NEW t \in Threads, Snapshot(t) PROVE TimedKept
  BY <1>18, <1>0 DEF Snapshot, timing
<1>19. ASSUME NEW t \in Workers, Loop(t) PROVE TimedKept
  BY <1>19, <1>0 DEF Loop, Forget, timing
<1>20. ASSUME NEW t \in Workers, PollOne(t) PROVE TimedKept
  BY <1>20, <1>0 DEF PollOne, Fetch, timing
<1>21. ASSUME NEW t \in Workers, BeginDelay(t) PROVE TimedKept
  BY <1>21, <1>0 DEF BeginDelay, Forget, timing
<1>22. ASSUME NEW t \in Workers, Park(t) PROVE TimedKept
  BY <1>22, <1>0 DEF Park, Fetch, timing
<1>23. ASSUME NEW t \in Workers, Wait(t) PROVE TimedKept
  BY <1>23, <1>0 DEF Wait, Forget, timing
<1>24. ASSUME NEW t \in Workers, Spin(t) PROVE TimedKept
  BY <1>24, <1>0 DEF Spin, timing
<1>25. ASSUME NEW t \in Workers, LeaveDelay(t) PROVE TimedKept
  BY <1>25, <1>0 DEF LeaveDelay, timing
<1>26. ASSUME NEW p \in Polled, PollFor(p) PROVE TimedKept
  BY <1>26, <1>0 DEF PollFor, Fetch, timing
<1>27. ASSUME Deadline PROVE TimedKept
  BY <1>27, <1>0 DEF Deadline, timing
<1>28. ASSUME PollAgain PROVE TimedKept
  BY <1>28, <1>0 DEF PollAgain, Fetch, timing
<1>29. ASSUME Join PROVE TimedKept
  BY <1>29, <1>0 DEF Join, timing
<1>30. ASSUME Joined PROVE TimedKept
  BY <1>30, <1>0 DEF Joined, Drain, timing
<1>31. ASSUME DrainTake PROVE TimedKept
  BY <1>31, <1>0 DEF DrainTake, Exchange, timing
<1>32. ASSUME DrainTask PROVE TimedKept
  BY <1>32, <1>0 DEF DrainTask, timing
<1>33. ASSUME DrainEnd PROVE TimedKept
  BY <1>33, <1>0 DEF DrainEnd, Drain, timing
<1> QED
  BY <1>1, <1>2, <1>3, <1>4, <1>5, <1>6, <1>7, <1>8, <1>9, <1>10, <1>11, <1>12, <1>13, <1>14, <1>15, <1>16, <1>17, <1>18, <1>19, <1>20, <1>21, <1>22, <1>23, <1>24, <1>25, <1>26, <1>27, <1>28, <1>29, <1>30, <1>31, <1>32, <1>33 DEF OtherStep

\* The steps that register, bump, look and notify.
TimedSteps ==
  \/ \E t \in Threads : Bump(t) \/ NotifyOne(t) \/ NotifyAll(t) \/ LookTimed(t) \/ NotifyTimed(t)
  \/ Register \/ Relook \/ Unregister

\* The actions that register, bump, look and notify keep TimedInv.
LEMMA TimedStep == ASSUME Base, TimedInv, TimedSteps PROVE TimedInv'
<1>0. /\ Main \in Threads /\ Workers \subseteq Threads /\ Main \notin Workers
      /\ \A t \in Threads : t = Main \/ t \in Workers
  BY WorkerAssumption DEF Threads
<1> USE <1>0 DEF Goto, Base, Types, PlaceTypes, LocalTypes, FlagTypes
<1>1. ASSUME NEW t \in Threads, Bump(t) PROVE TimedInv'
  <2>1. pc'[t] \in {"notify", "notify all"} /\ \A u \in Threads \ {t} : pc'[u] = pc[u]
    BY <1>1 DEF Bump
  <2>2. timed' = timed
    BY <1>1 DEF Bump, timing
  <2> QED
    BY <2>1, <2>2 DEF TimedInv, Registered, NoTimedSleepMissed, Announcing
<1>2. ASSUME NEW t \in Threads, NotifyOne(t) PROVE TimedInv'
  <2>1. /\ pc[t] = "notify" /\ pc'[t] = "look timed" /\ t \notin Sleepers
        /\ \A u \in Threads \ {t} : pc'[u] = pc[u] \/ (u \in Sleepers /\ pc'[u] = "spin")
        /\ timed' = timed /\ stale' = stale
    BY <1>2 DEF NotifyOne, Sleepers, timing
  <2>2. TimedKept
    BY <2>1 DEF TimedKept, Sleepers, Announcing
  <2> QED
    BY <2>2, TimedStays
<1>3. ASSUME NEW t \in Threads, NotifyAll(t) PROVE TimedInv'
  <2>1. /\ pc[t] = "notify all" /\ pc'[t] = "look timed"
        /\ \A u \in Threads \ {t} : pc'[u] = pc[u] \/ (u \in Sleepers /\ pc'[u] = "spin")
        /\ timed' = timed /\ stale' = stale
    BY <1>3 DEF NotifyAll, timing
  <2>2. TimedKept
    BY <2>1 DEF TimedKept, Sleepers, Announcing
  <2> QED
    BY <2>2, TimedStays
<1>4. ASSUME NEW t \in Threads, LookTimed(t) PROVE TimedInv'
  <2>1. /\ pc[t] = "look timed" /\ timed' = timed /\ stale' = stale
        /\ \A u \in Threads \ {t} : pc'[u] = pc[u]
        /\ timed => pc'[t] = "notify timed"
        /\ pc'[t] \in {"notify timed", "start", "body", "idle"}
    BY <1>4 DEF LookTimed, Return, timing
  <2> QED
    BY <2>1 DEF TimedInv, Registered, NoTimedSleepMissed, Announcing
<1>5. ASSUME NEW t \in Threads, NotifyTimed(t) PROVE TimedInv'
  <2>1. pc'[Main] # "doze" /\ (pc'[Main] = "relook" => pc[Main] = "relook") /\ timed' = timed
    <3>1. CASE t = Main
      BY <1>5, <3>1 DEF NotifyTimed, timing
    <3>2. CASE t # Main
      BY <1>5, <3>2 DEF NotifyTimed, timing
    <3> QED
      BY <3>1, <3>2
  <2> QED
    BY <2>1 DEF TimedInv, Registered, NoTimedSleepMissed
<1>6. ASSUME Register PROVE TimedInv'
  BY <1>6 DEF Register, TimedInv, Registered, NoTimedSleepMissed
<1>7. ASSUME Relook PROVE TimedInv'
  BY <1>7 DEF Relook, timing, TimedInv, Registered, NoTimedSleepMissed
<1>8. ASSUME Unregister PROVE TimedInv'
  BY <1>8 DEF Unregister, TimedInv, Registered, NoTimedSleepMissed
<1> QED
  BY <1>1, <1>2, <1>3, <1>4, <1>5, <1>6, <1>7, <1>8 DEF TimedSteps

\* Every step keeps TimedInv.
LEMMA TimedNext == ASSUME Base, TimedInv, [Next]_vars PROVE TimedInv'
<1>1. CASE OtherStep
  BY <1>1, TimedKeeps, TimedStays
<1>2. CASE TimedSteps
  BY <1>2, TimedStep
<1>3. CASE UNCHANGED vars
  BY <1>3 DEF vars, TimedInv, Registered, NoTimedSleepMissed, Announcing
<1>4. Next => OtherStep \/ TimedSteps
  <2>1. Main \in Threads /\ Workers \subseteq Threads
    BY DEF Threads
  <2>2. \A t \in Threads : Inside(t) => OtherStep \/ TimedSteps
    BY DEF Inside, OtherStep, TimedSteps
  <2>3. \A t \in Threads : Poll(t) => OtherStep
    BY DEF Poll, OtherStep
  <2>4. \A t \in Workers : Work(t) => OtherStep
    BY <2>1, <2>3 DEF Work, OtherStep
  <2>5. TimedPoll \/ Finish => OtherStep \/ TimedSteps
    BY <2>1, <2>3 DEF TimedPoll, Finish, OtherStep, TimedSteps
  <2> QED
    BY <2>1, <2>2, <2>4, <2>5 DEF Next, OtherStep
<1> QED
  BY <1>1, <1>2, <1>3, <1>4

\* A timed poll that sleeps although its snapshot of wake_epoch is old will be notified: a
\* thread that has bumped the epoch has yet to look at timed_waiters.
THEOREM TimedSleepEnds == Spec => []NoTimedSleepMissed
<1>1. Init => TimedInv
  BY WorkerAssumption DEF Init, Threads, TimedInv, Registered, NoTimedSleepMissed
<1>2. TimedInv => NoTimedSleepMissed
  BY DEF TimedInv
<1> QED
  BY <1>1, <1>2, TimedNext, BaseInvariant, PTL DEF Spec

(***************************************************************************)
(* join                                                                    *)
(***************************************************************************)
\* join() runs what is left.
Drains == Runs(Main) /\ status[job[Main]] = "draining"
Draining == pc[Main] \in {"drain", "joined"} \/ Drains

\* The workers have stopped when join() begins to look at the slots; those that a
\* round without a task has passed are empty, since only what it runs queues.
JoinInv ==
  /\ Draining => \A w \in Workers : pc[w] = "exited"
  /\ Drains => drained
  /\ pc[Main] = "drain" /\ ~drained =>
       chain[Main] = <<>> /\ \A i \in 0..(pos[Main] - 1) : heads[SlotOf(i)] = <<>>
  /\ pc[Main] = "joined" => \A s \in Slots : heads[s] = <<>>

\* A step of t that is none of join()'s.
Undrained(t) ==
  /\ pc[t] \notin {"exited", "drain", "joined"}
  /\ drained' = drained
  /\ pc'[Main] = "joined" => pc[Main] = "joined"
  /\ pc'[Main] = "drain" => pc[Main] = "drain" \/ Drains
  /\ Drains' => Drains
  /\ \A w \in Workers : pc[w] = "exited" => pc'[w] = "exited"

\* A step that is none of join()'s keeps JoinInv.
LEMMA JoinStays == ASSUME JoinInv, NEW t \in Threads, Undrained(t) PROVE JoinInv'
<1>1. CASE t = Main
  <2>1. Draining' => Drains
    BY <1>1 DEF Undrained, Draining
  <2> QED
    BY <1>1, <2>1 DEF Undrained, JoinInv, Draining
<1>2. CASE t # Main
  <2>1. ~Draining
    BY <1>2 DEF Undrained, JoinInv, Threads
  <2>2. ~Draining'
    BY <2>1 DEF Undrained, Draining
  <2> QED
    BY <2>2 DEF JoinInv, Draining
<1> QED
  BY <1>1, <1>2

\* The actions that are such steps.
LEMMA JoinKeeps ==
  ASSUME Base, [Next]_vars
  PROVE  \/ \E t \in Threads : Undrained(t)
         \/ Joined \/ DrainTake \/ DrainTask \/ DrainEnd \/ UNCHANGED vars
<1> DEFINE Goal == \E t \in Threads : Undrained(t)
<1>a. Main \in Threads /\ Workers \subseteq Threads /\ Main \notin Workers
      /\ \A u \in Threads : u = Main \/ u \in Workers
  BY WorkerAssumption DEF Threads
<1>b. /\ pc \in [Threads -> Labels] /\ back \in [Threads -> {"start", "body", "idle"}]
      /\ job \in [Threads -> Tasks \cup {None}]
      /\ status \in [Tasks -> {"new", "queued", "running", "guest", "draining", "done"}]
  BY DEF Base, Types, TaskTypes, PlaceTypes, LocalTypes
<1>c. Runs(Main) \/ Holds(Main) => job[Main] \in Tasks
  BY <1>a, <1>b DEF Base, Control, ControlOf
<1>e. goal \in [Threads -> {"poll", "recheck", "park"}]
  BY DEF Base, Types, LocalTypes
<1>d. \A t \in Threads : ControlOf(t)
  BY DEF Base, Control
<1>1. ASSUME NEW t \in Threads, NEW j \in Tasks, QueueTask(t, j) PROVE Goal
  <2>1. pc[t] \notin {"exited", "drain", "joined"} /\ drained' = drained
    BY <1>1, <1>a DEF QueueTask, InClient
  <2>2. (pc'[Main] = "joined" => pc[Main] = "joined") /\ (pc'[Main] = "drain" => pc[Main] = "drain" \/ Drains)
    BY <1>1, <1>a, <1>b, <1>d DEF QueueTask, InClient, Goto, Drains, Runs
  <2>3. Drains' => Drains
    <3>1. CASE t = Main
      BY <1>1, <1>a, <1>b, <1>c, <1>d, <3>1 DEF QueueTask, InClient, Goto, Drains, Runs, Holds, Rechecks, CallStates, QueueStates, EndStates, ControlOf, local, look
    <3>2. CASE t # Main
      BY <1>1, <1>a, <1>b, <1>c, <3>2 DEF QueueTask, InClient, Goto, Drains, Runs, CallStates, QueueStates, EndStates, local, look
    <3> QED
      BY <3>1, <3>2
  <2>4. \A w \in Workers : pc[w] = "exited" => pc'[w] = "exited"
    BY <1>1, <1>a, <1>b DEF QueueTask, InClient, Goto
  <2> QED
    BY <2>1, <2>2, <2>3, <2>4, <1>a DEF Undrained
<1>2. ASSUME NEW t \in Threads, Terminate(t) PROVE Goal
  <2>1. pc[t] \notin {"exited", "drain", "joined"} /\ drained' = drained
    BY <1>2, <1>a DEF Terminate, InClient
  <2>2. (pc'[Main] = "joined" => pc[Main] = "joined") /\ (pc'[Main] = "drain" => pc[Main] = "drain" \/ Drains)
    BY <1>2, <1>a, <1>b, <1>d DEF Terminate, InClient, Goto, Drains, Runs
  <2>3. Drains' => Drains
    <3>1. CASE t = Main
      BY <1>2, <1>a, <1>b, <1>c, <1>d, <3>1 DEF Terminate, InClient, Goto, Drains, Runs, Holds, Rechecks, CallStates, QueueStates, EndStates, ControlOf, local, look
    <3>2. CASE t # Main
      BY <1>2, <1>a, <1>b, <1>c, <3>2 DEF Terminate, InClient, Goto, Drains, Runs, CallStates, QueueStates, EndStates, local, look
    <3> QED
      BY <3>1, <3>2
  <2>4. \A w \in Workers : pc[w] = "exited" => pc'[w] = "exited"
    BY <1>2, <1>a, <1>b DEF Terminate, InClient, Goto
  <2> QED
    BY <2>1, <2>2, <2>3, <2>4, <1>a DEF Undrained
<1>3. ASSUME NEW t \in Threads, CheckTerminated(t) PROVE Goal
  <2>1. pc[t] \notin {"exited", "drain", "joined"} /\ drained' = drained
    BY <1>3, <1>a DEF CheckTerminated
  <2>2. (pc'[Main] = "joined" => pc[Main] = "joined") /\ (pc'[Main] = "drain" => pc[Main] = "drain" \/ Drains)
    BY <1>3, <1>a, <1>b, <1>d DEF CheckTerminated, Goto, Drains, Runs
  <2>3. Drains' => Drains
    <3>1. CASE t = Main
      BY <1>3, <1>a, <1>b, <1>c, <1>d, <3>1 DEF CheckTerminated, Goto, Drains, Runs, Holds, Rechecks, CallStates, QueueStates, EndStates, ControlOf, local, look
    <3>2. CASE t # Main
      BY <1>3, <1>a, <1>b, <1>c, <3>2 DEF CheckTerminated, Goto, Drains, Runs, CallStates, QueueStates, EndStates, local, look
    <3> QED
      BY <3>1, <3>2
  <2>4. \A w \in Workers : pc[w] = "exited" => pc'[w] = "exited"
    BY <1>3, <1>a, <1>b DEF CheckTerminated, Goto
  <2> QED
    BY <2>1, <2>2, <2>3, <2>4, <1>a DEF Undrained
<1>4. ASSUME NEW t \in Threads, TrySlot(t) PROVE Goal
  <2>1. pc[t] \notin {"exited", "drain", "joined"} /\ drained' = drained
    BY <1>4, <1>a DEF TrySlot, Exchange
  <2>2. (pc'[Main] = "joined" => pc[Main] = "joined") /\ (pc'[Main] = "drain" => pc[Main] = "drain" \/ Drains)
    BY <1>4, <1>a, <1>b, <1>d DEF TrySlot, Exchange, Goto, Drains, Runs
  <2>3. Drains' => Drains
    <3>1. CASE t = Main
      BY <1>4, <1>a, <1>b, <1>c, <1>d, <3>1 DEF TrySlot, Exchange, Goto, Drains, Runs, Holds, Rechecks, CallStates, QueueStates, EndStates, ControlOf, local, look
    <3>2. CASE t # Main
      BY <1>4, <1>a, <1>b, <1>c, <3>2 DEF TrySlot, Exchange, Goto, Drains, Runs, CallStates, QueueStates, EndStates, local, look
    <3> QED
      BY <3>1, <3>2
  <2>4. \A w \in Workers : pc[w] = "exited" => pc'[w] = "exited"
    BY <1>4, <1>a, <1>b DEF TrySlot, Exchange, Goto
  <2> QED
    BY <2>1, <2>2, <2>3, <2>4, <1>a DEF Undrained
<1>5. ASSUME NEW t \in Threads, Chain(t) PROVE Goal
  <2>1. pc[t] \notin {"exited", "drain", "joined"} /\ drained' = drained
    BY <1>5, <1>a DEF Chain, Push
  <2>2. (pc'[Main] = "joined" => pc[Main] = "joined") /\ (pc'[Main] = "drain" => pc[Main] = "drain" \/ Drains)
    BY <1>5, <1>a, <1>b, <1>d DEF Chain, Push, Goto, Drains, Runs
  <2>3. Drains' => Drains
    <3>1. CASE t = Main
      BY <1>5, <1>a, <1>b, <1>c, <1>d, <3>1 DEF Chain, Push, Goto, Drains, Runs, Holds, Rechecks, CallStates, QueueStates, EndStates, ControlOf, local, look
    <3>2. CASE t # Main
      BY <1>5, <1>a, <1>b, <1>c, <3>2 DEF Chain, Push, Goto, Drains, Runs, CallStates, QueueStates, EndStates, local, look
    <3> QED
      BY <3>1, <3>2
  <2>4. \A w \in Workers : pc[w] = "exited" => pc'[w] = "exited"
    BY <1>5, <1>a, <1>b DEF Chain, Push, Goto
  <2> QED
    BY <2>1, <2>2, <2>3, <2>4, <1>a DEF Undrained
<1>6. ASSUME NEW t \in Threads, AppendLast(t) PROVE Goal
  <2>1. pc[t] \notin {"exited", "drain", "joined"} /\ drained' = drained
    BY <1>6, <1>a DEF AppendLast, Push
  <2>2. (pc'[Main] = "joined" => pc[Main] = "joined") /\ (pc'[Main] = "drain" => pc[Main] = "drain" \/ Drains)
    BY <1>6, <1>a, <1>b, <1>d DEF AppendLast, Push, Goto, Drains, Runs
  <2>3. Drains' => Drains
    <3>1. CASE t = Main
      BY <1>6, <1>a, <1>b, <1>c, <1>d, <3>1 DEF AppendLast, Push, Goto, Drains, Runs, Holds, Rechecks, CallStates, QueueStates, EndStates, ControlOf, local, look
    <3>2. CASE t # Main
      BY <1>6, <1>a, <1>b, <1>c, <3>2 DEF AppendLast, Push, Goto, Drains, Runs, CallStates, QueueStates, EndStates, local, look
    <3> QED
      BY <3>1, <3>2
  <2>4. \A w \in Workers : pc[w] = "exited" => pc'[w] = "exited"
    BY <1>6, <1>a, <1>b DEF AppendLast, Push, Goto
  <2> QED
    BY <2>1, <2>2, <2>3, <2>4, <1>a DEF Undrained
<1>7. ASSUME NEW t \in Threads, Wake(t) PROVE Goal
  <2>1. pc[t] \notin {"exited", "drain", "joined"} /\ drained' = drained
    BY <1>7, <1>a DEF Wake, Return, Forget
  <2>2. (pc'[Main] = "joined" => pc[Main] = "joined") /\ (pc'[Main] = "drain" => pc[Main] = "drain" \/ Drains)
    BY <1>7, <1>a, <1>b, <1>d DEF Wake, Return, Forget, Goto, Drains, Runs
  <2>3. Drains' => Drains
    <3>1. CASE t = Main
      BY <1>7, <1>a, <1>b, <1>c, <1>d, <3>1, ZenonT(40) DEF Wake, Return, Forget, Goto, Drains, Runs, Holds, Rechecks, CallStates, QueueStates, EndStates, ControlOf, local, look
    <3>2. CASE t # Main
      BY <1>7, <1>a, <1>b, <1>c, <3>2 DEF Wake, Return, Forget, Goto, Drains, Runs, CallStates, QueueStates, EndStates, local, look
    <3> QED
      BY <3>1, <3>2
  <2>4. \A w \in Workers : pc[w] = "exited" => pc'[w] = "exited"
    BY <1>7, <1>a, <1>b DEF Wake, Return, Forget, Goto
  <2> QED
    BY <2>1, <2>2, <2>3, <2>4, <1>a DEF Undrained
<1>8. ASSUME NEW t \in Threads, Bump(t) PROVE Goal
  <2>1. pc[t] \notin {"exited", "drain", "joined"} /\ drained' = drained
    BY <1>8, <1>a DEF Bump
  <2>2. (pc'[Main] = "joined" => pc[Main] = "joined") /\ (pc'[Main] = "drain" => pc[Main] = "drain" \/ Drains)
    BY <1>8, <1>a, <1>b, <1>d DEF Bump, Goto, Drains, Runs
  <2>3. Drains' => Drains
    <3>1. CASE t = Main
      BY <1>8, <1>a, <1>b, <1>c, <1>d, <3>1 DEF Bump, Goto, Drains, Runs, Holds, Rechecks, CallStates, QueueStates, EndStates, ControlOf, local, look
    <3>2. CASE t # Main
      BY <1>8, <1>a, <1>b, <1>c, <3>2 DEF Bump, Goto, Drains, Runs, CallStates, QueueStates, EndStates, local, look
    <3> QED
      BY <3>1, <3>2
  <2>4. \A w \in Workers : pc[w] = "exited" => pc'[w] = "exited"
    BY <1>8, <1>a, <1>b DEF Bump, Goto
  <2> QED
    BY <2>1, <2>2, <2>3, <2>4, <1>a DEF Undrained
<1>9. ASSUME NEW t \in Threads, NotifyOne(t) PROVE Goal
  <2>1. pc[t] \notin {"exited", "drain", "joined"} /\ drained' = drained
    BY <1>9, <1>a DEF NotifyOne, Sleepers
  <2>2. (pc'[Main] = "joined" => pc[Main] = "joined") /\ (pc'[Main] = "drain" => pc[Main] = "drain" \/ Drains)
    BY <1>9, <1>a, <1>b, <1>d DEF NotifyOne, Sleepers, Goto, Drains, Runs
  <2>3. Drains' => Drains
    <3>1. CASE t = Main
      BY <1>9, <1>a, <1>b, <1>c, <1>d, <3>1 DEF NotifyOne, Sleepers, Goto, Drains, Runs, Holds, Rechecks, CallStates, QueueStates, EndStates, ControlOf, local, look
    <3>2. CASE t # Main
      <4>1. /\ pc'[Main] = pc[Main]
            /\ back' = back /\ job' = job /\ status' = status
        BY <1>9, <1>a, <1>b, <3>2 DEF NotifyOne, Sleepers, Goto, local
      <4> QED
        BY <1>9, <1>a, <1>b, <1>c, <4>1, <3>2 DEF NotifyOne, Sleepers, Goto, Drains, Runs, CallStates, QueueStates, EndStates, local, look
    <3> QED
      BY <3>1, <3>2
  <2>4. \A w \in Workers : pc[w] = "exited" => pc'[w] = "exited"
    BY <1>9, <1>a, <1>b DEF NotifyOne, Sleepers, Goto
  <2> QED
    BY <2>1, <2>2, <2>3, <2>4, <1>a DEF Undrained
<1>10. ASSUME NEW t \in Threads, NotifyAll(t) PROVE Goal
  <2>1. pc[t] \notin {"exited", "drain", "joined"} /\ drained' = drained
    BY <1>10, <1>a DEF NotifyAll, Sleepers
  <2>2. (pc'[Main] = "joined" => pc[Main] = "joined") /\ (pc'[Main] = "drain" => pc[Main] = "drain" \/ Drains)
    BY <1>10, <1>a, <1>b, <1>d DEF NotifyAll, Sleepers, Goto, Drains, Runs
  <2>3. Drains' => Drains
    <3>1. CASE t = Main
      BY <1>10, <1>a, <1>b, <1>c, <1>d, <3>1 DEF NotifyAll, Sleepers, Goto, Drains, Runs, Holds, Rechecks, CallStates, QueueStates, EndStates, ControlOf, local, look
    <3>2. CASE t # Main
      BY <1>10, <1>a, <1>b, <1>c, <3>2 DEF NotifyAll, Sleepers, Goto, Drains, Runs, CallStates, QueueStates, EndStates, local, look
    <3> QED
      BY <3>1, <3>2
  <2>4. \A w \in Workers : pc[w] = "exited" => pc'[w] = "exited"
    BY <1>10, <1>a, <1>b DEF NotifyAll, Sleepers, Goto
  <2> QED
    BY <2>1, <2>2, <2>3, <2>4, <1>a DEF Undrained
<1>11. ASSUME NEW t \in Threads, LookTimed(t) PROVE Goal
  <2>1. pc[t] \notin {"exited", "drain", "joined"} /\ drained' = drained
    BY <1>11, <1>a DEF LookTimed, Return, Forget
  <2>2. (pc'[Main] = "joined" => pc[Main] = "joined") /\ (pc'[Main] = "drain" => pc[Main] = "drain" \/ Drains)
    BY <1>11, <1>a, <1>b, <1>d DEF LookTimed, Return, Forget, Goto, Drains, Runs
  <2>3. Drains' => Drains
    <3>1. CASE t = Main
      BY <1>11, <1>a, <1>b, <1>c, <1>d, <3>1, ZenonT(40) DEF LookTimed, Return, Forget, Goto, Drains, Runs, Holds, Rechecks, CallStates, QueueStates, EndStates, ControlOf, local, look
    <3>2. CASE t # Main
      BY <1>11, <1>a, <1>b, <1>c, <3>2 DEF LookTimed, Return, Forget, Goto, Drains, Runs, CallStates, QueueStates, EndStates, local, look
    <3> QED
      BY <3>1, <3>2
  <2>4. \A w \in Workers : pc[w] = "exited" => pc'[w] = "exited"
    BY <1>11, <1>a, <1>b DEF LookTimed, Return, Forget, Goto
  <2> QED
    BY <2>1, <2>2, <2>3, <2>4, <1>a DEF Undrained
<1>12. ASSUME NEW t \in Threads, NotifyTimed(t) PROVE Goal
  <2>1. pc[t] \notin {"exited", "drain", "joined"} /\ drained' = drained
    BY <1>12, <1>a DEF NotifyTimed, Forget
  <2>2. (pc'[Main] = "joined" => pc[Main] = "joined") /\ (pc'[Main] = "drain" => pc[Main] = "drain" \/ Drains)
    BY <1>12, <1>a, <1>b, <1>d DEF NotifyTimed, Forget, Goto, Drains, Runs
  <2>3. Drains' => Drains
    <3>1. CASE t = Main
      BY <1>12, <1>a, <1>b, <1>c, <1>d, <3>1 DEF NotifyTimed, Forget, Goto, Drains, Runs, Holds, Rechecks, CallStates, QueueStates, EndStates, ControlOf, local, look
    <3>2. CASE t # Main
      BY <1>12, <1>a, <1>b, <1>c, <3>2 DEF NotifyTimed, Forget, Goto, Drains, Runs, CallStates, QueueStates, EndStates, local, look
    <3> QED
      BY <3>1, <3>2
  <2>4. \A w \in Workers : pc[w] = "exited" => pc'[w] = "exited"
    BY <1>12, <1>a, <1>b DEF NotifyTimed, Forget, Goto
  <2> QED
    BY <2>1, <2>2, <2>3, <2>4, <1>a DEF Undrained
<1>13. ASSUME NEW t \in Threads, EndTask(t) PROVE Goal
  <2>1. pc[t] \notin {"exited", "drain", "joined"} /\ drained' = drained
    BY <1>13, <1>a DEF EndTask
  <2>2. (pc'[Main] = "joined" => pc[Main] = "joined") /\ (pc'[Main] = "drain" => pc[Main] = "drain" \/ Drains)
    BY <1>13, <1>a, <1>b, <1>d DEF EndTask, Goto, Drains, Runs
  <2>3. Drains' => Drains
    <3>1. CASE t = Main
      BY <1>13, <1>a, <1>b, <1>c, <1>d, <3>1 DEF EndTask, Goto, Drains, Runs, Holds, Rechecks, CallStates, QueueStates, EndStates, ControlOf, local, look
    <3>2. CASE t # Main
      BY <1>13, <1>a, <1>b, <1>c, <3>2 DEF EndTask, Goto, Drains, Runs, CallStates, QueueStates, EndStates, local, look
    <3> QED
      BY <3>1, <3>2
  <2>4. \A w \in Workers : pc[w] = "exited" => pc'[w] = "exited"
    BY <1>13, <1>a, <1>b DEF EndTask, Goto
  <2> QED
    BY <2>1, <2>2, <2>3, <2>4, <1>a DEF Undrained
<1>14. ASSUME NEW t \in Threads, FetchSome(t) PROVE Goal
  <2>1. pc[t] \notin {"exited", "drain", "joined"} /\ drained' = drained
    BY <1>14, <1>a DEF FetchSome
  <2>2. (pc'[Main] = "joined" => pc[Main] = "joined") /\ (pc'[Main] = "drain" => pc[Main] = "drain" \/ Drains)
    BY <1>14, <1>a, <1>b, <1>e, <1>d DEF FetchSome, Goto, Drains, Runs
  <2>3. Drains' => Drains
    <3>1. CASE t = Main
      BY <1>14, <1>a, <1>b, <1>e, <1>c, <1>d, <3>1 DEF FetchSome, Goto, Drains, Runs, Holds, Rechecks, CallStates, QueueStates, EndStates, ControlOf, local, look
    <3>2. CASE t # Main
      BY <1>14, <1>a, <1>b, <1>c, <3>2 DEF FetchSome, Goto, Drains, Runs, CallStates, QueueStates, EndStates, local, look
    <3> QED
      BY <3>1, <3>2
  <2>4. \A w \in Workers : pc[w] = "exited" => pc'[w] = "exited"
    BY <1>14, <1>a, <1>b DEF FetchSome, Goto
  <2> QED
    BY <2>1, <2>2, <2>3, <2>4, <1>a DEF Undrained
<1>15. ASSUME NEW t \in Threads, FetchNext(t) PROVE Goal
  <2>1. pc[t] \notin {"exited", "drain", "joined"} /\ drained' = drained
    BY <1>15, <1>a DEF FetchNext
  <2>2. (pc'[Main] = "joined" => pc[Main] = "joined") /\ (pc'[Main] = "drain" => pc[Main] = "drain" \/ Drains)
    BY <1>15, <1>a, <1>b, <1>d DEF FetchNext, Goto, Drains, Runs
  <2>3. Drains' => Drains
    <3>1. CASE t = Main
      BY <1>15, <1>a, <1>b, <1>c, <1>d, <3>1 DEF FetchNext, Goto, Drains, Runs, Holds, Rechecks, CallStates, QueueStates, EndStates, ControlOf, local, look
    <3>2. CASE t # Main
      BY <1>15, <1>a, <1>b, <1>c, <3>2 DEF FetchNext, Goto, Drains, Runs, CallStates, QueueStates, EndStates, local, look
    <3> QED
      BY <3>1, <3>2
  <2>4. \A w \in Workers : pc[w] = "exited" => pc'[w] = "exited"
    BY <1>15, <1>a, <1>b DEF FetchNext, Goto
  <2> QED
    BY <2>1, <2>2, <2>3, <2>4, <1>a DEF Undrained
<1>16. ASSUME NEW t \in Threads, FetchNone(t) PROVE Goal
  <2>1. pc[t] \notin {"exited", "drain", "joined"} /\ drained' = drained
    BY <1>16, <1>a DEF FetchNone
  <2>2. (pc'[Main] = "joined" => pc[Main] = "joined") /\ (pc'[Main] = "drain" => pc[Main] = "drain" \/ Drains)
    BY <1>16, <1>a, <1>b, <1>e, <1>d DEF FetchNone, Goto, Drains, Runs
  <2>3. Drains' => Drains
    <3>1. CASE t = Main
      BY <1>16, <1>a, <1>b, <1>e, <1>c, <1>d, <3>1 DEF FetchNone, Goto, Drains, Runs, Holds, Rechecks, CallStates, QueueStates, EndStates, ControlOf, local, look
    <3>2. CASE t # Main
      BY <1>16, <1>a, <1>b, <1>c, <3>2 DEF FetchNone, Goto, Drains, Runs, CallStates, QueueStates, EndStates, local, look
    <3> QED
      BY <3>1, <3>2
  <2>4. \A w \in Workers : pc[w] = "exited" => pc'[w] = "exited"
    BY <1>16, <1>a, <1>b DEF FetchNone, Goto
  <2> QED
    BY <2>1, <2>2, <2>3, <2>4, <1>a DEF Undrained
<1>17. ASSUME NEW t \in Threads, Take(t) PROVE Goal
  <2>1. pc[t] \notin {"exited", "drain", "joined"} /\ drained' = drained
    BY <1>17, <1>a DEF Take, Exchange
  <2>2. (pc'[Main] = "joined" => pc[Main] = "joined") /\ (pc'[Main] = "drain" => pc[Main] = "drain" \/ Drains)
    BY <1>17, <1>a, <1>b, <1>d DEF Take, Exchange, Goto, Drains, Runs
  <2>3. Drains' => Drains
    <3>1. CASE t = Main
      BY <1>17, <1>a, <1>b, <1>c, <1>d, <3>1 DEF Take, Exchange, Goto, Drains, Runs, Holds, Rechecks, CallStates, QueueStates, EndStates, ControlOf, local, look
    <3>2. CASE t # Main
      BY <1>17, <1>a, <1>b, <1>c, <3>2 DEF Take, Exchange, Goto, Drains, Runs, CallStates, QueueStates, EndStates, local, look
    <3> QED
      BY <3>1, <3>2
  <2>4. \A w \in Workers : pc[w] = "exited" => pc'[w] = "exited"
    BY <1>17, <1>a, <1>b DEF Take, Exchange, Goto
  <2> QED
    BY <2>1, <2>2, <2>3, <2>4, <1>a DEF Undrained
<1>18. ASSUME NEW t \in Threads, PutBack(t) PROVE Goal
  <2>1. pc[t] \notin {"exited", "drain", "joined"} /\ drained' = drained
    BY <1>18, <1>a DEF PutBack, Exchange
  <2>2. (pc'[Main] = "joined" => pc[Main] = "joined") /\ (pc'[Main] = "drain" => pc[Main] = "drain" \/ Drains)
    BY <1>18, <1>a, <1>b, <1>d DEF PutBack, Exchange, Goto, Drains, Runs
  <2>3. Drains' => Drains
    <3>1. CASE t = Main
      BY <1>18, <1>a, <1>b, <1>c, <1>d, <3>1 DEF PutBack, Exchange, Goto, Drains, Runs, Holds, Rechecks, CallStates, QueueStates, EndStates, ControlOf, local, look
    <3>2. CASE t # Main
      BY <1>18, <1>a, <1>b, <1>c, <3>2 DEF PutBack, Exchange, Goto, Drains, Runs, CallStates, QueueStates, EndStates, local, look
    <3> QED
      BY <3>1, <3>2
  <2>4. \A w \in Workers : pc[w] = "exited" => pc'[w] = "exited"
    BY <1>18, <1>a, <1>b DEF PutBack, Exchange, Goto
  <2> QED
    BY <2>1, <2>2, <2>3, <2>4, <1>a DEF Undrained
<1>19. ASSUME NEW t \in Threads, Repush(t) PROVE Goal
  <2>1. pc[t] \notin {"exited", "drain", "joined"} /\ drained' = drained
    BY <1>19, <1>a DEF Repush, Push
  <2>2. (pc'[Main] = "joined" => pc[Main] = "joined") /\ (pc'[Main] = "drain" => pc[Main] = "drain" \/ Drains)
    BY <1>19, <1>a, <1>b, <1>d DEF Repush, Push, Goto, Drains, Runs
  <2>3. Drains' => Drains
    <3>1. CASE t = Main
      BY <1>19, <1>a, <1>b, <1>c, <1>d, <3>1 DEF Repush, Push, Goto, Drains, Runs, Holds, Rechecks, CallStates, QueueStates, EndStates, ControlOf, local, look
    <3>2. CASE t # Main
      BY <1>19, <1>a, <1>b, <1>c, <3>2 DEF Repush, Push, Goto, Drains, Runs, CallStates, QueueStates, EndStates, local, look
    <3> QED
      BY <3>1, <3>2
  <2>4. \A w \in Workers : pc[w] = "exited" => pc'[w] = "exited"
    BY <1>19, <1>a, <1>b DEF Repush, Push, Goto
  <2> QED
    BY <2>1, <2>2, <2>3, <2>4, <1>a DEF Undrained
<1>20. ASSUME NEW t \in Threads, Check(t) PROVE Goal
  <2>1. pc[t] \notin {"exited", "drain", "joined"} /\ drained' = drained
    BY <1>20, <1>a DEF Check, Fetch
  <2>2. (pc'[Main] = "joined" => pc[Main] = "joined") /\ (pc'[Main] = "drain" => pc[Main] = "drain" \/ Drains)
    BY <1>20, <1>a, <1>b, <1>d DEF Check, Fetch, Goto, Drains, Runs
  <2>3. Drains' => Drains
    <3>1. CASE t = Main
      BY <1>20, <1>a, <1>b, <1>c, <1>d, <3>1 DEF Check, Fetch, Goto, Drains, Runs, Holds, Rechecks, CallStates, QueueStates, EndStates, ControlOf, local, look
    <3>2. CASE t # Main
      BY <1>20, <1>a, <1>b, <1>c, <3>2 DEF Check, Fetch, Goto, Drains, Runs, CallStates, QueueStates, EndStates, local, look
    <3> QED
      BY <3>1, <3>2
  <2>4. \A w \in Workers : pc[w] = "exited" => pc'[w] = "exited"
    BY <1>20, <1>a, <1>b DEF Check, Fetch, Goto
  <2> QED
    BY <2>1, <2>2, <2>3, <2>4, <1>a DEF Undrained
<1>21. ASSUME NEW t \in Threads, StartTask(t) PROVE Goal
  <2>1. pc[t] \notin {"exited", "drain", "joined"} /\ drained' = drained
    BY <1>21, <1>a DEF StartTask, Forget
  <2>2. (pc'[Main] = "joined" => pc[Main] = "joined") /\ (pc'[Main] = "drain" => pc[Main] = "drain" \/ Drains)
    BY <1>21, <1>a, <1>b, <1>d DEF StartTask, Forget, Goto, Drains, Runs
  <2>3. Drains' => Drains
    <3>1. CASE t = Main
      BY <1>21, <1>a, <1>b, <1>c, <1>d, <3>1 DEF StartTask, Forget, Goto, Drains, Runs, Holds, Rechecks, CallStates, QueueStates, EndStates, ControlOf, local, look
    <3>2. CASE t # Main
      BY <1>21, <1>a, <1>b, <1>c, <3>2 DEF StartTask, Forget, Goto, Drains, Runs, CallStates, QueueStates, EndStates, local, look
    <3> QED
      BY <3>1, <3>2
  <2>4. \A w \in Workers : pc[w] = "exited" => pc'[w] = "exited"
    BY <1>21, <1>a, <1>b DEF StartTask, Forget, Goto
  <2> QED
    BY <2>1, <2>2, <2>3, <2>4, <1>a DEF Undrained
<1>22. ASSUME NEW t \in Threads, EndPoll(t) PROVE Goal
  <2>1. pc[t] \notin {"exited", "drain", "joined"} /\ drained' = drained
    BY <1>22, <1>a DEF EndPoll, AfterPoll
  <2>2. (pc'[Main] = "joined" => pc[Main] = "joined") /\ (pc'[Main] = "drain" => pc[Main] = "drain" \/ Drains)
    BY <1>22, <1>a, <1>b, <1>d DEF EndPoll, AfterPoll, Goto, Drains, Runs
  <2>3. Drains' => Drains
    <3>1. CASE t = Main
      BY <1>22, <1>a, <1>b, <1>c, <1>d, <3>1 DEF EndPoll, AfterPoll, Goto, Drains, Runs, Holds, Rechecks, CallStates, QueueStates, EndStates, ControlOf, local, look
    <3>2. CASE t # Main
      BY <1>22, <1>a, <1>b, <1>c, <3>2 DEF EndPoll, AfterPoll, Goto, Drains, Runs, CallStates, QueueStates, EndStates, local, look
    <3> QED
      BY <3>1, <3>2
  <2>4. \A w \in Workers : pc[w] = "exited" => pc'[w] = "exited"
    BY <1>22, <1>a, <1>b DEF EndPoll, AfterPoll, Goto
  <2> QED
    BY <2>1, <2>2, <2>3, <2>4, <1>a DEF Undrained
<1>23. ASSUME NEW t \in Threads, Snapshot(t) PROVE Goal
  <2>1. pc[t] \notin {"exited", "drain", "joined"} /\ drained' = drained
    BY <1>23, <1>a DEF Snapshot
  <2>2. (pc'[Main] = "joined" => pc[Main] = "joined") /\ (pc'[Main] = "drain" => pc[Main] = "drain" \/ Drains)
    BY <1>23, <1>a, <1>b, <1>d DEF Snapshot, Goto, Drains, Runs
  <2>3. Drains' => Drains
    <3>1. CASE t = Main
      BY <1>23, <1>a, <1>b, <1>c, <1>d, <3>1 DEF Snapshot, Goto, Drains, Runs, Holds, Rechecks, CallStates, QueueStates, EndStates, ControlOf, local, look
    <3>2. CASE t # Main
      BY <1>23, <1>a, <1>b, <1>c, <3>2 DEF Snapshot, Goto, Drains, Runs, CallStates, QueueStates, EndStates, local, look
    <3> QED
      BY <3>1, <3>2
  <2>4. \A w \in Workers : pc[w] = "exited" => pc'[w] = "exited"
    BY <1>23, <1>a, <1>b DEF Snapshot, Goto
  <2> QED
    BY <2>1, <2>2, <2>3, <2>4, <1>a DEF Undrained
<1>24. ASSUME NEW t \in Workers, Loop(t) PROVE Goal
  <2>1. pc[t] \notin {"exited", "drain", "joined"} /\ drained' = drained
    BY <1>24, <1>a DEF Loop, Forget
  <2>2. (pc'[Main] = "joined" => pc[Main] = "joined") /\ (pc'[Main] = "drain" => pc[Main] = "drain" \/ Drains)
    BY <1>24, <1>a, <1>b, <1>d DEF Loop, Forget, Goto, Drains, Runs
  <2>3. Drains' => Drains
    <3>1. CASE t = Main
      BY <1>24, <1>a, <1>b, <1>c, <1>d, <3>1 DEF Loop, Forget, Goto, Drains, Runs, Holds, Rechecks, CallStates, QueueStates, EndStates, ControlOf, local, look
    <3>2. CASE t # Main
      BY <1>24, <1>a, <1>b, <1>c, <3>2 DEF Loop, Forget, Goto, Drains, Runs, CallStates, QueueStates, EndStates, local, look
    <3> QED
      BY <3>1, <3>2
  <2>4. \A w \in Workers : pc[w] = "exited" => pc'[w] = "exited"
    BY <1>24, <1>a, <1>b DEF Loop, Forget, Goto
  <2> QED
    BY <2>1, <2>2, <2>3, <2>4, <1>a DEF Undrained
<1>25. ASSUME NEW t \in Workers, PollOne(t) PROVE Goal
  <2>1. pc[t] \notin {"exited", "drain", "joined"} /\ drained' = drained
    BY <1>25, <1>a DEF PollOne, Fetch
  <2>2. (pc'[Main] = "joined" => pc[Main] = "joined") /\ (pc'[Main] = "drain" => pc[Main] = "drain" \/ Drains)
    BY <1>25, <1>a, <1>b, <1>d DEF PollOne, Fetch, Goto, Drains, Runs
  <2>3. Drains' => Drains
    <3>1. CASE t = Main
      BY <1>25, <1>a, <1>b, <1>c, <1>d, <3>1 DEF PollOne, Fetch, Goto, Drains, Runs, Holds, Rechecks, CallStates, QueueStates, EndStates, ControlOf, local, look
    <3>2. CASE t # Main
      BY <1>25, <1>a, <1>b, <1>c, <3>2 DEF PollOne, Fetch, Goto, Drains, Runs, CallStates, QueueStates, EndStates, local, look
    <3> QED
      BY <3>1, <3>2
  <2>4. \A w \in Workers : pc[w] = "exited" => pc'[w] = "exited"
    BY <1>25, <1>a, <1>b DEF PollOne, Fetch, Goto
  <2> QED
    BY <2>1, <2>2, <2>3, <2>4, <1>a DEF Undrained
<1>26. ASSUME NEW t \in Workers, BeginDelay(t) PROVE Goal
  <2>1. pc[t] \notin {"exited", "drain", "joined"} /\ drained' = drained
    BY <1>26, <1>a DEF BeginDelay, Forget
  <2>2. (pc'[Main] = "joined" => pc[Main] = "joined") /\ (pc'[Main] = "drain" => pc[Main] = "drain" \/ Drains)
    BY <1>26, <1>a, <1>b, <1>d DEF BeginDelay, Forget, Goto, Drains, Runs
  <2>3. Drains' => Drains
    <3>1. CASE t = Main
      BY <1>26, <1>a, <1>b, <1>c, <1>d, <3>1 DEF BeginDelay, Forget, Goto, Drains, Runs, Holds, Rechecks, CallStates, QueueStates, EndStates, ControlOf, local, look
    <3>2. CASE t # Main
      BY <1>26, <1>a, <1>b, <1>c, <3>2 DEF BeginDelay, Forget, Goto, Drains, Runs, CallStates, QueueStates, EndStates, local, look
    <3> QED
      BY <3>1, <3>2
  <2>4. \A w \in Workers : pc[w] = "exited" => pc'[w] = "exited"
    BY <1>26, <1>a, <1>b DEF BeginDelay, Forget, Goto
  <2> QED
    BY <2>1, <2>2, <2>3, <2>4, <1>a DEF Undrained
<1>27. ASSUME NEW t \in Workers, Park(t) PROVE Goal
  <2>1. pc[t] \notin {"exited", "drain", "joined"} /\ drained' = drained
    BY <1>27, <1>a DEF Park, Fetch
  <2>2. (pc'[Main] = "joined" => pc[Main] = "joined") /\ (pc'[Main] = "drain" => pc[Main] = "drain" \/ Drains)
    BY <1>27, <1>a, <1>b, <1>d DEF Park, Fetch, Goto, Drains, Runs
  <2>3. Drains' => Drains
    <3>1. CASE t = Main
      BY <1>27, <1>a, <1>b, <1>c, <1>d, <3>1 DEF Park, Fetch, Goto, Drains, Runs, Holds, Rechecks, CallStates, QueueStates, EndStates, ControlOf, local, look
    <3>2. CASE t # Main
      BY <1>27, <1>a, <1>b, <1>c, <3>2 DEF Park, Fetch, Goto, Drains, Runs, CallStates, QueueStates, EndStates, local, look
    <3> QED
      BY <3>1, <3>2
  <2>4. \A w \in Workers : pc[w] = "exited" => pc'[w] = "exited"
    BY <1>27, <1>a, <1>b DEF Park, Fetch, Goto
  <2> QED
    BY <2>1, <2>2, <2>3, <2>4, <1>a DEF Undrained
<1>28. ASSUME NEW t \in Workers, Wait(t) PROVE Goal
  <2>1. pc[t] \notin {"exited", "drain", "joined"} /\ drained' = drained
    BY <1>28, <1>a DEF Wait, Forget
  <2>2. (pc'[Main] = "joined" => pc[Main] = "joined") /\ (pc'[Main] = "drain" => pc[Main] = "drain" \/ Drains)
    BY <1>28, <1>a, <1>b, <1>d DEF Wait, Forget, Goto, Drains, Runs
  <2>3. Drains' => Drains
    <3>1. CASE t = Main
      BY <1>28, <1>a, <1>b, <1>c, <1>d, <3>1 DEF Wait, Forget, Goto, Drains, Runs, Holds, Rechecks, CallStates, QueueStates, EndStates, ControlOf, local, look
    <3>2. CASE t # Main
      BY <1>28, <1>a, <1>b, <1>c, <3>2 DEF Wait, Forget, Goto, Drains, Runs, CallStates, QueueStates, EndStates, local, look
    <3> QED
      BY <3>1, <3>2
  <2>4. \A w \in Workers : pc[w] = "exited" => pc'[w] = "exited"
    BY <1>28, <1>a, <1>b DEF Wait, Forget, Goto
  <2> QED
    BY <2>1, <2>2, <2>3, <2>4, <1>a DEF Undrained
<1>29. ASSUME NEW t \in Workers, Spin(t) PROVE Goal
  <2>1. pc[t] \notin {"exited", "drain", "joined"} /\ drained' = drained
    BY <1>29, <1>a DEF Spin
  <2>2. (pc'[Main] = "joined" => pc[Main] = "joined") /\ (pc'[Main] = "drain" => pc[Main] = "drain" \/ Drains)
    BY <1>29, <1>a, <1>b, <1>d DEF Spin, Goto, Drains, Runs
  <2>3. Drains' => Drains
    <3>1. CASE t = Main
      BY <1>29, <1>a, <1>b, <1>c, <1>d, <3>1 DEF Spin, Goto, Drains, Runs, Holds, Rechecks, CallStates, QueueStates, EndStates, ControlOf, local, look
    <3>2. CASE t # Main
      BY <1>29, <1>a, <1>b, <1>c, <3>2 DEF Spin, Goto, Drains, Runs, CallStates, QueueStates, EndStates, local, look
    <3> QED
      BY <3>1, <3>2
  <2>4. \A w \in Workers : pc[w] = "exited" => pc'[w] = "exited"
    BY <1>29, <1>a, <1>b DEF Spin, Goto
  <2> QED
    BY <2>1, <2>2, <2>3, <2>4, <1>a DEF Undrained
<1>30. ASSUME NEW t \in Workers, LeaveDelay(t) PROVE Goal
  <2>1. pc[t] \notin {"exited", "drain", "joined"} /\ drained' = drained
    BY <1>30, <1>a DEF LeaveDelay
  <2>2. (pc'[Main] = "joined" => pc[Main] = "joined") /\ (pc'[Main] = "drain" => pc[Main] = "drain" \/ Drains)
    BY <1>30, <1>a, <1>b, <1>d DEF LeaveDelay, Goto, Drains, Runs
  <2>3. Drains' => Drains
    <3>1. CASE t = Main
      BY <1>30, <1>a, <1>b, <1>c, <1>d, <3>1 DEF LeaveDelay, Goto, Drains, Runs, Holds, Rechecks, CallStates, QueueStates, EndStates, ControlOf, local, look
    <3>2. CASE t # Main
      BY <1>30, <1>a, <1>b, <1>c, <3>2 DEF LeaveDelay, Goto, Drains, Runs, CallStates, QueueStates, EndStates, local, look
    <3> QED
      BY <3>1, <3>2
  <2>4. \A w \in Workers : pc[w] = "exited" => pc'[w] = "exited"
    BY <1>30, <1>a, <1>b DEF LeaveDelay, Goto
  <2> QED
    BY <2>1, <2>2, <2>3, <2>4, <1>a DEF Undrained
<1>31. ASSUME NEW p \in Polled, PollFor(p) PROVE Goal
  <2>1. pc[Main] \notin {"exited", "drain", "joined"} /\ drained' = drained
    BY <1>31, <1>a DEF PollFor, Fetch
  <2>2. (pc'[Main] = "joined" => pc[Main] = "joined") /\ (pc'[Main] = "drain" => pc[Main] = "drain" \/ Drains)
    BY <1>31, <1>a, <1>b, <1>d DEF PollFor, Fetch, Goto, Drains, ControlOf
  <2>3. Drains' => Drains
    BY <1>31, <1>a, <1>b, <1>c, <1>d DEF PollFor, Fetch, Goto, Drains, Runs, CallStates, QueueStates, EndStates, ControlOf, local, look
  <2>4. \A w \in Workers : pc[w] = "exited" => pc'[w] = "exited"
    BY <1>31, <1>a, <1>b DEF PollFor, Fetch, Goto
  <2> QED
    BY <2>1, <2>2, <2>3, <2>4, <1>a DEF Undrained
<1>32. ASSUME Register PROVE Goal
  <2>1. pc[Main] \notin {"exited", "drain", "joined"} /\ drained' = drained
    BY <1>32, <1>a DEF Register
  <2>2. (pc'[Main] = "joined" => pc[Main] = "joined") /\ (pc'[Main] = "drain" => pc[Main] = "drain" \/ Drains)
    BY <1>32, <1>a, <1>b, <1>d DEF Register, Goto, Drains, ControlOf
  <2>3. Drains' => Drains
    BY <1>32, <1>a, <1>b, <1>c, <1>d DEF Register, Goto, Drains, Runs, CallStates, QueueStates, EndStates, ControlOf, local, look
  <2>4. \A w \in Workers : pc[w] = "exited" => pc'[w] = "exited"
    BY <1>32, <1>a, <1>b DEF Register, Goto
  <2> QED
    BY <2>1, <2>2, <2>3, <2>4, <1>a DEF Undrained
<1>33. ASSUME Relook PROVE Goal
  <2>1. pc[Main] \notin {"exited", "drain", "joined"} /\ drained' = drained
    BY <1>33, <1>a DEF Relook
  <2>2. (pc'[Main] = "joined" => pc[Main] = "joined") /\ (pc'[Main] = "drain" => pc[Main] = "drain" \/ Drains)
    BY <1>33, <1>a, <1>b, <1>d DEF Relook, Goto, Drains, ControlOf
  <2>3. Drains' => Drains
    BY <1>33, <1>a, <1>b, <1>c, <1>d DEF Relook, Goto, Drains, Runs, CallStates, QueueStates, EndStates, ControlOf, local, look
  <2>4. \A w \in Workers : pc[w] = "exited" => pc'[w] = "exited"
    BY <1>33, <1>a, <1>b DEF Relook, Goto
  <2> QED
    BY <2>1, <2>2, <2>3, <2>4, <1>a DEF Undrained
<1>34. ASSUME Deadline PROVE Goal
  <2>1. pc[Main] \notin {"exited", "drain", "joined"} /\ drained' = drained
    BY <1>34, <1>a DEF Deadline
  <2>2. (pc'[Main] = "joined" => pc[Main] = "joined") /\ (pc'[Main] = "drain" => pc[Main] = "drain" \/ Drains)
    BY <1>34, <1>a, <1>b, <1>d DEF Deadline, Goto, Drains, ControlOf
  <2>3. Drains' => Drains
    BY <1>34, <1>a, <1>b, <1>c, <1>d DEF Deadline, Goto, Drains, Runs, CallStates, QueueStates, EndStates, ControlOf, local, look
  <2>4. \A w \in Workers : pc[w] = "exited" => pc'[w] = "exited"
    BY <1>34, <1>a, <1>b DEF Deadline, Goto
  <2> QED
    BY <2>1, <2>2, <2>3, <2>4, <1>a DEF Undrained
<1>35. ASSUME PollAgain PROVE Goal
  <2>1. pc[Main] \notin {"exited", "drain", "joined"} /\ drained' = drained
    BY <1>35, <1>a DEF PollAgain, Fetch
  <2>2. (pc'[Main] = "joined" => pc[Main] = "joined") /\ (pc'[Main] = "drain" => pc[Main] = "drain" \/ Drains)
    BY <1>35, <1>a, <1>b, <1>d DEF PollAgain, Fetch, Goto, Drains, ControlOf
  <2>3. Drains' => Drains
    BY <1>35, <1>a, <1>b, <1>c, <1>d DEF PollAgain, Fetch, Goto, Drains, Runs, CallStates, QueueStates, EndStates, ControlOf, local, look
  <2>4. \A w \in Workers : pc[w] = "exited" => pc'[w] = "exited"
    BY <1>35, <1>a, <1>b DEF PollAgain, Fetch, Goto
  <2> QED
    BY <2>1, <2>2, <2>3, <2>4, <1>a DEF Undrained
<1>36. ASSUME Unregister PROVE Goal
  <2>1. pc[Main] \notin {"exited", "drain", "joined"} /\ drained' = drained
    BY <1>36, <1>a DEF Unregister, Forget
  <2>2. (pc'[Main] = "joined" => pc[Main] = "joined") /\ (pc'[Main] = "drain" => pc[Main] = "drain" \/ Drains)
    BY <1>36, <1>a, <1>b, <1>d DEF Unregister, Forget, Goto, Drains, ControlOf
  <2>3. Drains' => Drains
    BY <1>36, <1>a, <1>b, <1>c, <1>d DEF Unregister, Forget, Goto, Drains, Runs, CallStates, QueueStates, EndStates, ControlOf, local, look
  <2>4. \A w \in Workers : pc[w] = "exited" => pc'[w] = "exited"
    BY <1>36, <1>a, <1>b DEF Unregister, Forget, Goto
  <2> QED
    BY <2>1, <2>2, <2>3, <2>4, <1>a DEF Undrained
<1>37. ASSUME Join PROVE Goal
  <2>1. pc[Main] \notin {"exited", "drain", "joined"} /\ drained' = drained
    BY <1>37, <1>a DEF Join
  <2>2. (pc'[Main] = "joined" => pc[Main] = "joined") /\ (pc'[Main] = "drain" => pc[Main] = "drain" \/ Drains)
    BY <1>37, <1>a, <1>b, <1>d DEF Join, Goto, Drains, ControlOf
  <2>3. Drains' => Drains
    BY <1>37, <1>a, <1>b, <1>c, <1>d DEF Join, Goto, Drains, Runs, CallStates, QueueStates, EndStates, ControlOf, local, look
  <2>4. \A w \in Workers : pc[w] = "exited" => pc'[w] = "exited"
    BY <1>37, <1>a, <1>b DEF Join, Goto
  <2> QED
    BY <2>1, <2>2, <2>3, <2>4, <1>a DEF Undrained
<1> QED
  BY <1>1, <1>2, <1>3, <1>4, <1>5, <1>6, <1>7, <1>8, <1>9, <1>10, <1>11, <1>12, <1>13, <1>14, <1>15, <1>16, <1>17, <1>18, <1>19, <1>20, <1>21, <1>22, <1>23, <1>24, <1>25, <1>26, <1>27, <1>28, <1>29, <1>30, <1>31, <1>32, <1>33, <1>34, <1>35, <1>36, <1>37, <1>a DEF Next, Inside, Poll, Work, TimedPoll, Finish

\* Every step keeps JoinInv.
LEMMA JoinStep == ASSUME Base, JoinInv, [Next]_vars PROVE JoinInv'
<1>a. Main \in Threads /\ Main \notin Workers /\ Workers \subseteq Threads
  BY WorkerAssumption DEF Threads
<1>b. /\ pc \in [Threads -> Labels] /\ chain \in [Threads -> Seq(Tasks)] /\ heads \in [Slots -> Seq(Tasks)]
      /\ pos \in [Threads -> 0..(NThreads * Duplicates)] /\ drained \in BOOLEAN
  BY DEF Base, Types, TaskTypes, PlaceTypes, LocalTypes, FlagTypes
<1> DEFINE n == NThreads * Duplicates
<1>c. n \in Nat \ {0} /\ pos[Main] \in 0..n
  BY <1>a, <1>b, Bounds
<1>1. CASE \E t \in Threads : Undrained(t)
  BY <1>1, JoinStays
<1>2. CASE Joined
  <2>1. /\ pc'[Main] = "drain" /\ \A w \in Workers : pc'[w] = "exited"
        /\ pos'[Main] = 0 /\ chain'[Main] = chain[Main]
    BY <1>2, <1>a, <1>b DEF Joined, Drain, Goto
  <2>2. chain[Main] = <<>>
    BY <1>2, <1>a DEF Joined, Base, Control, ControlOf, Runs, CallStates, QueueStates, EndStates
  <2>3. ~Drains'
    BY <2>1 DEF Drains, Runs, CallStates, QueueStates, EndStates
  <2> QED
    BY <2>1, <2>2, <2>3 DEF JoinInv
<1>3. CASE DrainTake
  <2> DEFINE i == pos[Main]
  <2>1. /\ pc[Main] = "drain" /\ pc'[Main] = "drain" /\ \A w \in Workers : pc'[w] = pc[w]
        /\ i \in 0..(n - 1) /\ pos'[Main] = i + 1
        /\ chain[Main] = <<>> /\ chain'[Main] = heads[SlotOf(i)]
        /\ heads' = [heads EXCEPT ![SlotOf(i)] = <<>>]
        /\ drained' = (drained \/ heads[SlotOf(i)] # <<>>)
    BY <1>3, <1>a, <1>b, <1>c DEF DrainTake, Exchange, SlotOf
  <2>2. ~drained' => chain'[Main] = <<>> /\ \A k \in 0..i : heads'[SlotOf(k)] = <<>>
    <3> SUFFICES ASSUME ~drained' PROVE chain'[Main] = <<>> /\ \A k \in 0..i : heads'[SlotOf(k)] = <<>>
      OBVIOUS
    <3>1. heads[SlotOf(i)] = <<>> /\ ~drained
      BY <2>1, <1>b
    <3>2. \A k \in 0..(i - 1) : heads[SlotOf(k)] = <<>>
      BY <2>1, <3>1 DEF JoinInv
    <3>3. \A k \in 0..i : heads[SlotOf(k)] = <<>>
      BY <2>1, <3>1, <3>2
    <3>4. \A s \in Slots : heads[s] = <<>> => heads'[s] = <<>>
      BY <2>1, <1>b
    <3>5. \A k \in 0..i : SlotOf(k) \in Slots
      BY <2>1, <1>c, SlotOfIsIn
    <3> QED
      BY <2>1, <3>1, <3>3, <3>4, <3>5
  <2>3. ~Drains'
    BY <2>1 DEF Drains, Runs, CallStates, QueueStates, EndStates
  <2>4. 0..(pos'[Main] - 1) = 0..i
    BY <2>1
  <2> QED
    BY <2>1, <2>2, <2>3, <2>4 DEF JoinInv, Draining
<1>4. CASE DrainTask
  <2>1. /\ pc[Main] = "drain" /\ pc'[Main] = "body" /\ \A w \in Workers : pc'[w] = pc[w]
        /\ chain[Main] # <<>> /\ drained' = drained
    BY <1>4, <1>a, <1>b DEF DrainTask, Goto
  <2> QED
    BY <2>1 DEF JoinInv, Draining
<1>5. CASE DrainEnd
  <2>1. /\ pc[Main] = "drain" /\ \A w \in Workers : pc'[w] = pc[w]
        /\ chain[Main] = <<>> /\ chain' = chain /\ pos[Main] = n /\ heads' = heads
        /\ pc'[Main] \in {"drain", "joined"}
        /\ pc'[Main] = "drain" => pos'[Main] = 0
        /\ pc'[Main] = "joined" => ~drained
    <3>1. CASE drained
      BY <1>5, <1>a, <1>b, <3>1 DEF DrainEnd, Drain, Goto
    <3>2. CASE ~drained
      <4>1. pc' = [pc EXCEPT ![Main] = "joined"]
        BY <1>5, <3>2 DEF DrainEnd, Goto
      <4> QED
        BY <4>1, <1>5, <1>a, <1>b, <3>2 DEF DrainEnd, Drain, Goto
    <3> QED
      BY <3>1, <3>2
  <2>2. ~drained => \A s \in Slots : heads[s] = <<>>
    <3>1. ASSUME NEW s \in Slots PROVE \E i \in 0..(n - 1) : SlotOf(i) = s
      BY RoundIsWhole
    <3> QED
      BY <2>1, <3>1 DEF JoinInv
  <2>3. ~Drains'
    BY <2>1 DEF Drains, Runs, CallStates, QueueStates, EndStates
  <2> QED
    BY <2>1, <2>2, <2>3 DEF JoinInv, Draining
<1>6. CASE UNCHANGED vars
  BY <1>6 DEF vars, JoinInv, Draining, Drains, Runs
<1> QED
  BY <1>1, <1>2, <1>3, <1>4, <1>5, <1>6, JoinKeeps

\* When join() is over no task is left queued: those that the workers left behind, and
\* those that were queued while join() ran them, have been run.
THEOREM JoinRunsAll == Spec => []JoinedMeansDone
<1>1. Init => JoinInv
  BY WorkerAssumption DEF Init, Threads, JoinInv, Draining, Drains, Runs, CallStates, QueueStates, EndStates
<1>2. Base /\ JoinInv => JoinedMeansDone
  <2> SUFFICES ASSUME Base, JoinInv, pc[Main] = "joined", NEW j \in Tasks, status[j] = "queued" PROVE FALSE
    BY DEF JoinedMeansDone, With
  <2>1. /\ \A s \in Slots : heads[s] = <<>>
        /\ \A w \in Workers : pc[w] = "exited"
    BY DEF JoinInv, Draining
  <2>2. ASSUME NEW t \in Threads PROVE Hand(t) = {}
    <3>1. pc[t] \in {"exited", "joined"}
      BY <2>1 DEF Threads
    <3>2. ~Holds(t) /\ arg[t] = None /\ chain[t] = <<>>
      BY <3>1 DEF Base, Control, ControlOf, Holds, Runs, Rechecks, CallStates, QueueStates, EndStates, Asking
    <3> QED
      BY <3>2, NoList DEF Hand, Pending
  <2>3. \/ \E s \in Slots : j \in Range(heads[s])
        \/ \E t \in Threads : j \in Hand(t)
    BY DEF Base, Placed, QueuedThere
  <2> QED
    BY <2>1, <2>2, <2>3, NoList
<1> QED
  BY <1>1, <1>2, JoinStep, BaseInvariant, PTL DEF Spec

(***************************************************************************)
(* Priorities                                                              *)
(***************************************************************************)
\* w may run, or come to run without another look at the priorities, a task of
\* priority p or a less urgent one.
Serves(w, p) ==
  \/ (pc[w] \in {"take", "putback"} \/ Polls(w)) /\ size[w] > p
  \/ job[w] # None /\ Priority[job[w]] >= p

\* Each slot holds tasks of its priority; so does a chain on its way back; few serve p.
SlotsSorted == \A s \in Slots : \A j \in Range(heads[s]) : Priority[j] = s.priority
ChainOf(t) == pc[t] \in {"putback", "repush"} => \A j \in Range(chain[t]) : Priority[j] = slot[t].priority
Served == \A p \in Priorities : Cardinality({w \in Workers : Serves(w, p)}) <= NThreads - p

\* Until the worker is terminated a task is in a slot of its priority, and so is it
\* on its way back; and only NThreads - p workers serve priority p and those after it.
PrioInv == ~terminated => SlotsSorted /\ (\A t \in Threads : ChainOf(t)) /\ Served

\* A step of t that moves no task and does not make t serve more.
Still(t) ==
  /\ heads' = heads /\ chain' = chain
  /\ job'[t] \in {job[t], None}
  /\ pc'[t] \notin {"putback", "repush"}
  /\ t \in Workers /\ (pc'[t] = "take" \/ Polls(t)') => Polls(t) /\ size'[t] = size[t]

\* A step after which no worker serves more.
LEMMA ServedStays ==
  ASSUME Served, NEW t \in Threads, Others(t),
         t \in Workers => \A p \in Priorities : Serves(t, p)' => Serves(t, p)
  PROVE  Served'
<1> SUFFICES ASSUME NEW p \in Priorities
             PROVE  Cardinality({w \in Workers : Serves(w, p)'}) <= NThreads - p
  BY DEF Served
<1>1. ASSUME NEW w \in Workers, w # t, Serves(w, p)' PROVE Serves(w, p)
  <2>1. Keeps(w)
    BY <1>1 DEF Others, Threads
  <2> QED
    BY <1>1, <2>1 DEF Keeps, Serves, Polls
<1> DEFINE A == {w \in Workers : Serves(w, p)}
           B == {w \in Workers : Serves(w, p)'}
<1>2. B \subseteq A
  BY <1>1
<1>3. IsFiniteSet(A)
  <2>1. IsFiniteSet(Workers)
    BY WorkerAssumption, FS_Interval DEF Workers
  <2> QED
    BY <2>1, FS_Subset
<1>4. Cardinality(A) <= NThreads - p
  BY DEF Served
<1>5. Cardinality(A) \in Nat /\ Cardinality(B) \in Nat /\ Cardinality(B) <= Cardinality(A)
  BY <1>2, <1>3, FS_Subset, FS_CardinalityType
<1> HIDE DEF A, B
<1>6. NThreads - p \in Int
  BY WorkerAssumption DEF Priorities
<1>7. Cardinality(B) <= NThreads - p
  BY <1>4, <1>5, <1>6
<1> QED
  BY <1>7 DEF B

\* A step that moves no task and after which no worker serves more keeps PrioInv.
LEMMA StillStays ==
  ASSUME PrioInv, NEW t \in Threads, Others(t), Still(t), terminated => terminated'
  PROVE  PrioInv'
<1> SUFFICES ASSUME ~terminated, ~terminated'
             PROVE  SlotsSorted' /\ (\A u \in Threads : ChainOf(u)') /\ Served'
  BY DEF PrioInv
<1>1. SlotsSorted'
  BY DEF PrioInv, SlotsSorted, Still
<1>2. \A u \in Threads : ChainOf(u)'
  BY DEF PrioInv, ChainOf, Still, Others, Keeps
<1>3. Served'
  <2>1. \A p \in Priorities : t \in Workers /\ Serves(t, p)' => Serves(t, p)
    BY DEF Still, Serves, Polls
  <2> QED
    BY <2>1, ServedStays DEF PrioInv
<1> QED
  BY <1>1, <1>2, <1>3

\* The actions that are such steps.
LEMMA PrioKeeps ==
  ASSUME Base, [Next]_vars
  PROVE  \/ \E t \in Threads : Others(t) /\ Still(t) /\ (terminated => terminated')
         \/ \E t \in Threads : TrySlot(t) \/ Chain(t) \/ AppendLast(t) \/ Take(t) \/ PutBack(t) \/ Repush(t)
         \/ \E t \in Workers : PollOne(t)
         \/ DrainTake \/ DrainTask \/ UNCHANGED vars
<1> DEFINE Goal == \E t \in Threads : Others(t) /\ Still(t) /\ (terminated => terminated')
<1>a. Main \in Threads /\ Workers \subseteq Threads /\ Main \notin Workers
      /\ \A u \in Threads : u = Main \/ u \in Workers
  BY WorkerAssumption DEF Threads
<1>b. /\ pc \in [Threads -> Labels] /\ back \in [Threads -> {"start", "body", "idle"}]
      /\ job \in [Threads -> Tasks \cup {None}] /\ chain \in [Threads -> Seq(Tasks)]
      /\ arg \in [Threads -> Tasks \cup {None}]
      /\ goal \in [Threads -> {"poll", "recheck", "park"}] /\ slot \in [Threads -> Slots]
      /\ size \in [Threads -> 0..NThreads] /\ pos \in [Threads -> 0..(NThreads * Duplicates)]
  BY DEF Base, Types, TaskTypes, PlaceTypes, LocalTypes
<1>c. timed \in BOOLEAN
  BY DEF Base, Types, FlagTypes
<1> USE DEF Goto
<1>1. ASSUME NEW t \in Threads, NEW j \in Tasks, QueueTask(t, j) PROVE Goal
  <2>1. Others(t)
    BY <1>1, <1>a, <1>b DEF QueueTask, InClient, Others, Keeps, local, look
  <2>2. Still(t)
    BY <1>1, <1>a, <1>b DEF QueueTask, InClient, Still, Polls, local, look
  <2>3. terminated => terminated'
    BY <1>1 DEF QueueTask, InClient
  <2> QED
    BY <2>1, <2>2, <2>3, <1>a
<1>2. ASSUME NEW t \in Threads, Terminate(t) PROVE Goal
  <2>1. Others(t)
    BY <1>2, <1>a, <1>b DEF Terminate, InClient, Others, Keeps, local, look
  <2>2. Still(t)
    BY <1>2, <1>a, <1>b DEF Terminate, InClient, Still, Polls, local, look
  <2>3. terminated => terminated'
    BY <1>2 DEF Terminate, InClient
  <2> QED
    BY <2>1, <2>2, <2>3, <1>a
<1>3. ASSUME NEW t \in Threads, CheckTerminated(t) PROVE Goal
  <2>1. Others(t)
    BY <1>3, <1>a, <1>b DEF CheckTerminated, Others, Keeps, local, look
  <2>2. Still(t)
    BY <1>3, <1>a, <1>b DEF CheckTerminated, Still, Polls, local, look
  <2>3. terminated => terminated'
    BY <1>3 DEF CheckTerminated
  <2> QED
    BY <2>1, <2>2, <2>3, <1>a
<1>4. ASSUME NEW t \in Threads, Wake(t) PROVE Goal
  <2>a. /\ \/ pc' = [pc EXCEPT ![t] = "bump"] /\ UNCHANGED local
           \/ pc' = [pc EXCEPT ![t] = back[t]] /\ Forget(t)
        /\ heads' = heads /\ chain' = chain /\ job' = job /\ arg' = arg
    BY <1>4 DEF Wake, Return
  <2>1. Others(t)
    BY <2>a, <1>b DEF Others, Keeps, Forget, local, look
  <2>b. pc'[t] \in {"bump", "start", "body", "idle"}
    BY <2>a, <1>b
  <2>2. Still(t)
    BY <2>a, <2>b DEF Still, Polls
  <2>3. terminated => terminated'
    BY <1>4 DEF Wake, Return, Forget
  <2> QED
    BY <2>1, <2>2, <2>3, <1>a
<1>5. ASSUME NEW t \in Threads, Bump(t) PROVE Goal
  <2>1. Others(t)
    BY <1>5, <1>a, <1>b DEF Bump, Others, Keeps, local, look
  <2>2. Still(t)
    BY <1>5, <1>a, <1>b DEF Bump, Still, Polls, local, look
  <2>3. terminated => terminated'
    BY <1>5 DEF Bump
  <2> QED
    BY <2>1, <2>2, <2>3, <1>a
<1>6. ASSUME NEW t \in Threads, NotifyOne(t) PROVE Goal
  <2>1. Others(t)
    <3>1. CASE pc' = [pc EXCEPT ![t] = "look timed"]
      BY <1>6, <3>1, <1>b DEF NotifyOne, Others, Keeps, local, look
    <3>2. ASSUME NEW w \in Sleepers, pc' = [pc EXCEPT ![t] = "look timed", ![w] = "spin"] PROVE Others(t)
      BY <1>6, <3>2, <1>a, <1>b DEF NotifyOne, Sleepers, Others, Keeps, local, look
    <3> QED
      BY <1>6, <3>1, <3>2 DEF NotifyOne
  <2>2. Still(t)
    BY <1>6, <1>a, <1>b DEF NotifyOne, Sleepers, Still, Polls, local, look
  <2>3. terminated => terminated'
    BY <1>6 DEF NotifyOne, Sleepers
  <2> QED
    BY <2>1, <2>2, <2>3, <1>a
<1>7. ASSUME NEW t \in Threads, NotifyAll(t) PROVE Goal
  <2>1. Others(t)
    BY <1>7, <1>a, <1>b DEF NotifyAll, Sleepers, Others, Keeps, local, look
  <2>2. Still(t)
    BY <1>7, <1>a, <1>b DEF NotifyAll, Sleepers, Still, Polls, local, look
  <2>3. terminated => terminated'
    BY <1>7 DEF NotifyAll, Sleepers
  <2> QED
    BY <2>1, <2>2, <2>3, <1>a
<1>8. ASSUME NEW t \in Threads, LookTimed(t) PROVE Goal
  <2>a. /\ \/ pc' = [pc EXCEPT ![t] = "notify timed"] /\ UNCHANGED local
           \/ pc' = [pc EXCEPT ![t] = back[t]] /\ Forget(t)
        /\ heads' = heads /\ chain' = chain /\ job' = job /\ arg' = arg
    BY <1>8 DEF LookTimed, Return
  <2>1. Others(t)
    BY <2>a, <1>b, ZenonT(40) DEF Others, Keeps, Forget, local, look
  <2>b. pc'[t] \in {"notify timed", "start", "body", "idle"}
    BY <2>a, <1>b
  <2>2. Still(t)
    BY <2>a, <2>b DEF Still, Polls
  <2>3. terminated => terminated'
    BY <1>8 DEF LookTimed, Return, Forget
  <2> QED
    BY <2>1, <2>2, <2>3, <1>a
<1>9. ASSUME NEW t \in Threads, NotifyTimed(t) PROVE Goal
  <2>1. Others(t)
    <3>1. CASE t = Main
      BY <1>9, <1>a, <1>b, <3>1 DEF NotifyTimed, Forget, Others, Keeps
    <3>2. CASE t # Main
      BY <1>9, <1>a, <1>b, <3>2 DEF NotifyTimed, Forget, Others, Keeps
    <3> QED
      BY <3>1, <3>2
  <2>2. Still(t)
    <3>1. CASE t = Main
      BY <1>9, <1>a, <1>b, <3>1 DEF NotifyTimed, Forget, Still, Polls
    <3>2. CASE t # Main
      BY <1>9, <1>a, <1>b, <3>2 DEF NotifyTimed, Forget, Still, Polls
    <3> QED
      BY <3>1, <3>2
  <2>3. terminated => terminated'
    BY <1>9 DEF NotifyTimed, Forget
  <2> QED
    BY <2>1, <2>2, <2>3, <1>a
<1>10. ASSUME NEW t \in Threads, EndTask(t) PROVE Goal
  <2>1. Others(t)
    BY <1>10, <1>a, <1>b DEF EndTask, Others, Keeps, local, look
  <2>2. Still(t)
    BY <1>10, <1>a, <1>b DEF EndTask, Still, Polls, local, look
  <2>3. terminated => terminated'
    BY <1>10 DEF EndTask
  <2> QED
    BY <2>1, <2>2, <2>3, <1>a
<1>11. ASSUME NEW t \in Threads, FetchSome(t) PROVE Goal
  <2>1. Others(t)
    BY <1>11, <1>a, <1>b DEF FetchSome, Others, Keeps, local, look
  <2>2. Still(t)
    BY <1>11, <1>a, <1>b DEF FetchSome, Still, Polls, local, look
  <2>3. terminated => terminated'
    BY <1>11 DEF FetchSome
  <2> QED
    BY <2>1, <2>2, <2>3, <1>a
<1>12. ASSUME NEW t \in Threads, FetchNext(t) PROVE Goal
  <2>1. Others(t)
    BY <1>12, <1>a, <1>b DEF FetchNext, Others, Keeps, local, look
  <2>2. Still(t)
    BY <1>12, <1>a, <1>b DEF FetchNext, Still, Polls, local, look
  <2>3. terminated => terminated'
    BY <1>12 DEF FetchNext
  <2> QED
    BY <2>1, <2>2, <2>3, <1>a
<1>13. ASSUME NEW t \in Threads, FetchNone(t) PROVE Goal
  <2>1. Others(t)
    BY <1>13, <1>a, <1>b DEF FetchNone, Others, Keeps, local, look
  <2>2. Still(t)
    BY <1>13, <1>a, <1>b DEF FetchNone, Still, Polls, local, look
  <2>3. terminated => terminated'
    BY <1>13 DEF FetchNone
  <2> QED
    BY <2>1, <2>2, <2>3, <1>a
<1>14. ASSUME NEW t \in Threads, Check(t) PROVE Goal
  <2>1. Others(t)
    BY <1>14, <1>a, <1>b DEF Check, Fetch, Others, Keeps, local, look
  <2>2. Still(t)
    BY <1>14, <1>a, <1>b DEF Check, Fetch, Still, Polls, local, look
  <2>3. terminated => terminated'
    BY <1>14 DEF Check, Fetch
  <2> QED
    BY <2>1, <2>2, <2>3, <1>a
<1>15. ASSUME NEW t \in Threads, StartTask(t) PROVE Goal
  <2>1. Others(t)
    BY <1>15, <1>a, <1>b DEF StartTask, Forget, Others, Keeps, local, look
  <2>2. Still(t)
    BY <1>15, <1>a, <1>b DEF StartTask, Forget, Still, Polls, local, look
  <2>3. terminated => terminated'
    BY <1>15 DEF StartTask, Forget
  <2> QED
    BY <2>1, <2>2, <2>3, <1>a
<1>16. ASSUME NEW t \in Threads, EndPoll(t) PROVE Goal
  <2>1. Others(t)
    BY <1>16, <1>a, <1>b DEF EndPoll, AfterPoll, Others, Keeps, local, look
  <2>2. Still(t)
    BY <1>16, <1>a, <1>b DEF EndPoll, AfterPoll, Still, Polls, local, look
  <2>3. terminated => terminated'
    BY <1>16 DEF EndPoll, AfterPoll
  <2> QED
    BY <2>1, <2>2, <2>3, <1>a
<1>17. ASSUME NEW t \in Threads, Snapshot(t) PROVE Goal
  <2>1. Others(t)
    BY <1>17, <1>a, <1>b DEF Snapshot, Others, Keeps, local, look
  <2>2. Still(t)
    BY <1>17, <1>a, <1>b DEF Snapshot, Still, Polls, local, look
  <2>3. terminated => terminated'
    BY <1>17 DEF Snapshot
  <2> QED
    BY <2>1, <2>2, <2>3, <1>a
<1>18. ASSUME NEW t \in Workers, Loop(t) PROVE Goal
  <2>1. Others(t)
    BY <1>18, <1>a, <1>b DEF Loop, Forget, Others, Keeps, local, look
  <2>2. Still(t)
    BY <1>18, <1>a, <1>b DEF Loop, Forget, Still, Polls, local, look
  <2>3. terminated => terminated'
    BY <1>18 DEF Loop, Forget
  <2> QED
    BY <2>1, <2>2, <2>3, <1>a
<1>19. ASSUME NEW t \in Workers, BeginDelay(t) PROVE Goal
  <2>1. Others(t)
    BY <1>19, <1>a, <1>b DEF BeginDelay, Forget, Others, Keeps, local, look
  <2>2. Still(t)
    BY <1>19, <1>a, <1>b DEF BeginDelay, Forget, Still, Polls, local, look
  <2>3. terminated => terminated'
    BY <1>19 DEF BeginDelay, Forget
  <2> QED
    BY <2>1, <2>2, <2>3, <1>a
<1>20. ASSUME NEW t \in Workers, Park(t) PROVE Goal
  <2>1. Others(t)
    BY <1>20, <1>a, <1>b DEF Park, Fetch, Others, Keeps, local, look
  <2>2. Still(t)
    BY <1>20, <1>a, <1>b DEF Park, Fetch, Still, Polls, local, look
  <2>3. terminated => terminated'
    BY <1>20 DEF Park, Fetch
  <2> QED
    BY <2>1, <2>2, <2>3, <1>a
<1>21. ASSUME NEW t \in Workers, Wait(t) PROVE Goal
  <2>1. Others(t)
    BY <1>21, <1>a, <1>b DEF Wait, Forget, Others, Keeps, local, look
  <2>2. Still(t)
    BY <1>21, <1>a, <1>b DEF Wait, Forget, Still, Polls, local, look
  <2>3. terminated => terminated'
    BY <1>21 DEF Wait, Forget
  <2> QED
    BY <2>1, <2>2, <2>3, <1>a
<1>22. ASSUME NEW t \in Workers, Spin(t) PROVE Goal
  <2>1. Others(t)
    BY <1>22, <1>a, <1>b DEF Spin, Others, Keeps, local, look
  <2>2. Still(t)
    BY <1>22, <1>a, <1>b DEF Spin, Still, Polls, local, look
  <2>3. terminated => terminated'
    BY <1>22 DEF Spin
  <2> QED
    BY <2>1, <2>2, <2>3, <1>a
<1>23. ASSUME NEW t \in Workers, LeaveDelay(t) PROVE Goal
  <2>1. Others(t)
    BY <1>23, <1>a, <1>b DEF LeaveDelay, Others, Keeps, local, look
  <2>2. Still(t)
    BY <1>23, <1>a, <1>b DEF LeaveDelay, Still, Polls, local, look
  <2>3. terminated => terminated'
    BY <1>23 DEF LeaveDelay
  <2> QED
    BY <2>1, <2>2, <2>3, <1>a
<1>24. ASSUME NEW p \in Polled, PollFor(p) PROVE Goal
  <2>1. Others(Main)
    BY <1>24, <1>a, <1>b DEF PollFor, Fetch, Others, Keeps, local, look
  <2>2. Still(Main)
    BY <1>24, <1>a, <1>b DEF PollFor, Fetch, Still, Polls, local, look
  <2>3. terminated => terminated'
    BY <1>24 DEF PollFor, Fetch
  <2> QED
    BY <2>1, <2>2, <2>3, <1>a
<1>25. ASSUME Register PROVE Goal
  <2>1. Others(Main)
    BY <1>25, <1>a, <1>b DEF Register, Others, Keeps, local, look
  <2>2. Still(Main)
    BY <1>25, <1>a, <1>b DEF Register, Still, Polls, local, look
  <2>3. terminated => terminated'
    BY <1>25 DEF Register
  <2> QED
    BY <2>1, <2>2, <2>3, <1>a
<1>26. ASSUME Relook PROVE Goal
  <2>1. Others(Main)
    BY <1>26, <1>a, <1>b DEF Relook, Others, Keeps, local, look
  <2>2. Still(Main)
    BY <1>26, <1>a, <1>b DEF Relook, Still, Polls, local, look
  <2>3. terminated => terminated'
    BY <1>26 DEF Relook
  <2> QED
    BY <2>1, <2>2, <2>3, <1>a
<1>27. ASSUME Deadline PROVE Goal
  <2>1. Others(Main)
    BY <1>27, <1>a, <1>b DEF Deadline, Others, Keeps, local, look
  <2>2. Still(Main)
    BY <1>27, <1>a, <1>b DEF Deadline, Still, Polls, local, look
  <2>3. terminated => terminated'
    BY <1>27 DEF Deadline
  <2> QED
    BY <2>1, <2>2, <2>3, <1>a
<1>28. ASSUME PollAgain PROVE Goal
  <2>1. Others(Main)
    BY <1>28, <1>a, <1>b DEF PollAgain, Fetch, Others, Keeps, local, look
  <2>2. Still(Main)
    BY <1>28, <1>a, <1>b DEF PollAgain, Fetch, Still, Polls, local, look
  <2>3. terminated => terminated'
    BY <1>28 DEF PollAgain, Fetch
  <2> QED
    BY <2>1, <2>2, <2>3, <1>a
<1>29. ASSUME Unregister PROVE Goal
  <2>1. Others(Main)
    BY <1>29, <1>a, <1>b DEF Unregister, Forget, Others, Keeps, local, look
  <2>2. Still(Main)
    BY <1>29, <1>a, <1>b DEF Unregister, Forget, Still, Polls, local, look
  <2>3. terminated => terminated'
    BY <1>29 DEF Unregister, Forget
  <2> QED
    BY <2>1, <2>2, <2>3, <1>a
<1>30. ASSUME Join PROVE Goal
  <2>1. Others(Main)
    BY <1>30, <1>a, <1>b DEF Join, Others, Keeps, local, look
  <2>2. Still(Main)
    BY <1>30, <1>a, <1>b DEF Join, Still, Polls, local, look
  <2>3. terminated => terminated'
    BY <1>30 DEF Join
  <2> QED
    BY <2>1, <2>2, <2>3, <1>a
<1>31. ASSUME Joined PROVE Goal
  <2>1. Others(Main)
    BY <1>31, <1>a, <1>b DEF Joined, Drain, Others, Keeps, local, look
  <2>2. Still(Main)
    BY <1>31, <1>a, <1>b DEF Joined, Drain, Still, Polls, local, look
  <2>3. terminated => terminated'
    BY <1>31 DEF Joined, Drain
  <2> QED
    BY <2>1, <2>2, <2>3, <1>a
<1>32. ASSUME DrainEnd PROVE Goal
  <2>1. Others(Main)
    BY <1>32, <1>a, <1>b DEF DrainEnd, Drain, Others, Keeps, local, look
  <2>2. Still(Main)
    BY <1>32, <1>a, <1>b DEF DrainEnd, Drain, Still, Polls, local, look
  <2>3. terminated => terminated'
    BY <1>32 DEF DrainEnd, Drain
  <2> QED
    BY <2>1, <2>2, <2>3, <1>a
<1> QED
  BY <1>1, <1>2, <1>3, <1>4, <1>5, <1>6, <1>7, <1>8, <1>9, <1>10, <1>11, <1>12, <1>13, <1>14, <1>15, <1>16, <1>17, <1>18, <1>19, <1>20, <1>21, <1>22, <1>23, <1>24, <1>25, <1>26, <1>27, <1>28, <1>29, <1>30, <1>31, <1>32, <1>a DEF Next, Inside, Poll, Work, TimedPoll, Finish

\* A worker that begins a poll serves as many priorities as are left to it.
LEMMA ServedPoll == ASSUME Base, Served, NEW t \in Workers, PollOne(t) PROVE Served'
<1>a. t \in Threads /\ Workers \subseteq Threads /\ NThreads \in Nat \ {0}
  BY WorkerAssumption DEF Threads
<1>b. /\ pc \in [Threads -> Labels] /\ job \in [Threads -> Tasks \cup {None}]
      /\ goal \in [Threads -> {"poll", "recheck", "park"}] /\ size \in [Threads -> 0..NThreads]
  BY DEF Base, Types, TaskTypes, PlaceTypes, LocalTypes
<1>c. IsFiniteSet(Workers) /\ Cardinality(Workers) = NThreads /\ IsFiniteSet(Threads)
  <2>1. IsFiniteSet(Workers) /\ Cardinality(Workers) = NThreads
    BY WorkerAssumption, FS_Interval DEF Workers
  <2> QED
    BY <2>1, FS_AddElement DEF Threads
<1>1. /\ pc[t] = "poll" /\ job[t] = None
      /\ \A w \in Workers \ {t} : pc'[w] = pc[w] /\ job'[w] = job[w] /\ goal'[w] = goal[w] /\ size'[w] = size[w]
      /\ pc'[t] = "fetch" /\ job'[t] = job[t]
      /\ size'[t] = NThreads + 1 - Lesser(running + 1, NThreads)
  <2>1. pc[t] = "poll" /\ job[t] = None
    BY <1>a DEF PollOne, Base, Control, ControlOf, Holds, Runs, Rechecks, CallStates, QueueStates, EndStates
  <2> QED
    BY <2>1, <1>a, <1>b DEF PollOne, Fetch, Goto
<1> SUFFICES ASSUME NEW p \in Priorities
             PROVE  Cardinality({w \in Workers : Serves(w, p)'}) <= NThreads - p
  BY DEF Served
<1>2. p \in 0..(NThreads - 1)
  BY DEF Priorities
<1> DEFINE A == {w \in Workers : Serves(w, p)}
           B == {w \in Workers : Serves(w, p)'}
           C == {u \in Threads : Counted(u)}
<1>3. \A w \in Workers \ {t} : w \in A <=> w \in B
  BY <1>1 DEF Serves, Polls
<1>4. IsFiniteSet(A) /\ IsFiniteSet(B) /\ IsFiniteSet(C)
  BY <1>c, FS_Subset
<1>5. Cardinality(B) <= NThreads /\ Cardinality(A) \in Nat /\ Cardinality(B) \in Nat /\ Cardinality(C) \in Nat
  <2>1. B \subseteq Workers
    OBVIOUS
  <2> HIDE DEF A, B, C
  <2> QED
    BY <2>1, <1>4, <1>c, FS_Subset, FS_CardinalityType
<1>6. A \subseteq C
  <2> SUFFICES ASSUME NEW w \in Workers, Serves(w, p) PROVE Counted(w)
    BY <1>a
  <2>1. w \in Threads /\ w # Main
    BY <1>a, WorkerAssumption
  <2>2. CASE job[w] # None
    <3>1. Holds(w) \/ Runs(w)
      BY <2>1, <2>2 DEF Base, Control, ControlOf
    <3>2. Runs(w) => status[job[w]] = "running"
      BY <2>1 DEF Base, Placed, JobsRun, RunsOf
    <3> QED
      BY <3>1, <3>2 DEF Counted, Busy
  <2> QED
    BY <2>2 DEF Serves, Counted, Busy
<1>7. running = Cardinality(C)
  BY DEF Base, Running
<1>8. Cardinality(A) <= running
  <2> HIDE DEF A, C
  <2> QED
    BY <1>4, <1>6, <1>7, FS_Subset
<1>9. Cardinality(B) = Cardinality(A) - (IF t \in A THEN 1 ELSE 0) + (IF t \in B THEN 1 ELSE 0)
  <2>1. \A w : w # t => (w \in A <=> w \in B)
    BY <1>3
  <2> HIDE DEF A, B
  <2> QED
    BY <2>1, <1>4, OneMoves
<1>10. t \notin A
  BY <1>1 DEF Serves, Polls
<1>11. t \in B <=> size'[t] > p /\ goal'[t] = "poll"
  BY <1>1 DEF Serves, Polls
<1> HIDE DEF A, B, C
<1>12. CASE p = 0
  BY <1>5, <1>12, <1>a DEF B
<1>13. CASE p # 0 /\ t \in B
  <2>1. NThreads + 1 - Lesser(running + 1, NThreads) > p
    BY <1>1, <1>11, <1>13
  <2>2. running \in Nat
    BY <1>5, <1>7
  <2>3. running + 1 <= NThreads - p
    BY <2>1, <2>2, <1>2, <1>13, <1>a DEF Lesser
  <2>4. Cardinality(B) <= NThreads - p
    BY <2>2, <2>3, <1>2, <1>5, <1>8, <1>9, <1>10, <1>13, <1>a
  <2> QED
    BY <2>4 DEF B
<1>14. CASE t \notin B
  <2>1. Cardinality(A) <= NThreads - p
    BY DEF Served, A
  <2>2. Cardinality(B) <= NThreads - p
    BY <2>1, <1>5, <1>9, <1>10, <1>14
  <2> QED
    BY <2>2 DEF B
<1> QED
  BY <1>12, <1>13, <1>14

\* Every step keeps PrioInv.
LEMMA PrioStep == ASSUME Base, JoinInv, PrioInv, [Next]_vars PROVE PrioInv'
<1>a. Main \in Threads /\ Workers \subseteq Threads /\ Main \notin Workers
  BY WorkerAssumption DEF Threads
<1>b. /\ pc \in [Threads -> Labels] /\ heads \in [Slots -> Seq(Tasks)]
      /\ job \in [Threads -> Tasks \cup {None}] /\ chain \in [Threads -> Seq(Tasks)]
      /\ arg \in [Threads -> Tasks \cup {None}] /\ slot \in [Threads -> Slots]
      /\ size \in [Threads -> 0..NThreads] /\ goal \in [Threads -> {"poll", "recheck", "park"}]
      /\ back \in [Threads -> {"start", "body", "idle"}] /\ pos \in [Threads -> 0..(NThreads * Duplicates)]
      /\ Priority \in [Tasks -> Priorities]
  BY WorkerAssumption DEF Base, Types, TaskTypes, PlaceTypes, LocalTypes
<1>c. ASSUME NEW t \in Threads, Others(t), \A p \in Priorities : t \in Workers /\ Serves(t, p)' => Serves(t, p),
             terminated' = terminated, ~terminated => ChainOf(t)' /\ SlotsSorted'
      PROVE  PrioInv'
  <2> SUFFICES ASSUME ~terminated PROVE SlotsSorted' /\ (\A u \in Threads : ChainOf(u)') /\ Served'
    BY <1>c DEF PrioInv
  <2>1. Served'
    BY <1>c, ServedStays DEF PrioInv
  <2>2. \A u \in Threads \ {t} : ChainOf(u)'
    BY <1>c DEF PrioInv, ChainOf, Others, Keeps
  <2> QED
    BY <1>c, <2>1, <2>2
<1>d. \A t \in Threads : Known(t)
  BY WhatIsKnown
<1>e. ~terminated => SlotsSorted /\ \A u \in Threads : ChainOf(u)
  BY DEF PrioInv
<1> USE DEF Goto
<1>1. ASSUME NEW t \in Threads, TrySlot(t) PROVE PrioInv'
  <2>1. Others(t) /\ terminated' = terminated
    BY <1>1, <1>b DEF TrySlot, Exchange, Others, Keeps
  <2>2. pc'[t] \in {"wake", "try", "chain"} /\ job' = job
    BY <1>1, <1>b DEF TrySlot
  <2>3. arg[t] \in Tasks
    BY <1>1, <1>b, <1>d, WorkerAssumption DEF TrySlot, Known, ControlOf, Asking
  <2> DEFINE s == Slot(Priority[arg[t]], (pos[t] + Index(t)) % Duplicates)
  <2>4. s \in Slots /\ s.priority = Priority[arg[t]]
    <3>1. pos[t] + Index(t) \in Nat
      <4> DEFINE m == NThreads * Duplicates
      <4>1. m \in Nat /\ pos[t] \in 0..m
        BY <1>b, Bounds
      <4>2. Index(t) \in Nat
        BY WorkerAssumption DEF Index, Threads, Workers
      <4> HIDE DEF m
      <4> QED
        BY <4>1, <4>2
    <3> QED
      BY <2>3, <3>1, <1>b, SlotIsIn DEF Slot
  <2>5. heads' = heads \/ heads' = [heads EXCEPT ![s] = <<arg[t]>>]
    BY <1>1 DEF TrySlot, Exchange
  <2> HIDE DEF s
  <2>6. SlotsSorted => SlotsSorted'
    <3>1. Range(<<arg[t]>>) = {arg[t]}
      BY DEF Range
    <3> QED
      BY <1>b, <2>3, <2>4, <2>5, <3>1 DEF SlotsSorted
  <2> QED
    BY <2>1, <2>2, <2>6, <1>c, <1>e DEF ChainOf, Serves, Polls
<1>2. ASSUME NEW t \in Threads, Chain(t) PROVE PrioInv'
  <2>1. Others(t) /\ terminated' = terminated
    BY <1>2, <1>b DEF Chain, Push, Others, Keeps, look
  <2>2. pc'[t] = "wake" /\ job' = job
    BY <1>2, <1>b DEF Chain
  <2>3. arg[t] \in Tasks
    BY <1>2, <1>b, <1>d, WorkerAssumption DEF Chain, Known, ControlOf, Asking
  <2>4. PICK d \in 0..(Duplicates - 1) :
           heads' = [heads EXCEPT ![Slot(Priority[arg[t]], d)] = <<arg[t]>> \o @]
    BY <1>2 DEF Chain, Push
  <2> DEFINE s == Slot(Priority[arg[t]], d)
  <2>5. s \in Slots /\ s.priority = Priority[arg[t]]
    BY <2>3, <1>b DEF Slot, Slots
  <2>6. heads' = [heads EXCEPT ![s] = <<arg[t]>> \o heads[s]]
    BY <2>4
  <2>7. Range(<<arg[t]>> \o heads[s]) \subseteq {arg[t]} \cup Range(heads[s])
    BY <2>3, <2>5, <1>b DEF Range
  <2> HIDE DEF s
  <2>8. SlotsSorted => SlotsSorted'
    BY <1>b, <2>3, <2>5, <2>6, <2>7 DEF SlotsSorted
  <2> QED
    BY <2>1, <2>2, <2>8, <1>c, <1>e DEF ChainOf, Serves, Polls
<1>3. ASSUME NEW t \in Threads, AppendLast(t) PROVE PrioInv'
  BY <1>3, <1>d DEF AppendLast, Known, ControlOf, PrioInv
<1>4. ASSUME NEW t \in Threads, Take(t) PROVE PrioInv'
  <2>1. Others(t) /\ terminated' = terminated
    BY <1>4, <1>b DEF Take, Exchange, Others, Keeps, local, look
  <2>2. /\ pc[t] = "take" /\ pc'[t] \in {"polled", "putback"} /\ job' = job /\ size' = size /\ slot' = slot
        /\ chain'[t] = heads[slot[t]] /\ slot[t] \in Slots
        /\ heads' = [heads EXCEPT ![slot[t]] = <<>>]
    BY <1>4, <1>b DEF Take, Exchange, local, look
  <2>3. SlotsSorted => SlotsSorted' /\ ChainOf(t)'
    BY <1>b, <2>2, NoList DEF SlotsSorted, ChainOf
  <2> QED
    BY <2>1, <2>2, <2>3, <1>c, <1>e DEF Serves, Polls
<1>5. ASSUME NEW t \in Threads, PutBack(t) PROVE PrioInv'
  <2>1. Others(t) /\ terminated' = terminated
    BY <1>5, <1>b DEF PutBack, Exchange, Others, Keeps, look
  <2>2. /\ pc[t] = "putback" /\ pc'[t] \in {"check", "repush"} /\ size' = size /\ slot' = slot
        /\ job'[t] = Head(chain[t]) /\ chain'[t] = heads[slot[t]] /\ slot[t] \in Slots
        /\ heads' = [heads EXCEPT ![slot[t]] = Tail(chain[t])]
    BY <1>5, <1>b DEF PutBack, Exchange, look
  <2>3. chain[t] # <<>> /\ slot[t].priority < size[t]
    BY <2>2, <1>d DEF Known, ControlOf, SizedOf
  <2>4. /\ Head(chain[t]) \in Range(chain[t]) /\ Range(Tail(chain[t])) \subseteq Range(chain[t])
        /\ Head(chain[t]) \in Tasks
    BY <2>3, <1>b DEF Range
  <2>5. SlotsSorted /\ ChainOf(t) => SlotsSorted' /\ ChainOf(t)'
    BY <1>b, <2>2, <2>4 DEF SlotsSorted, ChainOf
  <2>6. ASSUME NEW p \in Priorities, ~terminated, Serves(t, p)' PROVE Serves(t, p)
    <3>1. Priority[job'[t]] = slot[t].priority
      BY <2>2, <2>4, <2>6, <1>e DEF ChainOf
    <3>2. slot[t].priority >= p
      BY <2>2, <2>6, <3>1 DEF Serves, Polls
    <3>3. slot[t].priority \in Int /\ size[t] \in Int /\ p \in Int
      BY <1>b, <2>2, WorkerAssumption DEF Slots, Priorities
    <3>4. size[t] > p
      BY <2>3, <3>2, <3>3
    <3> QED
      BY <2>2, <3>4 DEF Serves
  <2>7. terminated => PrioInv'
    BY <2>1 DEF PrioInv
  <2> QED
    BY <2>1, <2>5, <2>6, <2>7, <1>c, <1>e
<1>6. ASSUME NEW t \in Threads, Repush(t) PROVE PrioInv'
  <2>1. Others(t) /\ terminated' = terminated
    BY <1>6, <1>b DEF Repush, Push, Others, Keeps, local, look
  <2>2. /\ pc[t] = "repush" /\ pc'[t] \in {"wake", "repush"} /\ job' = job /\ slot' = slot
        /\ chain'[t] = Tail(chain[t]) /\ slot[t] \in Slots
        /\ heads' = [heads EXCEPT ![slot[t]] = <<Head(chain[t])>> \o heads[slot[t]]]
    BY <1>6, <1>b DEF Repush, Push, local
  <2>3. chain[t] # <<>>
    BY <2>2, <1>d DEF Known, ControlOf
  <2>4. /\ Head(chain[t]) \in Range(chain[t]) /\ Range(Tail(chain[t])) \subseteq Range(chain[t])
        /\ Head(chain[t]) \in Tasks
    BY <2>3, <1>b DEF Range
  <2>5. Range(<<Head(chain[t])>> \o heads[slot[t]]) \subseteq {Head(chain[t])} \cup Range(heads[slot[t]])
    BY <2>2, <2>4, <1>b DEF Range
  <2>6. SlotsSorted /\ ChainOf(t) => SlotsSorted' /\ ChainOf(t)'
    BY <1>b, <2>2, <2>4, <2>5 DEF SlotsSorted, ChainOf
  <2> QED
    BY <2>1, <2>2, <2>6, <1>c, <1>e DEF Serves, Polls
<1>7. ASSUME NEW t \in Workers, PollOne(t) PROVE PrioInv'
  <2>1. /\ heads' = heads /\ chain' = chain /\ slot' = slot /\ terminated' = terminated
        /\ \A u \in Threads : pc'[u] = pc[u] \/ pc'[u] = "fetch"
    BY <1>7, <1>a, <1>b DEF PollOne, Fetch
  <2>2. SlotsSorted /\ (\A u \in Threads : ChainOf(u)) => SlotsSorted' /\ (\A u \in Threads : ChainOf(u)')
    BY <2>1 DEF SlotsSorted, ChainOf
  <2> QED
    BY <1>7, <2>1, <2>2, ServedPoll DEF PrioInv
<1>8. CASE DrainTake \/ DrainTask
  <2>1. pc[Main] = "drain" /\ terminated' = terminated
    BY <1>8 DEF DrainTake, DrainTask
  <2>2. 1 \in Workers /\ pc[1] = "exited"
    BY <2>1, WorkerAssumption DEF JoinInv, Draining, Workers
  <2>3. terminated
    BY <1>a, <1>d, <2>2 DEF Known, ControlOf
  <2> QED
    BY <2>1, <2>3 DEF PrioInv
<1>9. CASE UNCHANGED vars
  BY <1>9 DEF vars, PrioInv, SlotsSorted, ChainOf, Served, Serves, Polls
<1> QED
  BY <1>1, <1>2, <1>3, <1>4, <1>5, <1>6, <1>7, <1>8, <1>9, PrioKeeps, StillStays

\* Tasks of priority p and less urgent ones that workers run, after a step.
LEMMA FewRun ==
  ASSUME Base', PrioInv', ~terminated', NEW p \in Priorities
  PROVE  Cardinality(Pool!AtLeast(With("running")', p)) <= NThreads - p
<1> DEFINE A == Pool!AtLeast(With("running")', p)
           B == {w \in Workers : Serves(w, p)'}
           E == {w \in B : job'[w] \in A}
           f == [w \in E |-> job'[w]]
<1>1. IsFiniteSet(B) /\ Cardinality(B) <= NThreads - p
  <2>1. IsFiniteSet(Workers)
    BY WorkerAssumption, FS_Interval DEF Workers
  <2> QED
    BY <2>1, FS_Subset DEF PrioInv, Served
<1>2. IsFiniteSet(E) /\ Cardinality(E) <= Cardinality(B) /\ Cardinality(E) \in Nat /\ Cardinality(B) \in Nat
  BY <1>1, FS_Subset, FS_CardinalityType
<1>3. ASSUME NEW j \in A PROVE \E w \in E : job'[w] = j
  <2>1. j \in Tasks /\ status'[j] = "running" /\ Priority[j] >= p
    BY DEF Pool!AtLeast, With
  <2>2. PICK w \in Threads : Runs(w)' /\ job'[w] = j
    BY <2>1 DEF Base, Placed, RunByOne
  <2>3. w \in Workers
    BY <2>1, <2>2 DEF Base, Placed, JobsRun, RunsOf, Threads
  <2>4. Serves(w, p)'
    BY <2>1, <2>2, WorkerAssumption DEF Serves
  <2> QED
    BY <2>2, <2>3, <2>4
<1> HIDE DEF A, B
<1>4. f \in Surjection(E, A)
  BY <1>3 DEF Surjection
<1> HIDE DEF E, f
<1>5. Cardinality(A) <= Cardinality(E) /\ IsFiniteSet(A)
  BY <1>2, <1>4, FS_Surjection
<1>6. Cardinality(A) \in Nat /\ NThreads - p \in Int
  BY <1>5, FS_CardinalityType, WorkerAssumption DEF Priorities
<1>7. Cardinality(A) <= NThreads - p
  BY <1>1, <1>2, <1>5, <1>6
<1> QED
  BY <1>7 DEF A

\* One task gets another status.
LEMMA StatusMoved ==
  ASSUME Types, NEW j \in Tasks,
         NEW w \in {"new", "queued", "running", "guest", "draining", "done"}, status[j] = w,
         NEW v \in {"queued", "running", "guest", "draining", "done"}, v # w,
         status' = [status EXCEPT ![j] = v]
  PROVE  /\ With(v)' = With(v) \cup {j} /\ j \notin With(v)
         /\ With(w)' = With(w) \ {j} /\ j \in With(w)
         /\ \A u \in {"queued", "running", "guest", "draining", "done"} \ {v, w} :
              With(u)' = With(u) /\ j \notin With(u)
<1>1. \A k \in Tasks : status'[k] = IF k = j THEN v ELSE status[k]
  BY DEF Types, TaskTypes
<1>2. With(v)' = With(v) \cup {j} /\ j \notin With(v)
  BY <1>1 DEF With
<1>3. With(w)' = With(w) \ {j} /\ j \in With(w)
  BY <1>1 DEF With
<1>4. ASSUME NEW u \in {"queued", "running", "guest", "draining", "done"} \ {v, w}
      PROVE  With(u)' = With(u) /\ j \notin With(u)
  BY <1>1, <1>4 DEF With
<1> QED
  BY <1>2, <1>3, <1>4

\* Every step is a step of the pool of tasks, or none.
LEMMA PoolStep == ASSUME Base, Base', JoinInv, PrioInv', [Next]_vars PROVE [Pool!Next]_(Pool!vars)
<1>a. Main \in Threads /\ Workers \subseteq Threads /\ Main \notin Workers
      /\ \A u \in Threads : u = Main \/ u \in Workers
  BY WorkerAssumption DEF Threads
<1>b. \A t \in Threads : Known(t)
  BY WhatIsKnown
<1>c. job \in [Threads -> Tasks \cup {None}] /\ terminated \in BOOLEAN /\ Types
  BY DEF Base, Types, TaskTypes, FlagTypes
<1>1. ASSUME NEW t \in Threads, NEW j \in Tasks, QueueTask(t, j) PROVE Pool!Next
  <2>1. status[j] = "new" /\ status' = [status EXCEPT ![j] = "queued"] /\ terminated' = terminated
    BY <1>1 DEF QueueTask
  <2>2. Pool!Queue(j)
    BY <2>1, <1>c, StatusMoved DEF Pool!Queue
  <2> QED
    BY <2>2 DEF Pool!Next
<1>2. ASSUME NEW t \in Threads, StartTask(t) PROVE Pool!Next
  <2> DEFINE j == job[t]
  <2>1. /\ status' = [status EXCEPT ![j] = IF t = Main THEN "guest" ELSE "running"] /\ terminated' = terminated
        /\ Holds(t)
    BY <1>2 DEF StartTask, Holds
  <2>2. j \in Tasks /\ j # None
    BY <2>1, <1>b, <1>c DEF Known, ControlOf
  <2>3. status[j] = "queued"
    BY <2>1, <2>2 DEF Base, Placed, QueuedThere, Hand, Pending
  <2> HIDE DEF j
  <2>4. CASE t = Main
    <3>1. Pool!StartOutside(j)
      BY <2>1, <2>2, <2>3, <2>4, <1>c, StatusMoved DEF Pool!StartOutside
    <3> QED
      BY <2>2, <3>1 DEF Pool!Next
  <2>5. CASE t # Main
    <3>1. /\ j \in With("queued") /\ With("queued")' = With("queued") \ {j}
          /\ With("running")' = With("running") \cup {j} /\ With("guest")' = With("guest")
          /\ With("draining")' = With("draining") /\ With("done")' = With("done")
      BY <2>1, <2>2, <2>3, <2>5, <1>c, StatusMoved
    <3>2. terminated \/ \A p \in 0..(NThreads - 1) : Cardinality(Pool!AtLeast(With("running")', p)) <= NThreads - p
      BY <2>1, FewRun DEF Priorities
    <3>3. Pool!Start(j)
      BY <2>1, <3>1, <3>2 DEF Pool!Start, Pool!Cardinality, Cardinality
    <3> QED
      BY <2>2, <3>3 DEF Pool!Next
  <2> QED
    BY <2>4, <2>5
<1>3. ASSUME NEW t \in Threads, EndTask(t) PROVE Pool!Next
  <2> DEFINE j == job[t]
  <2>1. status' = [status EXCEPT ![j] = "done"] /\ terminated' = terminated /\ Runs(t)
    BY <1>3 DEF EndTask, Runs
  <2>2. j \in Tasks /\ status[j] \in {"running", "guest", "draining"}
    BY <2>1, <1>b, <1>c DEF Known, ControlOf, Base, Placed, JobsRun, RunsOf
  <2>3. status[j] = "draining" => With("draining") = {j}
    <3> SUFFICES ASSUME status[j] = "draining", NEW k \in Tasks, status[k] = "draining" PROVE k = j
      BY <2>2 DEF With
    <3>1. PICK u \in Threads : Runs(u) /\ job[u] = k
      BY DEF Base, Placed, RunByOne
    <3>2. u = Main /\ t = Main
      BY <2>1, <3>1, <1>a DEF Base, Placed, JobsRun, RunsOf
    <3> QED
      BY <3>1, <3>2
  <2> HIDE DEF j
  <2>4. CASE status[j] = "running"
    <3>1. Pool!Finish(j)
      BY <2>1, <2>2, <2>4, <1>c, StatusMoved DEF Pool!Finish
    <3> QED
      BY <2>2, <3>1 DEF Pool!Next
  <2>5. CASE status[j] = "guest"
    <3>1. Pool!FinishOutside(j)
      BY <2>1, <2>2, <2>5, <1>c, StatusMoved DEF Pool!FinishOutside
    <3> QED
      BY <2>2, <3>1 DEF Pool!Next
  <2>6. CASE status[j] = "draining"
    <3>1. Pool!FinishDraining(j)
      BY <2>1, <2>2, <2>3, <2>6, <1>c, StatusMoved DEF Pool!FinishDraining
    <3> QED
      BY <2>2, <3>1 DEF Pool!Next
  <2> QED
    BY <2>2, <2>4, <2>5, <2>6
<1>4. ASSUME DrainTask PROVE Pool!Next
  <2> DEFINE j == Head(chain[Main])
  <2>1. /\ status' = [status EXCEPT ![j] = "draining"] /\ terminated' = terminated
        /\ pc[Main] = "drain" /\ chain[Main] # <<>>
    BY <1>4 DEF DrainTask
  <2>2. j \in Tasks /\ j \in Hand(Main)
    BY <2>1, <1>a DEF Base, Types, TaskTypes, Hand, Range
  <2>3. status[j] = "queued"
    BY <2>2, <1>a DEF Base, Placed, QueuedThere
  <2>4. \A t \in Threads : ~Runs(t)
    <3>1. \A t \in Threads : pc[t] \in {"exited", "drain"}
      BY <2>1, <1>a DEF JoinInv, Draining
    <3> QED
      BY <3>1 DEF Runs, CallStates, QueueStates, EndStates
  <2>5. With("running") = {} /\ With("guest") = {} /\ With("draining") = {}
    BY <2>4 DEF With, Base, Placed, RunByOne
  <2> HIDE DEF j
  <2>6. Pool!StartDraining(j)
    BY <2>1, <2>2, <2>3, <2>5, <1>c, StatusMoved DEF Pool!StartDraining
  <2> QED
    BY <2>2, <2>6 DEF Pool!Next
<1>5. ASSUME NEW t \in Threads, Terminate(t) PROVE Pool!Next
  <2>1. status' = status /\ terminated'
    BY <1>5 DEF Terminate
  <2>2. Pool!Stop
    BY <2>1 DEF Pool!Stop, With
  <2> QED
    BY <2>2 DEF Pool!Next
<1>6. ASSUME UNCHANGED <<status, terminated>> PROVE UNCHANGED Pool!vars
  BY <1>6 DEF Pool!vars, With
<1>7. \/ \E t \in Threads, j \in Tasks : QueueTask(t, j)
      \/ \E t \in Threads : StartTask(t) \/ EndTask(t) \/ Terminate(t)
      \/ DrainTask \/ UNCHANGED <<status, terminated>>
  <2>1. ASSUME NEW t \in Threads, Inside(t) PROVE EndTask(t) \/ UNCHANGED <<status, terminated>>
    BY <2>1 DEF Inside, CheckTerminated, TrySlot, Chain, AppendLast, Wake, Bump, NotifyOne, NotifyAll, LookTimed,
                NotifyTimed
  <2>2. ASSUME NEW t \in Threads, Poll(t) PROVE StartTask(t) \/ UNCHANGED <<status, terminated>>
    BY <2>2 DEF Poll, FetchSome, FetchNext, FetchNone, Take, PutBack, Repush, Check, EndPoll, Snapshot
  <2>3. ASSUME NEW t \in Workers, Work(t) PROVE StartTask(t) \/ UNCHANGED <<status, terminated>>
    BY <2>2, <2>3, <1>a DEF Work, Loop, PollOne, BeginDelay, Park, Wait, Spin, LeaveDelay
  <2>4. ASSUME TimedPoll PROVE StartTask(Main) \/ UNCHANGED <<status, terminated>>
    BY <2>2, <2>4, <1>a DEF TimedPoll, Register, Relook, Deadline, PollAgain, Unregister
  <2>5. ASSUME Finish \/ Join \/ \E p \in Polled : PollFor(p)
        PROVE  DrainTask \/ UNCHANGED <<status, terminated>>
    BY <2>5 DEF Finish, Join, PollFor, Joined, DrainTake, DrainEnd
  <2>6. UNCHANGED vars => UNCHANGED <<status, terminated>>
    BY DEF vars
  <2> QED
    BY <2>1, <2>3, <2>4, <2>5, <2>6, <1>a DEF Next
<1> QED
  BY <1>1, <1>2, <1>3, <1>4, <1>5, <1>6, <1>7

\* The worker is a pool of tasks: each task that was queued starts once, and until it is
\* terminated at most NThreads - p workers run tasks of priority p or less urgent ones.
THEOREM PoolRefined == Spec => RefinesPool
<1>1. Init => PrioInv
  <2>1. \A p \in Priorities : {w \in Workers : FALSE} = {} /\ p \in Int /\ NThreads - p >= 0
    BY WorkerAssumption DEF Priorities
  <2>2. Init => \A w \in Workers, p \in Priorities : ~Serves(w, p)
    BY WorkerAssumption DEF Init, Threads, Serves, Polls
  <2>3. Init => Served
    <3> SUFFICES ASSUME Init, NEW p \in Priorities PROVE Cardinality({w \in Workers : Serves(w, p)}) <= NThreads - p
      BY DEF Served
    <3>1. {w \in Workers : Serves(w, p)} = {}
      BY <2>2
    <3> QED
      BY <2>1, <3>1, FS_EmptySet
  <2> QED
    BY <2>3, NoList DEF Init, PrioInv, SlotsSorted, ChainOf
<1>2. Init => JoinInv
  BY WorkerAssumption DEF Init, Threads, JoinInv, Draining, Drains, Runs, CallStates, QueueStates, EndStates
<1>3. Init => Pool!Init
  BY DEF Init, Pool!Init, With
<1> QED
  BY <1>1, <1>2, <1>3, BaseInvariant, JoinStep, PrioStep, PoolStep, PTL DEF Spec, RefinesPool, Pool!Spec

(***************************************************************************)
(* Wakeups                                                                 *)
(***************************************************************************)
\* w is about to sleep, with a snapshot.
Dreams(w) == Parks(w) \/ pc[w] = "wait"

\* A worker is in a poll, or will look at all slots before it sleeps.
Stirs == \E w \in Workers : ~Dreams(w) /\ pc[w] # "sleep"

\* The look of t has yet to come to slot s.
Ahead(t, s) == \E i \in 0..(NThreads * Duplicates - 1) :
                 pos[t] <= i /\ i < size[t] * Duplicates /\ SlotAt(t, size[t], i) = s

\* Main will wake a worker, whatever it finds; or it will if it finds s as it is.
Rouses(s) ==
  \/ pc[Main] \in {"repush", "wake", "bump"}
  \/ pc[Main] = "check" /\ slot[Main] = s
  \/ Rechecks(Main) /\ Ahead(Main, s)

\* Why the tasks in s do not stay there while all workers sleep.
Watched(s) ==
  \/ Stirs
  \/ \E w \in Workers : Parks(w) /\ size[w] = NThreads /\ Ahead(w, s)
  \/ \E w \in Workers : Dreams(w) /\ stale[w]

\* Why the tasks in s will be looked at.
Witness(s) == Watched(s) \/ (pc[Main] = "notify" /\ Sleepers # {}) \/ Rouses(s)

\* Until the pool is terminated, a slot that is not empty has such a witness.
Awake == ~terminated => \A s \in Slots : heads[s] # <<>> => Witness(s)

\* Once the worker is terminated nobody goes to sleep, and who sleeps will be woken.
Term ==
  terminated =>
    \/ \E t \in Threads : pc[t] = "bump all"
    \/ /\ \E t \in Threads : pc[t] = "notify all"
       /\ \A w \in Workers : Dreams(w) \/ pc[w] = "sleep" => stale[w]
    \/ \A w \in Workers : pc[w] # "sleep" /\ (Dreams(w) => stale[w])

\* A step that keeps who is to be woken, and who wakes.
TermKept ==
  /\ terminated' = terminated
  /\ \A u \in Threads : pc[u] \in {"bump all", "notify all"} => pc'[u] = pc[u]
  /\ \A w \in Workers :
       /\ pc'[w] = "sleep" => pc[w] = "sleep" \/ (pc[w] = "wait" /\ ~stale[w])
       /\ terminated /\ Dreams(w)' => Dreams(w)
       /\ (Dreams(w)' \/ pc'[w] = "sleep") /\ stale[w] => stale'[w]

\* A step that keeps who sleeps and who will be woken keeps Term.
LEMMA TermStays == ASSUME Term, TermKept PROVE Term'
<1> SUFFICES ASSUME terminated
             PROVE  \/ \E t \in Threads : pc'[t] = "bump all"
                    \/ /\ \E t \in Threads : pc'[t] = "notify all"
                       /\ \A w \in Workers : Dreams(w)' \/ pc'[w] = "sleep" => stale'[w]
                    \/ \A w \in Workers : pc'[w] # "sleep" /\ (Dreams(w)' => stale'[w])
  BY DEF Term, TermKept
<1>0. \A w \in Workers : pc[w] = "wait" => Dreams(w)
  BY DEF Dreams
<1>1. CASE \E t \in Threads : pc[t] = "bump all"
  BY <1>1 DEF TermKept
<1>2. CASE /\ \E t \in Threads : pc[t] = "notify all"
           /\ \A w \in Workers : Dreams(w) \/ pc[w] = "sleep" => stale[w]
  <2>1. \E t \in Threads : pc'[t] = "notify all"
    BY <1>2 DEF TermKept
  <2>2. \A w \in Workers : Dreams(w)' \/ pc'[w] = "sleep" => stale'[w]
    BY <1>0, <1>2 DEF TermKept
  <2> QED
    BY <2>1, <2>2
<1>3. CASE \A w \in Workers : pc[w] # "sleep" /\ (Dreams(w) => stale[w])
  <2>1. \A w \in Workers : pc'[w] # "sleep" /\ (Dreams(w)' => stale'[w])
    BY <1>0, <1>3 DEF TermKept
  <2> QED
    BY <2>1
<1> QED
  BY <1>1, <1>2, <1>3 DEF Term

\* The actions that are such steps.
LEMMA TermKeeps ==
  ASSUME Base, [Next]_vars
  PROVE  TermKept \/ \E t \in Threads : Terminate(t) \/ Bump(t) \/ NotifyAll(t)
<1>a. Main \in Threads /\ Workers \subseteq Threads /\ Main \notin Workers
      /\ \A u \in Threads : u = Main \/ u \in Workers
  BY WorkerAssumption DEF Threads
<1>b. /\ pc \in [Threads -> Labels] /\ back \in [Threads -> {"start", "body", "idle"}]
      /\ goal \in [Threads -> {"poll", "recheck", "park"}] /\ stale \in [Threads -> BOOLEAN]
  BY DEF Base, Types, PlaceTypes, LocalTypes, FlagTypes
<1>c. terminated \in BOOLEAN /\ timed \in BOOLEAN
  BY DEF Base, Types, FlagTypes
<1> USE DEF Goto
<1>1. ASSUME NEW t \in Threads, NEW j \in Tasks, QueueTask(t, j) PROVE TermKept
  <2>1. terminated' = terminated
    BY <1>1 DEF QueueTask, InClient
  <2>2. \A u \in Threads : pc[u] \in {"bump all", "notify all"} => pc'[u] = pc[u]
    BY <1>1, <1>a, <1>b DEF QueueTask, InClient
  <2>3. \A w \in Workers : /\ pc'[w] = "sleep" => pc[w] = "sleep" \/ (pc[w] = "wait" /\ ~stale[w])
                           /\ terminated /\ Dreams(w)' => Dreams(w)
    BY <1>1, <1>a, <1>b, <1>c DEF QueueTask, InClient, Dreams, Parks, local, look
  <2>4. \A w \in Workers : (Dreams(w)' \/ pc'[w] = "sleep") /\ stale[w] => stale'[w]
    BY <1>1, <1>a, <1>b, <1>c DEF QueueTask, InClient, Dreams, Parks, local, look, timing
  <2> QED
    BY <2>1, <2>2, <2>3, <2>4 DEF TermKept, Dreams, Parks
<1>2. ASSUME NEW t \in Threads, CheckTerminated(t) PROVE TermKept
  <2>1. terminated' = terminated
    BY <1>2 DEF CheckTerminated
  <2>2. \A u \in Threads : pc[u] \in {"bump all", "notify all"} => pc'[u] = pc[u]
    BY <1>2, <1>a, <1>b DEF CheckTerminated
  <2>3. \A w \in Workers : /\ pc'[w] = "sleep" => pc[w] = "sleep" \/ (pc[w] = "wait" /\ ~stale[w])
                           /\ terminated /\ Dreams(w)' => Dreams(w)
    BY <1>2, <1>a, <1>b, <1>c DEF CheckTerminated, Dreams, Parks, local, look
  <2>4. \A w \in Workers : (Dreams(w)' \/ pc'[w] = "sleep") /\ stale[w] => stale'[w]
    BY <1>2, <1>a, <1>b, <1>c DEF CheckTerminated, Dreams, Parks, local, look, timing
  <2> QED
    BY <2>1, <2>2, <2>3, <2>4 DEF TermKept, Dreams, Parks
<1>3. ASSUME NEW t \in Threads, TrySlot(t) PROVE TermKept
  <2>1. terminated' = terminated
    BY <1>3 DEF TrySlot, Exchange
  <2>2. \A u \in Threads : pc[u] \in {"bump all", "notify all"} => pc'[u] = pc[u]
    BY <1>3, <1>a, <1>b DEF TrySlot, Exchange
  <2>3. \A w \in Workers : /\ pc'[w] = "sleep" => pc[w] = "sleep" \/ (pc[w] = "wait" /\ ~stale[w])
                           /\ terminated /\ Dreams(w)' => Dreams(w)
    BY <1>3, <1>a, <1>b, <1>c DEF TrySlot, Exchange, Dreams, Parks, local, look
  <2>4. \A w \in Workers : (Dreams(w)' \/ pc'[w] = "sleep") /\ stale[w] => stale'[w]
    BY <1>3, <1>a, <1>b, <1>c DEF TrySlot, Exchange, Dreams, Parks, local, look, timing
  <2> QED
    BY <2>1, <2>2, <2>3, <2>4 DEF TermKept, Dreams, Parks
<1>4. ASSUME NEW t \in Threads, Chain(t) PROVE TermKept
  <2>1. terminated' = terminated
    BY <1>4 DEF Chain, Push
  <2>2. \A u \in Threads : pc[u] \in {"bump all", "notify all"} => pc'[u] = pc[u]
    BY <1>4, <1>a, <1>b DEF Chain, Push
  <2>3. \A w \in Workers : /\ pc'[w] = "sleep" => pc[w] = "sleep" \/ (pc[w] = "wait" /\ ~stale[w])
                           /\ terminated /\ Dreams(w)' => Dreams(w)
    BY <1>4, <1>a, <1>b, <1>c DEF Chain, Push, Dreams, Parks, local, look
  <2>4. \A w \in Workers : (Dreams(w)' \/ pc'[w] = "sleep") /\ stale[w] => stale'[w]
    BY <1>4, <1>a, <1>b, <1>c DEF Chain, Push, Dreams, Parks, local, look, timing
  <2> QED
    BY <2>1, <2>2, <2>3, <2>4 DEF TermKept, Dreams, Parks
<1>5. ASSUME NEW t \in Threads, AppendLast(t) PROVE TermKept
  <2>1. terminated' = terminated
    BY <1>5 DEF AppendLast, Push
  <2>2. \A u \in Threads : pc[u] \in {"bump all", "notify all"} => pc'[u] = pc[u]
    BY <1>5, <1>a, <1>b DEF AppendLast, Push
  <2>3. \A w \in Workers : /\ pc'[w] = "sleep" => pc[w] = "sleep" \/ (pc[w] = "wait" /\ ~stale[w])
                           /\ terminated /\ Dreams(w)' => Dreams(w)
    BY <1>5, <1>a, <1>b, <1>c DEF AppendLast, Push, Dreams, Parks, local, look
  <2>4. \A w \in Workers : (Dreams(w)' \/ pc'[w] = "sleep") /\ stale[w] => stale'[w]
    BY <1>5, <1>a, <1>b, <1>c DEF AppendLast, Push, Dreams, Parks, local, look, timing
  <2> QED
    BY <2>1, <2>2, <2>3, <2>4 DEF TermKept, Dreams, Parks
<1>6. ASSUME NEW t \in Threads, Wake(t) PROVE TermKept
  <2>1. /\ \/ pc' = [pc EXCEPT ![t] = "bump"] /\ UNCHANGED local
           \/ pc' = [pc EXCEPT ![t] = back[t]] /\ Forget(t)
        /\ terminated' = terminated /\ stale' = stale /\ pc[t] \notin {"bump all", "notify all"}
    BY <1>6 DEF Wake, Return
  <2>2. \A u \in Threads \ {t} : pc'[u] = pc[u] /\ goal'[u] = goal[u]
    BY <2>1, <1>b DEF Forget, local, look
  <2>3. pc'[t] \in {"bump", "start", "body", "idle"}
    BY <2>1, <1>b
  <2> QED
    BY <2>1, <2>2, <2>3, <1>a DEF TermKept, Dreams, Parks
<1>7. ASSUME NEW t \in Threads, NotifyOne(t) PROVE TermKept
  <2>1. /\ terminated' = terminated /\ stale' = stale /\ goal' = goal
        /\ pc[t] = "notify" /\ pc'[t] = "look timed"
        /\ \A u \in Threads \ {t} : pc'[u] = pc[u] \/ (pc[u] = "sleep" /\ pc'[u] = "spin")
    BY <1>7, <1>a, <1>b DEF NotifyOne, Sleepers, local, look
  <2> QED
    BY <2>1, <1>a DEF TermKept, Dreams, Parks
<1>8. ASSUME NEW t \in Threads, LookTimed(t) PROVE TermKept
  <2>1. /\ \/ pc' = [pc EXCEPT ![t] = "notify timed"] /\ UNCHANGED local
           \/ pc' = [pc EXCEPT ![t] = back[t]] /\ Forget(t)
        /\ terminated' = terminated /\ stale' = stale /\ pc[t] \notin {"bump all", "notify all"}
    BY <1>8 DEF LookTimed, Return
  <2>2. \A u \in Threads \ {t} : pc'[u] = pc[u] /\ goal'[u] = goal[u]
    BY <2>1, <1>b DEF Forget, local, look
  <2>3. pc'[t] \in {"notify timed", "start", "body", "idle"}
    BY <2>1, <1>b
  <2> QED
    BY <2>1, <2>2, <2>3, <1>a DEF TermKept, Dreams, Parks
<1>9. ASSUME NEW t \in Threads, NotifyTimed(t) PROVE TermKept
  <2>1. /\ terminated' = terminated /\ stale' = stale
        /\ pc[t] = "notify timed" /\ pc'[t] \in {"start", "body", "idle"}
        /\ \A u \in Threads \ {t} : /\ pc'[u] = pc[u] \/ (pc[u] = "doze" /\ pc'[u] = "poll")
                                    /\ goal'[u] = goal[u]
    <3>1. CASE t = Main
      <4>1. /\ terminated' = terminated /\ stale' = stale /\ pc[t] = "notify timed"
            /\ \A u \in Threads \ {t} : goal'[u] = goal[u]
        BY <1>9, <1>b DEF NotifyTimed, Forget
      <4>2. \A u \in Threads \ {Main} : pc'[u] = pc[u]
        BY <1>9, <3>1, <1>b DEF NotifyTimed
      <4>3. pc'[Main] \in {"start", "body", "idle"}
        <5>1. pc' = [pc EXCEPT ![Main] = back[Main], ![Main] = IF @ = "doze" THEN "poll" ELSE @]
          BY <1>9, <3>1 DEF NotifyTimed
        <5>2. Main \in DOMAIN pc /\ back[Main] \in {"start", "body", "idle"}
          BY <1>a, <1>b
        <5>3. pc'[Main] = IF back[Main] = "doze" THEN "poll" ELSE back[Main]
          BY <5>1, <5>2
        <5> QED
          BY <5>2, <5>3
      <4> QED
        BY <4>1, <4>2, <4>3, <3>1
    <3>2. CASE t # Main
      BY <1>9, <3>2, <1>a, <1>b DEF NotifyTimed, Forget
    <3> QED
      BY <3>1, <3>2
  <2> QED
    BY <2>1, <1>a DEF TermKept, Dreams, Parks
<1>10. ASSUME NEW t \in Threads, EndTask(t) PROVE TermKept
  <2>1. terminated' = terminated
    BY <1>10 DEF EndTask
  <2>2. \A u \in Threads : pc[u] \in {"bump all", "notify all"} => pc'[u] = pc[u]
    BY <1>10, <1>a, <1>b DEF EndTask
  <2>3. \A w \in Workers : /\ pc'[w] = "sleep" => pc[w] = "sleep" \/ (pc[w] = "wait" /\ ~stale[w])
                           /\ terminated /\ Dreams(w)' => Dreams(w)
    BY <1>10, <1>a, <1>b, <1>c DEF EndTask, Dreams, Parks, local, look
  <2>4. \A w \in Workers : (Dreams(w)' \/ pc'[w] = "sleep") /\ stale[w] => stale'[w]
    BY <1>10, <1>a, <1>b, <1>c DEF EndTask, Dreams, Parks, local, look, timing
  <2> QED
    BY <2>1, <2>2, <2>3, <2>4 DEF TermKept, Dreams, Parks
<1>11. ASSUME NEW t \in Threads, FetchSome(t) PROVE TermKept
  <2>1. terminated' = terminated
    BY <1>11 DEF FetchSome
  <2>2. \A u \in Threads : pc[u] \in {"bump all", "notify all"} => pc'[u] = pc[u]
    BY <1>11, <1>a, <1>b DEF FetchSome
  <2>3. \A w \in Workers : /\ pc'[w] = "sleep" => pc[w] = "sleep" \/ (pc[w] = "wait" /\ ~stale[w])
                           /\ terminated /\ Dreams(w)' => Dreams(w)
    BY <1>11, <1>a, <1>b, <1>c DEF FetchSome, Dreams, Parks, local, look
  <2>4. \A w \in Workers : (Dreams(w)' \/ pc'[w] = "sleep") /\ stale[w] => stale'[w]
    BY <1>11, <1>a, <1>b, <1>c DEF FetchSome, Dreams, Parks, local, look, timing
  <2> QED
    BY <2>1, <2>2, <2>3, <2>4 DEF TermKept, Dreams, Parks
<1>12. ASSUME NEW t \in Threads, FetchNext(t) PROVE TermKept
  <2>1. terminated' = terminated
    BY <1>12 DEF FetchNext
  <2>2. \A u \in Threads : pc[u] \in {"bump all", "notify all"} => pc'[u] = pc[u]
    BY <1>12, <1>a, <1>b DEF FetchNext
  <2>3. \A w \in Workers : /\ pc'[w] = "sleep" => pc[w] = "sleep" \/ (pc[w] = "wait" /\ ~stale[w])
                           /\ terminated /\ Dreams(w)' => Dreams(w)
    BY <1>12, <1>a, <1>b, <1>c DEF FetchNext, Dreams, Parks, local, look
  <2>4. \A w \in Workers : (Dreams(w)' \/ pc'[w] = "sleep") /\ stale[w] => stale'[w]
    BY <1>12, <1>a, <1>b, <1>c DEF FetchNext, Dreams, Parks, local, look, timing
  <2> QED
    BY <2>1, <2>2, <2>3, <2>4 DEF TermKept, Dreams, Parks
<1>13. ASSUME NEW t \in Threads, FetchNone(t) PROVE TermKept
  <2>1. terminated' = terminated
    BY <1>13 DEF FetchNone
  <2>2. \A u \in Threads : pc[u] \in {"bump all", "notify all"} => pc'[u] = pc[u]
    BY <1>13, <1>a, <1>b DEF FetchNone
  <2>3. \A w \in Workers : /\ pc'[w] = "sleep" => pc[w] = "sleep" \/ (pc[w] = "wait" /\ ~stale[w])
                           /\ terminated /\ Dreams(w)' => Dreams(w)
    BY <1>13, <1>a, <1>b, <1>c DEF FetchNone, Dreams, Parks, local, look
  <2>4. \A w \in Workers : (Dreams(w)' \/ pc'[w] = "sleep") /\ stale[w] => stale'[w]
    BY <1>13, <1>a, <1>b, <1>c DEF FetchNone, Dreams, Parks, local, look, timing
  <2> QED
    BY <2>1, <2>2, <2>3, <2>4 DEF TermKept, Dreams, Parks
<1>14. ASSUME NEW t \in Threads, Take(t) PROVE TermKept
  <2>1. terminated' = terminated
    BY <1>14 DEF Take, Exchange
  <2>2. \A u \in Threads : pc[u] \in {"bump all", "notify all"} => pc'[u] = pc[u]
    BY <1>14, <1>a, <1>b DEF Take, Exchange
  <2>3. \A w \in Workers : /\ pc'[w] = "sleep" => pc[w] = "sleep" \/ (pc[w] = "wait" /\ ~stale[w])
                           /\ terminated /\ Dreams(w)' => Dreams(w)
    BY <1>14, <1>a, <1>b, <1>c DEF Take, Exchange, Dreams, Parks, local, look
  <2>4. \A w \in Workers : (Dreams(w)' \/ pc'[w] = "sleep") /\ stale[w] => stale'[w]
    BY <1>14, <1>a, <1>b, <1>c DEF Take, Exchange, Dreams, Parks, local, look, timing
  <2> QED
    BY <2>1, <2>2, <2>3, <2>4 DEF TermKept, Dreams, Parks
<1>15. ASSUME NEW t \in Threads, PutBack(t) PROVE TermKept
  <2>1. terminated' = terminated
    BY <1>15 DEF PutBack, Exchange
  <2>2. \A u \in Threads : pc[u] \in {"bump all", "notify all"} => pc'[u] = pc[u]
    BY <1>15, <1>a, <1>b DEF PutBack, Exchange
  <2>3. \A w \in Workers : /\ pc'[w] = "sleep" => pc[w] = "sleep" \/ (pc[w] = "wait" /\ ~stale[w])
                           /\ terminated /\ Dreams(w)' => Dreams(w)
    BY <1>15, <1>a, <1>b, <1>c DEF PutBack, Exchange, Dreams, Parks, local, look
  <2>4. \A w \in Workers : (Dreams(w)' \/ pc'[w] = "sleep") /\ stale[w] => stale'[w]
    BY <1>15, <1>a, <1>b, <1>c DEF PutBack, Exchange, Dreams, Parks, local, look, timing
  <2> QED
    BY <2>1, <2>2, <2>3, <2>4 DEF TermKept, Dreams, Parks
<1>16. ASSUME NEW t \in Threads, Repush(t) PROVE TermKept
  <2>1. terminated' = terminated
    BY <1>16 DEF Repush, Push
  <2>2. \A u \in Threads : pc[u] \in {"bump all", "notify all"} => pc'[u] = pc[u]
    BY <1>16, <1>a, <1>b DEF Repush, Push
  <2>3. \A w \in Workers : /\ pc'[w] = "sleep" => pc[w] = "sleep" \/ (pc[w] = "wait" /\ ~stale[w])
                           /\ terminated /\ Dreams(w)' => Dreams(w)
    BY <1>16, <1>a, <1>b, <1>c DEF Repush, Push, Dreams, Parks, local, look
  <2>4. \A w \in Workers : (Dreams(w)' \/ pc'[w] = "sleep") /\ stale[w] => stale'[w]
    BY <1>16, <1>a, <1>b, <1>c DEF Repush, Push, Dreams, Parks, local, look, timing
  <2> QED
    BY <2>1, <2>2, <2>3, <2>4 DEF TermKept, Dreams, Parks
<1>17. ASSUME NEW t \in Threads, Check(t) PROVE TermKept
  <2>1. terminated' = terminated
    BY <1>17 DEF Check, Fetch
  <2>2. \A u \in Threads : pc[u] \in {"bump all", "notify all"} => pc'[u] = pc[u]
    BY <1>17, <1>a, <1>b DEF Check, Fetch
  <2>3. \A w \in Workers : /\ pc'[w] = "sleep" => pc[w] = "sleep" \/ (pc[w] = "wait" /\ ~stale[w])
                           /\ terminated /\ Dreams(w)' => Dreams(w)
    BY <1>17, <1>a, <1>b, <1>c DEF Check, Fetch, Dreams, Parks, local, look
  <2>4. \A w \in Workers : (Dreams(w)' \/ pc'[w] = "sleep") /\ stale[w] => stale'[w]
    BY <1>17, <1>a, <1>b, <1>c DEF Check, Fetch, Dreams, Parks, local, look, timing
  <2> QED
    BY <2>1, <2>2, <2>3, <2>4 DEF TermKept, Dreams, Parks
<1>18. ASSUME NEW t \in Threads, StartTask(t) PROVE TermKept
  <2>1. terminated' = terminated
    BY <1>18 DEF StartTask, Forget
  <2>2. \A u \in Threads : pc[u] \in {"bump all", "notify all"} => pc'[u] = pc[u]
    BY <1>18, <1>a, <1>b DEF StartTask, Forget
  <2>3. \A w \in Workers : /\ pc'[w] = "sleep" => pc[w] = "sleep" \/ (pc[w] = "wait" /\ ~stale[w])
                           /\ terminated /\ Dreams(w)' => Dreams(w)
    BY <1>18, <1>a, <1>b, <1>c DEF StartTask, Forget, Dreams, Parks, local, look
  <2>4. \A w \in Workers : (Dreams(w)' \/ pc'[w] = "sleep") /\ stale[w] => stale'[w]
    BY <1>18, <1>a, <1>b, <1>c DEF StartTask, Forget, Dreams, Parks, local, look, timing
  <2> QED
    BY <2>1, <2>2, <2>3, <2>4 DEF TermKept, Dreams, Parks
<1>19. ASSUME NEW t \in Threads, EndPoll(t) PROVE TermKept
  <2>1. terminated' = terminated
    BY <1>19 DEF EndPoll, AfterPoll
  <2>2. \A u \in Threads : pc[u] \in {"bump all", "notify all"} => pc'[u] = pc[u]
    BY <1>19, <1>a, <1>b DEF EndPoll, AfterPoll
  <2>3. \A w \in Workers : /\ pc'[w] = "sleep" => pc[w] = "sleep" \/ (pc[w] = "wait" /\ ~stale[w])
                           /\ terminated /\ Dreams(w)' => Dreams(w)
    BY <1>19, <1>a, <1>b, <1>c DEF EndPoll, AfterPoll, Dreams, Parks, local, look
  <2>4. \A w \in Workers : (Dreams(w)' \/ pc'[w] = "sleep") /\ stale[w] => stale'[w]
    BY <1>19, <1>a, <1>b, <1>c DEF EndPoll, AfterPoll, Dreams, Parks, local, look, timing
  <2> QED
    BY <2>1, <2>2, <2>3, <2>4 DEF TermKept, Dreams, Parks
<1>20. ASSUME NEW t \in Threads, Snapshot(t) PROVE TermKept
  <2>1. terminated' = terminated
    BY <1>20 DEF Snapshot
  <2>2. \A u \in Threads : pc[u] \in {"bump all", "notify all"} => pc'[u] = pc[u]
    BY <1>20, <1>a, <1>b DEF Snapshot
  <2>3. \A w \in Workers : /\ pc'[w] = "sleep" => pc[w] = "sleep" \/ (pc[w] = "wait" /\ ~stale[w])
                           /\ terminated /\ Dreams(w)' => Dreams(w)
    BY <1>20, <1>a, <1>b, <1>c DEF Snapshot, Dreams, Parks, local, look
  <2>4. \A w \in Workers : (Dreams(w)' \/ pc'[w] = "sleep") /\ stale[w] => stale'[w]
    BY <1>20, <1>a, <1>b, <1>c DEF Snapshot, Dreams, Parks, local, look, timing
  <2> QED
    BY <2>1, <2>2, <2>3, <2>4 DEF TermKept, Dreams, Parks
<1>21. ASSUME NEW t \in Workers, Loop(t) PROVE TermKept
  <2>1. terminated' = terminated
    BY <1>21 DEF Loop, Forget
  <2>2. \A u \in Threads : pc[u] \in {"bump all", "notify all"} => pc'[u] = pc[u]
    BY <1>21, <1>a, <1>b DEF Loop, Forget
  <2>3. \A w \in Workers : /\ pc'[w] = "sleep" => pc[w] = "sleep" \/ (pc[w] = "wait" /\ ~stale[w])
                           /\ terminated /\ Dreams(w)' => Dreams(w)
    BY <1>21, <1>a, <1>b, <1>c DEF Loop, Forget, Dreams, Parks, local, look
  <2>4. \A w \in Workers : (Dreams(w)' \/ pc'[w] = "sleep") /\ stale[w] => stale'[w]
    BY <1>21, <1>a, <1>b, <1>c DEF Loop, Forget, Dreams, Parks, local, look, timing
  <2> QED
    BY <2>1, <2>2, <2>3, <2>4 DEF TermKept, Dreams, Parks
<1>22. ASSUME NEW t \in Workers, PollOne(t) PROVE TermKept
  <2>1. terminated' = terminated
    BY <1>22 DEF PollOne, Fetch
  <2>2. \A u \in Threads : pc[u] \in {"bump all", "notify all"} => pc'[u] = pc[u]
    BY <1>22, <1>a, <1>b DEF PollOne, Fetch
  <2>3. \A w \in Workers : /\ pc'[w] = "sleep" => pc[w] = "sleep" \/ (pc[w] = "wait" /\ ~stale[w])
                           /\ terminated /\ Dreams(w)' => Dreams(w)
    BY <1>22, <1>a, <1>b, <1>c DEF PollOne, Fetch, Dreams, Parks, local, look
  <2>4. \A w \in Workers : (Dreams(w)' \/ pc'[w] = "sleep") /\ stale[w] => stale'[w]
    BY <1>22, <1>a, <1>b, <1>c DEF PollOne, Fetch, Dreams, Parks, local, look, timing
  <2> QED
    BY <2>1, <2>2, <2>3, <2>4 DEF TermKept, Dreams, Parks
<1>23. ASSUME NEW t \in Workers, BeginDelay(t) PROVE TermKept
  <2>1. terminated' = terminated
    BY <1>23 DEF BeginDelay, Forget
  <2>2. \A u \in Threads : pc[u] \in {"bump all", "notify all"} => pc'[u] = pc[u]
    BY <1>23, <1>a, <1>b DEF BeginDelay, Forget
  <2>3. \A w \in Workers : /\ pc'[w] = "sleep" => pc[w] = "sleep" \/ (pc[w] = "wait" /\ ~stale[w])
                           /\ terminated /\ Dreams(w)' => Dreams(w)
    BY <1>23, <1>a, <1>b, <1>c DEF BeginDelay, Forget, Dreams, Parks, local, look
  <2>4. \A w \in Workers : (Dreams(w)' \/ pc'[w] = "sleep") /\ stale[w] => stale'[w]
    BY <1>23, <1>a, <1>b, <1>c DEF BeginDelay, Forget, Dreams, Parks, local, look, timing
  <2> QED
    BY <2>1, <2>2, <2>3, <2>4 DEF TermKept, Dreams, Parks
<1>24. ASSUME NEW t \in Workers, Park(t) PROVE TermKept
  <2>1. terminated' = terminated
    BY <1>24 DEF Park, Fetch
  <2>2. \A u \in Threads : pc[u] \in {"bump all", "notify all"} => pc'[u] = pc[u]
    BY <1>24, <1>a, <1>b DEF Park, Fetch
  <2>3. \A w \in Workers : /\ pc'[w] = "sleep" => pc[w] = "sleep" \/ (pc[w] = "wait" /\ ~stale[w])
                           /\ terminated /\ Dreams(w)' => Dreams(w)
    BY <1>24, <1>a, <1>b, <1>c DEF Park, Fetch, Dreams, Parks, local, look
  <2>4. \A w \in Workers : (Dreams(w)' \/ pc'[w] = "sleep") /\ stale[w] => stale'[w]
    BY <1>24, <1>a, <1>b, <1>c DEF Park, Fetch, Dreams, Parks, local, look, timing
  <2> QED
    BY <2>1, <2>2, <2>3, <2>4 DEF TermKept, Dreams, Parks
<1>25. ASSUME NEW t \in Workers, Wait(t) PROVE TermKept
  <2>1. terminated' = terminated
    BY <1>25 DEF Wait, Forget
  <2>2. \A u \in Threads : pc[u] \in {"bump all", "notify all"} => pc'[u] = pc[u]
    BY <1>25, <1>a, <1>b DEF Wait, Forget
  <2>3. \A w \in Workers : /\ pc'[w] = "sleep" => pc[w] = "sleep" \/ (pc[w] = "wait" /\ ~stale[w])
                           /\ terminated /\ Dreams(w)' => Dreams(w)
    BY <1>25, <1>a, <1>b, <1>c DEF Wait, Forget, Dreams, Parks, local, look
  <2>4. \A w \in Workers : (Dreams(w)' \/ pc'[w] = "sleep") /\ stale[w] => stale'[w]
    BY <1>25, <1>a, <1>b, <1>c DEF Wait, Forget, Dreams, Parks, local, look, timing
  <2> QED
    BY <2>1, <2>2, <2>3, <2>4 DEF TermKept, Dreams, Parks
<1>26. ASSUME NEW t \in Workers, Spin(t) PROVE TermKept
  <2>1. terminated' = terminated
    BY <1>26 DEF Spin
  <2>2. \A u \in Threads : pc[u] \in {"bump all", "notify all"} => pc'[u] = pc[u]
    BY <1>26, <1>a, <1>b DEF Spin
  <2>3. \A w \in Workers : /\ pc'[w] = "sleep" => pc[w] = "sleep" \/ (pc[w] = "wait" /\ ~stale[w])
                           /\ terminated /\ Dreams(w)' => Dreams(w)
    BY <1>26, <1>a, <1>b, <1>c DEF Spin, Dreams, Parks, local, look
  <2>4. \A w \in Workers : (Dreams(w)' \/ pc'[w] = "sleep") /\ stale[w] => stale'[w]
    BY <1>26, <1>a, <1>b, <1>c DEF Spin, Dreams, Parks, local, look, timing
  <2> QED
    BY <2>1, <2>2, <2>3, <2>4 DEF TermKept, Dreams, Parks
<1>27. ASSUME NEW t \in Workers, LeaveDelay(t) PROVE TermKept
  <2>1. terminated' = terminated
    BY <1>27 DEF LeaveDelay
  <2>2. \A u \in Threads : pc[u] \in {"bump all", "notify all"} => pc'[u] = pc[u]
    BY <1>27, <1>a, <1>b DEF LeaveDelay
  <2>3. \A w \in Workers : /\ pc'[w] = "sleep" => pc[w] = "sleep" \/ (pc[w] = "wait" /\ ~stale[w])
                           /\ terminated /\ Dreams(w)' => Dreams(w)
    BY <1>27, <1>a, <1>b, <1>c DEF LeaveDelay, Dreams, Parks, local, look
  <2>4. \A w \in Workers : (Dreams(w)' \/ pc'[w] = "sleep") /\ stale[w] => stale'[w]
    BY <1>27, <1>a, <1>b, <1>c DEF LeaveDelay, Dreams, Parks, local, look, timing
  <2> QED
    BY <2>1, <2>2, <2>3, <2>4 DEF TermKept, Dreams, Parks
<1>28. ASSUME NEW p \in Polled, PollFor(p) PROVE TermKept
  <2>1. terminated' = terminated
    BY <1>28 DEF PollFor, Fetch
  <2>2. \A u \in Threads : pc[u] \in {"bump all", "notify all"} => pc'[u] = pc[u]
    BY <1>28, <1>a, <1>b DEF PollFor, Fetch
  <2>3. \A w \in Workers : /\ pc'[w] = "sleep" => pc[w] = "sleep" \/ (pc[w] = "wait" /\ ~stale[w])
                           /\ terminated /\ Dreams(w)' => Dreams(w)
    BY <1>28, <1>a, <1>b, <1>c DEF PollFor, Fetch, Dreams, Parks, local, look
  <2>4. \A w \in Workers : (Dreams(w)' \/ pc'[w] = "sleep") /\ stale[w] => stale'[w]
    BY <1>28, <1>a, <1>b, <1>c DEF PollFor, Fetch, Dreams, Parks, local, look, timing
  <2> QED
    BY <2>1, <2>2, <2>3, <2>4 DEF TermKept, Dreams, Parks
<1>29. ASSUME Register PROVE TermKept
  <2>1. terminated' = terminated
    BY <1>29 DEF Register
  <2>2. \A u \in Threads : pc[u] \in {"bump all", "notify all"} => pc'[u] = pc[u]
    BY <1>29, <1>a, <1>b DEF Register
  <2>3. \A w \in Workers : /\ pc'[w] = "sleep" => pc[w] = "sleep" \/ (pc[w] = "wait" /\ ~stale[w])
                           /\ terminated /\ Dreams(w)' => Dreams(w)
    BY <1>29, <1>a, <1>b, <1>c DEF Register, Dreams, Parks, local, look
  <2>4. \A w \in Workers : (Dreams(w)' \/ pc'[w] = "sleep") /\ stale[w] => stale'[w]
    BY <1>29, <1>a, <1>b, <1>c DEF Register, Dreams, Parks, local, look, timing
  <2> QED
    BY <2>1, <2>2, <2>3, <2>4 DEF TermKept, Dreams, Parks
<1>30. ASSUME Relook PROVE TermKept
  <2>1. terminated' = terminated
    BY <1>30 DEF Relook
  <2>2. \A u \in Threads : pc[u] \in {"bump all", "notify all"} => pc'[u] = pc[u]
    BY <1>30, <1>a, <1>b DEF Relook
  <2>3. \A w \in Workers : /\ pc'[w] = "sleep" => pc[w] = "sleep" \/ (pc[w] = "wait" /\ ~stale[w])
                           /\ terminated /\ Dreams(w)' => Dreams(w)
    BY <1>30, <1>a, <1>b, <1>c DEF Relook, Dreams, Parks, local, look
  <2>4. \A w \in Workers : (Dreams(w)' \/ pc'[w] = "sleep") /\ stale[w] => stale'[w]
    BY <1>30, <1>a, <1>b, <1>c DEF Relook, Dreams, Parks, local, look, timing
  <2> QED
    BY <2>1, <2>2, <2>3, <2>4 DEF TermKept, Dreams, Parks
<1>31. ASSUME Deadline PROVE TermKept
  <2>1. terminated' = terminated
    BY <1>31 DEF Deadline
  <2>2. \A u \in Threads : pc[u] \in {"bump all", "notify all"} => pc'[u] = pc[u]
    BY <1>31, <1>a, <1>b DEF Deadline
  <2>3. \A w \in Workers : /\ pc'[w] = "sleep" => pc[w] = "sleep" \/ (pc[w] = "wait" /\ ~stale[w])
                           /\ terminated /\ Dreams(w)' => Dreams(w)
    BY <1>31, <1>a, <1>b, <1>c DEF Deadline, Dreams, Parks, local, look
  <2>4. \A w \in Workers : (Dreams(w)' \/ pc'[w] = "sleep") /\ stale[w] => stale'[w]
    BY <1>31, <1>a, <1>b, <1>c DEF Deadline, Dreams, Parks, local, look, timing
  <2> QED
    BY <2>1, <2>2, <2>3, <2>4 DEF TermKept, Dreams, Parks
<1>32. ASSUME PollAgain PROVE TermKept
  <2>1. terminated' = terminated
    BY <1>32 DEF PollAgain, Fetch
  <2>2. \A u \in Threads : pc[u] \in {"bump all", "notify all"} => pc'[u] = pc[u]
    BY <1>32, <1>a, <1>b DEF PollAgain, Fetch
  <2>3. \A w \in Workers : /\ pc'[w] = "sleep" => pc[w] = "sleep" \/ (pc[w] = "wait" /\ ~stale[w])
                           /\ terminated /\ Dreams(w)' => Dreams(w)
    BY <1>32, <1>a, <1>b, <1>c DEF PollAgain, Fetch, Dreams, Parks, local, look
  <2>4. \A w \in Workers : (Dreams(w)' \/ pc'[w] = "sleep") /\ stale[w] => stale'[w]
    BY <1>32, <1>a, <1>b, <1>c DEF PollAgain, Fetch, Dreams, Parks, local, look, timing
  <2> QED
    BY <2>1, <2>2, <2>3, <2>4 DEF TermKept, Dreams, Parks
<1>33. ASSUME Unregister PROVE TermKept
  <2>1. terminated' = terminated
    BY <1>33 DEF Unregister, Forget
  <2>2. \A u \in Threads : pc[u] \in {"bump all", "notify all"} => pc'[u] = pc[u]
    BY <1>33, <1>a, <1>b DEF Unregister, Forget
  <2>3. \A w \in Workers : /\ pc'[w] = "sleep" => pc[w] = "sleep" \/ (pc[w] = "wait" /\ ~stale[w])
                           /\ terminated /\ Dreams(w)' => Dreams(w)
    BY <1>33, <1>a, <1>b, <1>c DEF Unregister, Forget, Dreams, Parks, local, look
  <2>4. \A w \in Workers : (Dreams(w)' \/ pc'[w] = "sleep") /\ stale[w] => stale'[w]
    BY <1>33, <1>a, <1>b, <1>c DEF Unregister, Forget, Dreams, Parks, local, look, timing
  <2> QED
    BY <2>1, <2>2, <2>3, <2>4 DEF TermKept, Dreams, Parks
<1>34. ASSUME Join PROVE TermKept
  <2>1. terminated' = terminated
    BY <1>34 DEF Join
  <2>2. \A u \in Threads : pc[u] \in {"bump all", "notify all"} => pc'[u] = pc[u]
    BY <1>34, <1>a, <1>b DEF Join
  <2>3. \A w \in Workers : /\ pc'[w] = "sleep" => pc[w] = "sleep" \/ (pc[w] = "wait" /\ ~stale[w])
                           /\ terminated /\ Dreams(w)' => Dreams(w)
    BY <1>34, <1>a, <1>b, <1>c DEF Join, Dreams, Parks, local, look
  <2>4. \A w \in Workers : (Dreams(w)' \/ pc'[w] = "sleep") /\ stale[w] => stale'[w]
    BY <1>34, <1>a, <1>b, <1>c DEF Join, Dreams, Parks, local, look, timing
  <2> QED
    BY <2>1, <2>2, <2>3, <2>4 DEF TermKept, Dreams, Parks
<1>35. ASSUME Joined PROVE TermKept
  <2>1. terminated' = terminated
    BY <1>35 DEF Joined, Drain
  <2>2. \A u \in Threads : pc[u] \in {"bump all", "notify all"} => pc'[u] = pc[u]
    BY <1>35, <1>a, <1>b DEF Joined, Drain
  <2>3. \A w \in Workers : /\ pc'[w] = "sleep" => pc[w] = "sleep" \/ (pc[w] = "wait" /\ ~stale[w])
                           /\ terminated /\ Dreams(w)' => Dreams(w)
    BY <1>35, <1>a, <1>b, <1>c DEF Joined, Drain, Dreams, Parks, local, look
  <2>4. \A w \in Workers : (Dreams(w)' \/ pc'[w] = "sleep") /\ stale[w] => stale'[w]
    BY <1>35, <1>a, <1>b, <1>c DEF Joined, Drain, Dreams, Parks, local, look, timing
  <2> QED
    BY <2>1, <2>2, <2>3, <2>4 DEF TermKept, Dreams, Parks
<1>36. ASSUME DrainTake PROVE TermKept
  <2>1. terminated' = terminated
    BY <1>36 DEF DrainTake, Exchange
  <2>2. \A u \in Threads : pc[u] \in {"bump all", "notify all"} => pc'[u] = pc[u]
    BY <1>36, <1>a, <1>b DEF DrainTake, Exchange
  <2>3. \A w \in Workers : /\ pc'[w] = "sleep" => pc[w] = "sleep" \/ (pc[w] = "wait" /\ ~stale[w])
                           /\ terminated /\ Dreams(w)' => Dreams(w)
    BY <1>36, <1>a, <1>b, <1>c DEF DrainTake, Exchange, Dreams, Parks, local, look
  <2>4. \A w \in Workers : (Dreams(w)' \/ pc'[w] = "sleep") /\ stale[w] => stale'[w]
    BY <1>36, <1>a, <1>b, <1>c DEF DrainTake, Exchange, Dreams, Parks, local, look, timing
  <2> QED
    BY <2>1, <2>2, <2>3, <2>4 DEF TermKept, Dreams, Parks
<1>37. ASSUME DrainTask PROVE TermKept
  <2>1. terminated' = terminated
    BY <1>37 DEF DrainTask
  <2>2. \A u \in Threads : pc[u] \in {"bump all", "notify all"} => pc'[u] = pc[u]
    BY <1>37, <1>a, <1>b DEF DrainTask
  <2>3. \A w \in Workers : /\ pc'[w] = "sleep" => pc[w] = "sleep" \/ (pc[w] = "wait" /\ ~stale[w])
                           /\ terminated /\ Dreams(w)' => Dreams(w)
    BY <1>37, <1>a, <1>b, <1>c DEF DrainTask, Dreams, Parks, local, look
  <2>4. \A w \in Workers : (Dreams(w)' \/ pc'[w] = "sleep") /\ stale[w] => stale'[w]
    BY <1>37, <1>a, <1>b, <1>c DEF DrainTask, Dreams, Parks, local, look, timing
  <2> QED
    BY <2>1, <2>2, <2>3, <2>4 DEF TermKept, Dreams, Parks
<1>38. ASSUME DrainEnd PROVE TermKept
  <2>1. terminated' = terminated
    BY <1>38 DEF DrainEnd, Drain
  <2>2. \A u \in Threads : pc[u] \in {"bump all", "notify all"} => pc'[u] = pc[u]
    BY <1>38, <1>a, <1>b DEF DrainEnd, Drain
  <2>3. \A w \in Workers : /\ pc'[w] = "sleep" => pc[w] = "sleep" \/ (pc[w] = "wait" /\ ~stale[w])
                           /\ terminated /\ Dreams(w)' => Dreams(w)
    BY <1>38, <1>a, <1>b, <1>c DEF DrainEnd, Drain, Dreams, Parks, local, look
  <2>4. \A w \in Workers : (Dreams(w)' \/ pc'[w] = "sleep") /\ stale[w] => stale'[w]
    BY <1>38, <1>a, <1>b, <1>c DEF DrainEnd, Drain, Dreams, Parks, local, look, timing
  <2> QED
    BY <2>1, <2>2, <2>3, <2>4 DEF TermKept, Dreams, Parks
<1>39. CASE UNCHANGED vars
  BY <1>39 DEF vars, TermKept, Dreams, Parks
<1> QED
  BY <1>1, <1>2, <1>3, <1>4, <1>5, <1>6, <1>7, <1>8, <1>9, <1>10, <1>11, <1>12, <1>13, <1>14, <1>15, <1>16, <1>17, <1>18, <1>19, <1>20, <1>21, <1>22, <1>23, <1>24, <1>25, <1>26, <1>27, <1>28, <1>29, <1>30, <1>31, <1>32, <1>33, <1>34, <1>35, <1>36, <1>37, <1>38, <1>39, <1>a DEF Next, Inside, Poll, Work, TimedPoll, Finish

\* Every step keeps Term.
LEMMA TermStep == ASSUME Base, Term, [Next]_vars PROVE Term'
<1>a. Main \in Threads /\ Workers \subseteq Threads /\ Main \notin Workers
      /\ \A u \in Threads : u = Main \/ u \in Workers
  BY WorkerAssumption DEF Threads
<1>b. /\ pc \in [Threads -> Labels] /\ back \in [Threads -> {"start", "body", "idle"}]
      /\ goal \in [Threads -> {"poll", "recheck", "park"}] /\ stale \in [Threads -> BOOLEAN]
  BY DEF Base, Types, PlaceTypes, LocalTypes, FlagTypes
<1>c. terminated \in BOOLEAN /\ timed \in BOOLEAN
  BY DEF Base, Types, FlagTypes
<1> USE DEF Goto
<1>1. ASSUME NEW t \in Threads, Terminate(t) PROVE Term'
  BY <1>1, <1>b DEF Terminate, Term
<1>2. ASSUME NEW t \in Threads, Bump(t) PROVE Term'
  <2>1. /\ terminated' = terminated /\ goal' = goal
        /\ \A u \in Threads \ {t} : pc'[u] = pc[u]
        /\ \A u \in Threads : stale'[u] = HasSnapshot(u)
        /\ \/ pc[t] = "bump" /\ pc'[t] = "notify"
           \/ pc[t] = "bump all" /\ pc'[t] = "notify all"
    BY <1>2, <1>b DEF Bump, local, look
  <2>2. \A w \in Workers : Dreams(w)' \/ pc'[w] = "sleep" => stale'[w]
    BY <2>1, <1>a DEF Dreams, Parks, HasSnapshot
  <2>3. \A w \in Workers : pc[w] # "sleep" => pc'[w] # "sleep"
    BY <2>1, <1>a
  <2>4. CASE pc[t] = "bump all"
    BY <2>1, <2>2, <2>4 DEF Term
  <2>5. CASE pc[t] = "bump"
    BY <2>1, <2>2, <2>3, <2>5 DEF Term
  <2> QED
    BY <2>1, <2>4, <2>5
<1>3. ASSUME NEW t \in Threads, NotifyAll(t) PROVE Term'
  <2>1. /\ terminated' = terminated /\ goal' = goal /\ stale' = stale
        /\ pc[t] = "notify all" /\ pc'[t] = "look timed"
        /\ \A u \in Threads \ {t} : pc'[u] = IF u \in Sleepers THEN "spin" ELSE pc[u]
    BY <1>3 DEF NotifyAll, local, look
  <2>2. \A w \in Workers : /\ Dreams(w)' => Dreams(w)
                           /\ pc'[w] = "sleep" => pc[w] = "sleep" /\ ~stale[w]
    BY <2>1, <1>a DEF Dreams, Parks, Sleepers
  <2>3. \A u \in Threads : pc[u] = "bump all" => pc'[u] = "bump all"
    BY <2>1 DEF Sleepers
  <2> QED
    BY <2>1, <2>2, <2>3 DEF Term
<1> QED
  BY <1>1, <1>2, <1>3, TermKeeps, TermStays

\* A step of Main leaves the workers where they were, or wakes some.
WorkersStay == \A w \in Workers : Keeps(w) /\ (stale[w] => stale'[w])

\* A step after which a worker stirs, or one of Main that no witness is about.
Plain ==
  \/ Stirs' \/ terminated'
  \/ /\ WorkersStay
     /\ \A s \in Slots : heads'[s] # <<>> => heads[s] # <<>>
     /\ pc[Main] \notin {"repush", "wake", "bump", "check", "notify"} /\ ~Rechecks(Main)

\* Who watches a slot still does after a step of Main.
LEMMA WatchedStays == ASSUME WorkersStay, NEW s \in Slots, Watched(s) PROVE Watched(s)'
<1>0. \A w \in Workers : w # Main
  BY WorkerAssumption
<1>1. ASSUME NEW w \in Workers, ~Dreams(w) /\ pc[w] # "sleep" PROVE ~Dreams(w)' /\ pc'[w] # "sleep"
  BY <1>0, <1>1 DEF WorkersStay, Keeps, Dreams, Parks
<1>2. ASSUME NEW w \in Workers, Parks(w), size[w] = NThreads, Ahead(w, s)
      PROVE  Parks(w)' /\ size'[w] = NThreads /\ Ahead(w, s)'
  BY <1>0, <1>2 DEF WorkersStay, Keeps, Parks, Ahead
<1>3. ASSUME NEW w \in Workers, Dreams(w), stale[w] PROVE Dreams(w)' /\ stale'[w]
  BY <1>0, <1>3 DEF WorkersStay, Keeps, Dreams, Parks
<1>4. CASE Stirs
  BY <1>1, <1>4 DEF Stirs, Watched
<1>5. CASE \E w \in Workers : Parks(w) /\ size[w] = NThreads /\ Ahead(w, s)
  BY <1>2, <1>5 DEF Watched
<1>6. CASE \E w \in Workers : Dreams(w) /\ stale[w]
  BY <1>3, <1>6 DEF Watched
<1> QED
  BY <1>4, <1>5, <1>6 DEF Watched

\* A plain step keeps Awake.
LEMMA PlainStays == ASSUME Awake, Plain, terminated => terminated' PROVE Awake'
<1>1. CASE Stirs'
  BY <1>1 DEF Awake, Witness, Watched
<1>2. CASE terminated'
  BY <1>2 DEF Awake
<1>3. CASE /\ WorkersStay /\ ~terminated'
           /\ \A s \in Slots : heads'[s] # <<>> => heads[s] # <<>>
           /\ pc[Main] \notin {"repush", "wake", "bump", "check", "notify"} /\ ~Rechecks(Main)
  <2> SUFFICES ASSUME NEW s \in Slots, heads'[s] # <<>> PROVE Witness(s)'
    BY DEF Awake
  <2>1. Watched(s)
    BY <1>3 DEF Awake, Witness, Rouses
  <2>2. Watched(s)'
    BY <1>3, <2>1, WatchedStays
  <2> QED
    BY <2>2 DEF Witness
<1> QED
  BY <1>1, <1>2, <1>3 DEF Plain

\* The actions that are plain.
LEMMA AwakeKeeps ==
  ASSUME Base, Next
  PROVE  \/ Plain
         \/ \E t \in Threads :
              \/ Wake(t)
              \/ Bump(t)
              \/ NotifyOne(t)
              \/ FetchSome(t)
              \/ FetchNext(t)
              \/ FetchNone(t)
              \/ PutBack(t)
              \/ Repush(t)
              \/ Check(t)
              \/ TrySlot(t)
              \/ Chain(t)
              \/ Take(t)
         \/ \E t \in Workers : Park(t) \/ Wait(t)
         \/ DrainTake
<1>a. Main \in Threads /\ Workers \subseteq Threads /\ Main \notin Workers
      /\ \A u \in Threads : u = Main \/ u \in Workers
  BY WorkerAssumption DEF Threads
<1>b. /\ pc \in [Threads -> Labels] /\ back \in [Threads -> {"start", "body", "idle"}]
      /\ goal \in [Threads -> {"poll", "recheck", "park"}] /\ stale \in [Threads -> BOOLEAN]
      /\ job \in [Threads -> Tasks \cup {None}] /\ chain \in [Threads -> Seq(Tasks)]
      /\ arg \in [Threads -> Tasks \cup {None}] /\ slot \in [Threads -> Slots]
      /\ size \in [Threads -> 0..NThreads] /\ pos \in [Threads -> 0..(NThreads * Duplicates)]
  BY DEF Base, Types, TaskTypes, PlaceTypes, LocalTypes, FlagTypes
<1>c. terminated \in BOOLEAN /\ timed \in BOOLEAN
  BY DEF Base, Types, FlagTypes
<1>d. \A t \in Threads : Known(t)
  BY WhatIsKnown
<1> USE DEF Goto
<1>1. ASSUME NEW t \in Threads, NEW j \in Tasks, QueueTask(t, j) PROVE Plain
  <2>1. CASE t # Main
    <3>1. pc'[t] \notin {"sleep", "wait"} /\ (pc'[t] = "fetch" => goal'[t] = "poll")
      BY <1>1, <2>1, <1>a, <1>b, <1>c DEF QueueTask, InClient
    <3> QED
      BY <2>1, <3>1, <1>a DEF Plain, Stirs, Dreams, Parks
  <2>2. CASE t = Main
    <3>1. WorkersStay
      BY <1>1, <1>a, <1>b, <2>2 DEF QueueTask, InClient, WorkersStay, Keeps, local, look, timing
    <3>2. heads' = heads /\ pc[Main] \notin {"repush", "wake", "bump", "check", "notify"} /\ ~Rechecks(Main)
      BY <1>1, <2>2 DEF QueueTask, InClient, Rechecks, InClient
    <3> QED
      BY <3>1, <3>2 DEF Plain
  <2> QED
    BY <2>1, <2>2
<1>2. ASSUME NEW t \in Threads, Terminate(t) PROVE Plain
  BY <1>2 DEF Terminate, Plain
<1>3. ASSUME NEW t \in Threads, CheckTerminated(t) PROVE Plain
  <2>1. CASE t # Main
    <3>1. pc'[t] \notin {"sleep", "wait"} /\ (pc'[t] = "fetch" => goal'[t] = "poll")
      BY <1>3, <2>1, <1>a, <1>b, <1>c DEF CheckTerminated
    <3> QED
      BY <2>1, <3>1, <1>a DEF Plain, Stirs, Dreams, Parks
  <2>2. CASE t = Main
    <3>1. WorkersStay
      BY <1>3, <1>a, <1>b, <2>2 DEF CheckTerminated, WorkersStay, Keeps, local, look, timing
    <3>2. heads' = heads /\ pc[Main] \notin {"repush", "wake", "bump", "check", "notify"} /\ ~Rechecks(Main)
      BY <1>3, <2>2 DEF CheckTerminated, Rechecks, InClient
    <3> QED
      BY <3>1, <3>2 DEF Plain
  <2> QED
    BY <2>1, <2>2
<1>4. ASSUME NEW t \in Threads, AppendLast(t) PROVE Plain
  BY <1>4, <1>d DEF AppendLast, Plain, Known, ControlOf, EndStates
<1>5. ASSUME NEW t \in Threads, NotifyAll(t) PROVE Plain
  BY <1>5, <1>d DEF NotifyAll, Plain, Known, ControlOf, EndStates
<1>6. ASSUME NEW t \in Threads, LookTimed(t) PROVE Plain
  <2>1. CASE t # Main
    <3>1. pc'[t] \in {"notify timed", "start", "body", "idle"}
      <4>1. pc' = [pc EXCEPT ![t] = "notify timed"] \/ pc' = [pc EXCEPT ![t] = back[t]]
        BY <1>6 DEF LookTimed, Return
      <4> QED
        BY <4>1, <1>b
    <3> QED
      BY <2>1, <3>1, <1>a DEF Plain, Stirs, Dreams, Parks
  <2>2. CASE t = Main
    <3>1. WorkersStay
      <4>1. /\ \/ pc' = [pc EXCEPT ![t] = "notify timed"] /\ UNCHANGED local
               \/ pc' = [pc EXCEPT ![t] = back[t]] /\ Forget(t)
            /\ chain' = chain /\ job' = job /\ arg' = arg /\ stale' = stale
        BY <1>6 DEF LookTimed, Return
      <4> QED
        BY <4>1, <2>2, <1>a, <1>b DEF WorkersStay, Keeps, Forget, local, look
    <3>2. heads' = heads /\ pc[Main] \notin {"repush", "wake", "bump", "check", "notify"} /\ ~Rechecks(Main)
      BY <1>6, <2>2 DEF LookTimed, Rechecks
    <3> QED
      BY <3>1, <3>2 DEF Plain
  <2> QED
    BY <2>1, <2>2
<1>7. ASSUME NEW t \in Threads, NotifyTimed(t) PROVE Plain
  <2>1. CASE t # Main
    <3>1. pc'[t] \in {"notify timed", "start", "body", "idle"}
      BY <1>7, <2>1, <1>a, <1>b DEF NotifyTimed
    <3> QED
      BY <2>1, <3>1, <1>a DEF Plain, Stirs, Dreams, Parks
  <2>2. CASE t = Main
    <3>1. WorkersStay
      BY <1>7, <1>a, <1>b, <2>2 DEF NotifyTimed, Forget, WorkersStay, Keeps, local, look, timing
    <3>2. heads' = heads /\ pc[Main] \notin {"repush", "wake", "bump", "check", "notify"} /\ ~Rechecks(Main)
      BY <1>7, <2>2 DEF NotifyTimed, Forget, Rechecks, InClient
    <3> QED
      BY <3>1, <3>2 DEF Plain
  <2> QED
    BY <2>1, <2>2
<1>8. ASSUME NEW t \in Threads, EndTask(t) PROVE Plain
  <2>1. CASE t # Main
    <3>1. pc'[t] \notin {"sleep", "wait"} /\ (pc'[t] = "fetch" => goal'[t] = "poll")
      BY <1>8, <2>1, <1>a, <1>b, <1>c DEF EndTask
    <3> QED
      BY <2>1, <3>1, <1>a DEF Plain, Stirs, Dreams, Parks
  <2>2. CASE t = Main
    <3>1. WorkersStay
      BY <1>8, <1>a, <1>b, <2>2 DEF EndTask, WorkersStay, Keeps, local, look, timing
    <3>2. heads' = heads /\ pc[Main] \notin {"repush", "wake", "bump", "check", "notify"} /\ ~Rechecks(Main)
      BY <1>8, <2>2 DEF EndTask, Rechecks, InClient
    <3> QED
      BY <3>1, <3>2 DEF Plain
  <2> QED
    BY <2>1, <2>2
<1>9. ASSUME NEW t \in Threads, StartTask(t) PROVE Plain
  <2>1. CASE t # Main
    <3>1. pc'[t] \notin {"sleep", "wait"} /\ (pc'[t] = "fetch" => goal'[t] = "poll")
      BY <1>9, <2>1, <1>a, <1>b, <1>c DEF StartTask, Forget
    <3> QED
      BY <2>1, <3>1, <1>a DEF Plain, Stirs, Dreams, Parks
  <2>2. CASE t = Main
    <3>1. WorkersStay
      BY <1>9, <1>a, <1>b, <2>2 DEF StartTask, Forget, WorkersStay, Keeps, local, look, timing
    <3>2. heads' = heads /\ pc[Main] \notin {"repush", "wake", "bump", "check", "notify"} /\ ~Rechecks(Main)
      BY <1>9, <2>2 DEF StartTask, Forget, Rechecks, InClient
    <3> QED
      BY <3>1, <3>2 DEF Plain
  <2> QED
    BY <2>1, <2>2
<1>10. ASSUME NEW t \in Threads, EndPoll(t) PROVE Plain
  <2>1. CASE t # Main
    <3>1. pc'[t] \notin {"sleep", "wait"} /\ (pc'[t] = "fetch" => goal'[t] = "poll")
      BY <1>10, <2>1, <1>a, <1>b, <1>c DEF EndPoll, AfterPoll
    <3> QED
      BY <2>1, <3>1, <1>a DEF Plain, Stirs, Dreams, Parks
  <2>2. CASE t = Main
    <3>1. WorkersStay
      BY <1>10, <1>a, <1>b, <2>2 DEF EndPoll, AfterPoll, WorkersStay, Keeps, local, look, timing
    <3>2. heads' = heads /\ pc[Main] \notin {"repush", "wake", "bump", "check", "notify"} /\ ~Rechecks(Main)
      BY <1>10, <2>2 DEF EndPoll, AfterPoll, Rechecks, InClient
    <3> QED
      BY <3>1, <3>2 DEF Plain
  <2> QED
    BY <2>1, <2>2
<1>11. ASSUME NEW t \in Threads, Snapshot(t) PROVE Plain
  <2>1. CASE t # Main
    <3>1. pc'[t] \notin {"sleep", "wait"} /\ (pc'[t] = "fetch" => goal'[t] = "poll")
      BY <1>11, <2>1, <1>a, <1>b, <1>c DEF Snapshot
    <3> QED
      BY <2>1, <3>1, <1>a DEF Plain, Stirs, Dreams, Parks
  <2>2. CASE t = Main
    <3>1. WorkersStay
      BY <1>11, <1>a, <1>b, <2>2 DEF Snapshot, WorkersStay, Keeps, local, look, timing
    <3>2. heads' = heads /\ pc[Main] \notin {"repush", "wake", "bump", "check", "notify"} /\ ~Rechecks(Main)
      BY <1>11, <2>2 DEF Snapshot, Rechecks, InClient
    <3> QED
      BY <3>1, <3>2 DEF Plain
  <2> QED
    BY <2>1, <2>2
<1>12. ASSUME NEW t \in Workers, Loop(t) PROVE Plain
  <2>1. pc'[t] \notin {"sleep", "wait"} /\ (pc'[t] = "fetch" => goal'[t] = "poll")
    BY <1>12, <1>a, <1>b, <1>c DEF Loop, Forget
  <2> QED
    BY <2>1 DEF Plain, Stirs, Dreams, Parks
<1>13. ASSUME NEW t \in Workers, PollOne(t) PROVE Plain
  <2>1. pc'[t] \notin {"sleep", "wait"} /\ (pc'[t] = "fetch" => goal'[t] = "poll")
    BY <1>13, <1>a, <1>b, <1>c DEF PollOne, Fetch
  <2> QED
    BY <2>1 DEF Plain, Stirs, Dreams, Parks
<1>14. ASSUME NEW t \in Workers, BeginDelay(t) PROVE Plain
  <2>1. pc'[t] \notin {"sleep", "wait"} /\ (pc'[t] = "fetch" => goal'[t] = "poll")
    BY <1>14, <1>a, <1>b, <1>c DEF BeginDelay, Forget
  <2> QED
    BY <2>1 DEF Plain, Stirs, Dreams, Parks
<1>15. ASSUME NEW t \in Workers, Spin(t) PROVE Plain
  <2>1. pc'[t] \notin {"sleep", "wait"} /\ (pc'[t] = "fetch" => goal'[t] = "poll")
    BY <1>15, <1>a, <1>b, <1>c DEF Spin
  <2> QED
    BY <2>1 DEF Plain, Stirs, Dreams, Parks
<1>16. ASSUME NEW t \in Workers, LeaveDelay(t) PROVE Plain
  <2>1. pc'[t] \notin {"sleep", "wait"} /\ (pc'[t] = "fetch" => goal'[t] = "poll")
    BY <1>16, <1>a, <1>b, <1>c DEF LeaveDelay
  <2> QED
    BY <2>1 DEF Plain, Stirs, Dreams, Parks
<1>17. ASSUME NEW p \in Polled, PollFor(p) PROVE Plain
  <2>1. WorkersStay
    BY <1>17, <1>a, <1>b DEF PollFor, Fetch, WorkersStay, Keeps, local, look, timing
  <2>2. heads' = heads /\ pc[Main] \notin {"repush", "wake", "bump", "check", "notify"} /\ ~Rechecks(Main)
    BY <1>17 DEF PollFor, Fetch, Rechecks, InClient
  <2> QED
    BY <2>1, <2>2 DEF Plain
<1>18. ASSUME Register PROVE Plain
  <2>1. WorkersStay
    BY <1>18, <1>a, <1>b DEF Register, WorkersStay, Keeps, local, look, timing
  <2>2. heads' = heads /\ pc[Main] \notin {"repush", "wake", "bump", "check", "notify"} /\ ~Rechecks(Main)
    BY <1>18 DEF Register, Rechecks, InClient
  <2> QED
    BY <2>1, <2>2 DEF Plain
<1>19. ASSUME Relook PROVE Plain
  <2>1. WorkersStay
    BY <1>19, <1>a, <1>b DEF Relook, WorkersStay, Keeps, local, look, timing
  <2>2. heads' = heads /\ pc[Main] \notin {"repush", "wake", "bump", "check", "notify"} /\ ~Rechecks(Main)
    BY <1>19 DEF Relook, Rechecks, InClient
  <2> QED
    BY <2>1, <2>2 DEF Plain
<1>20. ASSUME Deadline PROVE Plain
  <2>1. WorkersStay
    BY <1>20, <1>a, <1>b DEF Deadline, WorkersStay, Keeps, local, look, timing
  <2>2. heads' = heads /\ pc[Main] \notin {"repush", "wake", "bump", "check", "notify"} /\ ~Rechecks(Main)
    BY <1>20 DEF Deadline, Rechecks, InClient
  <2> QED
    BY <2>1, <2>2 DEF Plain
<1>21. ASSUME PollAgain PROVE Plain
  <2>1. WorkersStay
    BY <1>21, <1>a, <1>b DEF PollAgain, Fetch, WorkersStay, Keeps, local, look, timing
  <2>2. heads' = heads /\ pc[Main] \notin {"repush", "wake", "bump", "check", "notify"} /\ ~Rechecks(Main)
    BY <1>21 DEF PollAgain, Fetch, Rechecks, InClient
  <2> QED
    BY <2>1, <2>2 DEF Plain
<1>22. ASSUME Unregister PROVE Plain
  <2>1. WorkersStay
    BY <1>22, <1>a, <1>b DEF Unregister, Forget, WorkersStay, Keeps, local, look, timing
  <2>2. heads' = heads /\ pc[Main] \notin {"repush", "wake", "bump", "check", "notify"} /\ ~Rechecks(Main)
    BY <1>22 DEF Unregister, Forget, Rechecks, InClient
  <2> QED
    BY <2>1, <2>2 DEF Plain
<1>23. ASSUME Join PROVE Plain
  <2>1. WorkersStay
    BY <1>23, <1>a, <1>b DEF Join, WorkersStay, Keeps, local, look, timing
  <2>2. heads' = heads /\ pc[Main] \notin {"repush", "wake", "bump", "check", "notify"} /\ ~Rechecks(Main)
    BY <1>23 DEF Join, Rechecks, InClient
  <2> QED
    BY <2>1, <2>2 DEF Plain
<1>24. ASSUME Joined PROVE Plain
  <2>1. WorkersStay
    BY <1>24, <1>a, <1>b DEF Joined, Drain, WorkersStay, Keeps, local, look, timing
  <2>2. heads' = heads /\ pc[Main] \notin {"repush", "wake", "bump", "check", "notify"} /\ ~Rechecks(Main)
    BY <1>24 DEF Joined, Drain, Rechecks, InClient
  <2> QED
    BY <2>1, <2>2 DEF Plain
<1>25. ASSUME DrainTask PROVE Plain
  <2>1. WorkersStay
    BY <1>25, <1>a, <1>b DEF DrainTask, WorkersStay, Keeps, local, look, timing
  <2>2. heads' = heads /\ pc[Main] \notin {"repush", "wake", "bump", "check", "notify"} /\ ~Rechecks(Main)
    BY <1>25 DEF DrainTask, Rechecks, InClient
  <2> QED
    BY <2>1, <2>2 DEF Plain
<1>26. ASSUME DrainEnd PROVE Plain
  <2>1. WorkersStay
    BY <1>26, <1>a, <1>b DEF DrainEnd, Drain, WorkersStay, Keeps, local, look, timing
  <2>2. heads' = heads /\ pc[Main] \notin {"repush", "wake", "bump", "check", "notify"} /\ ~Rechecks(Main)
    BY <1>26 DEF DrainEnd, Drain, Rechecks, InClient
  <2> QED
    BY <2>1, <2>2 DEF Plain
<1> QED
  BY <1>1, <1>2, <1>3, <1>4, <1>5, <1>6, <1>7, <1>8, <1>9, <1>10, <1>11, <1>12, <1>13, <1>14, <1>15, <1>16, <1>17, <1>18, <1>19, <1>20, <1>21, <1>22, <1>23, <1>24, <1>25, <1>26, <1>a DEF Next, Inside, Poll, Work, TimedPoll, Finish

\* The steps that Plain does not cover.
LEMMA AwakeMain ==
  ASSUME Base, Awake, Limit = 0, ~terminated', ~terminated, ~Stirs', NEW s \in Slots, heads'[s] # <<>>,
         \/ Wake(Main) \/ Bump(Main) \/ NotifyOne(Main) \/ FetchSome(Main) \/ FetchNext(Main) \/ FetchNone(Main)
         \/ PutBack(Main) \/ Repush(Main) \/ Check(Main) \/ TrySlot(Main) \/ Chain(Main) \/ Take(Main)
  PROVE  Witness(s)'
<1>a. Main \in Threads /\ Workers \subseteq Threads /\ Main \notin Workers
      /\ \A u \in Threads : u = Main \/ u \in Workers
  BY WorkerAssumption DEF Threads
<1>b. /\ pc \in [Threads -> Labels] /\ back \in [Threads -> {"start", "body", "idle"}]
      /\ goal \in [Threads -> {"poll", "recheck", "park"}] /\ stale \in [Threads -> BOOLEAN]
      /\ job \in [Threads -> Tasks \cup {None}] /\ chain \in [Threads -> Seq(Tasks)]
      /\ arg \in [Threads -> Tasks \cup {None}] /\ slot \in [Threads -> Slots]
      /\ size \in [Threads -> 0..NThreads] /\ pos \in [Threads -> 0..(NThreads * Duplicates)]
      /\ heads \in [Slots -> Seq(Tasks)]
  BY DEF Base, Types, TaskTypes, PlaceTypes, LocalTypes, FlagTypes
<1>c. Known(Main)
  BY <1>a, WhatIsKnown
<1>d. heads[s] # <<>> => Watched(s) \/ (pc[Main] = "notify" /\ Sleepers # {}) \/ Rouses(s)
  BY DEF Awake, Witness
<1>e. WorkersStay => ~Stirs
  BY WatchedStays DEF WorkersStay, Stirs, Keeps, Dreams, Parks
<1>f. ASSUME ~Stirs, NEW p \in Priorities PROVE MayWake(p)
  <2>1. \A w \in Workers : Waits(w)
    BY <1>f DEF Stirs, Dreams, Waits
  <2>2. waiting = NThreads
    BY <2>1, CountTypes DEF Base
  <2> QED
    BY <2>2, WorkerAssumption DEF MayWake, Priorities
<1>g. slot[Main] \in Slots /\ slot[Main].priority \in Priorities
  BY <1>a, <1>b DEF Slots
<1>h. WorkersStay /\ Watched(s) => Witness(s)'
  BY WatchedStays DEF Witness
<1>i. pc'[Main] \in {"repush", "wake", "bump"} => Witness(s)'
  BY DEF Witness, Rouses
<1> USE DEF Goto
<1>1. CASE Wake(Main)
  <2>1. /\ \/ pc' = [pc EXCEPT ![Main] = "bump"] /\ UNCHANGED local
           \/ pc' = [pc EXCEPT ![Main] = back[Main]] /\ Forget(Main)
        /\ UNCHANGED <<stale, chain, job, arg>>
    BY <1>1 DEF Wake, Return
  <2>2. WorkersStay
    BY <2>1, <1>a, <1>b DEF WorkersStay, Keeps, Forget, local, look
  <2>3. MayWake(slot[Main].priority)
    BY <2>2, <1>e, <1>f, <1>g
  <2>4. pc'[Main] = "bump"
    BY <1>1, <2>3, <1>a, <1>b DEF Wake
  <2> QED
    BY <2>4, <1>i
<1>2. CASE Bump(Main)
  <2>1. pc[Main] # "bump all"
    BY <1>c DEF Known, ControlOf, EndStates
  <2>2. /\ pc'[Main] = "notify" /\ goal' = goal
        /\ \A w \in Workers : pc'[w] = pc[w] /\ stale'[w] = HasSnapshot(w)
    BY <1>2, <2>1, <1>a, <1>b DEF Bump, local, look
  <2>3. 1 \in Workers
    BY WorkerAssumption DEF Workers
  <2>4. Dreams(1)' \/ pc'[1] = "sleep"
    BY <2>3 DEF Stirs
  <2>5. stale'[1]
    BY <2>2, <2>3, <2>4 DEF Dreams, Parks, HasSnapshot
  <2> QED
    BY <2>2, <2>3, <2>4, <2>5 DEF Witness, Watched, Sleepers
<1>3. CASE NotifyOne(Main)
  <2>1. CASE Sleepers = {}
    <3>1. pc' = [pc EXCEPT ![Main] = "look timed"] /\ UNCHANGED <<heads, stale, local, chain, job, arg>> /\ pc[Main] = "notify"
      BY <1>3, <2>1 DEF NotifyOne
    <3>2. WorkersStay
      BY <3>1, <1>a, <1>b DEF WorkersStay, Keeps, local, look
    <3>3. Watched(s)
      BY <1>d, <2>1, <3>1 DEF Rouses, Rechecks
    <3> QED
      BY <3>2, <3>3, <1>h
  <2>2. ASSUME NEW w \in Sleepers, pc' = [pc EXCEPT ![Main] = "look timed", ![w] = "spin"] PROVE FALSE
    <3>1. pc'[w] = "spin" /\ w \in Workers
      BY <2>2, <1>a, <1>b DEF Sleepers
    <3> QED
      BY <3>1 DEF Stirs, Dreams, Parks
  <2> QED
    BY <1>3, <2>1, <2>2 DEF NotifyOne
<1>4. CASE FetchSome(Main) /\ ~Rechecks(Main)
  <2>1. WorkersStay /\ heads' = heads /\ pc[Main] = "fetch"
    BY <1>4, <1>a, <1>b DEF FetchSome, WorkersStay, Keeps, look
  <2> QED
    BY <2>1, <1>d, <1>h, <1>4 DEF Rouses
<1>5. CASE FetchNext(Main) /\ ~Rechecks(Main)
  <2>1. WorkersStay /\ heads' = heads /\ pc[Main] = "fetch"
    BY <1>5, <1>a, <1>b DEF FetchNext, WorkersStay, Keeps
  <2> QED
    BY <2>1, <1>d, <1>h, <1>5 DEF Rouses
<1>6. CASE FetchNone(Main) /\ ~Rechecks(Main)
  <2>1. WorkersStay /\ heads' = heads /\ pc[Main] = "fetch"
    BY <1>6, <1>a, <1>b DEF FetchNone, WorkersStay, Keeps, local, look
  <2> QED
    BY <2>1, <1>d, <1>h, <1>6 DEF Rouses
<1>7. CASE FetchSome(Main) /\ Rechecks(Main)
  <2>1. pc'[Main] = "wake"
    BY <1>7, <1>a, <1>b DEF FetchSome, Rechecks
  <2> QED
    BY <2>1, <1>i
<1>8. CASE FetchNext(Main) /\ Rechecks(Main)
  <2>1. /\ WorkersStay /\ heads' = heads /\ pc' = pc /\ goal' = goal /\ size' = size
        /\ pos'[Main] = pos[Main] + 1 /\ heads[SlotAt(Main, size[Main], pos[Main])] = <<>>
    BY <1>8, <1>a, <1>b DEF FetchNext, WorkersStay, Keeps, Looked, SlotAt
  <2>2. Ahead(Main, s) => Ahead(Main, s)'
    <3> SUFFICES ASSUME NEW i \in 0..(NThreads * Duplicates - 1), pos[Main] <= i, i < size[Main] * Duplicates,
                        SlotAt(Main, size[Main], i) = s
                 PROVE  pos'[Main] <= i
      BY <2>1 DEF Ahead
    <3>1. i # pos[Main]
      BY <2>1
    <3>2. pos[Main] \in Int /\ i \in Int
      <4> DEFINE m == NThreads * Duplicates
      <4>1. m \in Nat /\ pos[Main] \in 0..m /\ i \in 0..(m - 1)
        BY <1>a, <1>b, Bounds
      <4> HIDE DEF m
      <4> QED
        BY <4>1
    <3> QED
      BY <2>1, <3>1, <3>2
  <2>3. Rouses(s) => Rouses(s)'
    BY <2>1, <2>2, <1>8 DEF Rouses, Rechecks
  <2> QED
    BY <2>1, <2>3, <1>8, <1>d, <1>h DEF Witness, Rechecks
<1>9. CASE FetchNone(Main) /\ Rechecks(Main)
  <2>1. WorkersStay /\ heads' = heads /\ pc[Main] = "fetch" /\ pos[Main] = size[Main] * Duplicates
    BY <1>9, <1>a, <1>b DEF FetchNone, WorkersStay, Keeps, local, look
  <2>2. ~Ahead(Main, s)
    <3> SUFFICES ASSUME NEW i \in 0..(NThreads * Duplicates - 1), pos[Main] <= i, i < pos[Main] PROVE FALSE
      BY <2>1 DEF Ahead
    <3> DEFINE m == NThreads * Duplicates
    <3>1. m \in Nat /\ pos[Main] \in 0..m /\ i \in 0..(m - 1)
      BY <1>a, <1>b, Bounds
    <3> HIDE DEF m
    <3> QED
      BY <3>1
  <2> QED
    BY <2>1, <2>2, <1>9, <1>d, <1>h DEF Rouses
<1>10. CASE PutBack(Main)
  <2>1. /\ WorkersStay /\ slot' = slot /\ pc[Main] = "putback" /\ pc'[Main] \in {"check", "repush"}
        /\ heads' = [heads EXCEPT ![slot[Main]] = Tail(chain[Main])]
    BY <1>10, <1>a, <1>b DEF PutBack, Exchange, WorkersStay, Keeps, look
  <2>2. CASE s = slot[Main]
    BY <2>1, <2>2, <1>i DEF Witness, Rouses
  <2>3. CASE s # slot[Main]
    BY <2>1, <2>3, <1>d, <1>h, <1>b DEF Rouses, Rechecks
  <2> QED
    BY <2>2, <2>3
<1>11. CASE Repush(Main)
  <2>1. pc'[Main] \in {"wake", "repush"}
    BY <1>11, <1>a, <1>b DEF Repush
  <2> QED
    BY <2>1, <1>i
<1>12. CASE Check(Main)
  <2>1. pc[Main] = "check" /\ heads' = heads /\ UNCHANGED <<stale, back, slot, chain, job, arg>>
    BY <1>12 DEF Check
  <2>2. WorkersStay
    BY <1>12, <2>1, <1>a, <1>b DEF Check, Fetch, WorkersStay, Keeps, look
  <2>3. MayWake(slot[Main].priority)
    BY <2>2, <1>e, <1>f, <1>g
  <2>4. Fetch(Main, "recheck", size[Main])
    BY <1>12, <2>3 DEF Check
  <2>5. pc'[Main] = "fetch" /\ goal'[Main] = "recheck" /\ size'[Main] = size[Main] /\ pos'[Main] = 0
    BY <2>4, <1>a, <1>b DEF Fetch
  <2>6. size[Main] \in 1..NThreads /\ slot[Main].priority < size[Main]
    BY <2>1, <1>c DEF Known, SizedOf
  <2>7. s = slot[Main] => Ahead(Main, s)'
    <3> SUFFICES ASSUME s = slot[Main] PROVE Ahead(Main, s)'
      OBVIOUS
    <3> DEFINE n == size[Main] * Duplicates
               m == NThreads * Duplicates
    <3>1. PICK i \in 0..(n - 1) : SlotAt(Main, size[Main], i) = s
      BY <2>6, <1>a, LooksEverywhere
    <3>2. n \in Nat /\ m \in Nat /\ n <= m
      BY <2>6, Bounds
    <3>3. i \in 0..(m - 1) /\ 0 <= i /\ i < n
      <4> HIDE DEF n, m
      <4> QED
        BY <3>2
    <3> QED
      BY <2>5, <3>1, <3>3 DEF Ahead
  <2>8. s = slot[Main] => Witness(s)'
    BY <2>5, <2>7 DEF Witness, Rouses, Rechecks
  <2>9. s # slot[Main] => Watched(s)
    BY <2>1, <1>d DEF Rouses, Rechecks
  <2> QED
    BY <2>2, <2>8, <2>9, <1>h
<1>13. CASE TrySlot(Main)
  <2>1. CASE pc'[Main] = "wake"
    BY <2>1, <1>i
  <2>2. CASE pc'[Main] # "wake"
    <3>1. heads' = heads /\ WorkersStay /\ pc[Main] = "try"
      BY <1>13, <2>2, <1>a, <1>b DEF TrySlot, WorkersStay, Keeps
    <3> QED
      BY <3>1, <1>d, <1>h DEF Rouses, Rechecks
  <2> QED
    BY <2>1, <2>2
<1>14. CASE Chain(Main)
  <2>1. pc'[Main] = "wake"
    BY <1>14, <1>a, <1>b DEF Chain
  <2> QED
    BY <2>1, <1>i
<1>15. CASE Take(Main)
  <2>1. /\ WorkersStay /\ pc[Main] = "take" /\ heads' = [heads EXCEPT ![slot[Main]] = <<>>]
    BY <1>15, <1>a, <1>b DEF Take, Exchange, WorkersStay, Keeps, local, look
  <2>2. heads[s] # <<>>
    BY <2>1, <1>b
  <2> QED
    BY <2>1, <2>2, <1>d, <1>h DEF Rouses, Rechecks
<1> QED
  BY <1>1, <1>2, <1>3, <1>4, <1>5, <1>6, <1>7, <1>8, <1>9, <1>10, <1>11, <1>12, <1>13, <1>14, <1>15

\* A step of a worker that wakes somebody, looks, or goes to sleep.
LEMMA AwakeWorker ==
  ASSUME Base, Awake, ~terminated', ~terminated, ~Stirs', NEW s \in Slots, heads'[s] # <<>>, NEW t \in Workers,
         \/ Wake(t) \/ Bump(t) \/ NotifyOne(t) \/ FetchSome(t) \/ FetchNext(t) \/ FetchNone(t)
         \/ PutBack(t) \/ Repush(t) \/ Check(t) \/ TrySlot(t) \/ Chain(t) \/ Take(t) \/ Park(t) \/ Wait(t)
  PROVE  Witness(s)'
<1>a. Main \in Threads /\ Workers \subseteq Threads /\ Main \notin Workers /\ t \in Threads /\ t # Main
      /\ \A u \in Threads : u = Main \/ u \in Workers
  BY WorkerAssumption DEF Threads
<1>b. /\ pc \in [Threads -> Labels] /\ back \in [Threads -> {"start", "body", "idle"}]
      /\ goal \in [Threads -> {"poll", "recheck", "park"}] /\ stale \in [Threads -> BOOLEAN]
      /\ slot \in [Threads -> Slots]
      /\ size \in [Threads -> 0..NThreads] /\ pos \in [Threads -> 0..(NThreads * Duplicates)]
      /\ terminated \in BOOLEAN
  BY DEF Base, Types, PlaceTypes, LocalTypes, FlagTypes
<1>c. Known(t)
  BY <1>a, WhatIsKnown
<1>d. heads[s] # <<>> => Watched(s) \/ (pc[Main] = "notify" /\ Sleepers # {}) \/ Rouses(s)
  BY DEF Awake, Witness
<1>e. \A w \in Workers : Dreams(w)' \/ pc'[w] = "sleep"
  BY DEF Stirs
\* The other threads are where they were.
<1> DEFINE Same(u) == /\ pc'[u] = pc[u] /\ goal'[u] = goal[u] /\ size'[u] = size[u] /\ pos'[u] = pos[u]
                      /\ slot'[u] = slot[u] /\ stale'[u] = stale[u]
<1>f. ASSUME heads' = heads, \A u \in Threads \ {t} : Same(u), ~Stirs \/ Dreams(t) \/ pc[t] = "sleep",
             ~Dreams(t) \/ (stale[t] => Dreams(t)' /\ stale'[t]),
             Parks(t) /\ size[t] = NThreads /\ Ahead(t, s) => Parks(t)' /\ size'[t] = NThreads /\ Ahead(t, s)',
             pc[t] # "sleep"
      PROVE  Witness(s)'
  <2>1. CASE Stirs
    <3>1. PICK w \in Workers : ~Dreams(w) /\ pc[w] # "sleep"
      BY <2>1 DEF Stirs
    <3>2. w # t
      BY <1>f, <3>1, <2>1
    <3> QED
      BY <1>a, <1>e, <1>f, <3>1, <3>2 DEF Dreams, Parks
  <2>2. ASSUME NEW w \in Workers, Parks(w) /\ size[w] = NThreads /\ Ahead(w, s) PROVE Witness(s)'
    <3>1. Parks(w)' /\ size'[w] = NThreads /\ Ahead(w, s)'
      BY <1>a, <1>f, <2>2 DEF Parks, Ahead
    <3> QED
      BY <3>1 DEF Witness, Watched
  <2>3. ASSUME NEW w \in Workers, Dreams(w) /\ stale[w] PROVE Witness(s)'
    <3>1. Dreams(w)' /\ stale'[w]
      BY <1>a, <1>f, <2>3 DEF Dreams, Parks
    <3> QED
      BY <3>1 DEF Witness, Watched
  <2>4. CASE pc[Main] = "notify" /\ Sleepers # {}
    <3>1. PICK w \in Workers : pc[w] = "sleep" /\ stale[w]
      BY <2>4 DEF Sleepers
    <3>2. pc'[w] = "sleep" /\ stale'[w] /\ pc'[Main] = "notify"
      BY <1>a, <1>f, <2>4, <3>1
    <3> QED
      BY <3>2 DEF Witness, Sleepers
  <2>5. CASE Rouses(s)
    <3>1. Rouses(s)'
      BY <1>a, <1>f, <2>5 DEF Rouses, Rechecks, Ahead
    <3> QED
      BY <3>1 DEF Witness
  <2> QED
    BY <1>f, <1>d, <2>1, <2>2, <2>3, <2>4, <2>5 DEF Watched
<1> HIDE DEF Same
<1> USE DEF Goto
<1>1. CASE Wake(t) \/ Bump(t) \/ NotifyOne(t) \/ PutBack(t) \/ Repush(t) \/ Check(t) \/ TrySlot(t) \/ Chain(t) \/ Take(t)
  <2>1. pc'[t] \notin {"sleep", "wait"} /\ (pc'[t] = "fetch" => goal'[t] # "park")
    <3>1. CASE Wake(t)
      <4>1. pc' = [pc EXCEPT ![t] = "bump"] \/ pc' = [pc EXCEPT ![t] = back[t]]
        BY <3>1 DEF Wake, Return
      <4> QED
        BY <4>1, <1>a, <1>b
    <3>2. CASE Bump(t)
      BY <3>2, <1>a, <1>b DEF Bump
    <3>3. CASE NotifyOne(t)
      <4>1. t \notin Sleepers
        BY <3>3 DEF NotifyOne, Sleepers
      <4> QED
        BY <3>3, <4>1, <1>a, <1>b DEF NotifyOne
    <3>4. CASE PutBack(t) \/ Repush(t) \/ TrySlot(t) \/ Chain(t) \/ Take(t)
      BY <3>4, <1>a, <1>b DEF PutBack, Repush, TrySlot, Chain, Take
    <3>5. CASE Check(t)
      BY <3>5, <1>a, <1>b DEF Check, Fetch
    <3> QED
      BY <1>1, <3>1, <3>2, <3>3, <3>4, <3>5
  <2> QED
    BY <2>1, <1>e DEF Dreams, Parks
<1>2. CASE Park(t)
  <2>1. pc[t] = "park" /\ Fetch(t, "park", waiting) /\ heads' = heads /\ UNCHANGED <<stale, slot, waiting>>
    BY <1>2 DEF Park
  <2>2. /\ pc'[t] = "fetch" /\ goal'[t] = "park" /\ size'[t] = waiting /\ pos'[t] = 0
        /\ \A w \in Workers \ {t} : pc'[w] = pc[w] /\ goal'[w] = goal[w]
    BY <2>1, <1>a, <1>b DEF Fetch
  <2>3. \A w \in Workers : Waits(w)
    BY <1>e, <2>1, <2>2 DEF Waits, Dreams, Parks
  <2>4. waiting = NThreads
    BY <2>3, CountTypes DEF Base
  <2>5. Ahead(t, s)'
    <3> DEFINE m == NThreads * Duplicates
    <3>1. s.priority < NThreads /\ NThreads \in 1..NThreads /\ m \in Nat
      BY WorkerAssumption, Bounds DEF Slots, Priorities
    <3>2. PICK i \in 0..(m - 1) : SlotAt(t, NThreads, i) = s
      BY <3>1, <1>a, LooksEverywhere
    <3>3. 0 <= i /\ i < m
      <4> HIDE DEF m
      <4> QED
        BY <3>1
    <3> QED
      BY <2>2, <2>4, <3>2, <3>3 DEF Ahead
  <2> QED
    BY <2>2, <2>4, <2>5 DEF Witness, Watched, Parks
<1>3. CASE FetchSome(t)
  <2>1. pc'[t] \in {"take", "wake", "leave"}
    BY <1>3, <1>a, <1>b DEF FetchSome
  <2> QED
    BY <2>1, <1>e DEF Dreams, Parks
<1>4. CASE FetchNext(t)
  <2>1. /\ heads' = heads /\ pc' = pc /\ goal' = goal /\ size' = size /\ slot' = slot /\ stale' = stale
        /\ pc[t] = "fetch" /\ pos' = [pos EXCEPT ![t] = pos[t] + 1]
        /\ heads[SlotAt(t, size[t], pos[t])] = <<>>
    BY <1>4 DEF FetchNext, Looked, SlotAt
  <2>2. \A u \in Threads \ {t} : Same(u)
    BY <2>1, <1>b DEF Same
  <2>3. Dreams(t) /\ Dreams(t)'
    BY <1>e, <2>1 DEF Dreams, Parks
  <2>4. Ahead(t, s) => Ahead(t, s)'
    <3>1. pos'[t] = pos[t] + 1
      BY <2>1, <1>a, <1>b
    <3> SUFFICES ASSUME NEW i \in 0..(NThreads * Duplicates - 1), pos[t] <= i, i < size[t] * Duplicates,
                        SlotAt(t, size[t], i) = s
                 PROVE  pos'[t] <= i
      BY <2>1 DEF Ahead
    <3>2. i # pos[t]
      BY <2>1
    <3>3. pos[t] \in Int /\ i \in Int
      <4> DEFINE m == NThreads * Duplicates
      <4>1. m \in Nat /\ pos[t] \in 0..m /\ i \in 0..(m - 1)
        BY <1>a, <1>b, Bounds
      <4> HIDE DEF m
      <4> QED
        BY <4>1
    <3> QED
      BY <3>1, <3>2, <3>3
  <2>5. Parks(t)' /\ (stale[t] => stale'[t]) /\ size'[t] = size[t] /\ pc[t] # "sleep"
    BY <2>1, <2>3 DEF Dreams, Parks
  <2> QED
    BY <2>1, <2>2, <2>3, <2>4, <2>5, <1>f
<1>5. CASE FetchNone(t)
  <2>1. /\ heads' = heads /\ goal' = goal /\ size' = size /\ slot' = slot /\ stale' = stale /\ pos' = pos
        /\ pc[t] = "fetch" /\ pos[t] = size[t] * Duplicates
        /\ \A u \in Threads \ {t} : pc'[u] = pc[u]
    BY <1>5, <1>b DEF FetchNone, local, look
  <2>2. \A u \in Threads \ {t} : Same(u)
    BY <2>1 DEF Same
  <2>3. goal[t] = "park" /\ pc'[t] = "wait"
    <3>1. goal[t] = "poll" => pc'[t] = "missed"
      BY <1>5, <1>a, <1>b DEF FetchNone
    <3>2. goal[t] = "recheck" => pc'[t] = "start"
      BY <1>5, <1>a, <1>b DEF FetchNone
    <3>3. goal[t] = "park" => pc'[t] = "wait"
      BY <1>5, <1>a, <1>b DEF FetchNone
    <3> QED
      BY <3>1, <3>2, <3>3, <1>a, <1>b, <1>e DEF Dreams, Parks
  <2>4. Dreams(t) /\ Dreams(t)'
    BY <2>1, <2>3 DEF Dreams, Parks
  <2>5. ~Ahead(t, s)
    <3> SUFFICES ASSUME NEW i \in 0..(NThreads * Duplicates - 1), pos[t] <= i, i < pos[t] PROVE FALSE
      BY <2>1 DEF Ahead
    <3> DEFINE m == NThreads * Duplicates
    <3>1. m \in Nat /\ pos[t] \in 0..m /\ i \in 0..(m - 1)
      BY <1>a, <1>b, Bounds
    <3> HIDE DEF m
    <3> QED
      BY <3>1
  <2> QED
    BY <2>1, <2>2, <2>4, <2>5, <1>f
<1>6. CASE Wait(t)
  <2>1. /\ heads' = heads /\ stale' = stale /\ pc[t] = "wait" /\ Forget(t)
        /\ pc'[t] = (IF stale[t] THEN "spin" ELSE "sleep")
        /\ \A u \in Threads \ {t} : pc'[u] = pc[u]
    BY <1>6, <1>a, <1>b DEF Wait
  <2>2. \A u \in Threads \ {t} : Same(u)
    BY <2>1, <1>b DEF Same, Forget
  <2>3. ~stale[t]
    BY <2>1, <1>e DEF Dreams, Parks
  <2>4. Dreams(t) /\ ~Parks(t)
    BY <2>1 DEF Dreams, Parks
  <2> QED
    BY <2>1, <2>2, <2>3, <2>4, <1>f
<1> QED
  BY <1>1, <1>2, <1>3, <1>4, <1>5, <1>6

\* Every step keeps Awake.
LEMMA AwakeStep == ASSUME Base, JoinInv, Awake, Limit = 0, [Next]_vars PROVE Awake'
<1>a. Main \in Threads /\ Workers \subseteq Threads /\ \A u \in Threads : u = Main \/ u \in Workers
  BY DEF Threads
<1>1. terminated => terminated'
  <2>1. TermKept => (terminated => terminated')
    BY DEF TermKept
  <2>2. (\E t \in Threads : Terminate(t) \/ Bump(t) \/ NotifyAll(t)) => (terminated => terminated')
    BY DEF Terminate, Bump, NotifyAll
  <2> QED
    BY <2>1, <2>2, TermKeeps
<1>2. CASE Plain
  BY <1>1, <1>2, PlainStays
<1>3. CASE UNCHANGED vars
  BY <1>3 DEF vars, Awake, Witness, Watched, Stirs, Rouses, Dreams, Parks, Rechecks, Ahead, Sleepers
<1>4. CASE DrainTake
  <2>1. pc[Main] = "drain" /\ terminated' = terminated
    BY <1>4 DEF DrainTake
  <2>2. 1 \in Workers /\ pc[1] = "exited"
    BY <2>1, WorkerAssumption DEF JoinInv, Draining, Workers
  <2>3. terminated
    BY <1>a, <2>2, WhatIsKnown DEF Known, ControlOf
  <2> QED
    BY <2>1, <2>3 DEF Awake
<1>5. CASE /\ ~Plain /\ ~UNCHANGED vars /\ ~DrainTake
  <2> SUFFICES ASSUME ~terminated', NEW s \in Slots, heads'[s] # <<>> PROVE Witness(s)'
    BY DEF Awake
  <2>1. ~terminated /\ ~Stirs'
    BY <1>1, <1>5 DEF Plain
  <2> QED
    BY <1>a, <1>5, <2>1, AwakeKeeps, AwakeMain, AwakeWorker
<1> QED
  BY <1>2, <1>3, <1>4, <1>5

\* With limit_count 0, not all workers sleep, with nobody about to wake one, while a task is
\* in a slot.  With a limit a push wakes nobody unless more than limit_count workers sleep.
THEOREM NobodySleepsOverWork == ASSUME Limit = 0 PROVE Spec => []NoSleepOverWork
<1>a. Init => JoinInv
  BY WorkerAssumption DEF Init, Threads, JoinInv, Draining, Drains, Runs, CallStates, QueueStates, EndStates
<1>b. Init => Awake
  BY DEF Init, Awake
<1>c. Init => Term
  BY DEF Init, Term
<1>1. Init => JoinInv /\ Awake /\ Term
  BY <1>a, <1>b, <1>c
<1>2. Base /\ Awake /\ Term => NoSleepOverWork
  <2> SUFFICES ASSUME Base, Awake, Term, \A t \in Workers : Asleep(t), pc[Main] \in {"idle", "join", "doze"},
                      NEW s \in Slots, heads[s] # <<>>
               PROVE  FALSE
    BY DEF NoSleepOverWork
  <2>1. \A t \in Threads : pc[t] \in {"sleep", "idle", "join", "doze"}
    BY DEF Threads, Asleep
  <2>2. 1 \in Workers /\ pc[1] = "sleep"
    BY WorkerAssumption DEF Workers, Asleep
  <2>3. ~terminated
    BY <2>1, <2>2 DEF Term
  <2>4. \A w \in Workers : pc[w] = "sleep" /\ ~Dreams(w) /\ ~Parks(w)
    BY DEF Asleep, Dreams, Parks
  <2>5. ~Watched(s)
    BY <2>4 DEF Watched, Stirs
  <2>6. ~Rouses(s)
    BY DEF Rouses, Rechecks
  <2> QED
    BY <2>3, <2>5, <2>6 DEF Awake, Witness
<1>3. JoinInv /\ Base /\ Base' /\ [Next]_vars => JoinInv'
  BY JoinStep
<1>4. Base /\ Base' /\ JoinInv /\ Awake /\ [Next]_vars => Awake'
  BY AwakeStep
<1>5. Base /\ Base' /\ Term /\ [Next]_vars => Term'
  BY TermStep
<1> QED
  BY <1>1, <1>2, <1>3, <1>4, <1>5, BaseInvariant, PTL DEF Spec

==============================================================================
