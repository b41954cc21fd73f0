----------------------------- MODULE Dispatcher -----------------------------
(***************************************************************************)
(* iris_dispatcher_t (src/src/iris_dispatcher.h): routines in a directed     *)
(* acyclic graph.  Each counts what it waits for in lock_count: the handles  *)
(* of it that are not dispatched and the slots of other routines that point  *)
(* to it.  A routine has few slots for successors; when they are full, order *)
(* puts a junction in front of the first one.                               *)
(*                                                                         *)
(* A routine that may run is sent to its warp or to the worker; here it is   *)
(* in `queued` until some thread runs it.  Each call of execute for a        *)
(* routine is a process of its own, "own" with the body and "bare" without:  *)
(* junctions, routines without a function, and those whose body has ended.   *)
(***************************************************************************)
EXTENDS Integers, FiniteSets

CONSTANTS
  Routines,    \* routines that clients allocate
  Empty,       \* those without a function
  Junctions,   \* spare nodes for order()
  Links,       \* pairs that clients may order
  Deferrers,   \* routines whose body may defer the routine itself
  Racing,      \* those of them whose deferred handle may be dispatched before the
               \* call of execute that runs the body has returned
  Fan,         \* the number of slots of a routine
  MaxDefers,   \* bound: calls of defer
  None

Nodes == Routines \cup Junctions
Slots == 1..Fan
Calls == {"own", "bare"}

ASSUME DispatcherAssumption ==
  /\ Routines \cap Junctions = {} /\ None \notin Nodes /\ IsFiniteSet(Nodes)
  /\ Empty \subseteq Routines /\ Deferrers \subseteq Routines /\ Racing \subseteq Deferrers
  /\ Links \subseteq Routines \X Routines
  /\ Fan \in Nat \ {0, 1}
  /\ MaxDefers \in Nat

VARIABLES
  memory,    \* of each node: not allocated, in use, given back
  lock,      \* lock_count: Closed stands for ~0
  function,  \* the node has a function to call
  next,      \* next_tasks
  pending,   \* pending_count
  queued,    \* routines sent to a warp or to the worker
  at,        \* where each call of execute is
  handles,   \* handles that are not dispatched
  defers,    \* calls of defer
  status,    \* history: as in TaskGraph
  edges      \* history: pairs that have been ordered

vars == <<memory, lock, function, next, pending, queued, at, handles, defers, status,
          edges>>

history == <<status, edges>>

Closed == -1

TypeOK ==
  /\ memory \in [Nodes -> {"unused", "live", "freed"}]
  /\ lock \in [Nodes -> Nat \cup {Closed}]
  /\ function \in [Nodes -> BOOLEAN]
  /\ next \in [Nodes -> [Slots -> Nodes \cup {None}]]
  /\ pending \in 0..Cardinality(Nodes)
  /\ queued \subseteq Routines
  /\ at \in [Nodes -> [Calls -> {"idle", "body", "check", "forward", "count"}]]
  /\ handles \in [Routines -> Nat]
  /\ defers \in Nat
  /\ status \in [Routines -> {"none", "waiting", "running", "ended", "done"}]
  /\ edges \subseteq Links

Init ==
  /\ memory = [r \in Nodes |-> "unused"]
  /\ lock = [r \in Nodes |-> 0]
  /\ function = [r \in Nodes |-> FALSE]
  /\ next = [r \in Nodes |-> [i \in Slots |-> None]]
  /\ pending = 0
  /\ queued = {}
  /\ at = [r \in Nodes |-> [c \in Calls |-> "idle"]]
  /\ handles = [r \in Routines |-> 0]
  /\ defers = 0
  /\ status = [r \in Routines |-> "none"]
  /\ edges = {}

(***************************************************************************)
(* allocate, order, defer                                                  *)
(***************************************************************************)
Allocate(r) ==
  /\ memory[r] = "unused"
  /\ memory' = [memory EXCEPT ![r] = "live"]
  /\ lock' = [lock EXCEPT ![r] = 1]
  /\ function' = [function EXCEPT ![r] = r \notin Empty]
  /\ pending' = pending + 1
  /\ handles' = [handles EXCEPT ![r] = 1]
  /\ status' = [status EXCEPT ![r] = "waiting"]
  /\ UNCHANGED <<next, queued, at, defers, edges>>

Full(r) == \A i \in Slots : next[r][i] # None

FreeSlot(r) == CHOOSE i \in Slots : next[r][i] = None /\ \A k \in 1..(i - 1) : next[r][k] # None

\* The node whose slots are used for a new successor of r: r itself, or the
\* junction in its first slot if r is full, and so on.
Host(r) ==
  LET down[n \in 0..Cardinality(Nodes)] ==
        IF n = 0 THEN r
        ELSE LET h == down[n - 1] IN
             IF Full(h) /\ ~function[next[h][1]] THEN next[h][1] ELSE h
  IN down[Cardinality(Nodes)]

\* Routines that a path of ordered pairs leads to.
After(r) ==
  LET reach[n \in 0..Cardinality(Routines)] ==
        IF n = 0 THEN {r}
        ELSE reach[n - 1] \cup {s \in Routines : \E q \in reach[n - 1] : <<q, s>> \in edges}
  IN reach[Cardinality(Routines)]

\* The client holds handles of both and makes no cycle.
MayOrder(from, to) ==
  /\ <<from, to>> \in Links \ edges
  /\ handles[from] > 0 /\ handles[to] > 0
  /\ from \notin After(to)

OrderInSlot(from, to) ==
  LET h == Host(from) IN
  /\ MayOrder(from, to)
  /\ ~Full(h)
  /\ next' = [next EXCEPT ![h][FreeSlot(h)] = to]
  /\ lock' = [lock EXCEPT ![to] = @ + 1]
  /\ edges' = edges \cup {<<from, to>>}
  /\ UNCHANGED <<memory, function, pending, queued, at, handles, defers, status>>

\* Mutant: the routine does not count the slot of the junction.
OrderNoCount(from, to) ==
  LET h == Host(from) IN
  /\ MayOrder(from, to)
  /\ Full(h)
  /\ \E j \in Junctions :
       /\ memory[j] = "unused"
       /\ memory' = [memory EXCEPT ![j] = "live"]
       /\ lock' = [lock EXCEPT ![j] = 1]
       /\ next' = [next EXCEPT ![j][1] = next[h][1], ![j][2] = to, ![h][1] = j]
  /\ pending' = pending + 1
  /\ edges' = edges \cup {<<from, to>>}
  /\ UNCHANGED <<function, queued, at, handles, defers, status>>

\* Mutant: a junction is not counted as pending.
OrderNotPending(from, to) ==
  LET h == Host(from) IN
  /\ MayOrder(from, to)
  /\ Full(h)
  /\ \E j \in Junctions :
       /\ memory[j] = "unused"
       /\ memory' = [memory EXCEPT ![j] = "live"]
       /\ lock' = [lock EXCEPT ![j] = 1, ![to] = @ + 1]
       /\ next' = [next EXCEPT ![j][1] = next[h][1], ![j][2] = to, ![h][1] = j]
  /\ edges' = edges \cup {<<from, to>>}
  /\ UNCHANGED <<function, pending, queued, at, handles, defers, status>>

\* A junction takes the first slot; its count of one is for that slot.
OrderByJunction(from, to) ==
  LET h == Host(from) IN
  /\ MayOrder(from, to)
  /\ Full(h)
  /\ \E j \in Junctions :
       /\ memory[j] = "unused"
       /\ memory' = [memory EXCEPT ![j] = "live"]
       /\ lock' = [lock EXCEPT ![j] = 1, ![to] = @ + 1]
       /\ next' = [next EXCEPT ![j][1] = next[h][1], ![j][2] = to, ![h][1] = j]
  /\ pending' = pending + 1
  /\ edges' = edges \cup {<<from, to>>}
  /\ UNCHANGED <<function, queued, at, handles, defers, status>>

\* The caller knows that the routine has not been run: it has a handle of it, or
\* it is the body of a routine that comes before it.  A body may also defer its
\* own routine.
MayDefer(r) ==
  \/ handles[r] > 0
  \/ \E f \in Routines : <<f, r>> \in edges /\ at[f]["own"] = "body"
  \/ r \in Deferrers /\ at[r]["own"] = "body"

Defer(r) ==
  /\ defers < MaxDefers
  /\ MayDefer(r)
  /\ defers' = defers + 1
  /\ lock' = [lock EXCEPT ![r] = @ + 1]
  /\ handles' = [handles EXCEPT ![r] = @ + 1]
  /\ UNCHANGED <<memory, function, next, pending, queued, at, history>>

(***************************************************************************)
(* dispatch and execute                                                    *)
(***************************************************************************)
\* A count of one becomes none: the routine is sent away if it has a function,
\* and executed at once if it has none.
Ready(r) == lock[r] = 1

Drop(r) ==
  /\ lock' = [lock EXCEPT ![r] = @ - 1]
  /\ queued' = IF Ready(r) /\ function[r] THEN queued \cup {r} ELSE queued

Dispatch(r) ==
  /\ handles[r] > 0
  /\ r \in Racing \/ at[r]["own"] = "idle"
  /\ handles' = [handles EXCEPT ![r] = @ - 1]
  /\ Drop(r)
  /\ at' = IF Ready(r) /\ ~function[r] THEN [at EXCEPT ![r]["bare"] = "check"] ELSE at
  /\ UNCHANGED <<memory, function, next, pending, defers, history>>

Execute(r) ==
  /\ r \in queued
  /\ queued' = queued \ {r}
  /\ function' = [function EXCEPT ![r] = FALSE]
  /\ at' = [at EXCEPT ![r]["own"] = "body"]
  /\ status' = [status EXCEPT ![r] = "running"]
  /\ UNCHANGED <<memory, lock, next, pending, handles, defers, edges>>

EndBody(r) ==
  /\ at[r]["own"] = "body"
  /\ at' = [at EXCEPT ![r]["own"] = "check"]
  /\ status' = [status EXCEPT ![r] = "ended"]
  /\ UNCHANGED <<memory, lock, function, next, pending, queued, handles, defers, edges>>

Deferred(r, c) ==
  /\ at[r][c] = "check"
  /\ lock[r] # 0
  /\ at' = [at EXCEPT ![r][c] = "idle"]
  /\ UNCHANGED <<memory, lock, function, next, pending, queued, handles, defers, history>>

\* Mutant: the count is not looked at after the body.
CloseAnyway(r, c) ==
  /\ at[r][c] = "check"
  /\ lock' = [lock EXCEPT ![r] = Closed]
  /\ at' = [at EXCEPT ![r][c] = "forward"]
  /\ status' = IF r \in Routines THEN [status EXCEPT ![r] = "done"] ELSE status
  /\ UNCHANGED <<memory, function, next, pending, queued, handles, defers, edges>>

Close(r, c) ==
  /\ at[r][c] = "check"
  /\ lock[r] = 0
  /\ lock' = [lock EXCEPT ![r] = Closed]
  /\ at' = [at EXCEPT ![r][c] = "forward"]
  /\ status' = IF r \in Routines THEN [status EXCEPT ![r] = "done"] ELSE status
  /\ UNCHANGED <<memory, function, next, pending, queued, handles, defers, edges>>

\* The slots in use: each successor is dispatched, then its slot is cleared.
Used(r) == {i \in Slots : next[r][i] # None}

Forward(r, c) ==
  /\ at[r][c] = "forward"
  /\ \E i \in Used(r) :
       LET p == next[r][i] IN
       /\ \A k \in Used(r) : i <= k
       /\ next' = [next EXCEPT ![r][i] = None]
       /\ Drop(p)
       /\ at' = IF Ready(p) /\ ~function[p] THEN [at EXCEPT ![p]["bare"] = "check"] ELSE at
  /\ UNCHANGED <<memory, function, pending, handles, defers, history>>

\* Mutant: the last slot is forgotten.
FreeEarly(r, c) ==
  /\ at[r][c] = "forward" /\ Used(r) \subseteq {Fan}
  /\ memory' = [memory EXCEPT ![r] = "freed"]
  /\ at' = [at EXCEPT ![r][c] = "count"]
  /\ UNCHANGED <<lock, function, next, pending, queued, handles, defers, history>>

Free(r, c) ==
  /\ at[r][c] = "forward" /\ Used(r) = {}
  /\ memory' = [memory EXCEPT ![r] = "freed"]
  /\ at' = [at EXCEPT ![r][c] = "count"]
  /\ UNCHANGED <<lock, function, next, pending, queued, handles, defers, history>>

Count(r, c) ==
  /\ at[r][c] = "count"
  /\ pending' = pending - 1
  /\ at' = [at EXCEPT ![r][c] = "idle"]
  /\ UNCHANGED <<memory, lock, function, next, queued, handles, defers, history>>

(***************************************************************************)
(* The specification                                                       *)
(***************************************************************************)
Run(r, c) == Deferred(r, c) \/ Close(r, c) \/ Forward(r, c) \/ Free(r, c) \/ Count(r, c)

Next ==
  \/ \E r \in Routines : \/ Allocate(r) \/ Defer(r) \/ Dispatch(r)
                         \/ Execute(r) \/ EndBody(r)
  \/ \E from, to \in Routines : OrderInSlot(from, to) \/ OrderByJunction(from, to)
  \/ \E r \in Nodes, c \in Calls : Run(r, c)

Spec == Init /\ [][Next]_vars

\* Threads run what is queued and what they have begun, and clients dispatch the
\* handles they hold.
FairSpec ==
  /\ Spec
  /\ \A r \in Routines : WF_vars(Execute(r)) /\ WF_vars(EndBody(r)) /\ WF_vars(Dispatch(r))
  /\ \A r \in Nodes, c \in Calls : WF_vars(Run(r, c))

(***************************************************************************)
(* Properties                                                              *)
(***************************************************************************)
\* The dispatcher runs the graph that the clients have ordered: a routine starts
\* once, when all that come before it are done and no handle holds it, and it is
\* done when its body has ended and no handle holds it, whatever junctions there
\* are between them.
Graph == INSTANCE TaskGraph
RefinesGraph == Graph!Spec

\* Whatever is going to be touched is in use: the routine of a handle, of a slot,
\* of a queued call and of a call of execute that has not given it back.  Nobody
\* else completes a routine meanwhile.
Touched ==
  {r \in Routines : handles[r] > 0} \cup queued
    \cup {next[r][i] : r \in {q \in Nodes : memory[q] = "live"}, i \in Slots}
    \cup {r \in Nodes : \E c \in Calls : at[r][c] \in {"body", "check", "forward"}}

NoUseAfterFree == \A r \in Touched \ {None} : memory[r] = "live"

\* pending_count covers every node in use: it reaches zero, and the dispatcher is
\* reported complete, only when none is left.
PendingCovers ==
  pending = Cardinality({r \in Nodes : memory[r] = "live"})
            + Cardinality({x \in Nodes \X Calls : at[x[1]][x[2]] = "count"})

\* Every routine is run to its end once the handles of it are dispatched.
EventuallyDone ==
  []<>(\A r \in Routines : status[r] \in {"none", "done"})
==============================================================================
