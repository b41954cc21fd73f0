-------------------------- MODULE Dispatcher_proofs --------------------------
(***************************************************************************)
(* Proofs about Dispatcher, for every set of routines, every number of       *)
(* slots, junctions and deferrals, and every graph that clients may order.   *)
(*                                                                         *)
(* lock_count is a reference count: it is the number of handles of a routine *)
(* that are not dispatched plus the number of slots that have it.  So a      *)
(* routine that somebody may still touch is not given back, and one that     *)
(* starts has no slot that has it.  What comes before a routine keeps it in  *)
(* a slot until it is done, directly or through junctions: so all of it is   *)
(* done by then.                                                            *)
(*                                                                         *)
(* All of it is for clients that do not dispatch a handle of a routine while *)
(* the call of execute that runs its body is still under way (Racing = {}):  *)
(* otherwise two calls may complete the routine, as the run                 *)
(* graph_self_defer shows.                                                   *)
(***************************************************************************)
EXTENDS Dispatcher, Counting

\* The slots that have r.
HoldersIn(nx, r) == {x \in Nodes \X Slots : nx[x[1]][x[2]] = r}
Holders(r) == HoldersIn(next, r)
HandlesOf(r) == IF r \in Routines THEN handles[r] ELSE 0

Pointers == [Nodes -> [Slots -> Nodes \cup {None}]]

Types ==
  /\ memory \in [Nodes -> {"unused", "live", "freed"}]
  /\ lock \in [Nodes -> Nat \cup {Closed}]
  /\ function \in [Nodes -> BOOLEAN]
  /\ next \in Pointers
  /\ pending \in Int
  /\ queued \subseteq Routines
  /\ at \in [Nodes -> [Calls -> {"idle", "body", "check", "forward", "count"}]]
  /\ handles \in [Routines -> Nat]
  /\ defers \in Nat
  /\ status \in [Routines -> {"none", "waiting", "running", "ended", "done"}]
  /\ edges \subseteq Links

\* lock_count counts handles and slots.
CountedAt(r) ==
  IF lock[r] = Closed
  THEN HandlesOf(r) = 0 /\ Holders(r) = {}
  ELSE lock[r] = HandlesOf(r) + Cardinality(Holders(r))

Counted == \A r \in Nodes : CountedAt(r)

\* What is going on with a node, by what has become of its memory.
Unused(r) ==
  /\ lock[r] = 0 /\ ~function[r] /\ r \notin queued
  /\ \A i \in Slots : next[r][i] = None
  /\ \A c \in Calls : at[r][c] = "idle"

Freed(r) ==
  /\ lock[r] = Closed
  /\ \A i \in Slots : next[r][i] = None
  /\ \A c \in Calls : at[r][c] \in {"idle", "count"}

Live(r) ==
  /\ \A c \in Calls : at[r][c] # "count"
  /\ lock[r] = Closed => \A c \in Calls : at[r][c] \in {"idle", "forward"}
  /\ \A c \in Calls : at[r][c] = "forward" => lock[r] = Closed

\* One call of execute at a time; a routine whose body runs, or has just run, is
\* held only by handles, which are dispatched later.
StageAt(r) ==
  /\ memory[r] = "unused" => Unused(r)
  /\ memory[r] = "freed" => Freed(r)
  /\ memory[r] = "live" => Live(r)
  /\ at[r]["own"] = "idle" \/ at[r]["bare"] = "idle"
  /\ at[r]["bare"] # "body"
  /\ at[r]["bare"] = "check" => lock[r] = 0
  /\ at[r]["own"] \in {"body", "check"} => lock[r] = 0 \/ HandlesOf(r) > 0
  /\ at[r]["own"] # "idle" => r \in Routines
  /\ r \in queued => function[r] /\ lock[r] = 0
  /\ function[r] =>
       /\ r \in Routines /\ lock[r] # Closed
       /\ \A c \in Calls : at[r][c] = "idle"

Stages == \A r \in Nodes : StageAt(r)

StatusAt(r) ==
  /\ status[r] = "none" <=> memory[r] = "unused"
  /\ status[r] = "done" <=> lock[r] = Closed
  /\ status[r] = "running" <=> at[r]["own"] = "body"
  /\ at[r]["own"] = "check" => status[r] = "ended"
  /\ function[r] => status[r] = "waiting"

Statuses == \A r \in Routines : StatusAt(r)

\* W has the successors of its members that have no function.
Followed(nx, fn, W) ==
  \A q \in W, i \in Slots : nx[q][i] # None /\ ~fn[nx[q][i]] => nx[q][i] \in W

\* r is in a slot of f, or of a node without a function that is in a slot of f,
\* and so on.
Leads(nx, fn, f, r) ==
  \A W \in SUBSET Nodes :
    f \in W /\ Followed(nx, fn, W) => \E q \in W, i \in Slots : nx[q][i] = r

\* What comes before a routine and is not done keeps it in a slot.
Held == \A e \in edges : status[e[1]] # "done" => Leads(next, function, e[1], e[2])

IInv == Types /\ Counted /\ Stages /\ Statuses /\ Held /\ PendingCovers

(***************************************************************************)
(* Constants, sets of slots                                                *)
(***************************************************************************)
\* What the constants are, as the proofs use it.
LEMMA Constants ==
  /\ 1 \in Slots /\ 2 \in Slots /\ 1 # 2 /\ None \notin Nodes /\ Closed = -1
  /\ Routines \subseteq Nodes /\ Junctions \subseteq Nodes /\ Routines \cap Junctions = {}
  /\ "own" \in Calls /\ "bare" \in Calls /\ Calls = {"own", "bare"}
  /\ \A e \in Links : e[1] \in Routines /\ e[2] \in Routines
BY DispatcherAssumption DEF Slots, Nodes, Calls, Closed

\* The sets that are counted are finite.
LEMMA Finiteness ==
  IsFiniteSet(Nodes) /\ IsFiniteSet(Nodes \X Slots) /\ IsFiniteSet(Nodes \X Calls)
<1>1. IsFiniteSet(Slots)
  BY DispatcherAssumption, FS_Interval DEF Slots
<1>2. IsFiniteSet(Calls)
  <2>1. IsFiniteSet({"own"}) /\ {"own"} \cup {"bare"} = Calls
    BY FS_Singleton DEF Calls
  <2> QED
    BY <2>1, FS_AddElement
<1>3. IsFiniteSet(Nodes)
  BY DispatcherAssumption
<1> QED
  BY <1>1, <1>2, <1>3, FS_Product

\* A node that is in no slot has no holders.
LEMMA NoHolder ==
  ASSUME NEW r
  PROVE  Holders(r) = {} <=> \A q \in Nodes, i \in Slots : next[q][i] # r
<1>1. \A q \in Nodes, i \in Slots : next[q][i] = r => <<q, i>> \in Holders(r)
  BY DEF Holders, HoldersIn
<1>2. \A x \in Holders(r) : x[1] \in Nodes /\ x[2] \in Slots /\ next[x[1]][x[2]] = r
  BY DEF Holders, HoldersIn
<1> QED
  BY <1>1, <1>2

\* ny is nx with another slot written: how many slots have a node after it.
Rewritten(nx, ny, q, i, v) ==
  /\ ny \in Pointers
  /\ \A p \in Nodes, k \in Slots : ny[p][k] = IF p = q /\ k = i THEN v ELSE nx[p][k]
  /\ \A r \in Nodes :
       /\ Cardinality(HoldersIn(nx, r)) \in Nat /\ Cardinality(HoldersIn(ny, r)) \in Nat
       /\ Cardinality(HoldersIn(nx, r)) = 0 <=> HoldersIn(nx, r) = {}
       /\ Cardinality(HoldersIn(ny, r)) =
            Cardinality(HoldersIn(nx, r)) - (IF nx[q][i] = r THEN 1 ELSE 0)
              + (IF v = r THEN 1 ELSE 0)

\* One slot is written: who holds what before and after.
LEMMA SlotWritten ==
  ASSUME NEW nx \in Pointers, NEW q \in Nodes, NEW i \in Slots, NEW v \in Nodes \cup {None},
         NEW ny, ny = [nx EXCEPT ![q][i] = v]
  PROVE  Rewritten(nx, ny, q, i, v)
<1>1. ny \in Pointers
  BY DEF Pointers
<1>2. \A p \in Nodes, k \in Slots : ny[p][k] = IF p = q /\ k = i THEN v ELSE nx[p][k]
  BY DEF Pointers
<1>3. ASSUME NEW r \in Nodes
      PROVE  /\ Cardinality(HoldersIn(nx, r)) \in Nat /\ Cardinality(HoldersIn(ny, r)) \in Nat
             /\ Cardinality(HoldersIn(nx, r)) = 0 <=> HoldersIn(nx, r) = {}
             /\ Cardinality(HoldersIn(ny, r)) =
                  Cardinality(HoldersIn(nx, r)) - (IF nx[q][i] = r THEN 1 ELSE 0)
                    + (IF v = r THEN 1 ELSE 0)
  <2> DEFINE A == HoldersIn(nx, r)
             B == HoldersIn(ny, r)
             x == <<q, i>>
  <2>1. IsFiniteSet(A) /\ IsFiniteSet(B)
    BY Finiteness, FS_Subset DEF HoldersIn
  <2>2. Cardinality(A) \in Nat /\ Cardinality(B) \in Nat /\ (Cardinality(A) = 0 <=> A = {})
    BY <2>1, FS_CardinalityType, FS_EmptySet
  <2>3. B = IF v = r THEN A \cup {x} ELSE A \ {x}
    BY <1>2 DEF HoldersIn
  <2>4. x \in A <=> nx[q][i] = r
    BY DEF HoldersIn
  <2>5. Cardinality(B) = Cardinality(A) - (IF nx[q][i] = r THEN 1 ELSE 0)
                           + (IF v = r THEN 1 ELSE 0)
    <3>1. (v = r /\ nx[q][i] = r) \/ (v # r /\ nx[q][i] # r) => B = A
      BY <2>3, <2>4
    <3>2. v = r /\ nx[q][i] # r => Cardinality(B) = Cardinality(A) + 1
      <4>1. v = r /\ nx[q][i] # r => B = A \cup {x} /\ x \notin A
        BY <2>3, <2>4
      <4> HIDE DEF A, B, x
      <4> QED
        BY <2>1, <4>1, FS_AddElement
    <3>3. v # r /\ nx[q][i] = r => Cardinality(B) = Cardinality(A) - 1
      <4>1. v # r /\ nx[q][i] = r => B = A \ {x} /\ x \in A
        BY <2>3, <2>4
      <4> HIDE DEF A, B, x
      <4> QED
        BY <2>1, <4>1, FS_RemoveElement
    <3> HIDE DEF A, B, x
    <3> QED
      BY <2>2, <3>1, <3>2, <3>3
  <2> QED
    BY <2>2, <2>5
<1> QED
  BY <1>1, <1>2, <1>3 DEF Rewritten

(***************************************************************************)
(* What the invariant says of a node that somebody holds                   *)
(***************************************************************************)
\* A node that is in a slot is counted: it is not closed.
LEMMA HeldBySlot ==
  ASSUME Types, Counted, NEW q \in Nodes, NEW i \in Slots, NEW r \in Nodes, next[q][i] = r
  PROVE  /\ lock[r] # Closed /\ lock[r] \in Nat \ {0}
         /\ Cardinality(Holders(r)) \in Nat \ {0}
         /\ lock[r] = HandlesOf(r) + Cardinality(Holders(r))
         /\ HandlesOf(r) \in Nat
<1>1. <<q, i>> \in Holders(r)
  BY DEF Holders, HoldersIn
<1>2. Cardinality(Holders(r)) \in Nat \ {0}
  <2>1. IsFiniteSet(Holders(r))
    BY Finiteness, FS_Subset DEF Holders, HoldersIn
  <2> QED
    BY <1>1, <2>1, FS_CardinalityType, FS_EmptySet
<1>3. CountedAt(r) /\ HandlesOf(r) \in Nat
  BY DEF Counted, Types, HandlesOf
<1> QED
  BY <1>1, <1>2, <1>3 DEF CountedAt, Closed

\* A routine with a handle is counted: it is not closed.
LEMMA HeldByHandle ==
  ASSUME Types, Counted, NEW r \in Routines, handles[r] > 0
  PROVE  lock[r] # Closed /\ lock[r] \in Nat \ {0}
<1>1. IsFiniteSet(Holders(r))
  BY Finiteness, FS_Subset DEF Holders, HoldersIn
<1>2. Cardinality(Holders(r)) \in Nat
  BY <1>1, FS_CardinalityType
<1>3. CountedAt(r) /\ HandlesOf(r) = handles[r] /\ handles[r] \in Nat \ {0}
  BY Constants DEF Counted, HandlesOf, Types
<1> QED
  BY <1>2, <1>3 DEF CountedAt, Closed

\* A node that is held is in use.
LEMMA HeldIsLive ==
  ASSUME Types, Stages, NEW r \in Nodes, lock[r] # Closed, lock[r] # 0
  PROVE  memory[r] = "live"
BY DEF Types, Stages, StageAt, Unused, Freed

(***************************************************************************)
(* Host                                                                    *)
(***************************************************************************)
Down(h) == IF Full(h) /\ ~function[next[h][1]] THEN next[h][1] ELSE h

\* The recursion of Host is defined, up to any depth.
LEMMA Descent ==
  ASSUME NEW r, NEW K \in Nat
  PROVE  \E down : down = [n \in 0..K |-> IF n = 0 THEN r ELSE Down(down[n - 1])]
<1> DEFINE Is(d, k) == d = [n \in 0..k |-> IF n = 0 THEN r ELSE Down(d[n - 1])]
           G == {k \in Nat : \E d : Is(d, k)}
<1>1. 0 \in G
  <2>1. Is([n \in 0..0 |-> r], 0)
    OBVIOUS
  <2> QED
    BY <2>1
<1>2. ASSUME NEW k \in Nat, k \in G PROVE k + 1 \in G
  <2>1. PICK d : Is(d, k)
    BY <1>2
  <2> DEFINE e == [n \in 0..(k + 1) |-> IF n = k + 1 THEN Down(d[k]) ELSE d[n]]
  <2>2. \A n \in 0..k : d[n] = IF n = 0 THEN r ELSE Down(d[n - 1])
    BY <2>1
  <2>3. ASSUME NEW n \in 0..(k + 1)
        PROVE  e[n] = IF n = 0 THEN r ELSE Down(e[n - 1])
    <3>1. CASE n = k + 1
      <4>1. e[n] = Down(d[k]) /\ e[n - 1] = d[k] /\ n # 0
        BY <3>1
      <4> QED
        BY <4>1
    <3>2. CASE n # k + 1
      <4>1. n \in 0..k /\ e[n] = d[n] /\ (n # 0 => e[n - 1] = d[n - 1])
        BY <3>2
      <4> QED
        BY <2>2, <4>1
    <3> QED
      BY <3>1, <3>2
  <2>4. Is(e, k + 1)
    <3>1. DOMAIN e = 0..(k + 1)
      OBVIOUS
    <3> QED
      BY <2>3
  <2>5. k + 1 \in Nat
    OBVIOUS
  <2> HIDE DEF Is, e
  <2> QED
    BY <2>4, <2>5
<1>3. K \in G
  <2> HIDE DEF G
  <2> QED
    BY <1>1, <1>2, NatSetInduction
<1> QED
  BY <1>3

\* The host of a node that is held is held, and every set with the node and what
\* junctions lead to has it.
LEMMA HostFound ==
  ASSUME Types, Counted, NEW r \in Nodes, lock[r] # Closed, lock[r] # 0
  PROVE  /\ Host(r) \in Nodes /\ lock[Host(r)] # Closed /\ lock[Host(r)] # 0
         /\ \A W \in SUBSET Nodes : r \in W /\ Followed(next, function, W) => Host(r) \in W
<1> DEFINE Good == {h \in Nodes : /\ lock[h] # Closed /\ lock[h] # 0
                                  /\ \A W \in SUBSET Nodes :
                                       r \in W /\ Followed(next, function, W) => h \in W}
           K == Cardinality(Nodes)
           Is(d) == d = [n \in 0..K |-> IF n = 0 THEN r ELSE Down(d[n - 1])]
           d == CHOOSE d : Is(d)
<1>1. ASSUME NEW h \in Good PROVE Down(h) \in Good
  <2>1. CASE Full(h) /\ ~function[next[h][1]]
    <3>1. 1 \in Slots /\ next[h][1] # None /\ next[h][1] \in Nodes
      BY <2>1, Constants DEF Full, Types, Pointers
    <3>2. lock[next[h][1]] # Closed /\ lock[next[h][1]] # 0
      BY <3>1, HeldBySlot
    <3> QED
      BY <2>1, <3>1, <3>2 DEF Down, Followed
  <2>2. CASE ~(Full(h) /\ ~function[next[h][1]])
    BY <2>2 DEF Down
  <2> QED
    BY <2>1, <2>2
<1>2. K \in Nat
  BY DispatcherAssumption, FS_CardinalityType
<1>3. Is(d)
  BY <1>2, Descent
<1>4. Host(r) = d[K]
  BY DEF Host, Down
<1>5. \A n \in Nat : n <= K => d[n] \in Good
  <2> DEFINE G == {n \in Nat : n <= K => d[n] \in Good}
  <2>1. 0 \in G
    <3>1. d[0] = r
      <4> HIDE DEF d
      <4> QED
        BY <1>2, <1>3
    <3> QED
      BY <3>1
  <2>2. ASSUME NEW n \in Nat, n \in G PROVE n + 1 \in G
    <3>1. n + 1 <= K => n + 1 \in 0..K /\ n <= K /\ n + 1 # 0 /\ (n + 1) - 1 = n
      BY <1>2
    <3>2. n + 1 <= K => d[n + 1] = Down(d[n])
      <4> HIDE DEF d, K
      <4> QED
        BY <1>3, <3>1
    <3>3. n + 1 <= K => d[n + 1] \in Good
      <4> HIDE DEF d, K, Good
      <4> QED
        BY <1>1, <2>2, <3>1, <3>2
    <3> HIDE DEF d, K, Good
    <3> QED
      BY <3>3
  <2>3. \A n \in Nat : n \in G
    <3> HIDE DEF G
    <3> QED
      BY <2>1, <2>2, NatSetInduction
  <2> QED
    BY <2>3
<1>6. Host(r) \in Good
  <2> HIDE DEF Good, d, K
  <2> QED
    BY <1>2, <1>4, <1>5
<1> QED
  BY <1>6

(***************************************************************************)
(* Steps that leave a part of the invariant alone                          *)
(***************************************************************************)
\* The counts look at lock_count, slots and handles only.
LEMMA CountedKept ==
  ASSUME Counted, lock' = lock, next' = next, handles' = handles
  PROVE  Counted'
BY DEF Counted, CountedAt, Holders, HoldersIn, HandlesOf

\* What leads to a routine goes on to do so while no slot changes and no
\* successor without a function gets one.
LEMMA HeldKept ==
  ASSUME Types, Held, next' = next, edges' = edges,
         \A q \in Nodes, i \in Slots :
           next[q][i] # None /\ ~function[next[q][i]] => ~function'[next[q][i]],
         \A f \in Routines : status[f] = "done" => status'[f] = "done"
  PROVE  Held'
<1> SUFFICES ASSUME NEW e \in edges, status'[e[1]] # "done", NEW W \in SUBSET Nodes,
                    e[1] \in W, Followed(next', function', W)
             PROVE  \E q \in W, i \in Slots : next'[q][i] = e[2]
  BY DEF Held, Leads
<1>1. status[e[1]] # "done"
  BY Constants DEF Types
<1>2. Followed(next, function, W)
  BY DEF Followed
<1> QED
  BY <1>1, <1>2 DEF Held, Leads

\* pending_count is about nodes in use and calls at their end.
LEMMA PendingKept ==
  ASSUME PendingCovers, pending' = pending, memory' = memory,
         \A r \in Nodes, c \in Calls : at'[r][c] = "count" <=> at[r][c] = "count"
  PROVE  PendingCovers'
<1>1. {x \in Nodes \X Calls : at'[x[1]][x[2]] = "count"} = {x \in Nodes \X Calls : at[x[1]][x[2]] = "count"}
  OBVIOUS
<1> QED
  BY <1>1 DEF PendingCovers

\* The stage and the status of a node look at the variables of that node.
LEMMA StageKept ==
  ASSUME NEW r \in Nodes, StageAt(r),
         memory'[r] = memory[r], lock'[r] = lock[r], function'[r] = function[r],
         next'[r] = next[r], r \in queued' <=> r \in queued,
         at'[r] = at[r], HandlesOf(r)' = HandlesOf(r)
  PROVE  StageAt(r)'
BY DEF StageAt, Unused, Freed, Live

\* The same for the status of a routine.
LEMMA StatusKept ==
  ASSUME NEW r \in Routines, StatusAt(r),
         status'[r] = status[r], memory'[r] = memory[r], function'[r] = function[r],
         lock'[r] = Closed <=> lock[r] = Closed, at'[r]["own"] = at[r]["own"]
  PROVE  StatusAt(r)'
BY DEF StatusAt

\* A dispatcher without routines satisfies the invariant.
LEMMA InitInv == Init => IInv
<1> SUFFICES ASSUME Init PROVE IInv
  OBVIOUS
<1>1. Types
  BY Constants DEF Init, Types, Pointers
<1>2. \A r \in Nodes : Holders(r) = {}
  BY <1>1, Constants, NoHolder DEF Init
<1>3. Counted
  <2>1. \A r \in Nodes : Cardinality(Holders(r)) = 0
    BY <1>2, FS_EmptySet
  <2>2. \A r \in Nodes : HandlesOf(r) = 0 /\ lock[r] = 0
    BY DEF Init, HandlesOf
  <2> QED
    BY <1>2, <2>1, <2>2 DEF Counted, CountedAt, Closed
<1>4. Stages
  BY Constants DEF Init, Stages, StageAt, Unused
<1>5. Statuses
  BY Constants DEF Init, Statuses, StatusAt, Closed
<1>6. Held
  BY DEF Init, Held
<1>7. PendingCovers
  <2>1. {r \in Nodes : memory[r] = "live"} = {} /\ {x \in Nodes \X Calls : at[x[1]][x[2]] = "count"} = {}
    BY DEF Init
  <2>2. Cardinality({r \in Nodes : memory[r] = "live"}) = 0
    BY <2>1, FS_EmptySet
  <2>3. Cardinality({x \in Nodes \X Calls : at[x[1]][x[2]] = "count"}) = 0
    BY <2>1, FS_EmptySet
  <2>4. pending = 0
    BY DEF Init
  <2> QED
    BY <2>2, <2>3, <2>4 DEF PendingCovers
<1> QED
  BY <1>1, <1>3, <1>4, <1>5, <1>6, <1>7 DEF IInv

(***************************************************************************)
(* allocate, order, defer                                                  *)
(***************************************************************************)
\* allocate keeps the invariant.
LEMMA AllocateInv ==
  ASSUME IInv, NEW r \in Routines, Allocate(r)
  PROVE  IInv'
<1> USE DEF IInv
<1>1. r \in Nodes /\ Unused(r)
  BY Constants DEF Allocate, Stages, StageAt
<1>2. HandlesOf(r) = 0 /\ Holders(r) = {}
  <2>1. CountedAt(r) /\ lock[r] = 0 /\ HandlesOf(r) \in Nat
    BY <1>1 DEF Counted, Unused, Types, HandlesOf
  <2>2. IsFiniteSet(Holders(r))
    BY Finiteness, FS_Subset DEF Holders, HoldersIn
  <2>3. Cardinality(Holders(r)) \in Nat /\ (Cardinality(Holders(r)) = 0 => Holders(r) = {})
    BY <2>2, FS_CardinalityType, FS_EmptySet
  <2> QED
    BY <2>1, <2>3 DEF CountedAt, Closed
<1>3. Types'
  BY <1>1 DEF Allocate, Types
<1>4. Counted'
  <2>1. \A q \in Nodes : Holders(q)' = Holders(q)
    BY DEF Allocate, Holders, HoldersIn
  <2>2. Cardinality(Holders(r)') = 0
    BY <1>1, <1>2, <2>1, FS_EmptySet
  <2>3. CountedAt(r)'
    <3>1. lock'[r] = 1 /\ HandlesOf(r)' = 1
      BY <1>1 DEF Allocate, HandlesOf, Types
    <3> QED
      BY <2>2, <3>1 DEF CountedAt, Closed
  <2>4. ASSUME NEW q \in Nodes, q # r PROVE CountedAt(q)'
    BY <2>1, <2>4 DEF Allocate, Counted, CountedAt, HandlesOf, Types
  <2> QED
    BY <2>3, <2>4 DEF Counted
<1>5. Stages'
  <2>1. StageAt(r)'
    BY <1>1, Constants DEF Allocate, StageAt, Unused, Freed, Live, Types
  <2>2. ASSUME NEW q \in Nodes, q # r PROVE StageAt(q)'
    BY <2>2, StageKept DEF Allocate, Stages, HandlesOf, Types
  <2> QED
    BY <2>1, <2>2 DEF Stages
<1>6. Statuses'
  <2>1. StatusAt(r)'
    BY <1>1, Constants DEF Allocate, StatusAt, Unused, Types
  <2>2. ASSUME NEW q \in Routines, q # r PROVE StatusAt(q)'
    BY <2>2, StatusKept, Constants DEF Allocate, Statuses, Types
  <2> QED
    BY <2>1, <2>2 DEF Statuses
<1>7. Held'
  <2>1. \A q \in Nodes, i \in Slots : next[q][i] # r
    BY <1>1, <1>2, NoHolder
  <2>2. \A q \in Nodes, i \in Slots :
          next[q][i] # None /\ ~function[next[q][i]] => ~function'[next[q][i]]
    BY <2>1 DEF Allocate, Types
  <2>3. \A f \in Routines : status[f] = "done" => status'[f] = "done"
    BY <1>1 DEF Allocate, Types, Statuses, StatusAt, Unused, Closed
  <2> QED
    BY <2>2, <2>3, HeldKept DEF Allocate
<1>8. PendingCovers'
  <2> DEFINE L == {q \in Nodes : memory[q] = "live"}
             M == {q \in Nodes : memory'[q] = "live"}
             C == {x \in Nodes \X Calls : at[x[1]][x[2]] = "count"}
  <2>1. M = L \cup {r} /\ r \notin L
    BY <1>1 DEF Allocate, Types
  <2>2. IsFiniteSet(L)
    BY Finiteness, FS_Subset
  <2>3. Cardinality(M) = Cardinality(L) + 1
    BY <2>1, <2>2, FS_AddElement
  <2>4. Cardinality(L) \in Nat /\ Cardinality(C) \in Nat
    BY <2>2, Finiteness, FS_Subset, FS_CardinalityType
  <2>5. pending' = Cardinality(M) + Cardinality(C)
    <3>1. pending = Cardinality(L) + Cardinality(C) /\ pending' = pending + 1
      BY DEF PendingCovers, Allocate
    <3> HIDE DEF L, M, C
    <3> QED
      BY <2>3, <2>4, <3>1
  <2> QED
    BY <2>5 DEF PendingCovers, Allocate
<1> QED
  BY <1>3, <1>4, <1>5, <1>6, <1>7, <1>8

\* A node that is held before and after the step, and where nobody has come or gone.
LEMMA StageHeld ==
  ASSUME NEW q \in Nodes, StageAt(q), memory[q] = "live", memory'[q] = "live",
         lock[q] # 0, lock[q] # Closed, lock'[q] # 0, lock'[q] # Closed,
         function'[q] = function[q], q \in queued' <=> q \in queued, at'[q] = at[q],
         HandlesOf(q) > 0 => HandlesOf(q)' > 0
  PROVE  StageAt(q)'
BY DEF StageAt, Live

\* What order finds: a host in use that the first routine leads to, and a second
\* routine that is in use and counted.
LEMMA OrderFacts ==
  ASSUME IInv, NEW from \in Routines, NEW to \in Routines, MayOrder(from, to)
  PROVE  LET h == Host(from) IN
         /\ h \in Nodes /\ memory[h] = "live" /\ lock[h] # 0 /\ lock[h] # Closed
         /\ to \in Nodes /\ memory[to] = "live" /\ lock[to] \in Nat \ {0} /\ lock[to] # Closed
         /\ <<from, to>> \in Links
         /\ \A W \in SUBSET Nodes : from \in W /\ Followed(next, function, W) => h \in W
<1> DEFINE h == Host(from)
<1>1. from \in Nodes /\ to \in Nodes /\ <<from, to>> \in Links
  BY Constants DEF MayOrder
<1>2. lock[from] # Closed /\ lock[from] \in Nat \ {0}
  BY HeldByHandle DEF MayOrder, IInv
<1>3. lock[to] # Closed /\ lock[to] \in Nat \ {0}
  BY HeldByHandle DEF MayOrder, IInv
<1>4. /\ h \in Nodes /\ lock[h] # Closed /\ lock[h] # 0
      /\ \A W \in SUBSET Nodes : from \in W /\ Followed(next, function, W) => h \in W
  BY <1>1, <1>2, HostFound DEF IInv
<1>5. memory[h] = "live" /\ memory[to] = "live"
  <2> HIDE DEF h
  <2> QED
    BY <1>1, <1>3, <1>4, HeldIsLive DEF IInv
<1> QED
  BY <1>1, <1>3, <1>4, <1>5

\* A node that is not full has a free slot.
LEMMA FreeSlotFound ==
  ASSUME NEW h \in Nodes, ~Full(h)
  PROVE  FreeSlot(h) \in Slots /\ next[h][FreeSlot(h)] = None
<1> DEFINE G == {n \in Nat : \A i \in 1..n : i \in Slots => next[h][i] # None}
           First(i) == next[h][i] = None /\ \A k \in 1..(i - 1) : next[h][k] # None
<1>1. \E i \in Slots : First(i)
  <2>1. SUFFICES ASSUME \A i \in Slots : ~First(i) PROVE FALSE
    OBVIOUS
  <2>2. Fan \in Nat
    BY DispatcherAssumption
  <2>3. 0 \in G
    OBVIOUS
  <2>4. ASSUME NEW n \in Nat, n \in G PROVE n + 1 \in G
    <3>1. n + 1 \in Slots => next[h][n + 1] # None
      <4>1. n + 1 \in Slots => \A k \in 1..n : k \in Slots
        BY <2>2 DEF Slots
      <4>2. (n + 1) - 1 = n
        OBVIOUS
      <4> QED
        BY <2>1, <2>4, <4>1, <4>2
    <3>2. \A i \in 1..(n + 1) : i \in 1..n \/ i = n + 1
      OBVIOUS
    <3> QED
      BY <2>4, <3>1, <3>2
  <2>5. Fan \in G
    <3> HIDE DEF G
    <3> QED
      BY <2>2, <2>3, <2>4, NatSetInduction
  <2> QED
    BY <2>5 DEF Slots, Full
<1> QED
  BY <1>1 DEF FreeSlot

\* order, with a free slot, keeps the invariant.
LEMMA OrderInSlotInv ==
  ASSUME IInv, NEW from \in Routines, NEW to \in Routines, OrderInSlot(from, to)
  PROVE  IInv'
<1> USE DEF IInv
<1> DEFINE h == Host(from)
           i == FreeSlot(h)
<1>1. /\ h \in Nodes /\ memory[h] = "live" /\ lock[h] # 0 /\ lock[h] # Closed
      /\ to \in Nodes /\ memory[to] = "live" /\ lock[to] \in Nat \ {0} /\ lock[to] # Closed
      /\ <<from, to>> \in Links
      /\ \A W \in SUBSET Nodes : from \in W /\ Followed(next, function, W) => h \in W
  BY OrderFacts DEF OrderInSlot
<1>2. i \in Slots /\ next[h][i] = None
  <2> HIDE DEF h
  <2>1. ~Full(h)
    BY DEF OrderInSlot, h
  <2> QED
    BY <1>1, <2>1, FreeSlotFound
<1>3. /\ next' = [next EXCEPT ![h][i] = to]
      /\ lock' = [lock EXCEPT ![to] = @ + 1]
      /\ edges' = edges \cup {<<from, to>>}
      /\ UNCHANGED <<memory, function, pending, queued, at, handles, defers, status>>
  BY DEF OrderInSlot
<1> HIDE DEF h, i
<1>4. Rewritten(next, next', h, i, to)
  BY <1>1, <1>2, <1>3, SlotWritten DEF Types
<1>5. Types'
  <2>1. lock' \in [Nodes -> Nat \cup {Closed}]
    BY <1>1, <1>3 DEF Types
  <2> QED
    BY <1>1, <1>3, <1>4, <2>1 DEF Types, Rewritten
<1>6. Counted'
  <2>1. \A r \in Nodes : HandlesOf(r)' = HandlesOf(r) /\ HandlesOf(r) \in Nat
    BY <1>3 DEF HandlesOf, Types
  <2>2. ASSUME NEW r \in Nodes, r # to PROVE CountedAt(r)'
    <3>1. lock'[r] = lock[r] /\ CountedAt(r)
      BY <1>3, <2>2 DEF Counted, Types
    <3>2. Holders(r)' = Holders(r)
      BY <1>2, <1>4, <2>2, Constants DEF Rewritten, Holders, HoldersIn
    <3> QED
      BY <2>1, <3>1, <3>2 DEF CountedAt
  <2>3. CountedAt(to)'
    <3>1. lock'[to] = lock[to] + 1 /\ lock[to] = HandlesOf(to) + Cardinality(Holders(to))
      BY <1>1, <1>3 DEF Counted, CountedAt, Types
    <3>2. /\ Cardinality(Holders(to)') = Cardinality(Holders(to)) + 1
          /\ Cardinality(Holders(to)) \in Nat
      BY <1>1, <1>2, <1>4, Constants DEF Rewritten, Holders
    <3>3. lock'[to] # Closed /\ lock'[to] = HandlesOf(to)' + Cardinality(Holders(to)')
      BY <1>1, <2>1, <3>1, <3>2 DEF Closed
    <3> QED
      BY <3>3 DEF CountedAt
  <2> QED
    BY <2>2, <2>3 DEF Counted
<1>7. Stages'
  <2>1. ASSUME NEW q \in Nodes, q \in {h, to} PROVE StageAt(q)'
    <3>1. StageAt(q) /\ memory[q] = "live" /\ memory'[q] = "live" /\ lock[q] # 0 /\ lock[q] # Closed
      BY <1>1, <1>3, <2>1 DEF Stages
    <3>2. lock'[q] # 0 /\ lock'[q] # Closed
      BY <1>1, <1>3, <3>1 DEF Types, Closed
    <3> QED
      BY <1>3, <3>1, <3>2, StageHeld DEF HandlesOf
  <2>2. ASSUME NEW q \in Nodes, q \notin {h, to} PROVE StageAt(q)'
    <3>1. next'[q] = next[q] /\ lock'[q] = lock[q] /\ StageAt(q)
      BY <1>3, <2>2 DEF Types, Pointers, Stages
    <3> QED
      BY <1>3, <3>1, StageKept DEF HandlesOf
  <2> QED
    BY <2>1, <2>2 DEF Stages
<1>8. Statuses'
  <2>1. \A q \in Routines : lock'[q] = Closed <=> lock[q] = Closed
    BY <1>1, <1>3, Constants DEF Types, Closed
  <2> QED
    BY <1>3, <2>1, StatusKept DEF Statuses
<1>9. Held'
  <2> SUFFICES ASSUME NEW e \in edges', status'[e[1]] # "done", NEW W \in SUBSET Nodes,
                      e[1] \in W, Followed(next', function', W)
               PROVE  \E q \in W, k \in Slots : next'[q][k] = e[2]
    BY DEF Held, Leads
  <2>1. Followed(next, function, W)
    BY <1>2, <1>3, <1>4 DEF Followed, Rewritten
  <2>2. CASE e \in edges
    <3>1. PICK q \in W, k \in Slots : next[q][k] = e[2]
      BY <1>3, <2>1, <2>2 DEF Held, Leads
    <3>2. e[2] \in Nodes
      BY <2>2, Constants DEF Types
    <3>3. next'[q][k] = next[q][k]
      BY <1>2, <1>4, <3>1, <3>2, Constants DEF Rewritten
    <3> QED
      BY <3>1, <3>3
  <2>3. CASE e = <<from, to>>
    <3>1. h \in W
      BY <1>1, <2>1, <2>3
    <3> QED
      BY <1>1, <1>2, <1>4, <2>3, <3>1 DEF Rewritten
  <2> QED
    BY <1>3, <2>2, <2>3
<1>10. PendingCovers'
  BY <1>3, PendingKept
<1> QED
  BY <1>5, <1>6, <1>7, <1>8, <1>9, <1>10

\* order, with a junction in front of the first successor, keeps the invariant.
LEMMA OrderByJunctionInv ==
  ASSUME IInv, NEW from \in Routines, NEW to \in Routines, OrderByJunction(from, to)
  PROVE  IInv'
<1> USE DEF IInv
<1> DEFINE h == Host(from)
           s == next[h][1]
<1>1. /\ h \in Nodes /\ memory[h] = "live" /\ lock[h] # 0 /\ lock[h] # Closed
      /\ to \in Nodes /\ memory[to] = "live" /\ lock[to] \in Nat \ {0} /\ lock[to] # Closed
      /\ <<from, to>> \in Links
      /\ \A W \in SUBSET Nodes : from \in W /\ Followed(next, function, W) => h \in W
  BY OrderFacts DEF OrderByJunction
<1>2. PICK j \in Junctions :
        /\ memory[j] = "unused"
        /\ memory' = [memory EXCEPT ![j] = "live"]
        /\ lock' = [lock EXCEPT ![j] = 1, ![to] = @ + 1]
        /\ next' = [next EXCEPT ![j][1] = next[h][1], ![j][2] = to, ![h][1] = j]
  BY DEF OrderByJunction
<1>3. /\ Full(h)
      /\ pending' = pending + 1
      /\ edges' = edges \cup {<<from, to>>}
      /\ UNCHANGED <<function, queued, at, handles, defers, status>>
  BY DEF OrderByJunction
<1>4. s \in Nodes /\ s # None
  BY <1>1, <1>3, Constants DEF Full, Types, Pointers
<1> HIDE DEF h
<1>5. /\ j \in Nodes /\ j \notin Routines /\ Unused(j)
      /\ j # h /\ j # to /\ lock[j] = 0 /\ ~function[j]
      /\ next[j][1] = None /\ next[j][2] = None
  BY <1>1, <1>2, Constants DEF Stages, StageAt, Unused
<1>6. HandlesOf(j) = 0 /\ Holders(j) = {} /\ s # j
  <2>1. CountedAt(j) /\ HandlesOf(j) = 0
    BY <1>5 DEF Counted, HandlesOf
  <2>2. IsFiniteSet(Holders(j))
    BY Finiteness, FS_Subset DEF Holders, HoldersIn
  <2>3. Cardinality(Holders(j)) \in Nat /\ (Cardinality(Holders(j)) = 0 => Holders(j) = {})
    BY <2>2, FS_CardinalityType, FS_EmptySet
  <2>4. Holders(j) = {}
    BY <1>5, <2>1, <2>3 DEF CountedAt, Closed
  <2> QED
    BY <1>1, <2>1, <2>4, NoHolder, Constants
<1> DEFINE n1 == [next EXCEPT ![j][1] = s]
           n2 == [n1 EXCEPT ![j][2] = to]
\* The three slots, one after the other.
<1>7. Rewritten(next, n1, j, 1, s)
  <2>1. next \in Pointers /\ s \in Nodes \cup {None} /\ 1 \in Slots
    BY <1>4, Constants DEF Types
  <2> HIDE DEF s
  <2> QED
    BY <1>5, <2>1, SlotWritten
<1>8. Rewritten(n1, n2, j, 2, to)
  <2>1. n1 \in Pointers /\ to \in Nodes \cup {None} /\ 2 \in Slots
    BY <1>1, <1>7, Constants DEF Rewritten
  <2> HIDE DEF n1
  <2> QED
    BY <1>5, <2>1, SlotWritten
<1>9. Rewritten(n2, next', h, 1, j)
  <2>1. n2 \in Pointers /\ j \in Nodes \cup {None} /\ 1 \in Slots
    BY <1>5, <1>8, Constants DEF Rewritten
  <2>2. next' = [n2 EXCEPT ![h][1] = j]
    BY <1>2
  <2> HIDE DEF n2
  <2> QED
    BY <1>1, <2>1, <2>2, SlotWritten
<1> HIDE DEF n1, n2
<1>10. /\ next' \in Pointers
       /\ \A p \in Nodes, k \in Slots :
            next'[p][k] = CASE p = h /\ k = 1 -> j
                            [] p = j /\ k = 1 -> s
                            [] p = j /\ k = 2 -> to
                            [] OTHER -> next[p][k]
  BY <1>1, <1>5, <1>7, <1>8, <1>9, Constants DEF Rewritten
<1>11. /\ \A r \in Nodes : Cardinality(Holders(r)) \in Nat
       /\ \A r \in Nodes : Cardinality(Holders(r)) = 0 <=> Holders(r) = {}
       /\ \A r \in Nodes \ {j, to} : Cardinality(Holders(r)') = Cardinality(Holders(r))
       /\ Cardinality(Holders(to)') = Cardinality(Holders(to)) + 1
       /\ Cardinality(Holders(j)') = Cardinality(Holders(j)) + 1
  <2>1. n1[j][2] = None /\ n2[h][1] = s
    BY <1>1, <1>5, <1>7, <1>8, Constants DEF Rewritten
  <2> DEFINE C(r) == Cardinality(HoldersIn(next, r))
             C1(r) == Cardinality(HoldersIn(n1, r))
             C2(r) == Cardinality(HoldersIn(n2, r))
             C3(r) == Cardinality(HoldersIn(next', r))
  <2>2. \A r \in Nodes : C(r) \in Nat /\ C1(r) = C(r) + (IF s = r THEN 1 ELSE 0)
    BY <1>5, <1>7, Constants DEF Rewritten
  <2>3. \A r \in Nodes : C1(r) \in Nat /\ C2(r) = C1(r) + (IF to = r THEN 1 ELSE 0)
    BY <1>8, <2>1, Constants DEF Rewritten
  <2>4. \A r \in Nodes : C2(r) \in Nat /\ C3(r) = C2(r) - (IF s = r THEN 1 ELSE 0)
                                                  + (IF j = r THEN 1 ELSE 0)
    BY <1>9, <2>1 DEF Rewritten
  <2>5. \A r \in Nodes : C(r) = 0 <=> HoldersIn(next, r) = {}
    BY <1>7 DEF Rewritten
  <2> HIDE DEF C, C1, C2, C3, s
  <2>6. \A r \in Nodes : C(r) \in Nat /\ C3(r) = C(r) + (IF to = r THEN 1 ELSE 0)
                                                  + (IF j = r THEN 1 ELSE 0)
    BY <2>2, <2>3, <2>4
  <2> QED
    BY <1>1, <1>5, <2>5, <2>6 DEF C, C3, Holders
<1>12. \A q \in Nodes : lock'[q] = IF q = j THEN 1 ELSE IF q = to THEN lock[q] + 1 ELSE lock[q]
  BY <1>1, <1>2, <1>5 DEF Types
<1>13. Types'
  <2>1. lock' \in [Nodes -> Nat \cup {Closed}]
    BY <1>1, <1>2, <1>5 DEF Types
  <2>2. memory' \in [Nodes -> {"unused", "live", "freed"}]
    BY <1>2, <1>5 DEF Types
  <2>3. next' \in Pointers
    BY <1>10
  <2>4. edges' \subseteq Links
    <3>1. edges \subseteq Links /\ <<from, to>> \in Links
      BY <1>1 DEF Types
    <3> QED
      BY <1>3, <3>1
  <2>5. pending' \in Int
    <3>1. pending \in Int
      BY DEF Types
    <3> QED
      BY <1>3, <3>1
  <2> QED
    BY <1>3, <2>1, <2>2, <2>3, <2>4, <2>5 DEF Types
<1>14. Counted'
  <2>1. \A r \in Nodes : HandlesOf(r)' = HandlesOf(r) /\ HandlesOf(r) \in Nat
    BY <1>3 DEF HandlesOf, Types
  <2>2. ASSUME NEW r \in Nodes, r # to, r # j PROVE CountedAt(r)'
    <3>1. lock'[r] = lock[r] /\ CountedAt(r)
      BY <1>12, <2>2 DEF Counted
    <3>2. Cardinality(Holders(r)') = Cardinality(Holders(r))
      BY <1>11, <2>2
    <3>3. Holders(r) = {} => Holders(r)' = {}
      <4>1. IsFiniteSet(Holders(r)')
        BY Finiteness, FS_Subset DEF Holders, HoldersIn
      <4> QED
        BY <3>2, <4>1, FS_EmptySet
    <3> QED
      BY <2>1, <3>1, <3>2, <3>3 DEF CountedAt
  <2>3. CountedAt(to)'
    <3>1. lock'[to] = lock[to] + 1 /\ lock[to] = HandlesOf(to) + Cardinality(Holders(to))
      BY <1>1, <1>5, <1>12 DEF Counted, CountedAt
    <3>2. lock'[to] # Closed /\ lock'[to] = HandlesOf(to)' + Cardinality(Holders(to)')
      BY <1>1, <1>11, <2>1, <3>1 DEF Closed
    <3> QED
      BY <3>2 DEF CountedAt
  <2>4. CountedAt(j)'
    <3>1. Cardinality(Holders(j)) = 0
      BY <1>5, <1>6, <1>11
    <3> QED
      BY <1>5, <1>6, <1>11, <1>12, <2>1, <3>1 DEF CountedAt, Closed
  <2> QED
    BY <2>2, <2>3, <2>4 DEF Counted
<1>15. Stages'
  <2>1. ASSUME NEW q \in Nodes, q \in {h, to} PROVE StageAt(q)'
    <3>1. StageAt(q) /\ memory[q] = "live" /\ memory'[q] = "live" /\ lock[q] # 0 /\ lock[q] # Closed
      BY <1>1, <1>2, <1>5, <2>1 DEF Stages, Types
    <3>2. lock'[q] # 0 /\ lock'[q] # Closed
      BY <1>1, <1>5, <1>12, <2>1, <3>1 DEF Closed
    <3> QED
      BY <1>3, <3>1, <3>2, StageHeld DEF HandlesOf
  <2>2. StageAt(j)'
    <3>1. memory'[j] = "live" /\ lock'[j] = 1
      BY <1>2, <1>5, <1>12 DEF Types
    <3> QED
      BY <1>3, <1>5, <3>1, Constants DEF StageAt, Unused, Live
  <2>3. ASSUME NEW q \in Nodes, q \notin {h, to, j} PROVE StageAt(q)'
    <3>1. next'[q] = next[q] /\ lock'[q] = lock[q] /\ memory'[q] = memory[q] /\ StageAt(q)
      BY <1>2, <1>12, <2>3 DEF Types, Pointers, Stages
    <3> QED
      BY <1>3, <3>1, StageKept DEF HandlesOf
  <2> QED
    BY <2>1, <2>2, <2>3 DEF Stages
<1>16. Statuses'
  <2>1. \A q \in Routines : (lock'[q] = Closed <=> lock[q] = Closed) /\ memory'[q] = memory[q]
    BY <1>1, <1>2, <1>5, <1>12, Constants DEF Types, Closed
  <2> QED
    BY <1>3, <2>1, StatusKept DEF Statuses
<1>17. Held'
  <2> SUFFICES ASSUME NEW e \in edges', status'[e[1]] # "done", NEW W \in SUBSET Nodes,
                      e[1] \in W, Followed(next', function', W)
               PROVE  \E q \in W, k \in Slots : next'[q][k] = e[2]
    BY DEF Held, Leads
  <2>1. h \in W => j \in W
    BY <1>1, <1>3, <1>5, <1>10, Constants DEF Followed
  <2>2. Followed(next, function, W)
    <3> SUFFICES ASSUME NEW q \in W, NEW k \in Slots, next[q][k] # None, ~function[next[q][k]]
                 PROVE  next[q][k] \in W
      BY DEF Followed
    <3>1. CASE q = h /\ k = 1
      BY <1>3, <1>5, <1>10, <2>1, <3>1, Constants DEF Followed
    <3>2. CASE q = j
      BY <1>5, <3>2 DEF Unused
    <3>3. CASE ~(q = h /\ k = 1) /\ q # j
      BY <1>3, <1>10, <3>3 DEF Followed
    <3> QED
      BY <3>1, <3>2, <3>3
  <2>3. CASE e \in edges
    <3>1. PICK q \in W, k \in Slots : next[q][k] = e[2]
      BY <1>3, <2>2, <2>3 DEF Held, Leads
    <3>2. e[2] # None
      BY <2>3, Constants DEF Types
    <3>3. CASE q = h /\ k = 1
      <4>1. j \in W /\ next'[j][1] = e[2]
        BY <1>5, <1>10, <2>1, <3>1, <3>3, Constants
      <4> QED
        BY <4>1, Constants
    <3>4. CASE q = j
      BY <1>5, <3>1, <3>2, <3>4 DEF Unused
    <3>5. CASE ~(q = h /\ k = 1) /\ q # j
      BY <1>10, <3>1, <3>5
    <3> QED
      BY <3>3, <3>4, <3>5
  <2>4. CASE e = <<from, to>>
    <3>1. j \in W /\ next'[j][2] = to
      BY <1>1, <1>5, <1>10, <2>1, <2>2, <2>4, Constants
    <3> QED
      BY <2>4, <3>1, Constants
  <2> QED
    BY <1>3, <2>3, <2>4
<1>18. PendingCovers'
  <2> DEFINE L == {q \in Nodes : memory[q] = "live"}
             M == {q \in Nodes : memory'[q] = "live"}
             C == {x \in Nodes \X Calls : at[x[1]][x[2]] = "count"}
  <2>1. M = L \cup {j} /\ j \notin L
    BY <1>2, <1>5 DEF Types
  <2>2. IsFiniteSet(L)
    BY Finiteness, FS_Subset
  <2>3. Cardinality(M) = Cardinality(L) + 1
    BY <2>1, <2>2, FS_AddElement
  <2>4. Cardinality(L) \in Nat /\ Cardinality(C) \in Nat
    BY <2>2, Finiteness, FS_Subset, FS_CardinalityType
  <2>5. pending' = Cardinality(M) + Cardinality(C)
    <3>1. pending = Cardinality(L) + Cardinality(C) /\ pending' = pending + 1
      BY <1>3 DEF PendingCovers
    <3> HIDE DEF L, M, C
    <3> QED
      BY <2>3, <2>4, <3>1
  <2> QED
    BY <1>3, <2>5 DEF PendingCovers
<1> QED
  BY <1>13, <1>14, <1>15, <1>16, <1>17, <1>18

\* A routine that may be deferred is in use and not completed.
LEMMA DeferFacts ==
  ASSUME IInv, NEW r \in Routines, MayDefer(r)
  PROVE  /\ r \in Nodes /\ memory[r] = "live" /\ lock[r] \in Nat /\ lock[r] # Closed
         /\ lock[r] # 0 \/ at[r]["own"] = "body"
<1> USE DEF IInv
<1>1. r \in Nodes
  BY Constants
<1>2. CASE handles[r] > 0
  BY <1>1, <1>2, HeldByHandle, HeldIsLive
<1>3. CASE \E f \in Routines : <<f, r>> \in edges /\ at[f]["own"] = "body"
  <2>1. PICK f \in Routines : <<f, r>> \in edges /\ at[f]["own"] = "body"
    BY <1>3
  <2>2. Leads(next, function, f, r)
    BY <2>1 DEF Held, Statuses, StatusAt
  <2>3. Followed(next, function, Nodes) /\ f \in Nodes
    BY Constants DEF Followed, Types, Pointers
  <2>4. PICK q \in Nodes, i \in Slots : next[q][i] = r
    BY <2>2, <2>3 DEF Leads
  <2> QED
    BY <1>1, <2>4, HeldBySlot, HeldIsLive
<1>4. CASE at[r]["own"] = "body"
  <2>1. StageAt(r) /\ memory[r] \in {"unused", "freed", "live"} /\ lock[r] \in Nat \cup {Closed}
    BY <1>1 DEF Stages, Types
  <2>2. memory[r] = "live" /\ lock[r] # Closed
    BY <1>4, <2>1, Constants DEF StageAt, Unused, Freed, Live
  <2> QED
    BY <1>1, <1>4, <2>1, <2>2
<1> QED
  BY <1>2, <1>3, <1>4 DEF MayDefer

\* defer keeps the invariant.
LEMMA DeferInv ==
  ASSUME IInv, NEW r \in Routines, Defer(r)
  PROVE  IInv'
<1> USE DEF IInv
<1>1. /\ r \in Nodes /\ memory[r] = "live" /\ lock[r] \in Nat /\ lock[r] # Closed
      /\ lock[r] # 0 \/ at[r]["own"] = "body"
  BY DeferFacts DEF Defer
<1>2. /\ lock' = [lock EXCEPT ![r] = @ + 1]
      /\ handles' = [handles EXCEPT ![r] = @ + 1]
      /\ defers' = defers + 1
      /\ UNCHANGED <<memory, function, next, pending, queued, at, status, edges>>
  BY DEF Defer, history
<1>3. lock'[r] = lock[r] + 1 /\ handles'[r] = handles[r] + 1 /\ handles[r] \in Nat
  BY <1>1, <1>2 DEF Types
<1>4. Types'
  BY <1>1, <1>2 DEF Types
<1>5. Counted'
  <2>1. CountedAt(r)'
    <3>1. Holders(r)' = Holders(r) /\ HandlesOf(r)' = HandlesOf(r) + 1 /\ HandlesOf(r) \in Nat
      BY <1>2, <1>3 DEF Holders, HoldersIn, HandlesOf
    <3>2. lock[r] = HandlesOf(r) + Cardinality(Holders(r))
      BY <1>1 DEF Counted, CountedAt
    <3>3. Cardinality(Holders(r)) \in Nat
      BY Finiteness, FS_Subset, FS_CardinalityType DEF Holders, HoldersIn
    <3>4. lock'[r] # Closed /\ lock'[r] = HandlesOf(r)' + Cardinality(Holders(r)')
      BY <1>1, <1>3, <3>1, <3>2, <3>3 DEF Closed
    <3> QED
      BY <3>4 DEF CountedAt
  <2>2. ASSUME NEW q \in Nodes, q # r PROVE CountedAt(q)'
    <3>1. Holders(q)' = Holders(q) /\ HandlesOf(q)' = HandlesOf(q) /\ lock'[q] = lock[q]
      BY <1>2, <2>2 DEF Holders, HoldersIn, HandlesOf, Types
    <3> QED
      BY <3>1 DEF Counted, CountedAt
  <2> QED
    BY <2>1, <2>2 DEF Counted
<1>6. Stages'
  <2>1. StageAt(r)'
    <3>1. StageAt(r) /\ HandlesOf(r)' > 0 /\ lock'[r] # 0 /\ lock'[r] # Closed
      BY <1>1, <1>3 DEF Stages, HandlesOf, Closed
    <3>2. at[r]["bare"] # "check" /\ r \notin queued
      BY <1>1, <3>1, Constants DEF StageAt
    <3> QED
      BY <1>1, <1>2, <3>1, <3>2 DEF StageAt, Live
  <2>2. ASSUME NEW q \in Nodes, q # r PROVE StageAt(q)'
    BY <1>2, <2>2, StageKept DEF Stages, HandlesOf, Types
  <2> QED
    BY <2>1, <2>2 DEF Stages
<1>7. Statuses'
  <2>1. \A q \in Routines : lock'[q] = Closed <=> lock[q] = Closed
    BY <1>1, <1>2, Constants DEF Types, Closed
  <2> QED
    BY <1>2, <2>1, StatusKept DEF Statuses
<1>8. Held'
  BY <1>2, HeldKept
<1>9. PendingCovers'
  BY <1>2, PendingKept
<1> QED
  BY <1>4, <1>5, <1>6, <1>7, <1>8, <1>9

(***************************************************************************)
(* dispatch and execute                                                    *)
(***************************************************************************)
\* A count that is dropped: the routine is sent away or executed at once.
Sent(p) == at' = IF Ready(p) /\ ~function[p] THEN [at EXCEPT ![p]["bare"] = "check"] ELSE at

\* A count that goes down: the node may be sent or called, and nothing else changes.
LEMMA DropStage ==
  ASSUME Types, NEW p \in Nodes, StageAt(p), memory[p] = "live", lock[p] \in Nat \ {0},
         Drop(p), Sent(p), memory' = memory, function' = function,
         Ready(p) => at[p]["own"] = "idle",
         at[p]["own"] \in {"body", "check"} => HandlesOf(p)' > 0
  PROVE  /\ StageAt(p)'
         /\ \A q \in Nodes \ {p} : lock'[q] = lock[q] /\ at'[q] = at[q]
                                   /\ (q \in queued' <=> q \in queued)
         /\ lock'[p] = lock[p] - 1 /\ lock'[p] \in Nat
         /\ at' \in [Nodes -> [Calls -> {"idle", "body", "check", "forward", "count"}]]
         /\ lock' \in [Nodes -> Nat \cup {Closed}]
         /\ queued' \subseteq Routines
         /\ \A q \in Nodes : at'[q]["own"] = at[q]["own"]
         /\ \A q \in Nodes, c \in Calls : at'[q][c] = "count" <=> at[q][c] = "count"
<1>1. lock'[p] = lock[p] - 1 /\ lock'[p] \in Nat /\ lock[p] # Closed /\ lock'[p] # Closed
  <2>1. lock'[p] = lock[p] - 1
    BY DEF Drop, Types
  <2> QED
    BY <2>1 DEF Closed
<1>2. \A q \in Nodes \ {p} : lock'[q] = lock[q] /\ at'[q] = at[q]
                              /\ (q \in queued' <=> q \in queued)
  BY DEF Drop, Sent, Types
<1>3. at[p]["bare"] # "check" /\ p \notin queued /\ at[p]["bare"] # "forward" /\ at[p]["bare"] # "count"
      /\ at[p]["bare"] # "body"
  BY <1>1, Constants DEF StageAt, Live
<1>4. /\ at'[p]["own"] = at[p]["own"]
      /\ at'[p]["bare"] = IF Ready(p) /\ ~function[p] THEN "check" ELSE at[p]["bare"]
      /\ at' \in [Nodes -> [Calls -> {"idle", "body", "check", "forward", "count"}]]
  BY Constants DEF Sent, Types
<1>5. StageAt(p)'
  <2>1. Live(p)'
    BY <1>1, <1>4, Constants DEF StageAt, Live
  <2>2. at'[p]["own"] = "idle" \/ at'[p]["bare"] = "idle"
    BY <1>4 DEF StageAt
  <2>3. at'[p]["bare"] # "body" /\ (at'[p]["bare"] = "check" => lock'[p] = 0)
    BY <1>1, <1>3, <1>4 DEF Ready
  <2>4. at'[p]["own"] \in {"body", "check"} => lock'[p] = 0 \/ HandlesOf(p)' > 0
    BY <1>4
  <2>5. at'[p]["own"] # "idle" => p \in Routines
    BY <1>4 DEF StageAt
  <2>6. p \in queued' => function'[p] /\ lock'[p] = 0
    BY <1>1, <1>3 DEF Drop, Ready
  <2>7. function'[p] =>
          /\ p \in Routines /\ lock'[p] # Closed
          /\ \A c \in Calls : at'[p][c] = "idle"
    BY <1>1, <1>4, Constants DEF StageAt
  <2> QED
    BY <2>1, <2>2, <2>3, <2>4, <2>5, <2>6, <2>7 DEF StageAt
<1>6. queued' \subseteq Routines
  <2>1. function[p] => p \in Routines
    BY DEF StageAt
  <2> QED
    BY <2>1 DEF Drop, Types
<1>7. \A q \in Nodes : at'[q]["own"] = at[q]["own"]
  BY <1>2, <1>4
<1>8. \A q \in Nodes, c \in Calls : at'[q][c] = "count" <=> at[q][c] = "count"
  <2>1. \A c \in Calls : at'[p][c] = "count" <=> at[p][c] = "count"
    BY <1>3, <1>4, Constants
  <2> QED
    BY <1>2, <2>1
<1>9. lock' \in [Nodes -> Nat \cup {Closed}]
  BY <1>1 DEF Drop, Types
<1> QED
  BY <1>1, <1>2, <1>4, <1>5, <1>6, <1>7, <1>8, <1>9

\* dispatch of a handle keeps the invariant.
LEMMA DispatchInv ==
  ASSUME IInv, Racing = {}, NEW r \in Routines, Dispatch(r)
  PROVE  IInv'
<1> USE DEF IInv
<1>1. /\ r \in Nodes /\ memory[r] = "live" /\ lock[r] \in Nat \ {0} /\ lock[r] # Closed
      /\ at[r]["own"] = "idle" /\ handles[r] > 0
  BY HeldByHandle, HeldIsLive, Constants DEF Dispatch
<1>2. /\ handles' = [handles EXCEPT ![r] = @ - 1]
      /\ Drop(r) /\ Sent(r)
      /\ UNCHANGED <<memory, function, next, pending, defers, status, edges>>
  BY DEF Dispatch, history, Sent
<1>3. handles'[r] = handles[r] - 1 /\ handles[r] \in Nat /\ handles' \in [Routines -> Nat]
  BY <1>1, <1>2 DEF Types
<1>4. /\ StageAt(r)'
      /\ \A q \in Nodes \ {r} : lock'[q] = lock[q] /\ at'[q] = at[q]
                                   /\ (q \in queued' <=> q \in queued)
      /\ lock'[r] = lock[r] - 1 /\ lock'[r] \in Nat
      /\ at' \in [Nodes -> [Calls -> {"idle", "body", "check", "forward", "count"}]]
      /\ lock' \in [Nodes -> Nat \cup {Closed}]
      /\ queued' \subseteq Routines
      /\ \A q \in Nodes : at'[q]["own"] = at[q]["own"]
      /\ \A q \in Nodes, c \in Calls : at'[q][c] = "count" <=> at[q][c] = "count"
  BY <1>1, <1>2, DropStage DEF Stages
<1>5. Types'
  BY <1>2, <1>3, <1>4 DEF Types
<1>6. Counted'
  <2>1. CountedAt(r)'
    <3>1. Holders(r)' = Holders(r) /\ HandlesOf(r)' = HandlesOf(r) - 1 /\ HandlesOf(r) \in Nat
      BY <1>2, <1>3 DEF Holders, HoldersIn, HandlesOf
    <3>2. lock[r] = HandlesOf(r) + Cardinality(Holders(r))
      BY <1>1 DEF Counted, CountedAt
    <3>3. Cardinality(Holders(r)) \in Nat
      BY Finiteness, FS_Subset, FS_CardinalityType DEF Holders, HoldersIn
    <3>4. lock'[r] # Closed /\ lock'[r] = HandlesOf(r)' + Cardinality(Holders(r)')
      BY <1>1, <1>4, <3>1, <3>2, <3>3 DEF Closed
    <3> QED
      BY <3>4 DEF CountedAt
  <2>2. ASSUME NEW q \in Nodes, q # r PROVE CountedAt(q)'
    <3>1. Holders(q)' = Holders(q) /\ HandlesOf(q)' = HandlesOf(q) /\ lock'[q] = lock[q]
      BY <1>2, <1>4, <2>2 DEF Holders, HoldersIn, HandlesOf, Types
    <3> QED
      BY <3>1 DEF Counted, CountedAt
  <2> QED
    BY <2>1, <2>2 DEF Counted
<1>7. Stages'
  <2>1. ASSUME NEW q \in Nodes, q # r PROVE StageAt(q)'
    <3>1. HandlesOf(q)' = HandlesOf(q)
      BY <1>2, <2>1 DEF HandlesOf, Types
    <3> QED
      BY <1>2, <1>4, <2>1, <3>1, StageKept DEF Stages
  <2> QED
    BY <1>4, <2>1 DEF Stages
<1>8. Statuses'
  <2>1. \A q \in Routines : lock'[q] = Closed <=> lock[q] = Closed
    BY <1>1, <1>4, Constants DEF Closed
  <2> QED
    BY <1>2, <1>4, <2>1, StatusKept, Constants DEF Statuses
<1>9. Held'
  BY <1>2, HeldKept
<1>10. PendingCovers'
  BY <1>2, <1>4, PendingKept
<1> QED
  BY <1>5, <1>6, <1>7, <1>8, <1>9, <1>10

\* A call of execute that is under way: what it is about.
LEMMA CallFacts ==
  ASSUME Types, Stages, NEW r \in Nodes, NEW c \in Calls, at[r][c] # "idle"
  PROVE  /\ ~function[r] /\ r \notin queued
         /\ \A k \in Calls \ {c} : at[r][k] = "idle"
         /\ at[r][c] = "count" => memory[r] = "freed" /\ lock[r] = Closed
         /\ at[r][c] # "count" => memory[r] = "live"
         /\ at[r][c] = "forward" => lock[r] = Closed
         /\ at[r][c] \in {"body", "check"} => lock[r] # Closed
         /\ at[r][c] = "body" => c = "own"
<1>1. StageAt(r) /\ memory[r] \in {"unused", "freed", "live"}
  BY DEF Stages, Types
<1> QED
  BY <1>1, Constants DEF StageAt, Unused, Freed, Live

\* The begin of execute keeps the invariant.
LEMMA ExecuteInv ==
  ASSUME IInv, NEW r \in Routines, Execute(r)
  PROVE  IInv'
<1> USE DEF IInv
<1>1. /\ r \in Nodes /\ function[r] /\ lock[r] = 0
      /\ \A c \in Calls : at[r][c] = "idle"
      /\ memory[r] = "live" /\ status[r] = "waiting"
  <2>1. r \in Nodes /\ r \in queued /\ StageAt(r) /\ memory[r] \in {"unused", "freed", "live"}
    BY Constants DEF Execute, Stages, Types
  <2>2. function[r] /\ lock[r] = 0 /\ \A c \in Calls : at[r][c] = "idle"
    BY <2>1 DEF StageAt
  <2>3. memory[r] = "live"
    BY <2>1, <2>2 DEF StageAt, Unused, Freed, Closed
  <2> QED
    BY <2>1, <2>2, <2>3 DEF Statuses, StatusAt
<1>2. /\ queued' = queued \ {r}
      /\ function' = [function EXCEPT ![r] = FALSE]
      /\ at' = [at EXCEPT ![r]["own"] = "body"]
      /\ status' = [status EXCEPT ![r] = "running"]
      /\ UNCHANGED <<memory, lock, next, pending, handles, defers, edges>>
  BY DEF Execute
<1>3. at'[r]["own"] = "body" /\ at'[r]["bare"] = "idle" /\ ~function'[r]
  BY <1>1, <1>2, Constants DEF Types
<1>4. \A q \in Nodes \ {r} : at'[q] = at[q] /\ function'[q] = function[q]
                              /\ (q \in queued' <=> q \in queued)
  BY <1>2 DEF Types
<1>5. Types'
  BY <1>1, <1>2, Constants DEF Types
<1>6. Counted'
  BY <1>2, CountedKept
<1>7. Stages'
  <2>1. StageAt(r)'
    BY <1>1, <1>2, <1>3, Constants DEF StageAt, Live, Closed
  <2>2. ASSUME NEW q \in Nodes, q # r PROVE StageAt(q)'
    BY <1>2, <1>4, <2>2, StageKept DEF Stages, HandlesOf
  <2> QED
    BY <2>1, <2>2 DEF Stages
<1>8. Statuses'
  <2>1. StatusAt(r)'
    <3>1. status'[r] = "running" /\ memory'[r] = "live" /\ lock'[r] = 0
      BY <1>1, <1>2 DEF Types
    <3> QED
      BY <1>3, <3>1 DEF StatusAt, Closed
  <2>2. ASSUME NEW q \in Routines, q # r PROVE StatusAt(q)'
    <3>1. status'[q] = status[q]
      BY <1>2, <2>2 DEF Types
    <3> QED
      BY <1>2, <1>4, <2>2, <3>1, StatusKept, Constants DEF Statuses
  <2> QED
    BY <2>1, <2>2 DEF Statuses
<1>9. Held'
  <2>1. \A f \in Routines : status[f] = "done" => status'[f] = "done"
    BY <1>1, <1>2 DEF Types
  <2>2. \A q \in Nodes : ~function[q] => ~function'[q]
    BY <1>3, <1>4
  <2> QED
    BY <1>2, <2>1, <2>2, HeldKept DEF Types, Pointers
<1>10. PendingCovers'
  <2>1. \A q \in Nodes, c \in Calls : at'[q][c] = "count" <=> at[q][c] = "count"
    BY <1>1, <1>3, <1>4, Constants
  <2> QED
    BY <1>2, <2>1, PendingKept
<1> QED
  BY <1>5, <1>6, <1>7, <1>8, <1>9, <1>10

\* The end of a body keeps the invariant.
LEMMA EndBodyInv ==
  ASSUME IInv, NEW r \in Routines, EndBody(r)
  PROVE  IInv'
<1> USE DEF IInv
<1>1. /\ r \in Nodes /\ at[r]["own"] = "body" /\ at[r]["bare"] = "idle" /\ ~function[r]
      /\ memory[r] = "live" /\ lock[r] # Closed /\ r \notin queued /\ StageAt(r)
  BY CallFacts, Constants DEF EndBody, Stages
<1>2. /\ at' = [at EXCEPT ![r]["own"] = "check"]
      /\ status' = [status EXCEPT ![r] = "ended"]
      /\ UNCHANGED <<memory, lock, function, next, pending, queued, handles, defers, edges>>
  BY DEF EndBody
<1>3. at'[r]["own"] = "check" /\ at'[r]["bare"] = "idle"
  BY <1>1, <1>2, Constants DEF Types
<1>4. \A q \in Nodes \ {r} : at'[q] = at[q]
  BY <1>2 DEF Types
<1>5. Types'
  BY <1>1, <1>2, Constants DEF Types
<1>6. Counted'
  BY <1>2, CountedKept
<1>7. Stages'
  <2>1. StageAt(r)'
    BY <1>1, <1>2, <1>3, Constants DEF StageAt, Live, HandlesOf
  <2>2. ASSUME NEW q \in Nodes, q # r PROVE StageAt(q)'
    BY <1>2, <1>4, <2>2, StageKept DEF Stages, HandlesOf
  <2> QED
    BY <2>1, <2>2 DEF Stages
<1>8. Statuses'
  <2>1. StatusAt(r)'
    <3>1. status'[r] = "ended" /\ memory'[r] = "live" /\ lock'[r] # Closed /\ ~function'[r]
      BY <1>1, <1>2 DEF Types
    <3> QED
      BY <1>3, <3>1 DEF StatusAt
  <2>2. ASSUME NEW q \in Routines, q # r PROVE StatusAt(q)'
    <3>1. status'[q] = status[q]
      BY <1>2, <2>2 DEF Types
    <3> QED
      BY <1>2, <1>4, <2>2, <3>1, StatusKept, Constants DEF Statuses
  <2> QED
    BY <2>1, <2>2 DEF Statuses
<1>9. Held'
  <2>1. \A f \in Routines : status[f] = "done" => status'[f] = "done"
    BY <1>1, <1>2 DEF Types, Statuses, StatusAt
  <2> QED
    BY <1>2, <2>1, HeldKept
<1>10. PendingCovers'
  <2>1. \A q \in Nodes, c \in Calls : at'[q][c] = "count" <=> at[q][c] = "count"
    BY <1>1, <1>3, <1>4, Constants
  <2> QED
    BY <1>2, <2>1, PendingKept
<1> QED
  BY <1>5, <1>6, <1>7, <1>8, <1>9, <1>10

\* execute of a routine that was deferred keeps the invariant.
LEMMA DeferredInv ==
  ASSUME IInv, NEW r \in Nodes, NEW c \in Calls, Deferred(r, c)
  PROVE  IInv'
<1> USE DEF IInv
<1>1. /\ at[r][c] = "check" /\ lock[r] # 0 /\ StageAt(r)
      /\ \A k \in Calls \ {c} : at[r][k] = "idle"
  BY CallFacts DEF Deferred, Stages
<1>2. /\ at' = [at EXCEPT ![r][c] = "idle"]
      /\ UNCHANGED <<memory, lock, function, next, pending, queued, handles, defers, status, edges>>
  BY DEF Deferred, history
<1>3. \A k \in Calls : at'[r][k] = "idle"
  BY <1>1, <1>2 DEF Types
<1>4. \A q \in Nodes \ {r} : at'[q] = at[q]
  BY <1>2 DEF Types
<1>5. Types'
  BY <1>2 DEF Types
<1>6. Counted'
  BY <1>2, CountedKept
<1>7. Stages'
  <2>1. StageAt(r)'
    BY <1>1, <1>2, <1>3, Constants DEF StageAt, Unused, Freed, Live
  <2>2. ASSUME NEW q \in Nodes, q # r PROVE StageAt(q)'
    BY <1>2, <1>4, <2>2, StageKept DEF Stages, HandlesOf
  <2> QED
    BY <2>1, <2>2 DEF Stages
<1>8. Statuses'
  <2>1. ASSUME r \in Routines PROVE StatusAt(r)'
    <3>1. StatusAt(r) /\ at[r]["own"] # "body"
      BY <1>1, <2>1, Constants DEF Statuses
    <3> QED
      BY <1>2, <1>3, <3>1, Constants DEF StatusAt
  <2>2. ASSUME NEW q \in Routines, q # r PROVE StatusAt(q)'
    BY <1>2, <1>4, <2>2, StatusKept, Constants DEF Statuses
  <2> QED
    BY <2>1, <2>2 DEF Statuses
<1>9. Held'
  BY <1>2, HeldKept
<1>10. PendingCovers'
  <2>1. \A q \in Nodes, k \in Calls : at'[q][k] = "count" <=> at[q][k] = "count"
    BY <1>1, <1>3, <1>4
  <2> QED
    BY <1>2, <2>1, PendingKept
<1> QED
  BY <1>5, <1>6, <1>7, <1>8, <1>9, <1>10

\* execute that closes the count keeps the invariant.
LEMMA CloseInv ==
  ASSUME IInv, NEW r \in Nodes, NEW c \in Calls, Close(r, c)
  PROVE  IInv'
<1> USE DEF IInv
<1>1. /\ at[r][c] = "check" /\ lock[r] = 0 /\ StageAt(r) /\ ~function[r] /\ r \notin queued
      /\ memory[r] = "live"
      /\ \A k \in Calls \ {c} : at[r][k] = "idle"
  BY CallFacts DEF Close, Stages
<1>2. /\ lock' = [lock EXCEPT ![r] = Closed]
      /\ at' = [at EXCEPT ![r][c] = "forward"]
      /\ status' = IF r \in Routines THEN [status EXCEPT ![r] = "done"] ELSE status
      /\ UNCHANGED <<memory, function, next, pending, queued, handles, defers, edges>>
  BY DEF Close
<1>3. /\ lock'[r] = Closed /\ at'[r][c] = "forward"
      /\ \A k \in Calls \ {c} : at'[r][k] = "idle"
  BY <1>1, <1>2 DEF Types
<1>4. \A q \in Nodes \ {r} : at'[q] = at[q] /\ lock'[q] = lock[q]
  BY <1>2 DEF Types
<1>5. Types'
  BY <1>2, Constants DEF Types
<1>6. Counted'
  <2>1. \A q \in Nodes : Holders(q)' = Holders(q) /\ HandlesOf(q)' = HandlesOf(q)
    BY <1>2 DEF Holders, HoldersIn, HandlesOf
  <2>2. HandlesOf(r) = 0 /\ Holders(r) = {}
    <3>1. 0 = HandlesOf(r) + Cardinality(Holders(r)) /\ HandlesOf(r) \in Nat
      BY <1>1 DEF Counted, CountedAt, HandlesOf, Types, Closed
    <3>2. IsFiniteSet(Holders(r))
      BY Finiteness, FS_Subset DEF Holders, HoldersIn
    <3>3. Cardinality(Holders(r)) \in Nat /\ (Cardinality(Holders(r)) = 0 => Holders(r) = {})
      BY <3>2, FS_CardinalityType, FS_EmptySet
    <3> QED
      BY <3>1, <3>3
  <2>3. CountedAt(r)'
    BY <1>3, <2>1, <2>2 DEF CountedAt
  <2>4. ASSUME NEW q \in Nodes, q # r PROVE CountedAt(q)'
    BY <1>4, <2>1, <2>4 DEF Counted, CountedAt
  <2> QED
    BY <2>3, <2>4 DEF Counted
<1>7. Stages'
  <2>1. StageAt(r)'
    <3>1. Live(r)'
      BY <1>3 DEF Live
    <3>2. at[r]["own"] # "idle" => r \in Routines
      BY <1>1 DEF StageAt
    <3> QED
      BY <1>1, <1>2, <1>3, <3>1, <3>2, Constants DEF StageAt
  <2>2. ASSUME NEW q \in Nodes, q # r PROVE StageAt(q)'
    BY <1>2, <1>4, <2>2, StageKept DEF Stages, HandlesOf
  <2> QED
    BY <2>1, <2>2 DEF Stages
<1>8. Statuses'
  <2>1. ASSUME r \in Routines PROVE StatusAt(r)'
    <3>1. status'[r] = "done" /\ memory'[r] = "live" /\ ~function'[r]
      BY <1>1, <1>2, <2>1 DEF Types
    <3> QED
      BY <1>3, <3>1, Constants DEF StatusAt
  <2>2. ASSUME NEW q \in Routines, q # r PROVE StatusAt(q)'
    <3>1. status'[q] = status[q]
      BY <1>2, <2>2 DEF Types
    <3> QED
      BY <1>2, <1>4, <2>2, <3>1, StatusKept, Constants DEF Statuses
  <2> QED
    BY <2>1, <2>2 DEF Statuses
<1>9. Held'
  <2>1. \A f \in Routines : status[f] = "done" => status'[f] = "done"
    BY <1>2 DEF Types
  <2> QED
    BY <1>2, <2>1, HeldKept
<1>10. PendingCovers'
  <2>1. \A q \in Nodes, k \in Calls : at'[q][k] = "count" <=> at[q][k] = "count"
    BY <1>1, <1>3, <1>4
  <2> QED
    BY <1>2, <2>1, PendingKept
<1> QED
  BY <1>5, <1>6, <1>7, <1>8, <1>9, <1>10

\* execute that dispatches a successor keeps the invariant.
LEMMA ForwardInv ==
  ASSUME IInv, NEW r \in Nodes, NEW c \in Calls, Forward(r, c)
  PROVE  IInv'
<1> USE DEF IInv
<1>1. PICK i \in Slots, p \in Nodes :
        /\ next[r][i] = p /\ p # None
        /\ next' = [next EXCEPT ![r][i] = None]
        /\ Drop(p) /\ Sent(p)
  <2>1. PICK i \in Slots :
          /\ next[r][i] # None
          /\ next' = [next EXCEPT ![r][i] = None]
          /\ Drop(next[r][i]) /\ Sent(next[r][i])
    BY DEF Forward, Used, Sent
  <2>2. next[r][i] \in Nodes
    BY <2>1 DEF Types, Pointers
  <2> QED
    BY <2>1, <2>2
<1>2. /\ at[r][c] = "forward"
      /\ UNCHANGED <<memory, function, pending, handles, defers, status, edges>>
  BY DEF Forward, history
<1>3. memory[r] = "live" /\ lock[r] = Closed /\ ~function[r] /\ StageAt(r)
  BY <1>2, CallFacts DEF Stages
<1>4. /\ p \in Nodes /\ lock[p] # Closed /\ lock[p] \in Nat \ {0}
      /\ Cardinality(Holders(p)) \in Nat \ {0} /\ HandlesOf(p) \in Nat
      /\ lock[p] = HandlesOf(p) + Cardinality(Holders(p))
  BY <1>1, HeldBySlot
<1>5. p # r /\ memory[p] = "live" /\ StageAt(p)
  <2>1. p # r
    BY <1>3, <1>4
  <2>2. memory[p] = "live"
    BY <1>4, HeldIsLive
  <2> QED
    BY <1>4, <2>1, <2>2 DEF Stages
<1>6. /\ Ready(p) => at[p]["own"] = "idle"
      /\ at[p]["own"] \in {"body", "check"} => HandlesOf(p)' > 0
  <2>1. at[p]["own"] \in {"idle", "body", "check"}
    <3>1. at[p]["own"] \in {"idle", "body", "check", "forward", "count"}
      BY <1>4, Constants DEF Types
    <3>2. at[p]["own"] # "forward" /\ at[p]["own"] # "count"
      BY <1>4, <1>5, Constants DEF StageAt, Live
    <3> QED
      BY <3>1, <3>2
  <2>2. at[p]["own"] \in {"body", "check"} => HandlesOf(p) > 0
    BY <1>4, <1>5 DEF StageAt
  <2>3. HandlesOf(p)' = HandlesOf(p)
    BY <1>1, <1>2 DEF HandlesOf
  <2>4. Ready(p) => HandlesOf(p) = 0
    BY <1>4 DEF Ready
  <2> QED
    BY <1>4, <2>1, <2>2, <2>3, <2>4
<1>7. next' = [next EXCEPT ![r][i] = None] /\ next[r][i] = p /\ Drop(p) /\ Sent(p) /\ p # None
  BY <1>1
<1>8. /\ StageAt(p)'
      /\ \A q \in Nodes \ {p} : lock'[q] = lock[q] /\ at'[q] = at[q]
                                   /\ (q \in queued' <=> q \in queued)
      /\ lock'[p] = lock[p] - 1 /\ lock'[p] \in Nat
      /\ at' \in [Nodes -> [Calls -> {"idle", "body", "check", "forward", "count"}]]
      /\ lock' \in [Nodes -> Nat \cup {Closed}]
      /\ queued' \subseteq Routines
      /\ \A q \in Nodes : at'[q]["own"] = at[q]["own"]
      /\ \A q \in Nodes, k \in Calls : at'[q][k] = "count" <=> at[q][k] = "count"
  <2>1. memory' = memory /\ function' = function
    BY <1>2
  <2> QED
    BY <1>4, <1>5, <1>6, <1>7, <2>1, DropStage
<1>9. Rewritten(next, next', r, i, None)
  BY <1>7, SlotWritten DEF Types
<1>10. Types'
  BY <1>2, <1>8, <1>9 DEF Types, Rewritten
<1>11. Counted'
  <2>1. \A q \in Nodes : HandlesOf(q)' = HandlesOf(q)
    BY <1>2 DEF HandlesOf
  <2>2. CountedAt(p)'
    <3>1. Cardinality(Holders(p)') = Cardinality(Holders(p)) - 1
      <4>1. None # p /\ next[r][i] = p
        BY <1>1
      <4> QED
        BY <1>4, <1>9, <4>1 DEF Rewritten, Holders
    <3>2. lock'[p] # Closed /\ lock'[p] = HandlesOf(p)' + Cardinality(Holders(p)')
      BY <1>4, <1>8, <2>1, <3>1 DEF Closed
    <3> QED
      BY <3>2 DEF CountedAt
  <2>3. ASSUME NEW q \in Nodes, q # p PROVE CountedAt(q)'
    <3>1. Holders(q)' = Holders(q)
      BY <1>7, <1>9, <2>3, Constants DEF Rewritten, Holders, HoldersIn
    <3> QED
      BY <1>8, <2>1, <2>3, <3>1 DEF Counted, CountedAt
  <2> QED
    BY <2>2, <2>3 DEF Counted
<1>12. Stages'
  <2>1. StageAt(r)'
    <3>1. /\ memory'[r] = "live" /\ function'[r] = function[r] /\ lock'[r] = lock[r]
          /\ at'[r] = at[r] /\ (r \in queued' <=> r \in queued) /\ HandlesOf(r)' = HandlesOf(r)
      BY <1>2, <1>3, <1>5, <1>8 DEF HandlesOf
    <3> QED
      BY <1>3, <3>1 DEF StageAt, Live
  <2>2. ASSUME NEW q \in Nodes, q # r, q # p PROVE StageAt(q)'
    <3>1. next'[q] = next[q]
      BY <1>7, <2>2 DEF Types, Pointers
    <3> QED
      BY <1>2, <1>8, <2>2, <3>1, StageKept DEF Stages, HandlesOf
  <2> QED
    BY <1>8, <2>1, <2>2 DEF Stages
<1>13. Statuses'
  <2>1. \A q \in Routines : lock'[q] = Closed <=> lock[q] = Closed
    BY <1>4, <1>8, Constants DEF Closed
  <2> QED
    BY <1>2, <1>8, <2>1, StatusKept, Constants DEF Statuses
\* Nothing leads to r any more: a set without it is as good.
<1>14. Held'
  <2> SUFFICES ASSUME NEW e \in edges', status'[e[1]] # "done", NEW W \in SUBSET Nodes,
                      e[1] \in W, Followed(next', function', W)
               PROVE  \E q \in W, k \in Slots : next'[q][k] = e[2]
    BY DEF Held, Leads
  <2>1. Holders(r) = {} /\ \A q \in Nodes, k \in Slots : next[q][k] # r
    BY <1>3, NoHolder DEF Counted, CountedAt
  <2>2. e \in edges /\ e[1] \in Routines /\ e[1] # r /\ e[2] # None
    <3>1. e \in edges /\ e[1] \in Routines /\ e[2] # None
      BY <1>2, Constants DEF Types
    <3> QED
      BY <1>2, <1>3, <3>1 DEF Statuses, StatusAt
  <2> DEFINE V == W \ {r}
  <2>3. Followed(next, function, V)
    BY <1>2, <1>9, <2>1 DEF Followed, Rewritten
  <2>4. PICK q \in V, k \in Slots : next[q][k] = e[2]
    <3>1. V \in SUBSET Nodes /\ e[1] \in V /\ status[e[1]] # "done"
      BY <1>2, <2>2
    <3> QED
      BY <2>2, <2>3, <3>1 DEF Held, Leads
  <2> QED
    BY <1>9, <2>4 DEF Rewritten
<1>15. PendingCovers'
  BY <1>2, <1>8, PendingKept
<1> QED
  BY <1>10, <1>11, <1>12, <1>13, <1>14, <1>15

\* The sets that pending_count covers.
LiveNodes == {r \in Nodes : memory[r] = "live"}
CountCalls == {x \in Nodes \X Calls : at[x[1]][x[2]] = "count"}

\* pending_count is the sum of two sets: nodes in use, and calls at their end.
LEMMA PendingParts ==
  /\ IsFiniteSet(LiveNodes) /\ Cardinality(LiveNodes) \in Nat
  /\ IsFiniteSet(CountCalls) /\ Cardinality(CountCalls) \in Nat
  /\ PendingCovers <=> pending = Cardinality(LiveNodes) + Cardinality(CountCalls)
<1>1. IsFiniteSet(LiveNodes) /\ IsFiniteSet(CountCalls)
  BY Finiteness, FS_Subset DEF LiveNodes, CountCalls
<1> QED
  BY <1>1, FS_CardinalityType DEF PendingCovers, LiveNodes, CountCalls

\* execute that gives the node back keeps the invariant.
LEMMA FreeInv ==
  ASSUME IInv, NEW r \in Nodes, NEW c \in Calls, Free(r, c)
  PROVE  IInv'
<1> USE DEF IInv
<1>1. /\ at[r][c] = "forward" /\ \A i \in Slots : next[r][i] = None
      /\ memory' = [memory EXCEPT ![r] = "freed"]
      /\ at' = [at EXCEPT ![r][c] = "count"]
      /\ UNCHANGED <<lock, function, next, pending, queued, handles, defers, status, edges>>
  BY DEF Free, Used, history
<1>2. /\ memory[r] = "live" /\ lock[r] = Closed /\ ~function[r] /\ r \notin queued /\ StageAt(r)
      /\ \A k \in Calls \ {c} : at[r][k] = "idle"
  BY <1>1, CallFacts DEF Stages
<1>3. /\ memory'[r] = "freed" /\ at'[r][c] = "count"
      /\ \A k \in Calls \ {c} : at'[r][k] = "idle"
  BY <1>1, <1>2 DEF Types
<1>4. \A q \in Nodes \ {r} : at'[q] = at[q] /\ memory'[q] = memory[q]
  BY <1>1 DEF Types
<1>5. Types'
  BY <1>1 DEF Types
<1>6. Counted'
  BY <1>1, CountedKept
<1>7. Stages'
  <2>1. StageAt(r)'
    <3>1. Freed(r)'
      BY <1>1, <1>2, <1>3 DEF Freed
    <3>2. at[r]["own"] # "idle" => r \in Routines
      BY <1>2 DEF StageAt
    <3> QED
      BY <1>1, <1>2, <1>3, <3>1, <3>2, Constants DEF StageAt
  <2>2. ASSUME NEW q \in Nodes, q # r PROVE StageAt(q)'
    BY <1>1, <1>4, <2>2, StageKept DEF Stages, HandlesOf
  <2> QED
    BY <2>1, <2>2 DEF Stages
<1>8. Statuses'
  <2>1. ASSUME r \in Routines PROVE StatusAt(r)'
    <3>1. StatusAt(r) /\ at[r]["own"] \notin {"body", "check"}
      BY <1>1, <1>2, <2>1, Constants DEF Statuses
    <3>2. at'[r]["own"] \notin {"body", "check"}
      BY <1>3, Constants
    <3> QED
      BY <1>1, <1>2, <1>3, <3>1, <3>2, Constants DEF StatusAt
  <2>2. ASSUME NEW q \in Routines, q # r PROVE StatusAt(q)'
    BY <1>1, <1>4, <2>2, StatusKept, Constants DEF Statuses
  <2> QED
    BY <2>1, <2>2 DEF Statuses
<1>9. Held'
  BY <1>1, HeldKept
<1>10. PendingCovers'
  <2>1. LiveNodes' = LiveNodes \ {r} /\ r \in LiveNodes
    BY <1>2, <1>3, <1>4 DEF LiveNodes
  <2>2. CountCalls' = CountCalls \cup {<<r, c>>} /\ <<r, c>> \notin CountCalls
    BY <1>1, <1>2, <1>3, <1>4 DEF CountCalls
  <2>3. Cardinality(LiveNodes') = Cardinality(LiveNodes) - 1
    BY <2>1, PendingParts, FS_RemoveElement
  <2>4. Cardinality(CountCalls') = Cardinality(CountCalls) + 1
    BY <2>2, PendingParts, FS_AddElement
  <2>5. pending = Cardinality(LiveNodes) + Cardinality(CountCalls) /\ pending' = pending
    BY <1>1, PendingParts
  <2>6. pending' = Cardinality(LiveNodes') + Cardinality(CountCalls')
    BY <2>3, <2>4, <2>5, PendingParts
  <2> QED
    BY <2>6 DEF PendingCovers, LiveNodes, CountCalls
<1> QED
  BY <1>5, <1>6, <1>7, <1>8, <1>9, <1>10

\* The end of execute keeps the invariant.
LEMMA CountInv ==
  ASSUME IInv, NEW r \in Nodes, NEW c \in Calls, Count(r, c)
  PROVE  IInv'
<1> USE DEF IInv
<1>1. /\ at[r][c] = "count"
      /\ pending' = pending - 1
      /\ at' = [at EXCEPT ![r][c] = "idle"]
      /\ UNCHANGED <<memory, lock, function, next, queued, handles, defers, status, edges>>
  BY DEF Count, history
<1>2. /\ memory[r] = "freed" /\ lock[r] = Closed /\ ~function[r] /\ r \notin queued /\ StageAt(r)
      /\ \A k \in Calls \ {c} : at[r][k] = "idle"
  BY <1>1, CallFacts DEF Stages
<1>3. \A k \in Calls : at'[r][k] = "idle"
  BY <1>1, <1>2 DEF Types
<1>4. \A q \in Nodes \ {r} : at'[q] = at[q]
  BY <1>1 DEF Types
<1>5. Types'
  BY <1>1 DEF Types
<1>6. Counted'
  BY <1>1, CountedKept
<1>7. Stages'
  <2>1. StageAt(r)'
    BY <1>1, <1>2, <1>3, Constants DEF StageAt, Freed
  <2>2. ASSUME NEW q \in Nodes, q # r PROVE StageAt(q)'
    BY <1>1, <1>4, <2>2, StageKept DEF Stages, HandlesOf
  <2> QED
    BY <2>1, <2>2 DEF Stages
<1>8. Statuses'
  <2>1. ASSUME r \in Routines PROVE StatusAt(r)'
    <3>1. StatusAt(r) /\ at[r]["own"] \notin {"body", "check"}
      BY <1>1, <1>2, <2>1, Constants DEF Statuses
    <3> QED
      BY <1>1, <1>3, <3>1, Constants DEF StatusAt
  <2>2. ASSUME NEW q \in Routines, q # r PROVE StatusAt(q)'
    BY <1>1, <1>4, <2>2, StatusKept, Constants DEF Statuses
  <2> QED
    BY <2>1, <2>2 DEF Statuses
<1>9. Held'
  BY <1>1, HeldKept
<1>10. PendingCovers'
  <2>1. LiveNodes' = LiveNodes
    BY <1>1 DEF LiveNodes
  <2>2. CountCalls' = CountCalls \ {<<r, c>>} /\ <<r, c>> \in CountCalls
    BY <1>1, <1>2, <1>3, <1>4 DEF CountCalls
  <2>3. Cardinality(CountCalls') = Cardinality(CountCalls) - 1
    BY <2>2, PendingParts, FS_RemoveElement
  <2>4. pending = Cardinality(LiveNodes) + Cardinality(CountCalls) /\ pending' = pending - 1
    BY <1>1, PendingParts
  <2>5. pending' = Cardinality(LiveNodes') + Cardinality(CountCalls')
    BY <2>1, <2>3, <2>4, PendingParts
  <2> QED
    BY <2>5 DEF PendingCovers, LiveNodes, CountCalls
<1> QED
  BY <1>5, <1>6, <1>7, <1>8, <1>9, <1>10

(***************************************************************************)
(* The theorems                                                            *)
(***************************************************************************)
\* Each step keeps the invariant.
LEMMA StepInv ==
  ASSUME IInv, Racing = {}, [Next]_vars
  PROVE  IInv'
<1>1. CASE \E r \in Routines : \/ Allocate(r) \/ Defer(r) \/ Dispatch(r)
                               \/ Execute(r) \/ EndBody(r)
  BY <1>1, AllocateInv, DeferInv, DispatchInv, ExecuteInv, EndBodyInv
<1>2. CASE \E from, to \in Routines : OrderInSlot(from, to) \/ OrderByJunction(from, to)
  BY <1>2, OrderInSlotInv, OrderByJunctionInv
<1>3. CASE \E r \in Nodes, c \in Calls : Run(r, c)
  BY <1>3, DeferredInv, CloseInv, ForwardInv, FreeInv, CountInv DEF Run
<1>4. CASE UNCHANGED vars
  <2> USE <1>4 DEF vars, IInv
  <2>1. Types' /\ Counted' /\ Held'
    BY CountedKept, HeldKept DEF Types
  <2>2. Stages'
    BY StageKept DEF Stages, HandlesOf
  <2>3. Statuses'
    BY StatusKept DEF Statuses
  <2>4. PendingCovers'
    BY PendingKept
  <2> QED
    BY <2>1, <2>2, <2>3, <2>4
<1> QED
  BY <1>1, <1>2, <1>3, <1>4 DEF Next

\* The invariant holds in every state.
LEMMA Invariance == ASSUME Racing = {} PROVE Spec => []IInv
<1>1. Init => IInv
  BY InitInv
<1>2. IInv /\ [Next]_vars => IInv'
  BY StepInv
<1> QED
  BY <1>1, <1>2, PTL DEF Spec

\* Whatever is going to be touched by anybody - the routine of a handle, of a
\* slot, of a queued call, of a call of execute that has not given it back - is in
\* use (iris_dispatcher.h: release_routine after the last access).
THEOREM NobodyTouchesFreed == ASSUME Racing = {} PROVE Spec => []NoUseAfterFree
<1>1. IInv => NoUseAfterFree
  <2> SUFFICES ASSUME IInv, NEW r \in Touched, r # None PROVE memory[r] = "live"
    BY DEF NoUseAfterFree
  <2> USE DEF IInv
  <2>1. CASE r \in {q \in Routines : handles[q] > 0}
    BY <2>1, HeldByHandle, HeldIsLive, Constants
  <2>2. CASE r \in queued
    <3>1. r \in Nodes /\ StageAt(r) /\ memory[r] \in {"unused", "freed", "live"} /\ lock[r] = 0
      BY <2>2, Constants DEF Types, Stages, StageAt
    <3> QED
      BY <2>2, <3>1 DEF StageAt, Unused, Freed, Closed
  <2>3. CASE r \in {next[q][i] : q \in {p \in Nodes : memory[p] = "live"}, i \in Slots}
    <3>1. PICK q \in Nodes, i \in Slots : next[q][i] = r
      BY <2>3
    <3>2. r \in Nodes
      BY <3>1 DEF Types, Pointers
    <3> QED
      BY <3>1, <3>2, HeldBySlot, HeldIsLive
  <2>4. CASE r \in {q \in Nodes : \E c \in Calls : at[q][c] \in {"body", "check", "forward"}}
    BY <2>4, CallFacts
  <2> QED
    BY <2>1, <2>2, <2>3, <2>4 DEF Touched
<1> QED
  BY <1>1, Invariance, PTL

\* pending_count is at every moment the number of nodes in use and of calls of
\* execute that have given theirs back and not counted it (fetch_sub last): it
\* reaches zero only when all is over.
THEOREM PendingIsExact == ASSUME Racing = {} PROVE Spec => []PendingCovers
<1>1. IInv => PendingCovers
  BY DEF IInv
<1> QED
  BY <1>1, Invariance, PTL

\* pending_count is never more than the nodes there are: a node is counted once.
LEMMA PendingBounded == ASSUME IInv PROVE pending \in 0..Cardinality(Nodes)
<1> DEFINE F == {r \in Nodes : memory[r] = "freed"}
           f == [x \in CountCalls |-> x[1]]
<1>1. IsFiniteSet(F) /\ Cardinality(F) \in Nat
  BY Finiteness, FS_Subset, FS_CardinalityType
<1>2. Cardinality(CountCalls) <= Cardinality(F)
  <2>1. \A x \in CountCalls : x[1] \in F
    BY CallFacts DEF CountCalls, IInv
  <2>2. ASSUME NEW x \in CountCalls, NEW y \in CountCalls, x[1] = y[1] PROVE x = y
    <3>1. x[2] = y[2]
      BY <2>2, CallFacts DEF CountCalls, IInv
    <3> QED
      BY <2>2, <3>1 DEF CountCalls
  <2>3. f \in Injection(CountCalls, F)
    BY <2>1, <2>2 DEF Injection, IsInjective
  <2> QED
    BY <1>1, <2>3, FS_Injection
<1>3. Cardinality(LiveNodes) + Cardinality(F) <= Cardinality(Nodes)
  <2>1. LiveNodes \cap F = {} /\ LiveNodes \cup F \in SUBSET Nodes
    BY DEF LiveNodes
  <2>2. Cardinality(LiveNodes \cup F) = Cardinality(LiveNodes) + Cardinality(F)
    <3>1. Cardinality(LiveNodes \cup F)
            = Cardinality(LiveNodes) + Cardinality(F) - Cardinality(LiveNodes \cap F)
      BY <1>1, PendingParts, FS_Union
    <3>2. Cardinality(LiveNodes \cap F) = 0
      BY <2>1, FS_EmptySet
    <3> HIDE DEF F
    <3> QED
      BY <1>1, <3>1, <3>2, PendingParts
  <2>3. Cardinality(LiveNodes \cup F) <= Cardinality(Nodes)
    BY <2>1, Finiteness, FS_Subset
  <2> QED
    BY <2>2, <2>3
<1>4. pending = Cardinality(LiveNodes) + Cardinality(CountCalls)
  BY PendingParts DEF IInv
<1>5. Cardinality(Nodes) \in Nat
  BY Finiteness, FS_CardinalityType
<1> HIDE DEF F
<1> QED
  BY <1>1, <1>2, <1>3, <1>4, <1>5, PendingParts

\* lock_count never goes below zero but for the value it is closed with, and the
\* dispatcher never counts more nodes than there are.
THEOREM TypesCorrect == ASSUME Racing = {} PROVE Spec => []TypeOK
<1>1. IInv => TypeOK
  BY PendingBounded DEF IInv, Types, Pointers, TypeOK
<1> QED
  BY <1>1, Invariance, PTL

(***************************************************************************)
(* Dispatcher implements TaskGraph                                         *)
(***************************************************************************)
\* A routine whose count is zero is held by nobody, and all before it is done.
LEMMA NobodyHolds ==
  ASSUME IInv, NEW r \in Routines, lock[r] = 0
  PROVE  handles[r] = 0 /\ \A f \in Graph!Before(r) : status[f] = "done"
<1> USE DEF IInv
<1>1. r \in Nodes /\ HandlesOf(r) = handles[r] /\ handles[r] \in Nat
  BY Constants DEF HandlesOf, Types
<1>2. 0 = handles[r] + Cardinality(Holders(r))
  BY <1>1 DEF Counted, CountedAt, Closed
<1>3. IsFiniteSet(Holders(r))
  BY Finiteness, FS_Subset DEF Holders, HoldersIn
<1>4. Cardinality(Holders(r)) \in Nat /\ (Cardinality(Holders(r)) = 0 => Holders(r) = {})
  BY <1>3, FS_CardinalityType, FS_EmptySet
<1>5. handles[r] = 0 /\ Holders(r) = {}
  BY <1>1, <1>2, <1>4
<1>6. ASSUME NEW f \in Routines, <<f, r>> \in edges, status[f] # "done" PROVE FALSE
  <2>1. Leads(next, function, f, r)
    BY <1>6 DEF Held
  <2>2. Followed(next, function, Nodes) /\ f \in Nodes
    BY Constants DEF Followed, Types, Pointers
  <2>3. \E q \in Nodes, i \in Slots : next[q][i] = r
    BY <2>1, <2>2 DEF Leads
  <2> QED
    BY <1>5, <2>3, NoHolder
<1> QED
  BY <1>5, <1>6 DEF Graph!Before

\* Each step is one of TaskGraph, or changes nothing there.
LEMMA RefinementStep ==
  ASSUME IInv, Racing = {}, [Next]_vars
  PROVE  [Graph!Next]_Graph!vars
<1> USE DEF IInv
<1>1. ASSUME NEW r \in Routines, Allocate(r) PROVE Graph!Allocate(r)
  <2>1. status[r] = "none"
    BY <1>1 DEF Allocate, Statuses, StatusAt
  <2> QED
    BY <1>1, <2>1 DEF Allocate, Graph!Allocate
<1>2. ASSUME NEW r \in Routines, Defer(r) PROVE Graph!Defer(r)
  <2>1. memory[r] = "live" /\ lock[r] # Closed
    BY <1>2, DeferFacts DEF Defer
  <2>2. status[r] \in {"waiting", "running", "ended"}
    BY <2>1 DEF Statuses, StatusAt, Types
  <2> QED
    BY <1>2, <2>2 DEF Defer, history, Graph!Defer
<1>3. ASSUME NEW r \in Routines, Dispatch(r) PROVE Graph!Dispatch(r)
  BY <1>3 DEF Dispatch, history, Graph!Dispatch
<1>4. ASSUME NEW r \in Routines, Execute(r) PROVE Graph!Start(r)
  <2>1. r \in Nodes /\ StageAt(r) /\ r \in queued
    BY <1>4, Constants DEF Execute, Stages
  <2>2. lock[r] = 0 /\ status[r] = "waiting"
    BY <2>1 DEF StageAt, Statuses, StatusAt
  <2> QED
    BY <1>4, <2>2, NobodyHolds DEF Execute, Graph!Start
<1>5. ASSUME NEW r \in Routines, EndBody(r) PROVE Graph!End(r)
  <2>1. status[r] = "running"
    BY <1>5 DEF EndBody, Statuses, StatusAt
  <2> QED
    BY <1>5, <2>1 DEF EndBody, Graph!End
<1>6. ASSUME NEW from \in Routines, NEW to \in Routines, OrderInSlot(from, to)
      PROVE  Graph!Order(from, to)
  BY <1>6 DEF OrderInSlot, MayOrder, Graph!Order
<1>7. ASSUME NEW from \in Routines, NEW to \in Routines, OrderByJunction(from, to)
      PROVE  Graph!Order(from, to)
  BY <1>7 DEF OrderByJunction, MayOrder, Graph!Order
<1>8. ASSUME NEW r \in Nodes, NEW c \in Calls, Close(r, c), r \in Routines
      PROVE  Graph!Complete(r)
  <2>1. /\ at[r][c] = "check" /\ lock[r] = 0
        /\ status' = [status EXCEPT ![r] = "done"] /\ UNCHANGED <<edges, handles>>
    BY <1>8 DEF Close
  <2>2. status[r] \in {"waiting", "ended"}
    <3>1. memory[r] = "live" /\ \A k \in Calls \ {c} : at[r][k] = "idle"
      BY <2>1, CallFacts
    <3>2. at[r]["own"] # "body"
      BY <2>1, <3>1, Constants
    <3> QED
      BY <1>8, <2>1, <3>1, <3>2 DEF Statuses, StatusAt, Types, Closed
  <2> QED
    BY <1>8, <2>1, <2>2, NobodyHolds DEF Graph!Complete
<1>9. ASSUME NEW r \in Nodes, NEW c \in Calls,
             Deferred(r, c) \/ Forward(r, c) \/ Free(r, c) \/ Count(r, c)
                            \/ (Close(r, c) /\ r \notin Routines)
      PROVE  UNCHANGED Graph!vars
  BY <1>9 DEF Deferred, Forward, Free, Count, Close, history, Graph!vars
<1>10. CASE UNCHANGED vars
  BY <1>10 DEF vars, Graph!vars
<1> QED
  BY <1>1, <1>2, <1>3, <1>4, <1>5, <1>6, <1>7, <1>8, <1>9, <1>10 DEF Next, Run, Graph!Next

\* The dispatcher runs the graph as it was ordered: a routine starts once, when all
\* that come before it are done and no handle holds it (lock_count is zero), and is
\* done when its body has ended and no handle holds it, whatever junctions order()
\* has put between them.
THEOREM Refinement == ASSUME Racing = {} PROVE Spec => RefinesGraph
<1>1. Init => Graph!Init
  BY DEF Init, Graph!Init
<1>2. IInv /\ [Next]_vars => [Graph!Next]_Graph!vars
  BY RefinementStep
<1> QED
  BY <1>1, <1>2, Invariance, PTL DEF Spec, RefinesGraph, Graph!Spec
=============================================================================
