--------------------------- MODULE BlockAllocator ---------------------------
(***************************************************************************)
(* iris_allocator_t (src/src/iris_common.h): items are bits of blocks; a      *)
(* block that has free items waits in one of a few slots (control_blocks) or  *)
(* in the list recycled_head, and whoever allocates takes it out, so that it   *)
(* is alone with it but for the threads that give items of it back.           *)
(*                                                                         *)
(* ref_count counts the items and, once, whoever manages the block: a slot,    *)
(* the list, or an allocating thread.  Each action is one shared access of     *)
(* allocate_safe and deallocate_safe; a load and the exchange after it that     *)
(* finds the same are one.  allocate_unsafe and deallocate_unsafe are left      *)
(* out.  A bitmap has one word, and the root allocator gives any block that      *)
(* is not in use.                                                           *)
(***************************************************************************)
EXTENDS Integers, Sequences, FiniteSets, FiniteSetsExt, Functions

CONSTANTS
  Users,        \* threads
  Blocks,
  NControls,       \* number of control_blocks
  Bits,         \* 1..n, the items of a block
  MaxRecycled,  \* r
  MaxCalls,     \* bound: calls of allocate and deallocate of a thread
  Late,         \* bound: calls before the second kind of start
  NoBlock

ASSUME AllocatorAssumption ==
  /\ IsFiniteSet(Users) /\ IsFiniteSet(Blocks) /\ NoBlock \notin Blocks
  /\ NControls \in Nat /\ MaxRecycled \in Nat /\ MaxCalls \in Nat
  /\ NControls > 0 /\ Cardinality(Blocks) > 1 /\ Late \in 0..MaxCalls
  /\ Bits \subseteq Nat /\ Bits # {} /\ IsFiniteSet(Bits)

VARIABLES
  control,    \* control_blocks
  recycled,   \* the list at recycled_head
  count,      \* recycle_count
  refs, managed, bits,  \* of each block: ref_count, managed, bitmap
  used,       \* blocks taken from the root allocator
  live,       \* items that clients have: a block and a bit
  step,       \* of each thread: its next access
  hand,       \* the block it works on
  index,      \* the slot it looks at, or the bit it has found
  rest,       \* blocks that it took from the list with the one it wanted
  giving,     \* the thread is in allocate (else in deallocate)
  calls

allocatorVars == <<control, recycled, count, refs, managed, bits, used, live,
                   step, hand, index, rest, giving, calls>>
blockVars == <<refs, managed, bits, used>>
listVars == <<control, recycled, count>>
threadVars == <<hand, index, rest, giving, calls>>

Items == Blocks \X Bits

AllocatorTypeOK ==
  /\ control \in [1..NControls -> Blocks \cup {NoBlock}]
  /\ recycled \in Seq(Blocks)
  /\ count \in Int
  /\ refs \in [Blocks -> Nat] /\ managed \in [Blocks -> BOOLEAN] /\ bits \in [Blocks -> SUBSET Bits]
  /\ used \subseteq Blocks /\ live \in [Items -> Nat]
  /\ step \in [Users -> {"idle", "slot", "list", "put back", "push back", "popped", "unmanage",
                         "root", "word", "set", "refer", "recycle", "manage", "put", "count",
                         "push", "drop"}]
  /\ hand \in [Users -> Blocks \cup {NoBlock}]
  /\ \A t \in Users : index[t] \in Nat /\ rest[t] \in Seq(Blocks)
  /\ giving \in [Users -> BOOLEAN]
  /\ calls \in [Users -> 0..MaxCalls]

\* Threads at rest.  The blocks of listed have no items in use, all of their own in
\* the others of used; first is in a slot.
AtRest(taken, first, listed, made) ==
  /\ control = [n \in 1..NControls |-> IF n = 1 THEN first ELSE NoBlock]
  /\ recycled = listed /\ count = Len(listed)
  /\ used = taken
  /\ managed = [b \in Blocks |-> b = first \/ b \in Range(listed)]
  /\ bits = [b \in Blocks |-> IF b \in taken \ Range(listed) THEN Bits ELSE {}]
  /\ refs = [b \in Blocks |-> Cardinality(bits[b]) + (IF managed[b] THEN 1 ELSE 0)]
  /\ live = [i \in Items |-> IF i[2] \in bits[i[1]] THEN 1 ELSE 0]
  /\ step = [t \in Users |-> "idle"]
  /\ hand = [t \in Users |-> NoBlock]
  /\ index = [t \in Users |-> 0]
  /\ rest = [t \in Users |-> <<>>]
  /\ giving = [t \in Users |-> FALSE]
  /\ calls = [t \in Users |-> made]

\* As constructed; or later, with blocks in every place that there is.
AllocatorInit ==
  \/ AtRest({}, NoBlock, <<>>, 0)
  \/ \E order \in {CHOOSE f \in [1..Cardinality(Blocks) -> Blocks] : IsInjective(f)} :
       AtRest(Blocks, order[1], Tail(Tail(order)), Late)

At(t, label) == step[t] = label
Goto(t, label) == step' = [step EXCEPT ![t] = label]
Set(f, t, x) == [f EXCEPT ![t] = x]

(***************************************************************************)
(* allocate: take a block                                                  *)
(***************************************************************************)
Scan(t) == Goto(t, "slot") /\ index' = Set(index, t, 1)

AllocateItem(t) ==
  /\ At(t, "idle") /\ calls[t] < MaxCalls
  /\ calls' = [calls EXCEPT ![t] = @ + 1]
  /\ giving' = Set(giving, t, TRUE)
  /\ Scan(t)
  /\ UNCHANGED <<listVars, blockVars, live, hand, rest>>

TakeSlot(t) ==
  LET n == index[t]
  IN /\ At(t, "slot")
     /\ IF control[n] # NoBlock
        THEN /\ control' = Set(control, n, NoBlock)
             /\ hand' = Set(hand, t, control[n])
             /\ Goto(t, "unmanage")
             /\ UNCHANGED index
        ELSE /\ index' = [index EXCEPT ![t] = n + 1]
             /\ Goto(t, IF n = NControls THEN "list" ELSE "slot")
             /\ UNCHANGED <<control, hand>>
     /\ UNCHANGED <<recycled, count, blockVars, live, rest, giving, calls>>

\* Mutant: the blocks behind the first one are forgotten.
TakeHead(t) ==
  /\ At(t, "list")
  /\ IF recycled = <<>>
     THEN Goto(t, "root") /\ UNCHANGED <<recycled, hand>>
     ELSE /\ hand' = Set(hand, t, Head(recycled))
          /\ recycled' = <<>>
          /\ Goto(t, "popped")
  /\ UNCHANGED <<rest, control, count, blockVars, live, index, giving, calls>>

\* The whole list is taken by exchange; all but the first go back.
TakeList(t) ==
  /\ At(t, "list")
  /\ IF recycled = <<>>
     THEN Goto(t, "root") /\ UNCHANGED <<recycled, hand, rest>>
     ELSE /\ hand' = Set(hand, t, Head(recycled))
          /\ rest' = Set(rest, t, Tail(recycled))
          /\ recycled' = <<>>
          /\ Goto(t, "put back")
  /\ UNCHANGED <<control, count, blockVars, live, index, giving, calls>>

PutBack(t) ==
  /\ At(t, "put back")
  /\ IF recycled = <<>>
     THEN recycled' = rest[t] /\ rest' = Set(rest, t, <<>>) /\ Goto(t, "popped")
     ELSE Goto(t, IF rest[t] = <<>> THEN "popped" ELSE "push back") /\ UNCHANGED <<recycled, rest>>
  /\ UNCHANGED <<control, count, blockVars, live, hand, index, giving, calls>>

PushBack(t) ==
  /\ At(t, "push back")
  /\ recycled' = <<Head(rest[t])>> \o recycled
  /\ rest' = [rest EXCEPT ![t] = Tail(@)]
  /\ Goto(t, IF Len(rest[t]) = 1 THEN "popped" ELSE "push back")
  /\ UNCHANGED <<control, count, blockVars, live, hand, index, giving, calls>>

Popped(t) ==
  /\ At(t, "popped")
  /\ count' = count - 1
  /\ Goto(t, "unmanage")
  /\ UNCHANGED <<control, recycled, blockVars, live, threadVars>>

Unmanage(t) ==
  /\ At(t, "unmanage")
  /\ managed' = Set(managed, hand[t], FALSE)
  /\ Goto(t, "word")
  /\ UNCHANGED <<listVars, refs, bits, used, live, threadVars>>

TakeRoot(t) ==
  /\ At(t, "root")
  /\ Blocks # used
  /\ LET b == CHOOSE x \in Blocks \ used : TRUE IN
       /\ used' = used \cup {b}
       /\ hand' = Set(hand, t, b)
       /\ refs' = Set(refs, b, 1)
       /\ managed' = Set(managed, b, FALSE)
       /\ bits' = Set(bits, b, {})
  /\ Goto(t, "word")
  /\ UNCHANGED <<listVars, live, index, rest, giving, calls>>

(***************************************************************************)
(* allocate: take an item                                                  *)
(***************************************************************************)
LoadWord(t) ==
  LET free == Bits \ bits[hand[t]]
  IN /\ At(t, "word")
     /\ IF free = {}
        THEN Goto(t, "drop") /\ UNCHANGED index
        ELSE Goto(t, "set") /\ index' = Set(index, t, Min(free))
     /\ UNCHANGED <<listVars, blockVars, live, hand, rest, giving, calls>>

\* Mutant: whether the bit was set before is not looked at.
SetBitBlind(t) ==
  /\ At(t, "set")
  /\ bits' = [bits EXCEPT ![hand[t]] = @ \cup {index[t]}]
  /\ Goto(t, "refer")
  /\ UNCHANGED <<listVars, refs, managed, used, live, threadVars>>

\* fetch_or; a bit that is set already is left to whoever has set it.
SetBit(t) ==
  /\ At(t, "set")
  /\ bits' = [bits EXCEPT ![hand[t]] = @ \cup {index[t]}]
  /\ Goto(t, IF index[t] \in bits[hand[t]] THEN "drop" ELSE "refer")
  /\ UNCHANGED <<listVars, refs, managed, used, live, threadVars>>

\* Mutant: the item is not counted.
ReferNot(t) ==
  /\ At(t, "refer")
  /\ live' = [live EXCEPT ![<<hand[t], index[t]>>] = @ + 1]
  /\ giving' = Set(giving, t, FALSE)
  /\ Goto(t, "recycle")
  /\ UNCHANGED <<listVars, refs, managed, bits, used, hand, index, rest, calls>>

\* The item is the caller's; the block is handed on.
Refer(t) ==
  /\ At(t, "refer")
  /\ refs' = [refs EXCEPT ![hand[t]] = @ + 1]
  /\ live' = [live EXCEPT ![<<hand[t], index[t]>>] = @ + 1]
  /\ giving' = Set(giving, t, FALSE)
  /\ Goto(t, "recycle")
  /\ UNCHANGED <<listVars, managed, bits, used, hand, index, rest, calls>>

(***************************************************************************)
(* deallocate                                                              *)
(***************************************************************************)
Deallocate(t) ==
  /\ At(t, "idle") /\ calls[t] < MaxCalls
  /\ calls' = [calls EXCEPT ![t] = @ + 1]
  /\ \E i \in Items :
       /\ live[i] > 0
       /\ live' = [live EXCEPT ![i] = @ - 1]
       /\ bits' = [bits EXCEPT ![i[1]] = @ \ {i[2]}]
       /\ hand' = Set(hand, t, i[1])
  /\ Goto(t, "recycle")
  /\ UNCHANGED <<listVars, refs, managed, used, index, rest, giving>>

(***************************************************************************)
(* recycle, try_free                                                       *)
(***************************************************************************)
Recycle(t) ==
  /\ At(t, "recycle")
  /\ Goto(t, IF ~managed[hand[t]] /\ count < MaxRecycled THEN "manage" ELSE "drop")
  /\ UNCHANGED <<listVars, blockVars, live, threadVars>>

\* Mutant: the exchange of managed is not looked at.
ManageAnyway(t) ==
  /\ At(t, "manage")
  /\ managed' = Set(managed, hand[t], TRUE)
  /\ index' = Set(index, t, 1)
  /\ Goto(t, "put")
  /\ UNCHANGED <<listVars, refs, bits, used, live, hand, rest, giving, calls>>

Manage(t) ==
  /\ At(t, "manage")
  /\ managed' = Set(managed, hand[t], TRUE)
  /\ index' = Set(index, t, 1)
  /\ Goto(t, IF managed[hand[t]] THEN "drop" ELSE "put")
  /\ UNCHANGED <<listVars, refs, bits, used, live, hand, rest, giving, calls>>

Done(t) == Goto(t, "idle") /\ hand' = Set(hand, t, NoBlock)

PutSlot(t) ==
  LET n == index[t]
  IN /\ At(t, "put")
     /\ IF control[n] = NoBlock
        THEN control' = Set(control, n, hand[t]) /\ Done(t) /\ UNCHANGED index
        ELSE /\ index' = Set(index, t, n + 1)
             /\ Goto(t, IF n = NControls THEN "count" ELSE "put")
             /\ UNCHANGED <<control, hand>>
     /\ UNCHANGED <<recycled, count, blockVars, live, rest, giving, calls>>

CountSlots(t) ==
  /\ At(t, "count")
  /\ count' = count + 1
  /\ Goto(t, "push")
  /\ UNCHANGED <<control, recycled, blockVars, live, threadVars>>

PushList(t) ==
  /\ At(t, "push")
  /\ recycled' = <<hand[t]>> \o recycled
  /\ Done(t)
  /\ UNCHANGED <<control, count, blockVars, live, index, rest, giving, calls>>

\* The reference of an item that was given back, or of the manager.
DropBlock(t) ==
  LET b == hand[t]
  IN /\ At(t, "drop")
     /\ refs' = [refs EXCEPT ![b] = @ - 1]
     /\ used' = IF refs[b] = 1 THEN used \ {b} ELSE used
     /\ IF giving[t]
        THEN Scan(t) /\ hand' = Set(hand, t, NoBlock)
        ELSE Done(t) /\ UNCHANGED index
     /\ UNCHANGED <<listVars, managed, bits, live, rest, giving, calls>>

AllocatorStep(t) ==
  \/ TakeSlot(t) \/ TakeList(t) \/ PutBack(t) \/ PushBack(t) \/ Popped(t) \/ Unmanage(t)
  \/ TakeRoot(t) \/ LoadWord(t) \/ SetBit(t) \/ Refer(t)
  \/ Recycle(t) \/ Manage(t) \/ PutSlot(t) \/ CountSlots(t) \/ PushList(t) \/ DropBlock(t)

AllocatorNext == \E t \in Users : AllocateItem(t) \/ Deallocate(t) \/ AllocatorStep(t)

AllocatorSpec == AllocatorInit /\ [][AllocatorNext]_allocatorVars

(***************************************************************************)
(* Properties                                                              *)
(***************************************************************************)
Places(b) ==
  ({"slot"} \X {n \in 1..NControls : control[n] = b})
    \cup ({"list"} \X {i \in DOMAIN recycled : recycled[i] = b})
TakenBy(b) == {t \in Users : \E i \in DOMAIN rest[t] : rest[t][i] = b}
InClients(b) == MapThenSumSet(LAMBDA i : live[i], {b} \X Bits)
Holders(b) == {t \in Users : hand[t] = b}

\* Whoever may touch a block is counted, so that it is freed only when nobody
\* may.  The list and the slots together have a block at most once, and none that
\* went back to the root allocator (the assertion of try_free).  None is lost: at
\* rest, a block that nobody has items of is where the next allocate finds it.
BlocksKept ==
  /\ \A b \in used :
       refs[b] = Cardinality(Places(b)) + Cardinality(TakenBy(b))
                   + Cardinality(Holders(b)) + InClients(b)
  /\ \A b \in Blocks :
       Cardinality(Places(b)) + Cardinality(TakenBy(b)) <= IF b \in used THEN 1 ELSE 0
  /\ (\A t \in Users : At(t, "idle")) =>
       \A b \in used : Places(b) # {} \/ InClients(b) > 0

TheHeap == INSTANCE Heap

\* No item is given to two clients.
RefinesHeap == TheHeap!Spec
=============================================================================
