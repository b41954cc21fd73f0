----------------------------- MODULE QueueList -----------------------------
(***************************************************************************)
(* iris_queue_t and iris_queue_list_t (iris_common.h): a single-producer,  *)
(* single-consumer ring with free-running counters and a shadow of the     *)
(* other side's counter, and the list of such rings that grows without     *)
(* bound.  A step reads or writes one field that the other side writes.    *)
(***************************************************************************)
EXTENDS Integers, Sequences, FiniteSets

CONSTANTS QueueNodes,        \* addresses a node can have
          NoNode,       \* nullptr
          NodeSlots,       \* element_count of a node
          CounterBits,  \* the width of size_t
          FirstCount,   \* elements that went through the first node before
          MaxSent,      \* bound on the elements pushed
          MaxBatch,     \* bound on the elements of one call
          MaxClears     \* bound on the calls of clear()

ASSUME QueueAssumption ==
    /\ IsFiniteSet(QueueNodes) /\ QueueNodes # {} /\ NoNode \notin QueueNodes
    /\ NodeSlots \in Nat \ {0} /\ CounterBits \in Nat \ {0}
    /\ MaxSent \in Nat /\ MaxBatch \in Nat \ {0} /\ MaxClears \in Nat

VARIABLES inUse,      \* nodes that are allocated
          node,      \* the fields of every node
          pushHead, popHead, iteratorCounter,
          sent,      \* elements the producer wrote into slots so far
          got,       \* elements the consumer took out, in order
          clears,    \* calls of clear() so far
          producer,  \* at, op, left: still to push, filled: written and not
                     \* yet published, fresh: the node being chained
          consumer   \* at, op, left: still to pop, node: the one whose empty()
                     \* runs, then: what asked for that or for a cleanup, seen

queueVars == <<inUse, node, pushHead, popHead, iteratorCounter, sent, got,
               clears, producer, consumer>>

---------------------------------------------------------------------------
(* Counters and rings                                                      *)

Log2(n) == CHOOSE k \in 0..n : 2^k <= n /\ n < 2^(k + 1)

WordSize == 2^CounterBits
Sign == 2^(CounterBits - 1)

\* element_count_pow_two
PowerOfTwoSlots == 2^Log2(NodeSlots) = NodeSlots

\* The counters wrap with size_t, or at counter_limit when element_count
\* does not divide 2^w.
Limit == IF PowerOfTwoSlots
         THEN WordSize
         ELSE NodeSlots * 2^(CounterBits - 1 - Log2(NodeSlots))

StepCounter(count, delta) == (count + delta) % Limit

\* Mutant: the difference is returned as a size_t.
DiffUnsigned(l, r) ==
    LET d == (l + Limit - r) % WordSize
    IN  IF d >= Limit THEN d - Limit ELSE d

\* What diff_counter() returns as a ptrdiff_t: a difference in size_t, from which the
\* limit is taken if it is reached.  (Where the slots are a power of two the code
\* subtracts as ptrdiff_t, which is taken to wrap around where it overflows.)
DiffCounter(l, r) ==
    LET d == (l + Limit - r) % WordSize
        e == IF d >= Limit THEN d - Limit ELSE d
    IN  IF e >= Sign THEN e - WordSize ELSE e

\* A ring is indexed by the remainder of a counter that wraps around at the limit,
\* which has the highest bit set (the static_assert beside it) and is passed without
\* overflow; a node has fewer slots, and fewer elements go through it, than a ptrdiff_t
\* can count.
ASSUME CounterAssumption ==
    /\ Limit \in Nat /\ Limit % NodeSlots = 0
    /\ Sign \in Nat /\ WordSize \in Nat /\ Limit <= WordSize
    /\ PowerOfTwoSlots \/ Limit + NodeSlots <= WordSize
    /\ NodeSlots < Sign /\ MaxSent < Sign /\ Sign + MaxSent <= Limit
    /\ FirstCount \in 0..(Limit - 1)

Ring == 0..(NodeSlots - 1)
RingFull(n) == StepCounter(node[n].pop, NodeSlots) = node[n].push
\* Mutant: full only beyond the last slot.
MaybeFuller(n) == DiffCounter(node[n].push, node[n].pushShadow) > NodeSlots

MaybeFull(n) == DiffCounter(node[n].push, node[n].pushShadow) >= NodeSlots
MaybeEmpty(n) == DiffCounter(node[n].popShadow, node[n].pop) <= 0
SizeOf(n) == DiffCounter(node[n].push, node[n].pop)

\* The k slots from counter c on, across the end of the ring.
Covered(c, k) == {i \in Ring : (i + NodeSlots - (c % NodeSlots)) % NodeSlots < k}
Contents(n, k) == [j \in 1..k |-> node[n].ring[(node[n].pop + j - 1) % NodeSlots]]

\* A node as its constructor leaves it, or reset().
FreshNode(count) ==
    [next |-> NoNode, push |-> count, pop |-> count,
     pushShadow |-> count, popShadow |-> count, ring |-> [i \in Ring |-> 0]]

\* ring with k elements constructed from counter c on; 0 is raw storage.
Filled(ring, c, k) ==
    [i \in Ring |-> IF i \in Covered(c, k)
                    THEN sent + 1 + ((i + NodeSlots - (c % NodeSlots)) % NodeSlots)
                    ELSE ring[i]]
RingEmptied(ring, c, k) == [i \in Ring |-> IF i \in Covered(c, k) THEN 0 ELSE ring[i]]

Least(a, b) == IF a <= b THEN a ELSE b

---------------------------------------------------------------------------
(* The producer: push(), push(from, to) and push_stream()                  *)

ProducerIdle == [at |-> "idle", op |-> "none", left |-> 0, filled |-> 0, fresh |-> NoNode]
PAt(l) == producer.at = l
PGo(l) == producer' = [producer EXCEPT !.at = l]
ProducerKeeps == UNCHANGED <<got, clears, consumer, popHead>>

Push(op, n) ==
    /\ PAt("idle")
    /\ sent + n <= MaxSent
    /\ op = "one" => n = 1
    /\ producer' = [at |-> IF op = "one" THEN "maybe" ELSE "full", op |-> op,
                    left |-> n, filled |-> 0, fresh |-> NoNode]
    /\ UNCHANGED <<inUse, node, pushHead, iteratorCounter, sent>> /\ ProducerKeeps

\* maybe_full() reads the producer's own shadow of pop_count.
PushMaybeFull ==
    /\ PAt("maybe")
    /\ PGo(IF MaybeFull(pushHead) THEN "refresh" ELSE "fill")
    /\ UNCHANGED <<inUse, node, pushHead, iteratorCounter, sent>> /\ ProducerKeeps

\* refresh_pop_cached(); push_stream() does the same after it filled.
RefreshPopCached ==
    /\ producer.at \in {"refresh", "shadow"}
    /\ node' = [node EXCEPT ![pushHead].pushShadow = node[pushHead].pop]
    /\ PGo(IF PAt("refresh") THEN "full" ELSE "publish")
    /\ UNCHANGED <<inUse, pushHead, iteratorCounter, sent>> /\ ProducerKeeps

PushFull ==
    /\ PAt("full")
    /\ PGo(IF RingFull(pushHead) THEN "allocate" ELSE "fill")
    /\ UNCHANGED <<inUse, node, pushHead, iteratorCounter, sent>> /\ ProducerKeeps

\* Mutant: a batch fills the ring whatever it holds.
RoomAnyway == IF producer.op = "one" THEN 1 ELSE NodeSlots

\* A batch fills up to the end of the ring and from its start up to rindex.
Room ==
    LET w == node[pushHead].push % NodeSlots
        r == node[pushHead].pop % NodeSlots
    IN  IF producer.op = "one" THEN 1
        ELSE IF r <= w THEN (NodeSlots - w) + r ELSE r - w

Fill ==
    /\ PAt("fill")
    /\ LET k == Least(producer.left, Room) IN
       /\ node' = [node EXCEPT ![pushHead].ring = Filled(@, node[pushHead].push, k)]
       /\ producer' = [producer EXCEPT
              !.at = IF producer.op = "stream" THEN "shadow" ELSE "publish",
              !.left = @ - k, !.filled = k]
       /\ sent' = sent + k
    /\ UNCHANGED <<inUse, pushHead, iteratorCounter>> /\ ProducerKeeps

Publish ==
    /\ PAt("publish")
    /\ node' = [node EXCEPT ![pushHead].push = StepCounter(@, producer.filled)]
    /\ producer' = IF producer.left = 0 THEN ProducerIdle
                   ELSE [producer EXCEPT !.at = "allocate", !.filled = 0]
    /\ UNCHANGED <<inUse, pushHead, iteratorCounter, sent>> /\ ProducerKeeps

\* A new node is filled before anybody can see it.  Which free address it gets
\* makes no difference.
AllocateNode ==
    /\ PAt("allocate")
    /\ QueueNodes # inUse
    /\ LET n == CHOOSE m \in QueueNodes \ inUse : TRUE
           k == Least(producer.left, NodeSlots)
           fresh == FreshNode(iteratorCounter)
       IN   /\ inUse' = inUse \cup {n}
            /\ node' = [node EXCEPT ![n] = [fresh EXCEPT
                  !.push = StepCounter(@, k), !.ring = Filled(@, iteratorCounter, k)]]
            /\ producer' = [producer EXCEPT !.at = "chain", !.left = @ - k,
                                            !.filled = k, !.fresh = n]
            /\ sent' = sent + k
    /\ iteratorCounter' = StepCounter(iteratorCounter, NodeSlots)
    /\ UNCHANGED pushHead /\ ProducerKeeps

ChainNode ==
    /\ PAt("chain")
    /\ node' = [node EXCEPT ![pushHead].next = producer.fresh]
    /\ PGo("switch")
    /\ UNCHANGED <<inUse, pushHead, iteratorCounter, sent>> /\ ProducerKeeps

SwitchPushHead ==
    /\ PAt("switch")
    /\ pushHead' = producer.fresh
    /\ producer' = IF producer.left = 0 THEN ProducerIdle
                   ELSE [producer EXCEPT !.at = "allocate", !.filled = 0, !.fresh = NoNode]
    /\ UNCHANGED <<inUse, node, iteratorCounter, sent>> /\ ProducerKeeps

---------------------------------------------------------------------------
(* The consumer                                                            *)

ConsumerIdle == [at |-> "idle", op |-> "none", left |-> 0, node |-> NoNode,
                 then |-> "idle", seen |-> <<>>]
CAt(l) == consumer.at = l
CGo(l) == consumer' = [consumer EXCEPT !.at = l]
ConsumerKeeps == UNCHANGED <<pushHead, iteratorCounter, sent, clears, producer>>

\* Start the empty() of node n for c, or a cleanup for c.
AskEmpty(n, c) == [consumer EXCEPT !.at = "maybe", !.node = n, !.then = c]
AskCleanup(c) == [consumer EXCEPT !.at = "cleanup", !.then = c]

\* A client calls empty() and, told there is something, top() and pop(); or
\* pop(n), or pop(from, to), for n elements.
Call(op, n) ==
    /\ CAt("idle")
    /\ op = "one" => n = 1
    /\ LET c == [ConsumerIdle EXCEPT !.op = op, !.left = n]
       IN  consumer' = CASE op = "one" ->
                              [c EXCEPT !.at = "maybe", !.node = popHead, !.then = "look"]
                         [] op = "some" -> [c EXCEPT !.at = "cleanup", !.then = "some"]
                         [] op = "range" ->
                              [c EXCEPT !.at = "maybe", !.node = popHead, !.then = "range"]
    /\ UNCHANGED <<inUse, node, popHead, got>> /\ ConsumerKeeps

\* What empty() of a node returns to whoever asked.
Answer(empty) ==
    consumer' = [consumer EXCEPT !.at = IF empty THEN "empty" ELSE "filled", !.node = NoNode]
Told(l, c) == CAt(l) /\ consumer.then = c

NodeMaybeEmpty ==
    /\ CAt("maybe")
    /\ IF MaybeEmpty(consumer.node) THEN CGo("refresh") ELSE Answer(FALSE)
    /\ UNCHANGED <<inUse, node, popHead, got>> /\ ConsumerKeeps

RefreshPushCached ==
    /\ CAt("refresh")
    /\ node' = [node EXCEPT ![consumer.node].popShadow = node[consumer.node].push]
    /\ CGo("compare")
    /\ UNCHANGED <<inUse, popHead, got>> /\ ConsumerKeeps

NodeEmpty ==
    /\ CAt("compare")
    /\ Answer(node[consumer.node].pop = node[consumer.node].push)
    /\ UNCHANGED <<inUse, node, popHead, got>> /\ ConsumerKeeps

\* Mutant: the list is empty if its first node is.
LookNoFurther ==
    /\ Told("empty", "look")
    /\ consumer' = ConsumerIdle
    /\ UNCHANGED <<inUse, node, popHead, got>> /\ ConsumerKeeps

\* empty() of the list: pop_head is empty, and then is it the last node?
LookPushHead ==
    /\ Told("empty", "look")
    /\ consumer' = IF popHead = pushHead THEN ConsumerIdle ELSE AskEmpty(pushHead, "last")
    /\ UNCHANGED <<inUse, node, popHead, got>> /\ ConsumerKeeps

ListEmpty ==
    /\ Told("filled", "look") \/ Told("filled", "last") \/ Told("empty", "last")
    /\ consumer' = IF CAt("empty") THEN ConsumerIdle ELSE AskCleanup("top")
    /\ UNCHANGED <<inUse, node, popHead, got>> /\ ConsumerKeeps

---------------------------------------------------------------------------
(* cleanup_empty(): a node that is empty and not the last one goes.        *)
(* consumer.then is the place in a call that the cleanup belongs to.       *)

Callers == {"top", "one", "some", "more", "end"}

Cleanup ==
    /\ CAt("cleanup")
    /\ consumer' = IF popHead = pushHead THEN [consumer EXCEPT !.at = "kept"]
                   ELSE AskEmpty(popHead, consumer.then)
    /\ UNCHANGED <<inUse, node, popHead, got>> /\ ConsumerKeeps

\* Mutant: the node is not given back.
RemoveAndKeep ==
    /\ CAt("empty") /\ consumer.then \in Callers
    /\ CGo("removed")
    /\ popHead' = node[popHead].next
    /\ UNCHANGED <<inUse, node, got>> /\ ConsumerKeeps

RemoveNode ==
    /\ CAt("empty") /\ consumer.then \in Callers
    /\ CGo("removed")
    /\ popHead' = node[popHead].next
    /\ inUse' = inUse \ {popHead}
    /\ node' = [node EXCEPT ![popHead] = FreshNode(0)]
    /\ UNCHANGED got /\ ConsumerKeeps

KeepNode ==
    /\ CAt("filled") /\ consumer.then \in Callers
    /\ CGo("kept")
    /\ UNCHANGED <<inUse, node, popHead, got>> /\ ConsumerKeeps

CleanedUp(c) == Told("kept", c) \/ Told("removed", c)

---------------------------------------------------------------------------
(* Taking elements                                                         *)

\* top(), then pop(): its own cleanup, and the element is destroyed.
Top ==
    /\ CleanedUp("top")
    /\ consumer' = [AskCleanup("one") EXCEPT !.seen = Contents(popHead, 1)]
    /\ UNCHANGED <<inUse, node, popHead, got>> /\ ConsumerKeeps

PopOne ==
    /\ CleanedUp("one")
    /\ node' = [node EXCEPT ![popHead].ring = RingEmptied(@, node[popHead].pop, 1)]
    /\ CGo("count")
    /\ UNCHANGED <<inUse, popHead, got>> /\ ConsumerKeeps

\* pop(n) takes what the node has; nobody looks at what it destroys.
PopSome ==
    /\ CleanedUp("some") \/ (Told("removed", "more") /\ consumer.left > 0)
    /\ LET k == Least(consumer.left, SizeOf(popHead)) IN
       /\ node' = [node EXCEPT ![popHead].ring = RingEmptied(@, node[popHead].pop, k)]
       /\ consumer' = [consumer EXCEPT !.at = "count", !.left = @ - k,
                                       !.seen = Contents(popHead, k)]
    /\ UNCHANGED <<inUse, popHead, got>> /\ ConsumerKeeps

\* pop(from, to) on a node that is not empty: from rindex up to windex.
PopRange ==
    /\ Told("filled", "range")
    /\ LET w == node[popHead].push % NodeSlots
           r == node[popHead].pop % NodeSlots
           k == Least(consumer.left, IF w <= r THEN (NodeSlots - r) + w ELSE w - r)
       IN  /\ node' = [node EXCEPT ![popHead].ring = RingEmptied(@, node[popHead].pop, k),
                                   ![popHead].popShadow = node[popHead].push]
           /\ consumer' = [consumer EXCEPT !.at = IF k = 0 THEN "cleanup" ELSE "count",
                              !.then = "end",
                              !.left = @ - k, !.seen = Contents(popHead, k)]
    /\ UNCHANGED <<inUse, popHead, got>> /\ ConsumerKeeps

\* Nothing came out of the node: clean up and, unless done, try again.
RangeEmpty ==
    /\ Told("empty", "range")
    /\ consumer' = AskCleanup("end")
    /\ UNCHANGED <<inUse, node, popHead, got>> /\ ConsumerKeeps

PopPublish ==
    /\ CAt("count")
    /\ node' = [node EXCEPT ![popHead].pop = StepCounter(@, Len(consumer.seen))]
    /\ got' = got \o consumer.seen
    /\ consumer' = [IF consumer.op = "range" THEN AskEmpty(popHead, "range")
                    ELSE AskCleanup(IF consumer.op = "some" THEN "more" ELSE "end")
                    EXCEPT !.seen = <<>>]
    /\ UNCHANGED <<inUse, popHead>> /\ ConsumerKeeps

\* The call returns, or goes on with the next node or spins for more.
Finish ==
    /\ \/ CleanedUp("end")
       \/ Told("kept", "more")
       \/ Told("removed", "more") /\ consumer.left = 0
    /\ consumer' = IF consumer.op = "range" /\ consumer.left > 0
                   THEN AskEmpty(popHead, "range") ELSE ConsumerIdle
    /\ UNCHANGED <<inUse, node, popHead, got>> /\ ConsumerKeeps

---------------------------------------------------------------------------
\* clear() is reset(0), by a client that has both ends to itself.
ClearList ==
    /\ PAt("idle") /\ CAt("idle")
    /\ clears < MaxClears
    /\ clears' = clears + 1
    /\ pushHead' = popHead
    /\ node' = [n \in QueueNodes |-> FreshNode(0)]
    /\ inUse' = {popHead}
    /\ iteratorCounter' = NodeSlots
    /\ UNCHANGED <<popHead, sent, got, producer, consumer>>

QueueInit ==
    LET n == CHOOSE m \in QueueNodes : TRUE IN
        /\ inUse = {n}
        /\ node = [m \in QueueNodes |-> FreshNode(IF m = n THEN FirstCount ELSE 0)]
        /\ pushHead = n /\ popHead = n
        /\ iteratorCounter = NodeSlots
        /\ sent = 0 /\ got = <<>> /\ clears = 0
        /\ producer = ProducerIdle /\ consumer = ConsumerIdle

ProducerStep ==
    \/ PushMaybeFull \/ RefreshPopCached \/ PushFull \/ Fill \/ Publish
    \/ AllocateNode \/ ChainNode \/ SwitchPushHead

ConsumerStep ==
    \/ NodeMaybeEmpty \/ RefreshPushCached \/ NodeEmpty \/ LookPushHead \/ ListEmpty
    \/ Cleanup \/ RemoveNode \/ KeepNode \/ Top \/ PopOne \/ PopSome \/ PopRange
    \/ RangeEmpty \/ PopPublish \/ Finish

QueueNext ==
    \/ \E n \in 1..MaxBatch, op \in {"one", "batch", "stream"} : Push(op, n)
    \/ \E n \in 1..MaxBatch, op \in {"one", "some", "range"} : Call(op, n)
    \/ ProducerStep
    \/ ConsumerStep
    \/ ClearList

QueueSpec == QueueInit /\ [][QueueNext]_queueVars

---------------------------------------------------------------------------
QueueTypeOK ==
    /\ inUse \subseteq QueueNodes
    /\ node \in [QueueNodes -> [next : QueueNodes \cup {NoNode},
                           push : 0..(Limit - 1), pop : 0..(Limit - 1),
                           pushShadow : 0..(Limit - 1), popShadow : 0..(Limit - 1),
                           ring : [Ring -> 0..MaxSent]]]
    /\ pushHead \in QueueNodes /\ popHead \in QueueNodes
    /\ iteratorCounter \in 0..(Limit - 1)
    /\ sent \in 0..MaxSent /\ clears \in 0..MaxClears
    /\ got \in Seq(1..MaxSent)
    /\ producer.left \in 0..MaxBatch /\ producer.filled \in 0..NodeSlots
    /\ consumer.left \in 0..MaxBatch

\* The way from pop_head to push_head, following next, on which no node comes twice.
IsChain(c) ==
    /\ c[1] = popHead /\ c[Len(c)] = pushHead
    /\ \A i \in 1..(Len(c) - 1) : node[c[i]].next = c[i + 1]
    /\ \A i, j \in 1..Len(c) : c[i] = c[j] => i = j
Paths == UNION {[1..k -> inUse] : k \in 1..Cardinality(inUse)}

\* Slots of node n that a call in progress has filled, or emptied, but not yet counted.
Filling(n) == IF n = pushHead /\ producer.fresh = NoNode THEN producer.filled ELSE 0
Taking(n) == IF n = popHead /\ CAt("count") THEN Len(consumer.seen) ELSE 0

\* The allocated nodes are those of a way c and the one the producer is about to chain.
Chained(c) ==
    /\ IsChain(c)
    /\ inUse = {c[i] : i \in 1..Len(c)} \cup ({producer.fresh} \ {NoNode})
    /\ \A i \in 1..Len(c) : c[i] # producer.fresh

\* The slots of node n that hold elements.
SlotsSound(n) ==
    /\ SizeOf(n) + Filling(n) <= NodeSlots
    /\ {i \in Ring : node[n].ring[i] # 0}
          = Covered(node[n].pop + Taking(n), SizeOf(n) + Filling(n) - Taking(n))

\* What maybe_full() and maybe_empty() say of node n without another look: a shadow only
\* lags behind the counter it is a copy of, so a "no" is exact.
NegativeExact(n) ==
    /\ ~MaybeFull(n) => ~RingFull(n)
    /\ ~MaybeEmpty(n) => node[n].pop # node[n].push

\* No node is leaked, freed while it is in use or chained twice: the nodes
\* that are allocated are those between pop_head and push_head and the one
\* the producer is about to chain.  In every node exactly the slots between
\* the two counters hold elements, but for the few that a call in progress
\* wrote or destroyed: what the consumer is handed was constructed.  And where
\* the shadows deny that it is full or empty, it is not.
NodesSound ==
    /\ \E c \in Paths : Chained(c)
    /\ consumer.node \in inUse \cup {NoNode}
    /\ \A n \in inUse : SlotsSound(n) /\ NegativeExact(n)

\* The list is a first-in first-out queue of what has been published.
Queued ==
    LET c == CHOOSE p \in Paths : IsChain(p)
        upTo[i \in 0..Len(c)] ==
            IF i = 0 THEN <<>> ELSE upTo[i - 1] \o Contents(c[i], SizeOf(c[i]))
    IN  upTo[Len(c)]

\* What pop() is about to count out has left its slots already.
Inside ==
    IF CAt("count")
    THEN consumer.seen \o SubSeq(Queued, Len(consumer.seen) + 1, Len(Queued))
    ELSE Queued

Lossless == INSTANCE Fifo WITH sent <- sent - producer.filled, queue <- Inside, got <- got
RefinesFifo == Lossless!FifoSpec

\* Whatever is pushed comes out while the consumer keeps popping, though the
\* producer may stop for ever between two pushes: the consumer catches up.
EverythingArrives == []<>(Len(got) = sent \/ clears > 0)
============================================================================
