---------------------------- MODULE Queue_proofs ----------------------------
(***************************************************************************)
(* Proofs about QueueList, for every number of nodes and elements, every   *)
(* number of slots that is a power of two, every width of the counters and *)
(* wherever they start: the nodes that are allocated form the chain        *)
(* between the two heads, and in each of them just the slots between the   *)
(* counters hold elements (ListIsSound), and the list is a first-in        *)
(* first-out queue (ListIsAFifo).                                          *)
(*                                                                         *)
(* Where the slots are not a power of two, a negative difference that      *)
(* crosses the limit comes out positive, and both are false.               *)
(***************************************************************************)
EXTENDS QueueList, Counting

(***************************************************************************)
(* Differences of counters                                                 *)
(***************************************************************************)
Dist(a, b) == (a + Limit - b) % Limit
Count == 0..(Limit - 1)

LEMMA Numbers ==
  /\ Limit \in Nat /\ NodeSlots \in Nat /\ NodeSlots > 0 /\ MaxSent \in Nat
  /\ NodeSlots < Limit /\ MaxSent < Limit /\ NodeSlots < Sign /\ MaxSent < Sign
  /\ Sign \in Nat /\ WordSize \in Nat /\ Limit <= WordSize /\ Sign + MaxSent <= Limit
BY QueueAssumption, CounterAssumption

LEMMA DistIs ==
  ASSUME NEW a \in Count, NEW b \in Count
  PROVE  Dist(a, b) = (IF a >= b THEN a - b ELSE a + Limit - b) /\ Dist(a, b) \in Count
<1>1. Limit \in Nat /\ Limit > 0
  BY Numbers
<1>2. \A x \in 0..(Limit - 1) : x % Limit = x /\ (x + Limit) % Limit = x
  BY <1>1
<1>3. CASE a >= b
  <2>1. a - b \in 0..(Limit - 1) /\ a + Limit - b = (a - b) + Limit
    BY <1>1, <1>3 DEF Count
  <2> QED
    BY <1>2, <1>3, <2>1 DEF Dist, Count
<1>4. CASE a < b
  <2>1. a + Limit - b \in 0..(Limit - 1)
    BY <1>1, <1>4 DEF Count
  <2> QED
    BY <1>2, <1>4, <2>1 DEF Dist, Count
<1> QED
  BY <1>3, <1>4 DEF Count

LEMMA DistNat == ASSUME NEW a \in Count, NEW b \in Count PROVE Dist(a, b) \in Nat
<1>1. Dist(a, b) \in Count
  BY DistIs
<1> QED
  BY <1>1, Numbers DEF Count

LEMMA DiffIs ==
  ASSUME PowerOfTwoSlots, NEW a \in Count, NEW b \in Count
  PROVE  DiffCounter(a, b) = IF Dist(a, b) >= Sign THEN Dist(a, b) - WordSize ELSE Dist(a, b)
<1>1. Limit = WordSize
  BY DEF Limit
<1>2. Dist(a, b) \in 0..(Limit - 1) /\ Dist(a, b) = (a + Limit - b) % WordSize
  BY <1>1, DistIs DEF Dist, Count
<1>3. ~ (Dist(a, b) >= Limit)
  BY <1>2, Numbers
<1> QED
  BY <1>2, <1>3 DEF DiffCounter

LEMMA StepIs ==
  ASSUME NEW a \in Count, NEW k \in 0..NodeSlots
  PROVE  /\ StepCounter(a, k) = (IF a + k < Limit THEN a + k ELSE a + k - Limit)
         /\ StepCounter(a, k) \in Count
<1>1. Limit \in Nat /\ Limit > 0 /\ NodeSlots \in Nat /\ NodeSlots < Limit
  BY Numbers
<1>2. \A x \in 0..(Limit - 1) : x % Limit = x /\ (x + Limit) % Limit = x
  BY <1>1
<1>3. a \in 0..(Limit - 1) /\ k \in Nat /\ k < Limit
  BY <1>1 DEF Count
<1>4. CASE a + k < Limit
  <2>1. a + k \in 0..(Limit - 1)
    BY <1>1, <1>3, <1>4
  <2>2. (a + k) % Limit = a + k
    BY <1>2, <2>1
  <2> QED
    BY <1>4, <2>1, <2>2 DEF StepCounter, Count
<1>5. CASE ~ (a + k < Limit)
  <2>1. a + k - Limit \in 0..(Limit - 1) /\ a + k = (a + k - Limit) + Limit
    BY <1>1, <1>3, <1>5
  <2>2. (a + k) % Limit = a + k - Limit
    BY <1>2, <2>1
  <2> QED
    BY <1>5, <2>1, <2>2 DEF StepCounter, Count
<1> QED
  BY <1>4, <1>5

\* Counting forward on the left, or on the right, of a distance.
LEMMA DistForth ==
  ASSUME NEW a \in Count, NEW b \in Count, NEW k \in 0..NodeSlots, Dist(a, b) + k < Limit
  PROVE  Dist(StepCounter(a, k), b) = Dist(a, b) + k
<1> DEFINE d == StepCounter(a, k)
<1>1. d = (IF a + k < Limit THEN a + k ELSE a + k - Limit) /\ d \in Count
  BY StepIs
<1>2. Dist(a, b) = (IF a >= b THEN a - b ELSE a + Limit - b)
  BY DistIs
<1>3. Dist(d, b) = (IF d >= b THEN d - b ELSE d + Limit - b)
  BY <1>1, DistIs
<1>4. Limit \in Nat /\ NodeSlots \in Nat /\ a \in 0..(Limit - 1) /\ b \in 0..(Limit - 1)
  BY Numbers DEF Count
<1> QED
  BY <1>1, <1>2, <1>3, <1>4

LEMMA DistBack ==
  ASSUME NEW a \in Count, NEW b \in Count, NEW k \in 0..NodeSlots, k <= Dist(a, b)
  PROVE  Dist(a, StepCounter(b, k)) = Dist(a, b) - k
<1> DEFINE d == StepCounter(b, k)
<1>1. d = (IF b + k < Limit THEN b + k ELSE b + k - Limit) /\ d \in Count
  BY StepIs
<1>2. Dist(a, b) = (IF a >= b THEN a - b ELSE a + Limit - b)
  BY DistIs
<1>3. Dist(a, d) = (IF a >= d THEN a - d ELSE a + Limit - d)
  BY <1>1, DistIs
<1>4. Limit \in Nat /\ NodeSlots \in Nat /\ a \in 0..(Limit - 1) /\ b \in 0..(Limit - 1)
  BY Numbers DEF Count
<1> QED
  BY <1>1, <1>2, <1>3, <1>4

LEMMA DistSelf == ASSUME NEW a \in Count PROVE Dist(a, a) = 0
BY DistIs, Numbers DEF Count

(***************************************************************************)
(* The slots of a ring                                                     *)
(***************************************************************************)
\* How many slots i comes after the one that counter c points to.
Offset(i, c) == (i + NodeSlots - (c % NodeSlots)) % NodeSlots

LEMMA SlotOf ==
  ASSUME NEW c \in Nat
  PROVE  (c % NodeSlots) \in Ring
BY Numbers DEF Ring

LEMMA SlotAfter ==
  ASSUME NEW c \in Nat, NEW k \in 0..NodeSlots
  PROVE  ((c + k) % NodeSlots) = IF (c % NodeSlots) + k < NodeSlots THEN (c % NodeSlots) + k
                               ELSE (c % NodeSlots) + k - NodeSlots
<1>1. NodeSlots \in Nat /\ NodeSlots > 0
  BY Numbers
<1> DEFINE q == c \div NodeSlots
           r == (c % NodeSlots)
<1>2. q \in Int /\ r \in 0..(NodeSlots - 1) /\ c = NodeSlots * q + r
  BY <1>1
<1>3. \A z \in Int, d \in 0..(NodeSlots - 1) : (NodeSlots * z + d) % NodeSlots = d
  BY <1>1
<1> HIDE DEF q, r
<1>4. CASE r + k < NodeSlots
  <2>1. c + k = NodeSlots * q + (r + k) /\ r + k \in 0..(NodeSlots - 1)
    BY <1>1, <1>2, <1>4
  <2> QED
    BY <1>2, <1>3, <1>4, <2>1 DEF r
<1>5. CASE ~ (r + k < NodeSlots)
  <2>1. c + k = NodeSlots * (q + 1) + (r + k - NodeSlots) /\ r + k - NodeSlots \in 0..(NodeSlots - 1)
    BY <1>1, <1>2, <1>5
  <2> QED
    BY <1>2, <1>3, <1>5, <2>1 DEF r
<1> QED
  BY <1>4, <1>5

\* The limit of the counters is a multiple of the number of slots.
LEMMA SlotWraps ==
  ASSUME NEW c \in Nat, c >= Limit
  PROVE  ((c - Limit) % NodeSlots) = (c % NodeSlots)
<1>1. NodeSlots \in Nat /\ NodeSlots > 0 /\ Limit \in Nat /\ Limit % NodeSlots = 0
  BY Numbers, CounterAssumption
<1> DEFINE q == c \div NodeSlots
           r == (c % NodeSlots)
           m == Limit \div NodeSlots
<1>2. q \in Int /\ r \in 0..(NodeSlots - 1) /\ c = NodeSlots * q + r
  BY <1>1
<1>3. m \in Int /\ Limit = NodeSlots * m
  BY <1>1
<1>4. \A z \in Int, d \in 0..(NodeSlots - 1) : (NodeSlots * z + d) % NodeSlots = d
  BY <1>1
<1> HIDE DEF q, r, m
<1> DEFINE z == q - m
<1>5. z \in Int /\ c - Limit = NodeSlots * z + r
  BY <1>1, <1>2, <1>3
<1> HIDE DEF z
<1>6. (c - Limit) % NodeSlots = r
  BY <1>2, <1>4, <1>5
<1> QED
  BY <1>6 DEF r

LEMMA SlotStep ==
  ASSUME NEW c \in Count, NEW k \in 0..NodeSlots
  PROVE  StepCounter(c, k) % NodeSlots = ((c + k) % NodeSlots)
<1>1. StepCounter(c, k) = IF c + k < Limit THEN c + k ELSE c + k - Limit
  BY StepIs
<1>2. c \in Nat /\ c + k \in Nat
  BY Numbers DEF Count
<1> QED
  BY <1>1, <1>2, SlotWraps, Numbers

LEMMA OffsetIs ==
  ASSUME NEW c \in Nat, NEW i \in Ring
  PROVE  /\ Offset(i, c) = (IF i >= (c % NodeSlots) THEN i - (c % NodeSlots)
                            ELSE i + NodeSlots - (c % NodeSlots))
         /\ Offset(i, c) \in Ring
<1>1. NodeSlots \in Nat /\ NodeSlots > 0 /\ (c % NodeSlots) \in 0..(NodeSlots - 1)
  BY Numbers
<1>2. i \in 0..(NodeSlots - 1)
  BY DEF Ring
<1>3. \A x \in 0..(NodeSlots - 1) : x % NodeSlots = x /\ (x + NodeSlots) % NodeSlots = x
  BY <1>1
<1> DEFINE r == (c % NodeSlots)
<1>4. Offset(i, c) = (i + NodeSlots - r) % NodeSlots
  BY DEF Offset
<1> HIDE DEF r
<1>5. r \in 0..(NodeSlots - 1)
  BY <1>1 DEF r
<1>6. CASE i >= r
  <2>1. i - r \in 0..(NodeSlots - 1) /\ i + NodeSlots - r = (i - r) + NodeSlots
    BY <1>1, <1>2, <1>5, <1>6
  <2> QED
    BY <1>3, <1>4, <1>6, <2>1 DEF Ring, r
<1>7. CASE ~ (i >= r)
  <2>1. i + NodeSlots - r \in 0..(NodeSlots - 1)
    BY <1>1, <1>2, <1>5, <1>7
  <2> QED
    BY <1>3, <1>4, <1>7, <2>1 DEF Ring, r
<1> QED
  BY <1>6, <1>7

LEMMA OffsetAfter ==
  ASSUME NEW c \in Nat, NEW i \in Ring, NEW k \in 0..NodeSlots
  PROVE  Offset(i, c + k) = IF Offset(i, c) >= k THEN Offset(i, c) - k
                            ELSE Offset(i, c) + NodeSlots - k
<1>1. NodeSlots \in Nat /\ NodeSlots > 0 /\ (c % NodeSlots) \in 0..(NodeSlots - 1)
  BY Numbers
<1>2. i \in 0..(NodeSlots - 1)
  BY DEF Ring
<1>3. ((c + k) % NodeSlots) = IF (c % NodeSlots) + k < NodeSlots THEN (c % NodeSlots) + k
                            ELSE (c % NodeSlots) + k - NodeSlots
  BY SlotAfter
<1>4. Offset(i, c) = (IF i >= (c % NodeSlots) THEN i - (c % NodeSlots)
                      ELSE i + NodeSlots - (c % NodeSlots))
  BY OffsetIs
<1>5. c + k \in Nat
  BY <1>1
<1>6. Offset(i, c + k) = (IF i >= ((c + k) % NodeSlots) THEN i - ((c + k) % NodeSlots)
                          ELSE i + NodeSlots - ((c + k) % NodeSlots))
  BY <1>5, OffsetIs
<1> DEFINE r == (c % NodeSlots)
           d == ((c + k) % NodeSlots)
<1>7. r \in 0..(NodeSlots - 1) /\ d = (IF r + k < NodeSlots THEN r + k ELSE r + k - NodeSlots)
  BY <1>1, <1>3
<1>8. Offset(i, c) = (IF i >= r THEN i - r ELSE i + NodeSlots - r)
  BY <1>4
<1>9. Offset(i, c + k) = (IF i >= d THEN i - d ELSE i + NodeSlots - d)
  BY <1>6
<1> HIDE DEF r, d
<1> QED
  BY <1>1, <1>2, <1>7, <1>8, <1>9

LEMMA CoveredIs == ASSUME NEW c, NEW k PROVE Covered(c, k) = {i \in Ring : Offset(i, c) < k}
BY DEF Covered, Offset

\* k slots and then m more.
LEMMA CoveredJoin ==
  ASSUME NEW c \in Nat, NEW k \in 0..NodeSlots, NEW m \in 0..NodeSlots, k + m <= NodeSlots
  PROVE  Covered(c, k) \cup Covered(c + k, m) = Covered(c, k + m)
<1>1. NodeSlots \in Nat /\ NodeSlots > 0
  BY Numbers
<1>2. ASSUME NEW i \in Ring
      PROVE  Offset(i, c) < k \/ Offset(i, c + k) < m <=> Offset(i, c) < k + m
  <2>1. Offset(i, c) \in 0..(NodeSlots - 1)
    BY OffsetIs DEF Ring
  <2>2. Offset(i, c + k) = IF Offset(i, c) >= k THEN Offset(i, c) - k
                           ELSE Offset(i, c) + NodeSlots - k
    BY OffsetAfter
  <2> QED
    BY <1>1, <2>1, <2>2
<1> QED
  BY <1>2, CoveredIs

LEMMA CoveredRest ==
  ASSUME NEW c \in Nat, NEW n \in 0..NodeSlots, NEW k \in 0..NodeSlots, k <= n
  PROVE  Covered(c, n) \ Covered(c, k) = Covered(c + k, n - k)
<1>1. NodeSlots \in Nat /\ NodeSlots > 0
  BY Numbers
<1>2. ASSUME NEW i \in Ring
      PROVE  Offset(i, c) < n /\ ~ (Offset(i, c) < k) <=> Offset(i, c + k) < n - k
  <2>1. Offset(i, c) \in 0..(NodeSlots - 1)
    BY OffsetIs DEF Ring
  <2>2. Offset(i, c + k) = IF Offset(i, c) >= k THEN Offset(i, c) - k
                           ELSE Offset(i, c) + NodeSlots - k
    BY OffsetAfter
  <2> QED
    BY <1>1, <2>1, <2>2
<1> QED
  BY <1>2, CoveredIs

\* Only the slot of a counter matters.
LEMMA CoveredSame ==
  ASSUME NEW c, NEW d, NEW k, (c % NodeSlots) = d % NodeSlots
  PROVE  Covered(c, k) = Covered(d, k)
BY DEF Covered

LEMMA CoveredNone == ASSUME NEW c \in Nat PROVE Covered(c, 0) = {}
<1>1. \A i \in Ring : Offset(i, c) \in Ring
  BY OffsetIs
<1>2. \A i \in Ring : ~ (Offset(i, c) < 0)
  BY <1>1, Numbers DEF Ring
<1> QED
  BY <1>2, CoveredIs

(***************************************************************************)
(* The invariant of the list                                               *)
(***************************************************************************)
Size(n) == Dist(node[n].push, node[n].pop)

ProducerPlaces == {"idle", "maybe", "refresh", "full", "fill", "shadow", "publish",
                   "allocate", "chain", "switch"}
ConsumerPlaces == {"idle", "maybe", "refresh", "compare", "empty", "filled", "cleanup",
                   "kept", "removed", "count"}
Askers == {"idle", "look", "last", "range"} \cup Callers

NodeFields == [next : QueueNodes \cup {NoNode}, push : Count, pop : Count,
               pushShadow : Count, popShadow : Count, ring : [Ring -> 0..MaxSent]]

ProducerStates ==
  [at : ProducerPlaces, op : {"none", "one", "batch", "stream"},
   left : 0..MaxBatch, filled : 0..NodeSlots,
   fresh : QueueNodes \cup {NoNode}]
ConsumerStates ==
  [at : ConsumerPlaces, op : {"none", "one", "some", "range"},
   left : 0..MaxBatch, node : QueueNodes \cup {NoNode},
   then : Askers, seen : Seq(1..MaxSent)]

QueueTyped ==
  /\ PowerOfTwoSlots
  /\ inUse \subseteq QueueNodes /\ node \in [QueueNodes -> NodeFields]
  /\ pushHead \in QueueNodes /\ popHead \in QueueNodes
  /\ iteratorCounter \in Count
  /\ sent \in 0..MaxSent /\ clears \in 0..MaxClears /\ got \in Seq(1..MaxSent)
  /\ producer \in ProducerStates
  /\ consumer \in ConsumerStates

\* Where the producer has filled nothing that it has not counted.
Calm == {"idle", "maybe", "refresh", "full", "fill", "allocate"}

ProducerAt ==
  /\ producer.fresh # NoNode <=> producer.at \in {"chain", "switch"}
  /\ producer.at \in Calm => producer.filled = 0
  /\ producer.at \in Calm \ {"idle"} => producer.left >= 1
  /\ producer.op = "one" => producer.left <= 1
  /\ sent + producer.left <= MaxSent
  /\ producer.at = "switch" => node[pushHead].next = producer.fresh
  /\ producer.at = "fill" => Size(pushHead) < NodeSlots

\* The elements between the counters fit, and the shadows are behind the counters, not
\* so far that a difference changes its sign.  Only the first node may be empty.
RingFits(n) ==
  /\ Size(n) + Filling(n) <= NodeSlots
  /\ Size(n) <= Dist(node[n].push, node[n].pushShadow)
  /\ Dist(node[n].push, node[n].pushShadow) + Filling(n) <= sent
  /\ Dist(node[n].push, node[n].popShadow) + Filling(n) <= sent
  /\ n # popHead => Size(n) >= 1

Holding(n) == {i \in Ring : node[n].ring[i] # 0}
RingHolds(n) ==
  Holding(n) = Covered(node[n].pop + Taking(n), Size(n) + Filling(n) - Taking(n))

ChainThere == \E c \in Paths : Chained(c)
RingsSound == \A n \in inUse : RingFits(n) /\ RingHolds(n)

Asking == {"maybe", "refresh", "compare"}

\* What the consumer has found out stays true until it acts on it.
ConsumerAt ==
  /\ consumer.at \in Asking =>
       consumer.node \in inUse /\ (consumer.then # "last" => consumer.node = popHead)
  /\ consumer.at \notin Asking => consumer.node = NoNode
  /\ consumer.at = "idle" => consumer.then = "idle"
  /\ consumer.then = "last" => popHead # pushHead
  /\ consumer.then \in Callers /\ consumer.at \in Asking \cup {"empty", "filled"}
       => popHead # pushHead
  /\ consumer.then = "top" /\ consumer.at = "cleanup" => popHead # pushHead \/ Size(popHead) >= 1
  /\ consumer.then # "last" /\ consumer.at = "filled" => Size(popHead) >= 1
  /\ consumer.then = "top" /\ consumer.at \in {"kept", "removed"} => Size(popHead) >= 1
  /\ consumer.then = "one" => Size(popHead) >= 1 /\ Len(consumer.seen) = 1
  /\ consumer.at = "count" => Len(consumer.seen) <= Size(popHead)

QueueInv == QueueTyped /\ ProducerAt /\ ConsumerAt /\ ChainThere /\ RingsSound

---------------------------------------------------------------------------
LEMMA HeadsInUse ==
  ASSUME ChainThere PROVE pushHead \in inUse /\ popHead \in inUse
<1>1. PICK k \in 1..Cardinality(inUse) : \E c \in [1..k -> inUse] : Chained(c)
  BY DEF ChainThere, Paths
<1>2. PICK c \in [1..k -> inUse] : Chained(c)
  BY <1>1
<1>3. c[1] = popHead /\ c[Len(c)] = pushHead
  BY <1>2 DEF Chained, IsChain
<1>4. k \in Nat /\ k >= 1
  BY <1>1
<1>5. Len(c) = k
  BY <1>4
<1> QED
  BY <1>3, <1>4, <1>5

LEMMA ChainKept ==
  ASSUME ChainThere, UNCHANGED <<inUse, popHead, pushHead>>,
         producer'.fresh = producer.fresh, \A n \in inUse : node'[n].next = node[n].next
  PROVE  ChainThere'
<1>1. PICK c \in Paths : Chained(c)
  BY DEF ChainThere
<1>2. \A i \in 1..Len(c) : c[i] \in inUse
  BY <1>1 DEF Chained
<1>3. Chained(c)'
  BY <1>1, <1>2 DEF Chained, IsChain
<1>4. c \in Paths'
  BY <1>1 DEF Paths
<1> QED
  BY <1>3, <1>4 DEF ChainThere

LEMMA RingKept ==
  ASSUME NEW n \in inUse, RingFits(n), RingHolds(n), node'[n] = node[n], popHead' = popHead,
         sent' = sent, Filling(n)' = Filling(n), Taking(n)' = Taking(n)
  PROVE  RingFits(n)' /\ RingHolds(n)'
BY DEF RingFits, RingHolds, Size, Holding

LEMMA RingsKept ==
  ASSUME RingsSound, UNCHANGED <<inUse, node, popHead, sent>>,
         \A n \in inUse : Filling(n)' = Filling(n) /\ Taking(n)' = Taking(n)
  PROVE  RingsSound'
BY RingKept DEF RingsSound

LEMMA DistZero ==
  ASSUME NEW a \in Count, NEW b \in Count PROVE Dist(a, b) = 0 <=> a = b
<1>1. Dist(a, b) = (IF a >= b THEN a - b ELSE a + Limit - b)
  BY DistIs
<1> QED
  BY <1>1, Numbers DEF Count

LEMMA FieldTypes ==
  ASSUME QueueTyped, NEW n \in inUse
  PROVE  /\ n \in QueueNodes /\ node[n] \in NodeFields
         /\ node[n].push \in Count /\ node[n].pop \in Count
         /\ node[n].pushShadow \in Count /\ node[n].popShadow \in Count
         /\ node[n].next \in QueueNodes \cup {NoNode} /\ node[n].ring \in [Ring -> 0..MaxSent]
         /\ Size(n) \in Nat
<1>1. n \in QueueNodes /\ node[n] \in NodeFields
  BY DEF QueueTyped
<1>2. node[n].push \in Count /\ node[n].pop \in Count
  BY <1>1 DEF NodeFields
<1>3. Size(n) \in Count
  BY <1>2, DistIs DEF Size
<1> QED
  BY <1>1, <1>2, <1>3, Numbers DEF NodeFields, Count

LEMMA FillTypes ==
  ASSUME QueueTyped, NEW n \in inUse
  PROVE  Filling(n) \in 0..NodeSlots /\ Taking(n) \in Nat
BY Numbers DEF QueueTyped, ProducerStates, ConsumerStates, Filling, Taking

\* size() is exact.
LEMMA SizeIs ==
  ASSUME QueueTyped, NEW n \in inUse, RingFits(n)
  PROVE  SizeOf(n) = Size(n) /\ Size(n) \in 0..NodeSlots
<1>1. node[n].push \in Count /\ node[n].pop \in Count /\ Size(n) \in Nat
  BY FieldTypes
<1>2. Filling(n) \in 0..NodeSlots
  BY FillTypes
<1>3. Size(n) <= NodeSlots
  BY <1>1, <1>2, Numbers DEF RingFits
<1>4. DiffCounter(node[n].push, node[n].pop) =
        IF Size(n) >= Sign THEN Size(n) - WordSize ELSE Size(n)
  BY <1>1, DiffIs DEF Size, QueueTyped
<1> QED
  BY <1>1, <1>3, <1>4, Numbers DEF SizeOf

\* maybe_full() that says no is right, although the shadow may be behind.
LEMMA NotMaybeFull ==
  ASSUME QueueTyped, NEW n \in inUse, RingFits(n), ~ MaybeFull(n)
  PROVE  Size(n) < NodeSlots
<1>1. node[n].push \in Count /\ node[n].pushShadow \in Count /\ Size(n) \in Nat
  BY FieldTypes
<1> DEFINE d == Dist(node[n].push, node[n].pushShadow)
<1>2. d \in Count /\ DiffCounter(node[n].push, node[n].pushShadow) =
                       IF d >= Sign THEN d - WordSize ELSE d
  BY <1>1, DiffIs, DistIs DEF QueueTyped
<1>3. Filling(n) \in 0..NodeSlots /\ sent \in 0..MaxSent
  BY FillTypes DEF QueueTyped
<1>4. Size(n) <= d /\ d + Filling(n) <= sent
  BY DEF RingFits
<1> HIDE DEF d
<1>5. d < Sign
  BY <1>2, <1>3, <1>4, Numbers DEF Count
<1>6. ~ (d >= NodeSlots)
  BY <1>2, <1>5, Numbers DEF MaybeFull, Count
<1> QED
  BY <1>1, <1>2, <1>4, <1>6, Numbers DEF Count

LEMMA NotFull ==
  ASSUME QueueTyped, NEW n \in inUse, RingFits(n), ~ RingFull(n)
  PROVE  Size(n) < NodeSlots
<1>1. node[n].push \in Count /\ node[n].pop \in Count /\ Size(n) \in 0..NodeSlots
  BY FieldTypes, SizeIs
<1> SUFFICES ASSUME Size(n) = NodeSlots PROVE FALSE
  BY <1>1, Numbers
<1>2. NodeSlots \in 0..NodeSlots
  BY Numbers
<1>3. StepCounter(node[n].pop, NodeSlots) \in Count
  BY <1>1, <1>2, StepIs
<1>4. NodeSlots <= Dist(node[n].push, node[n].pop) /\ Size(n) - NodeSlots = 0
  BY <1>1, Numbers DEF Size
<1>5. Dist(node[n].push, StepCounter(node[n].pop, NodeSlots)) = 0
  BY <1>1, <1>2, <1>4, DistBack DEF Size
<1> QED
  BY <1>1, <1>3, <1>5, DistZero DEF RingFull

\* maybe_empty() that says no is right.
LEMMA NotMaybeEmpty ==
  ASSUME QueueTyped, NEW n \in inUse, RingFits(n), ~ MaybeEmpty(n)
  PROVE  Size(n) >= 1
<1>1. /\ node[n].push \in Count /\ node[n].pop \in Count /\ node[n].popShadow \in Count
      /\ Size(n) \in Nat
  BY FieldTypes
<1> SUFFICES ASSUME Size(n) = 0 PROVE FALSE
  BY <1>1
<1>2. node[n].push = node[n].pop
  BY <1>1, DistZero DEF Size
<1> DEFINE a == node[n].popShadow
           b == node[n].pop
<1>3. Dist(b, a) = (IF b >= a THEN b - a ELSE b + Limit - a)
  BY <1>1, DistIs
<1>4. Dist(a, b) = (IF a >= b THEN a - b ELSE a + Limit - b)
  BY <1>1, DistIs
<1>5. Filling(n) \in 0..NodeSlots /\ sent \in 0..MaxSent
  BY FillTypes DEF QueueTyped
<1>6. Dist(b, a) <= MaxSent
  <2>1. Dist(b, a) + Filling(n) <= sent
    BY <1>2 DEF RingFits
  <2>2. Dist(b, a) \in Count
    BY <1>1, DistIs
  <2> QED
    BY <1>5, <2>1, <2>2, Numbers DEF Count
<1>7. DiffCounter(a, b) = IF Dist(a, b) >= Sign THEN Dist(a, b) - WordSize ELSE Dist(a, b)
  BY <1>1, DiffIs DEF QueueTyped
<1>8. a \in 0..(Limit - 1) /\ b \in 0..(Limit - 1)
  BY <1>1 DEF Count
<1>9. ~ (DiffCounter(a, b) <= 0)
  BY DEF MaybeEmpty
<1> HIDE DEF a, b
<1> QED
  BY <1>3, <1>4, <1>6, <1>7, <1>8, <1>9, Numbers

LEMMA NotEmpty ==
  ASSUME QueueTyped, NEW n \in inUse, node[n].pop # node[n].push
  PROVE  Size(n) >= 1
<1>1. node[n].push \in Count /\ node[n].pop \in Count /\ Size(n) \in Nat
  BY FieldTypes
<1>2. Size(n) # 0
  BY <1>1, DistZero DEF Size
<1> QED
  BY <1>1, <1>2

---------------------------------------------------------------------------
(* Steps that change only where the producer, or the consumer, is.         *)

LEMMA ProducerMoves ==
  ASSUME QueueInv, ProducerKeeps, UNCHANGED <<inUse, node, pushHead, iteratorCounter, sent>>,
         producer' \in ProducerStates,
         producer'.filled = producer.filled, producer'.fresh = producer.fresh, ProducerAt'
  PROVE  QueueInv'
<1>1. QueueTyped'
  BY DEF QueueInv, QueueTyped, ProducerKeeps
<1>2. ConsumerAt'
  BY DEF QueueInv, ConsumerAt, ProducerKeeps, Size
<1>3. ChainThere'
  BY ChainKept DEF QueueInv, ProducerKeeps
<1>4. RingsSound'
  BY RingsKept DEF QueueInv, ProducerKeeps, Filling, Taking, CAt
<1> QED
  BY <1>1, <1>2, <1>3, <1>4 DEF QueueInv

LEMMA ConsumerMoves ==
  ASSUME QueueInv, ConsumerKeeps, UNCHANGED <<inUse, node, popHead, got>>,
         consumer' \in ConsumerStates,
         consumer.at # "count", consumer'.at # "count", ConsumerAt'
  PROVE  QueueInv'
<1>1. QueueTyped'
  BY DEF QueueInv, QueueTyped, ConsumerKeeps
<1>2. ProducerAt'
  BY DEF QueueInv, ProducerAt, ConsumerKeeps, Size
<1>3. ChainThere'
  BY ChainKept DEF QueueInv, ConsumerKeeps
<1>4. RingsSound'
  BY RingsKept DEF QueueInv, ConsumerKeeps, Filling, Taking, CAt
<1> QED
  BY <1>1, <1>2, <1>3, <1>4 DEF QueueInv

LEMMA PushStep ==
  ASSUME QueueInv, NEW n \in 1..MaxBatch, NEW op \in {"one", "batch", "stream"}, Push(op, n)
  PROVE  QueueInv'
<1>1. /\ producer.at = "idle" /\ sent + n <= MaxSent /\ (op = "one" => n = 1)
      /\ producer' = [at |-> IF op = "one" THEN "maybe" ELSE "full", op |-> op,
                      left |-> n, filled |-> 0, fresh |-> NoNode]
      /\ UNCHANGED <<inUse, node, pushHead, iteratorCounter, sent>> /\ ProducerKeeps
  BY DEF Push, PAt
<1>2. producer.filled = 0 /\ producer.fresh = NoNode
  BY <1>1 DEF QueueInv, ProducerAt, Calm, QueueTyped
<1>3. ProducerAt'
  BY <1>1, QueueAssumption DEF ProducerAt, Calm
<1>4. /\ producer' \in ProducerStates
      /\ producer'.filled = producer.filled /\ producer'.fresh = producer.fresh
  BY <1>1, <1>2, Numbers DEF ProducerPlaces, ProducerStates
<1> QED
  BY <1>1, <1>3, <1>4, ProducerMoves

LEMMA PushMaybeFullStep ==
  ASSUME QueueInv, PushMaybeFull PROVE QueueInv'
<1> DEFINE l == IF MaybeFull(pushHead) THEN "refresh" ELSE "fill"
<1>1. /\ producer.at = "maybe" /\ producer' = [producer EXCEPT !.at = l]
      /\ UNCHANGED <<inUse, node, pushHead, iteratorCounter, sent>> /\ ProducerKeeps
  BY DEF PushMaybeFull, PAt, PGo
<1>2. l = "fill" => Size(pushHead) < NodeSlots
  BY HeadsInUse, NotMaybeFull DEF QueueInv, RingsSound
<1>3. l \in {"refresh", "fill"}
  OBVIOUS
<1> HIDE DEF l
<1>4. /\ producer' \in ProducerStates
      /\ producer'.filled = producer.filled /\ producer'.fresh = producer.fresh
  BY <1>1, <1>3 DEF ProducerPlaces, ProducerStates, QueueInv, QueueTyped
<1>5. ProducerAt'
  <2>1. /\ producer'.at = l /\ producer'.left = producer.left /\ producer'.op = producer.op
        /\ producer'.filled = producer.filled /\ producer'.fresh = producer.fresh
    BY <1>1 DEF QueueInv, QueueTyped
  <2> QED
    BY <1>1, <1>2, <1>3, <2>1 DEF ProducerAt, Calm, QueueInv, Size
<1> QED
  BY <1>1, <1>4, <1>5, ProducerMoves

LEMMA PushFullStep ==
  ASSUME QueueInv, PushFull PROVE QueueInv'
<1> DEFINE l == IF RingFull(pushHead) THEN "allocate" ELSE "fill"
<1>1. /\ producer.at = "full" /\ producer' = [producer EXCEPT !.at = l]
      /\ UNCHANGED <<inUse, node, pushHead, iteratorCounter, sent>> /\ ProducerKeeps
  BY DEF PushFull, PAt, PGo
<1>2. l = "fill" => Size(pushHead) < NodeSlots
  BY HeadsInUse, NotFull DEF QueueInv, RingsSound
<1>3. l \in {"allocate", "fill"}
  OBVIOUS
<1> HIDE DEF l
<1>4. /\ producer' \in ProducerStates
      /\ producer'.filled = producer.filled /\ producer'.fresh = producer.fresh
  BY <1>1, <1>3 DEF ProducerPlaces, ProducerStates, QueueInv, QueueTyped
<1>5. ProducerAt'
  <2>1. /\ producer'.at = l /\ producer'.left = producer.left /\ producer'.op = producer.op
        /\ producer'.filled = producer.filled /\ producer'.fresh = producer.fresh
    BY <1>1 DEF QueueInv, QueueTyped
  <2> QED
    BY <1>1, <1>2, <1>3, <2>1 DEF ProducerAt, Calm, QueueInv, Size
<1> QED
  BY <1>1, <1>4, <1>5, ProducerMoves

LEMMA CalledTyped ==
  ASSUME NEW l \in ConsumerPlaces, NEW o \in {"none", "one", "some", "range"},
         NEW k \in 0..MaxBatch, NEW n \in QueueNodes \cup {NoNode}, NEW t \in Askers
  PROVE  [at |-> l, op |-> o, left |-> k, node |-> n, then |-> t, seen |-> <<>>]
           \in ConsumerStates
<1>1. <<>> \in Seq(1..MaxSent)
  OBVIOUS
<1> DEFINE e == <<>>
<1> HIDE DEF e
<1>2. e \in Seq(1..MaxSent)
  BY <1>1 DEF e
<1>3. [at |-> l, op |-> o, left |-> k, node |-> n, then |-> t, seen |-> e] \in ConsumerStates
  BY <1>2 DEF ConsumerStates
<1> QED
  BY <1>3 DEF e

LEMMA IdleTyped == ConsumerIdle \in ConsumerStates
<1>1. /\ "idle" \in ConsumerPlaces /\ "idle" \in Askers /\ 0 \in 0..MaxBatch
      /\ NoNode \in QueueNodes \cup {NoNode}
  BY QueueAssumption DEF ConsumerPlaces, Askers
<1> QED
  BY <1>1, CalledTyped DEF ConsumerIdle

LEMMA CallStep ==
  ASSUME QueueInv, NEW n \in 1..MaxBatch, NEW op \in {"one", "some", "range"}, Call(op, n)
  PROVE  QueueInv'
<1> DEFINE c == [ConsumerIdle EXCEPT !.op = op, !.left = n]
<1>1. /\ consumer.at = "idle"
      /\ consumer' = CASE op = "one" ->
                            [c EXCEPT !.at = "maybe", !.node = popHead, !.then = "look"]
                       [] op = "some" -> [c EXCEPT !.at = "cleanup", !.then = "some"]
                       [] op = "range" ->
                            [c EXCEPT !.at = "maybe", !.node = popHead, !.then = "range"]
      /\ UNCHANGED <<inUse, node, popHead, got>> /\ ConsumerKeeps
  BY DEF Call, CAt
<1>2. popHead \in inUse /\ popHead \in QueueNodes
  BY HeadsInUse DEF QueueInv, QueueTyped
<1> DEFINE called(l, m, t) ==
             [at |-> l, op |-> op, left |-> n, node |-> m, then |-> t, seen |-> <<>>]
<1>3. \/ consumer' = called("maybe", popHead, "look")
      \/ consumer' = called("cleanup", NoNode, "some")
      \/ consumer' = called("maybe", popHead, "range")
  BY <1>1 DEF ConsumerIdle
<1>4. consumer' \in ConsumerStates
  <2>1. \A l \in ConsumerPlaces, m \in QueueNodes \cup {NoNode}, t \in Askers :
          called(l, m, t) \in ConsumerStates
    BY CalledTyped, QueueAssumption
  <2>2. /\ "maybe" \in ConsumerPlaces /\ "cleanup" \in ConsumerPlaces
        /\ "look" \in Askers /\ "some" \in Askers /\ "range" \in Askers
    BY DEF ConsumerPlaces, Askers, Callers
  <2> HIDE DEF called
  <2> QED
    BY <1>2, <1>3, <2>1, <2>2
<1>5. \/ /\ consumer'.at = "maybe" /\ consumer'.node = popHead
         /\ consumer'.then \in {"look", "range"}
      \/ consumer'.at = "cleanup" /\ consumer'.node = NoNode /\ consumer'.then = "some"
  BY <1>3
<1> HIDE DEF called
<1>6. ConsumerAt'
  BY <1>1, <1>2, <1>5 DEF ConsumerAt, Asking, Callers
<1>7. consumer.at # "count" /\ consumer'.at # "count"
  BY <1>1, <1>5
<1> QED
  BY <1>1, <1>4, <1>6, <1>7, ConsumerMoves

LEMMA NodeMaybeEmptyStep ==
  ASSUME QueueInv, NodeMaybeEmpty PROVE QueueInv'
<1>1. /\ consumer.at = "maybe"
      /\ UNCHANGED <<inUse, node, popHead, got>> /\ ConsumerKeeps
      /\ \/ consumer' = [consumer EXCEPT !.at = "refresh"]
         \/ /\ ~ MaybeEmpty(consumer.node)
            /\ consumer' = [consumer EXCEPT !.at = "filled", !.node = NoNode]
  BY DEF NodeMaybeEmpty, CAt, CGo, Answer
<1>2. /\ consumer.node \in inUse /\ (consumer.then # "last" => consumer.node = popHead)
      /\ (consumer.then = "last" => popHead # pushHead)
      /\ (consumer.then = "one" => Size(popHead) >= 1 /\ Len(consumer.seen) = 1)
      /\ (consumer.then \in Callers => popHead # pushHead)
  BY <1>1 DEF QueueInv, ConsumerAt, Asking
<1>3. /\ consumer' \in ConsumerStates
      /\ consumer'.then = consumer.then /\ consumer'.seen = consumer.seen
      /\ \/ consumer'.at = "refresh" /\ consumer'.node = consumer.node
         \/ ~ MaybeEmpty(consumer.node) /\ consumer'.at = "filled" /\ consumer'.node = NoNode
  BY <1>1 DEF QueueInv, QueueTyped, ConsumerPlaces, ConsumerStates
<1>4. ~ MaybeEmpty(consumer.node) => Size(consumer.node) >= 1
  BY <1>2, NotMaybeEmpty DEF QueueInv, RingsSound
<1>5. pushHead' = pushHead /\ Size(popHead)' = Size(popHead)
  BY <1>1 DEF ConsumerKeeps, Size
<1>6. ConsumerAt'
  BY <1>1, <1>2, <1>3, <1>4, <1>5 DEF ConsumerAt, Asking, Callers
<1>7. consumer.at # "count" /\ consumer'.at # "count"
  BY <1>1, <1>3
<1> QED
  BY <1>1, <1>3, <1>6, <1>7, ConsumerMoves

LEMMA NodeEmptyStep ==
  ASSUME QueueInv, NodeEmpty PROVE QueueInv'
<1> DEFINE empty == node[consumer.node].pop = node[consumer.node].push
           l == IF empty THEN "empty" ELSE "filled"
<1>1. /\ consumer.at = "compare"
      /\ UNCHANGED <<inUse, node, popHead, got>> /\ ConsumerKeeps
      /\ consumer' = [consumer EXCEPT !.at = l, !.node = NoNode]
  BY DEF NodeEmpty, CAt, Answer
<1>2. /\ consumer.node \in inUse /\ (consumer.then # "last" => consumer.node = popHead)
      /\ (consumer.then = "last" => popHead # pushHead)
      /\ (consumer.then = "one" => Size(popHead) >= 1 /\ Len(consumer.seen) = 1)
      /\ (consumer.then \in Callers => popHead # pushHead)
  BY <1>1 DEF QueueInv, ConsumerAt, Asking
<1>3. l \in {"empty", "filled"}
  OBVIOUS
<1>4. l = "filled" => Size(consumer.node) >= 1
  BY <1>2, NotEmpty DEF QueueInv
<1> HIDE DEF l
<1>5. /\ consumer' \in ConsumerStates
      /\ consumer'.then = consumer.then /\ consumer'.at = l /\ consumer'.node = NoNode
      /\ consumer'.seen = consumer.seen
  BY <1>1, <1>3 DEF QueueInv, QueueTyped, ConsumerPlaces, ConsumerStates
<1>6. pushHead' = pushHead /\ Size(popHead)' = Size(popHead)
  BY <1>1 DEF ConsumerKeeps, Size
<1>7. ConsumerAt'
  BY <1>1, <1>2, <1>3, <1>4, <1>5, <1>6 DEF ConsumerAt, Asking, Callers
<1>8. consumer.at # "count" /\ consumer'.at # "count"
  BY <1>1, <1>3, <1>5
<1> QED
  BY <1>1, <1>5, <1>7, <1>8, ConsumerMoves

LEMMA LookPushHeadStep ==
  ASSUME QueueInv, LookPushHead PROVE QueueInv'
<1>1. /\ consumer.at = "empty" /\ consumer.then = "look"
      /\ UNCHANGED <<inUse, node, popHead, got>> /\ ConsumerKeeps
      /\ \/ popHead = pushHead /\ consumer' = ConsumerIdle
         \/ /\ popHead # pushHead
            /\ consumer' = [consumer EXCEPT !.at = "maybe", !.node = pushHead, !.then = "last"]
  BY DEF LookPushHead, CAt, Told, AskEmpty
<1>2. pushHead \in inUse /\ pushHead \in QueueNodes
  BY HeadsInUse DEF QueueInv, QueueTyped
<1>3. /\ consumer' \in ConsumerStates
      /\ \/ consumer'.at = "idle" /\ consumer'.node = NoNode /\ consumer'.then = "idle"
         \/ /\ consumer'.at = "maybe" /\ consumer'.node = pushHead /\ consumer'.then = "last"
            /\ popHead # pushHead
  <2>1. CASE popHead = pushHead /\ consumer' = ConsumerIdle
    BY <2>1, IdleTyped DEF ConsumerIdle
  <2>2. CASE popHead # pushHead /\
             consumer' = [consumer EXCEPT !.at = "maybe", !.node = pushHead, !.then = "last"]
    BY <1>2, <2>2 DEF QueueInv, QueueTyped, ConsumerPlaces, ConsumerStates, Askers
  <2> QED
    BY <1>1, <2>1, <2>2
<1>4. ConsumerAt'
  BY <1>1, <1>2, <1>3 DEF ConsumerAt, Asking, Callers, ConsumerKeeps
<1>5. consumer.at # "count" /\ consumer'.at # "count"
  BY <1>1, <1>3
<1> QED
  BY <1>1, <1>3, <1>4, <1>5, ConsumerMoves

LEMMA ListEmptyStep ==
  ASSUME QueueInv, ListEmpty PROVE QueueInv'
<1>1. /\ UNCHANGED <<inUse, node, popHead, got>> /\ ConsumerKeeps
      /\ \/ consumer.at = "empty" /\ consumer' = ConsumerIdle
         \/ /\ consumer.at = "filled" /\ consumer.then \in {"look", "last"}
            /\ consumer' = [consumer EXCEPT !.at = "cleanup", !.then = "top"]
  BY DEF ListEmpty, CAt, Told, AskCleanup
<1>2. /\ consumer' \in ConsumerStates
      /\ \/ consumer'.at = "idle" /\ consumer'.node = NoNode /\ consumer'.then = "idle"
         \/ /\ consumer'.at = "cleanup" /\ consumer'.node = consumer.node
            /\ consumer'.then = "top"
            /\ consumer.at = "filled" /\ consumer.then \in {"look", "last"}
  <2>1. CASE consumer.at = "empty" /\ consumer' = ConsumerIdle
    BY <2>1, IdleTyped DEF ConsumerIdle
  <2>2. CASE /\ consumer.at = "filled" /\ consumer.then \in {"look", "last"}
             /\ consumer' = [consumer EXCEPT !.at = "cleanup", !.then = "top"]
    BY <2>2 DEF QueueInv, QueueTyped, ConsumerPlaces, ConsumerStates, Askers, Callers
  <2> QED
    BY <1>1, <2>1, <2>2
<1>3. consumer.at = "filled" /\ consumer.then \in {"look", "last"} =>
        consumer.node = NoNode /\ (popHead # pushHead \/ Size(popHead) >= 1)
  BY DEF QueueInv, ConsumerAt, Asking
<1>4. pushHead' = pushHead /\ Size(popHead)' = Size(popHead)
  BY <1>1 DEF ConsumerKeeps, Size
<1>5. ConsumerAt'
  BY <1>1, <1>2, <1>3, <1>4 DEF ConsumerAt, Asking, Callers
<1>6. consumer.at # "count" /\ consumer'.at # "count"
  BY <1>1, <1>2
<1> QED
  BY <1>1, <1>2, <1>5, <1>6, ConsumerMoves

\* The m-th slot from a counter on is m slots after it.
LEMMA OffsetOf ==
  ASSUME NEW c \in Nat, NEW m \in Ring
  PROVE  ((c + m) % NodeSlots) \in Ring /\ Offset((c + m) % NodeSlots, c) = m
<1>1. NodeSlots \in Nat /\ NodeSlots > 0 /\ m \in 0..(NodeSlots - 1) /\ c + m \in Nat
  BY Numbers DEF Ring
<1> DEFINE r == (c % NodeSlots)
           d == ((c + m) % NodeSlots)
<1>2. d = IF r + m < NodeSlots THEN r + m ELSE r + m - NodeSlots
  <2>1. m \in 0..NodeSlots
    BY <1>1
  <2> QED
    BY ONLY <2>1, c \in Nat, SlotAfter
<1>3. d \in Ring /\ r \in Ring
  BY <1>1, SlotOf
<1>4. Offset(d, c) = (IF d >= r THEN d - r ELSE d + NodeSlots - r)
  BY <1>3, OffsetIs
<1>5. r \in 0..(NodeSlots - 1)
  BY <1>3 DEF Ring
<1> HIDE DEF r, d
<1>6. Offset(d, c) = m
  BY <1>1, <1>2, <1>4, <1>5
<1> QED
  BY <1>3, <1>6 DEF d

\* What the consumer takes out was constructed.
LEMMA ContentsTyped ==
  ASSUME QueueTyped, NEW n \in inUse, RingFits(n), RingHolds(n), Taking(n) = 0,
         NEW k \in 0..Size(n)
  PROVE  Contents(n, k) \in Seq(1..MaxSent) /\ Len(Contents(n, k)) = k
<1>1. /\ node[n].pop \in Nat /\ Size(n) \in 0..NodeSlots /\ Filling(n) \in 0..NodeSlots
      /\ node[n].ring \in [Ring -> 0..MaxSent] /\ Size(n) + Filling(n) <= NodeSlots
      /\ MaxSent \in Nat /\ NodeSlots \in Nat /\ NodeSlots > 0
  BY FieldTypes, FillTypes, SizeIs, Numbers DEF Count, RingFits
<1> DEFINE p == node[n].pop
<1>2. ASSUME NEW j \in 1..k PROVE node[n].ring[(p + j - 1) % NodeSlots] \in 1..MaxSent
  <2> DEFINE m == j - 1
  <2>1. m \in Ring /\ m < Size(n) + Filling(n) /\ p + j - 1 = p + m
    BY <1>1 DEF Ring
  <2> HIDE DEF m
  <2> DEFINE i == ((p + m) % NodeSlots)
  <2>2. i \in Ring /\ Offset(i, p) = m
    BY <1>1, <2>1, OffsetOf
  <2> HIDE DEF i
  <2>3. i \in Covered(p, Size(n) + Filling(n))
    BY <2>1, <2>2, CoveredIs
  <2>4. i \in Holding(n)
    <3>1. p + Taking(n) = p /\ Size(n) + Filling(n) - Taking(n) = Size(n) + Filling(n)
      BY <1>1
    <3> QED
      BY <2>3, <3>1 DEF RingHolds
  <2>5. node[n].ring[i] \in 1..MaxSent
    BY <1>1, <2>2, <2>4 DEF Holding
  <2> QED
    BY <2>1, <2>5 DEF i
<1>3. k \in Nat
  BY <1>1
<1>4. Contents(n, k) \in [1..k -> 1..MaxSent]
  BY <1>2 DEF Contents
<1> DEFINE s == Contents(n, k)
           S == 1..MaxSent
<1> HIDE DEF s, S
<1>5. s \in [1..k -> S]
  BY <1>4 DEF s, S
<1>6. s \in Seq(S) /\ Len(s) = k
  BY <1>3, <1>5
<1> QED
  BY <1>6 DEF s, S

LEMMA CleanupStep ==
  ASSUME QueueInv, Cleanup PROVE QueueInv'
<1>1. /\ consumer.at = "cleanup"
      /\ UNCHANGED <<inUse, node, popHead, got>> /\ ConsumerKeeps
      /\ \/ popHead = pushHead /\ consumer' = [consumer EXCEPT !.at = "kept"]
         \/ /\ popHead # pushHead
            /\ consumer' = [consumer EXCEPT !.at = "maybe", !.node = popHead]
  <2>1. /\ consumer.at = "cleanup"
        /\ UNCHANGED <<inUse, node, popHead, got>> /\ ConsumerKeeps
        /\ consumer' = IF popHead = pushHead THEN [consumer EXCEPT !.at = "kept"]
                       ELSE AskEmpty(popHead, consumer.then)
    BY DEF Cleanup, CAt
  <2>2. AskEmpty(popHead, consumer.then) = [consumer EXCEPT !.at = "maybe", !.node = popHead]
    BY DEF AskEmpty, QueueInv, QueueTyped, ConsumerStates
  <2> QED
    BY <2>1, <2>2
<1>2. popHead \in inUse /\ popHead \in QueueNodes
  BY HeadsInUse DEF QueueInv, QueueTyped
<1>3. /\ consumer' \in ConsumerStates /\ consumer'.then = consumer.then
      /\ consumer'.seen = consumer.seen
      /\ \/ consumer'.at = "kept" /\ consumer'.node = consumer.node /\ popHead = pushHead
         \/ consumer'.at = "maybe" /\ consumer'.node = popHead /\ popHead # pushHead
  BY <1>1, <1>2 DEF QueueInv, QueueTyped, ConsumerPlaces, ConsumerStates
<1>4. pushHead' = pushHead /\ Size(popHead)' = Size(popHead)
  BY <1>1 DEF ConsumerKeeps, Size
<1>5. ConsumerAt'
  BY <1>1, <1>2, <1>3, <1>4 DEF ConsumerAt, Asking, Callers, QueueInv
<1>6. consumer.at # "count" /\ consumer'.at # "count"
  BY <1>1, <1>3
<1> QED
  BY <1>1, <1>3, <1>5, <1>6, ConsumerMoves

LEMMA KeepNodeStep ==
  ASSUME QueueInv, KeepNode PROVE QueueInv'
<1>1. /\ consumer.at = "filled" /\ consumer.then \in Callers
      /\ UNCHANGED <<inUse, node, popHead, got>> /\ ConsumerKeeps
      /\ consumer' = [consumer EXCEPT !.at = "kept"]
  BY DEF KeepNode, CAt, CGo
<1>2. /\ consumer' \in ConsumerStates /\ consumer'.then = consumer.then
      /\ consumer'.at = "kept" /\ consumer'.node = consumer.node
      /\ consumer'.seen = consumer.seen
  BY <1>1 DEF QueueInv, QueueTyped, ConsumerPlaces, ConsumerStates
<1>3. pushHead' = pushHead /\ Size(popHead)' = Size(popHead)
  BY <1>1 DEF ConsumerKeeps, Size
<1>4. ConsumerAt'
  BY <1>1, <1>2, <1>3 DEF ConsumerAt, Asking, Callers, QueueInv
<1>5. consumer.at # "count" /\ consumer'.at # "count"
  BY <1>1, <1>2
<1> QED
  BY <1>1, <1>2, <1>4, <1>5, ConsumerMoves

LEMMA TopStep ==
  ASSUME QueueInv, Top PROVE QueueInv'
<1>1. /\ consumer.at \in {"kept", "removed"} /\ consumer.then = "top"
      /\ UNCHANGED <<inUse, node, popHead, got>> /\ ConsumerKeeps
      /\ consumer' = [consumer EXCEPT !.at = "cleanup", !.then = "one",
                                      !.seen = Contents(popHead, 1)]
  BY DEF Top, CleanedUp, Told, CAt, AskCleanup
<1>2. popHead \in inUse /\ RingFits(popHead) /\ RingHolds(popHead)
  BY HeadsInUse DEF QueueInv, RingsSound
<1>3. consumer.node = NoNode /\ Size(popHead) >= 1 /\ Taking(popHead) = 0
  BY <1>1 DEF QueueInv, ConsumerAt, Asking, Taking, CAt
<1>4. 1 \in 0..Size(popHead)
  BY <1>2, <1>3, FieldTypes DEF QueueInv
<1>5. Contents(popHead, 1) \in Seq(1..MaxSent) /\ Len(Contents(popHead, 1)) = 1
  BY <1>2, <1>3, <1>4, ContentsTyped DEF QueueInv
<1>6. /\ consumer' \in ConsumerStates /\ consumer'.then = "one"
      /\ consumer'.at = "cleanup" /\ consumer'.node = consumer.node
      /\ Len(consumer.seen)' = 1
  BY <1>1, <1>5 DEF QueueInv, QueueTyped, ConsumerPlaces, ConsumerStates, Askers, Callers
<1>7. pushHead' = pushHead /\ Size(popHead)' = Size(popHead)
  BY <1>1 DEF ConsumerKeeps, Size
<1>8. ConsumerAt'
  BY <1>1, <1>3, <1>6, <1>7 DEF ConsumerAt, Asking, Callers
<1>9. consumer.at # "count" /\ consumer'.at # "count"
  BY <1>1, <1>6
<1> QED
  BY <1>1, <1>6, <1>8, <1>9, ConsumerMoves

LEMMA RangeEmptyStep ==
  ASSUME QueueInv, RangeEmpty PROVE QueueInv'
<1>1. /\ consumer.at = "empty" /\ consumer.then = "range"
      /\ UNCHANGED <<inUse, node, popHead, got>> /\ ConsumerKeeps
      /\ consumer' = [consumer EXCEPT !.at = "cleanup", !.then = "end"]
  BY DEF RangeEmpty, Told, CAt, AskCleanup
<1>2. /\ consumer' \in ConsumerStates /\ consumer'.then = "end"
      /\ consumer'.at = "cleanup" /\ consumer'.node = consumer.node
  BY <1>1 DEF QueueInv, QueueTyped, ConsumerPlaces, ConsumerStates, Askers, Callers
<1>3. consumer.node = NoNode
  BY <1>1 DEF QueueInv, ConsumerAt, Asking
<1>4. ConsumerAt'
  BY <1>1, <1>2, <1>3 DEF ConsumerAt, Asking, Callers
<1>5. consumer.at # "count" /\ consumer'.at # "count"
  BY <1>1, <1>2
<1> QED
  BY <1>1, <1>2, <1>4, <1>5, ConsumerMoves

LEMMA FinishStep ==
  ASSUME QueueInv, Finish PROVE QueueInv'
<1>1. /\ consumer.at \in {"kept", "removed"}
      /\ UNCHANGED <<inUse, node, popHead, got>> /\ ConsumerKeeps
      /\ \/ consumer' = ConsumerIdle
         \/ consumer' = [consumer EXCEPT !.at = "maybe", !.node = popHead, !.then = "range"]
  BY DEF Finish, CleanedUp, Told, CAt, AskEmpty
<1>2. popHead \in inUse /\ popHead \in QueueNodes
  BY HeadsInUse DEF QueueInv, QueueTyped
<1>3. /\ consumer' \in ConsumerStates
      /\ \/ consumer'.at = "idle" /\ consumer'.node = NoNode /\ consumer'.then = "idle"
         \/ consumer'.at = "maybe" /\ consumer'.node = popHead /\ consumer'.then = "range"
  <2>1. CASE consumer' = ConsumerIdle
    BY <2>1, IdleTyped DEF ConsumerIdle
  <2>2. CASE consumer' = [consumer EXCEPT !.at = "maybe", !.node = popHead, !.then = "range"]
    BY <1>2, <2>2 DEF QueueInv, QueueTyped, ConsumerPlaces, ConsumerStates, Askers
  <2> QED
    BY <1>1, <2>1, <2>2
<1>4. ConsumerAt'
  BY <1>1, <1>2, <1>3 DEF ConsumerAt, Asking, Callers
<1>5. consumer.at # "count" /\ consumer'.at # "count"
  BY <1>1, <1>3
<1> QED
  BY <1>1, <1>3, <1>4, <1>5, ConsumerMoves

---------------------------------------------------------------------------
(* Steps of the producer that write a field                                *)

LEMMA NodeSet ==
  ASSUME QueueTyped, NEW p \in QueueNodes, NEW r \in NodeFields, node' = [node EXCEPT ![p] = r]
  PROVE  /\ node' \in [QueueNodes -> NodeFields] /\ node'[p] = r
         /\ \A n \in QueueNodes \ {p} : node'[n] = node[n]
BY DEF QueueTyped

\* A ring that nobody touches stays sound while more elements are sent.
LEMMA RingStays ==
  ASSUME QueueTyped, NEW n \in inUse, RingFits(n), RingHolds(n), node'[n] = node[n],
         popHead' = popHead, sent' \in Nat, sent <= sent',
         Filling(n)' = Filling(n), Taking(n)' = Taking(n)
  PROVE  RingFits(n)' /\ RingHolds(n)'
<1>1. /\ node[n].push \in Count /\ node[n].pushShadow \in Count /\ node[n].popShadow \in Count
      /\ Filling(n) \in Nat /\ sent \in Nat
  BY FieldTypes, FillTypes, Numbers DEF QueueTyped
<1> DEFINE a == Dist(node[n].push, node[n].pushShadow)
           b == Dist(node[n].push, node[n].popShadow)
<1>2. a \in Nat /\ b \in Nat
  BY <1>1, DistNat
<1>3. a + Filling(n) <= sent /\ b + Filling(n) <= sent
  BY DEF RingFits
<1> HIDE DEF a, b
<1>4. a + Filling(n) <= sent' /\ b + Filling(n) <= sent'
  BY <1>1, <1>2, <1>3
<1>5. RingFits(n)'
  BY <1>4 DEF RingFits, Size, a, b
<1>6. RingHolds(n)'
  BY DEF RingHolds, Size, Holding
<1> QED
  BY <1>5, <1>6

LEMMA OneRing ==
  ASSUME QueueTyped, RingsSound, NEW p \in inUse, UNCHANGED <<inUse, popHead>>,
         sent' \in Nat, sent <= sent',
         \A n \in inUse \ {p} :
           node'[n] = node[n] /\ Filling(n)' = Filling(n) /\ Taking(n)' = Taking(n),
         RingFits(p)', RingHolds(p)'
  PROVE  RingsSound'
BY RingStays DEF RingsSound

LEMMA RefreshPopCachedStep ==
  ASSUME QueueInv, RefreshPopCached PROVE QueueInv'
<1> DEFINE p == pushHead
           r == [node[p] EXCEPT !.pushShadow = node[p].pop]
           l == IF producer.at = "refresh" THEN "full" ELSE "publish"
<1>1. /\ producer.at \in {"refresh", "shadow"}
      /\ node' = [node EXCEPT ![p] = r]
      /\ producer' = [producer EXCEPT !.at = l]
      /\ UNCHANGED <<inUse, pushHead, iteratorCounter, sent, got, clears, consumer, popHead>>
  BY DEF RefreshPopCached, PAt, PGo, ProducerKeeps
<1>2. p \in inUse /\ p \in QueueNodes /\ RingFits(p) /\ RingHolds(p)
  BY HeadsInUse DEF QueueInv, QueueTyped, RingsSound
<1>3. /\ node[p] \in NodeFields /\ node[p].push \in Count /\ node[p].pop \in Count
      /\ node[p].pushShadow \in Count /\ Size(p) \in Nat
  BY <1>2, FieldTypes DEF QueueInv
<1>4. /\ r \in NodeFields /\ r.push = node[p].push /\ r.pop = node[p].pop
      /\ r.pushShadow = node[p].pop /\ r.popShadow = node[p].popShadow
      /\ r.ring = node[p].ring /\ r.next = node[p].next
  BY <1>3 DEF NodeFields
<1>5. l \in {"full", "publish"} /\ (l = "full" <=> producer.at = "refresh")
  BY <1>1
<1> HIDE DEF r, l
<1>6. /\ node' \in [QueueNodes -> NodeFields] /\ node'[p] = r
      /\ \A n \in QueueNodes \ {p} : node'[n] = node[n]
  BY <1>1, <1>2, <1>4, NodeSet DEF QueueInv
<1>7. /\ producer' \in ProducerStates /\ producer'.at = l /\ producer'.left = producer.left
      /\ producer'.op = producer.op /\ producer'.filled = producer.filled
      /\ producer'.fresh = producer.fresh
  BY <1>1, <1>5 DEF QueueInv, QueueTyped, ProducerStates, ProducerPlaces
<1>8. \A n \in QueueNodes : /\ node'[n].next = node[n].next /\ Size(n)' = Size(n)
                            /\ Filling(n)' = Filling(n) /\ Taking(n)' = Taking(n)
  BY <1>1, <1>4, <1>6, <1>7 DEF Size, Filling, Taking, CAt
<1>9. QueueTyped'
  BY <1>1, <1>6, <1>7 DEF QueueInv, QueueTyped
<1>10. ProducerAt'
  BY <1>1, <1>2, <1>5, <1>7, <1>8 DEF QueueInv, ProducerAt, Calm
<1>11. ConsumerAt'
  BY <1>1, <1>8 DEF QueueInv, ConsumerAt, QueueTyped
<1>12. ChainThere'
  BY <1>1, <1>7, <1>8, ChainKept DEF QueueInv, QueueTyped
<1>13. RingFits(p)' /\ RingHolds(p)'
  <2>1. /\ Size(p) <= Dist(node[p].push, node[p].pushShadow)
        /\ Dist(node[p].push, node[p].pushShadow) + Filling(p) <= sent
        /\ Size(p) + Filling(p) <= NodeSlots
    BY <1>2 DEF RingFits
  <2>2. Dist(node[p].push, node[p].pushShadow) \in Nat /\ Filling(p) \in Nat /\ sent \in Nat
    <3>1. Dist(node[p].push, node[p].pushShadow) \in Nat
      BY <1>3, DistNat
    <3>2. Filling(p) \in 0..NodeSlots
      BY <1>2, FillTypes DEF QueueInv
    <3> QED
      BY <3>1, <3>2, Numbers DEF QueueInv, QueueTyped
  <2>3. Size(p) + Filling(p) <= sent
    BY <1>3, <2>1, <2>2
  <2>4. Dist(node[p].push, node[p].pop) = Size(p)
    BY DEF Size
  <2>5. RingFits(p)'
    BY <1>1, <1>2, <1>3, <1>4, <1>6, <1>8, <2>3, <2>4 DEF RingFits
  <2>6. RingHolds(p)'
    BY <1>1, <1>2, <1>4, <1>6, <1>8 DEF RingHolds, Holding
  <2> QED
    BY <2>5, <2>6
<1>14. RingsSound'
  <2>1. sent' \in Nat /\ sent <= sent'
    BY <1>1 DEF QueueInv, QueueTyped
  <2>2. inUse \subseteq QueueNodes
    BY DEF QueueInv, QueueTyped
  <2> QED
    BY <1>1, <1>2, <1>6, <1>8, <1>13, <2>1, <2>2, OneRing DEF QueueInv
<1> QED
  BY <1>9, <1>10, <1>11, <1>12, <1>14 DEF QueueInv

\* Counting on by the distance leads from the one counter to the other.
LEMMA SizeApart ==
  ASSUME QueueTyped, NEW n \in inUse, RingFits(n)
  PROVE  (node[n].push % NodeSlots) = ((node[n].pop + Size(n)) % NodeSlots)
<1>1. node[n].push \in Count /\ node[n].pop \in Count /\ Size(n) \in 0..NodeSlots
  BY FieldTypes, SizeIs
<1> DEFINE a == node[n].push
           b == node[n].pop
           k == Size(n)
<1>2. Dist(a, b) = (IF a >= b THEN a - b ELSE a + Limit - b) /\ k = Dist(a, b)
  BY <1>1, DistIs DEF Size
<1>3. StepCounter(b, k) = (IF b + k < Limit THEN b + k ELSE b + k - Limit)
  BY <1>1, StepIs
<1>4. StepCounter(b, k) % NodeSlots = ((b + k) % NodeSlots)
  BY <1>1, SlotStep
<1> HIDE DEF a, b, k
<1>5. StepCounter(b, k) = a
  BY <1>1, <1>2, <1>3, Numbers DEF a, b, Count
<1> QED
  BY <1>4, <1>5 DEF a, b, k

\* What the consumer is taking out of a node is in it.
LEMMA TakingFits ==
  ASSUME QueueTyped, ConsumerAt, NEW n \in inUse
  PROVE  Taking(n) \in 0..Size(n)
<1>1. Size(n) \in Nat /\ Taking(n) \in Nat
  BY FieldTypes, FillTypes
<1>2. Taking(n) <= Size(n)
  BY <1>1 DEF Taking, CAt, ConsumerAt
<1> QED
  BY <1>1, <1>2

\* The room for a batch is what the ring does not hold.
LEMMA RoomIs ==
  ASSUME QueueTyped, pushHead \in inUse, RingFits(pushHead), Size(pushHead) < NodeSlots
  PROVE  Room \in 1..(NodeSlots - Size(pushHead))
<1> DEFINE w == (node[pushHead].push % NodeSlots)
           r == (node[pushHead].pop % NodeSlots)
           k == Size(pushHead)
<1>1. node[pushHead].pop \in Nat /\ k \in 0..NodeSlots
  BY FieldTypes, SizeIs, Numbers DEF Count
<1>2. r \in 0..(NodeSlots - 1)
  BY <1>1, SlotOf DEF Ring
<1>3. w = IF r + k < NodeSlots THEN r + k ELSE r + k - NodeSlots
  BY <1>1, SizeApart, SlotAfter
<1>4. Room = IF producer.op = "one" THEN 1
             ELSE IF r <= w THEN (NodeSlots - w) + r ELSE r - w
  BY DEF Room
<1>5. k < NodeSlots
  OBVIOUS
<1> HIDE DEF w, r, k
<1>6. Room \in 1..(NodeSlots - k)
  BY <1>1, <1>2, <1>3, <1>4, <1>5, Numbers
<1> QED
  BY <1>6 DEF k

LEMMA FilledIs ==
  ASSUME NEW ring \in [Ring -> 0..MaxSent], NEW c \in Nat, NEW k \in Nat,
         sent \in Nat, sent + k <= MaxSent
  PROVE  /\ Filled(ring, c, k) \in [Ring -> 0..MaxSent]
         /\ {i \in Ring : Filled(ring, c, k)[i] # 0} = Covered(c, k) \cup {i \in Ring : ring[i] # 0}
<1>1. ASSUME NEW i \in Ring
      PROVE  /\ i \in Covered(c, k) => Filled(ring, c, k)[i] \in 1..MaxSent
             /\ i \notin Covered(c, k) => Filled(ring, c, k)[i] = ring[i]
  <2>1. CASE i \in Covered(c, k)
    <3>1. Offset(i, c) \in 0..(NodeSlots - 1) /\ Offset(i, c) < k
      BY <2>1, OffsetIs, CoveredIs DEF Ring
    <3>2. Filled(ring, c, k)[i] = sent + 1 + Offset(i, c)
      BY <2>1 DEF Filled, Offset
    <3> HIDE DEF Offset
    <3> QED
      BY <2>1, <3>1, <3>2, Numbers
  <2>2. CASE i \notin Covered(c, k)
    BY <2>2 DEF Filled
  <2> QED
    BY <2>1, <2>2
<1>2. Covered(c, k) \subseteq Ring
  BY DEF Covered
<1>3. \A i \in Ring : Filled(ring, c, k)[i] \in 0..MaxSent
  BY <1>1, Numbers
<1>4. Filled(ring, c, k) \in [Ring -> 0..MaxSent]
  BY <1>3 DEF Filled
<1>5. \A i \in Ring : Filled(ring, c, k)[i] # 0 <=> i \in Covered(c, k) \/ ring[i] # 0
  BY <1>1, Numbers
<1> QED
  BY <1>2, <1>4, <1>5

LEMMA EmptiedIs ==
  ASSUME NEW ring \in [Ring -> 0..MaxSent], NEW c, NEW k
  PROVE  /\ RingEmptied(ring, c, k) \in [Ring -> 0..MaxSent]
         /\ {i \in Ring : RingEmptied(ring, c, k)[i] # 0}
              = {i \in Ring : ring[i] # 0} \ Covered(c, k)
BY Numbers DEF RingEmptied

LEMMA LeastIs ==
  ASSUME NEW a \in Nat, NEW b \in Nat
  PROVE  Least(a, b) \in Nat /\ Least(a, b) <= a /\ Least(a, b) <= b
         /\ (a >= 1 /\ b >= 1 => Least(a, b) >= 1)
BY DEF Least

LEMMA FillStep ==
  ASSUME QueueInv, Fill PROVE QueueInv'
<1> DEFINE p == pushHead
           k == Least(producer.left, Room)
           r == [node[p] EXCEPT !.ring = Filled(node[p].ring, node[p].push, k)]
           l == IF producer.op = "stream" THEN "shadow" ELSE "publish"
<1>1. /\ producer.at = "fill"
      /\ node' = [node EXCEPT ![p] = r]
      /\ producer' = [producer EXCEPT !.at = l, !.left = producer.left - k, !.filled = k]
      /\ sent' = sent + k
      /\ UNCHANGED <<inUse, pushHead, iteratorCounter, got, clears, consumer, popHead>>
  BY DEF Fill, PAt, ProducerKeeps
<1>2. p \in inUse /\ p \in QueueNodes /\ RingFits(p) /\ RingHolds(p)
  BY HeadsInUse DEF QueueInv, QueueTyped, RingsSound
<1>3. /\ node[p] \in NodeFields /\ node[p].push \in Count /\ node[p].pop \in Count
      /\ node[p].pushShadow \in Count /\ node[p].popShadow \in Count
      /\ node[p].ring \in [Ring -> 0..MaxSent] /\ Size(p) \in Nat
  BY <1>2, FieldTypes DEF QueueInv
<1>4. /\ producer.filled = 0 /\ producer.fresh = NoNode /\ producer.left >= 1
      /\ sent + producer.left <= MaxSent /\ Size(p) < NodeSlots
      /\ producer.op = "one" => producer.left <= 1
  BY <1>1 DEF QueueInv, ProducerAt, Calm, QueueTyped
<1>5. producer.left \in 0..MaxBatch /\ sent \in 0..MaxSent
  BY DEF QueueInv, QueueTyped, ProducerStates
<1>6. Room \in 1..(NodeSlots - Size(p))
  BY <1>2, <1>4, RoomIs DEF QueueInv
<1>7. /\ k \in 1..producer.left /\ k <= NodeSlots - Size(p) /\ k \in 0..NodeSlots
      /\ k \in Nat
  <2>1. producer.left \in Nat /\ Room \in Nat /\ Room >= 1 /\ Room <= NodeSlots - Size(p)
    BY <1>5, <1>6, QueueAssumption
  <2>2. k \in Nat /\ k <= producer.left /\ k <= Room /\ k >= 1
    BY <1>4, <2>1, LeastIs
  <2> HIDE DEF k
  <2> QED
    BY <1>3, <2>1, <2>2, Numbers
<1>8. node[p].push \in Nat /\ node[p].pop \in Nat
  BY <1>3, Numbers DEF Count
<1> DEFINE f == Filled(node[p].ring, node[p].push, k)
<1> HIDE DEF k
<1>9. /\ f \in [Ring -> 0..MaxSent]
      /\ {i \in Ring : f[i] # 0} = Covered(node[p].push, k) \cup Holding(p)
  <2>1. sent \in Nat /\ sent + k <= MaxSent
    BY <1>4, <1>5, <1>7, Numbers, QueueAssumption
  <2> QED
    BY <1>3, <1>7, <1>8, <2>1, FilledIs DEF Holding
<1> HIDE DEF f
<1>10. /\ r \in NodeFields /\ r.push = node[p].push /\ r.pop = node[p].pop
       /\ r.pushShadow = node[p].pushShadow /\ r.popShadow = node[p].popShadow
       /\ r.ring = f /\ r.next = node[p].next
  BY <1>3, <1>9 DEF NodeFields, f
<1>11. l \in {"shadow", "publish"}
  OBVIOUS
<1> HIDE DEF r, l
<1>12. /\ node' \in [QueueNodes -> NodeFields] /\ node'[p] = r
       /\ \A n \in QueueNodes \ {p} : node'[n] = node[n]
  BY <1>1, <1>2, <1>10, NodeSet DEF QueueInv
<1>13. /\ producer'.at = l /\ producer'.left = producer.left - k
       /\ producer'.op = producer.op /\ producer'.filled = k /\ producer'.fresh = NoNode
  BY <1>1, <1>4 DEF QueueInv, QueueTyped, ProducerStates
<1>14. producer' \in ProducerStates
  <2>1. producer.left - k \in 0..MaxBatch
    BY <1>5, <1>7, QueueAssumption
  <2> QED
    BY <1>1, <1>7, <1>11, <2>1 DEF QueueInv, QueueTyped, ProducerStates, ProducerPlaces
<1>15. \A n \in QueueNodes : /\ node'[n].next = node[n].next /\ Size(n)' = Size(n)
                             /\ Taking(n)' = Taking(n)
  BY <1>1, <1>10, <1>12 DEF Size, Taking, CAt
<1>16. /\ Filling(p) = 0 /\ Filling(p)' = k
       /\ \A n \in QueueNodes \ {p} : Filling(n)' = Filling(n)
  BY <1>1, <1>4, <1>13 DEF Filling
<1>17. QueueTyped'
  <2>1. sent' \in 0..MaxSent
    BY <1>1, <1>4, <1>5, <1>7, Numbers, QueueAssumption
  <2> QED
    BY <1>1, <1>12, <1>14, <2>1 DEF QueueInv, QueueTyped
<1>18. ProducerAt'
  <2>1. sent' + producer'.left <= MaxSent
    BY <1>1, <1>4, <1>5, <1>7, <1>13, Numbers, QueueAssumption
  <2>2. producer'.op = "one" => producer'.left <= 1
    BY <1>4, <1>5, <1>7, <1>13, QueueAssumption
  <2> QED
    BY <1>11, <1>13, <2>1, <2>2 DEF ProducerAt, Calm
<1>19. ConsumerAt'
  BY <1>1, <1>15 DEF QueueInv, ConsumerAt, QueueTyped
<1>20. ChainThere'
  BY <1>1, <1>4, <1>13, <1>15, ChainKept DEF QueueInv, QueueTyped
<1>21. RingFits(p)'
  <2> DEFINE a == Dist(node[p].push, node[p].pushShadow)
             b == Dist(node[p].push, node[p].popShadow)
  <2>1. a \in Nat /\ b \in Nat
    BY <1>3, DistNat
  <2>2. Size(p) <= a /\ a + 0 <= sent /\ b + 0 <= sent /\ (p # popHead => Size(p) >= 1)
    BY <1>2, <1>16 DEF RingFits
  <2> HIDE DEF a, b
  <2>3. Size(p) + k <= NodeSlots /\ Size(p) <= a /\ a + k <= sent + k /\ b + k <= sent + k
    BY <1>3, <1>5, <1>7, <2>1, <2>2, Numbers
  <2>4. (pushHead' = p) /\ a = Dist(node[p].push, node[p].pushShadow)'
        /\ b = Dist(node[p].push, node[p].popShadow)'
    BY <1>1, <1>10, <1>12 DEF a, b
  <2> QED
    BY <1>1, <1>2, <1>15, <1>16, <2>2, <2>3, <2>4 DEF RingFits
<1>22. RingHolds(p)'
  <2> DEFINE t == Taking(p)
             c == node[p].pop + t
             m == Size(p) - t
  <2>1. t \in 0..Size(p)
    BY <1>2, TakingFits DEF QueueInv
  <2>2. c \in Nat /\ m \in 0..NodeSlots /\ m + k <= NodeSlots /\ c + m = node[p].pop + Size(p)
    BY <1>3, <1>7, <1>8, <2>1, Numbers
  <2>3. Holding(p) = Covered(c, m)
    <3>1. Size(p) + Filling(p) - Taking(p) = m
      BY <1>3, <1>16, <2>1
    <3> QED
      BY <1>2, <3>1 DEF RingHolds
  <2>4. (node[p].push % NodeSlots) = ((node[p].pop + Size(p)) % NodeSlots)
    BY <1>2, SizeApart DEF QueueInv
  <2>5. Covered(node[p].push, k) = Covered(node[p].pop + Size(p), k)
    BY <2>4, CoveredSame
  <2>6. Holding(p)' = Covered(c, m) \cup Covered(node[p].pop + Size(p), k)
    BY <1>1, <1>9, <1>10, <1>12, <2>3, <2>5 DEF Holding
  <2>7. m + k = Size(p) + k - t
    BY <1>3, <1>7, <2>1
  <2> HIDE DEF c, m
  <2>8. Holding(p)' = Covered(c, m + k)
    BY <1>7, <2>2, <2>6, CoveredJoin
  <2>9. Taking(p)' = t /\ Size(p)' = Size(p) /\ Filling(p)' = k /\ node'[p].pop = node[p].pop
    BY <1>1, <1>2, <1>10, <1>12, <1>15, <1>16
  <2> QED
    BY <1>1, <2>7, <2>8, <2>9 DEF RingHolds, c
<1>23. RingsSound'
  <2>1. sent' \in Nat /\ sent <= sent'
    BY <1>1, <1>5, <1>7
  <2>2. inUse \subseteq QueueNodes
    BY DEF QueueInv, QueueTyped
  <2> QED
    BY <1>1, <1>2, <1>12, <1>15, <1>16, <1>21, <1>22, <2>1, <2>2, OneRing DEF QueueInv
<1> QED
  BY <1>17, <1>18, <1>19, <1>20, <1>23 DEF QueueInv

\* What the consumer found out is not undone by the producer.
LEMMA ConsumerStays ==
  ASSUME QueueTyped, ConsumerAt, popHead \in inUse, UNCHANGED <<consumer, popHead>>,
         inUse \subseteq inUse', Size(popHead)' \in Nat, Size(popHead) <= Size(popHead)',
         popHead # pushHead => popHead # pushHead'
  PROVE  ConsumerAt'
<1> DEFINE a == Size(popHead)
           b == Size(popHead)'
           s == Len(consumer.seen)
<1>1. a \in Nat /\ b \in Nat /\ a <= b /\ s \in Nat
  BY FieldTypes DEF QueueTyped, ConsumerStates
<1>2. (a >= 1 => b >= 1) /\ (s <= a => s <= b)
  BY <1>1
<1>3. b = Size(popHead)' /\ popHead' = popHead /\ consumer' = consumer
  OBVIOUS
<1> HIDE DEF a, b, s
<1>4. /\ consumer.then = "top" /\ consumer.at = "cleanup" => popHead # pushHead \/ a >= 1
      /\ consumer.then # "last" /\ consumer.at = "filled" => a >= 1
      /\ consumer.then = "top" /\ consumer.at \in {"kept", "removed"} => a >= 1
      /\ consumer.then = "one" => a >= 1 /\ s = 1
      /\ consumer.at = "count" => s <= a
  BY DEF ConsumerAt, a, s
<1>5. /\ consumer'.then = "top" /\ consumer'.at = "cleanup" => popHead' # pushHead' \/ Size(popHead)' >= 1
      /\ consumer'.then # "last" /\ consumer'.at = "filled" => Size(popHead)' >= 1
      /\ consumer'.then = "top" /\ consumer'.at \in {"kept", "removed"} => Size(popHead)' >= 1
      /\ consumer'.then = "one" => Size(popHead)' >= 1 /\ Len(consumer.seen)' = 1
      /\ consumer'.at = "count" => Len(consumer.seen)' <= Size(popHead)'
  BY <1>2, <1>3, <1>4 DEF s
<1>6. /\ consumer'.at \in Asking =>
           consumer'.node \in inUse' /\ (consumer'.then # "last" => consumer'.node = popHead')
      /\ consumer'.at \notin Asking => consumer'.node = NoNode
      /\ consumer'.at = "idle" => consumer'.then = "idle"
      /\ consumer'.then = "last" => popHead' # pushHead'
      /\ consumer'.then \in Callers /\ consumer'.at \in Asking \cup {"empty", "filled"}
           => popHead' # pushHead'
  BY <1>3 DEF ConsumerAt
<1> QED
  BY <1>5, <1>6 DEF ConsumerAt

LEMMA PublishStep ==
  ASSUME QueueInv, Publish PROVE QueueInv'
<1> DEFINE p == pushHead
           k == producer.filled
           r == [node[p] EXCEPT !.push = StepCounter(node[p].push, k)]
<1>1. /\ producer.at = "publish"
      /\ node' = [node EXCEPT ![p] = r]
      /\ \/ producer.left = 0 /\ producer' = ProducerIdle
         \/ /\ producer.left # 0
            /\ producer' = [producer EXCEPT !.at = "allocate", !.filled = 0]
      /\ UNCHANGED <<inUse, pushHead, iteratorCounter, sent, got, clears, consumer, popHead>>
  BY DEF Publish, PAt, ProducerKeeps
<1>2. p \in inUse /\ p \in QueueNodes /\ RingFits(p) /\ RingHolds(p)
  BY HeadsInUse DEF QueueInv, QueueTyped, RingsSound
<1>3. /\ node[p] \in NodeFields /\ node[p].push \in Count /\ node[p].pop \in Count
      /\ node[p].pushShadow \in Count /\ node[p].popShadow \in Count /\ Size(p) \in Nat
  BY <1>2, FieldTypes DEF QueueInv
<1>4. /\ producer.fresh = NoNode /\ sent + producer.left <= MaxSent
      /\ producer.op = "one" => producer.left <= 1
  BY <1>1 DEF QueueInv, ProducerAt, QueueTyped
<1>5. /\ producer.left \in 0..MaxBatch /\ sent \in 0..MaxSent /\ k \in 0..NodeSlots
      /\ Filling(p) = k
  BY <1>4 DEF QueueInv, QueueTyped, ProducerStates, Filling
<1> DEFINE s == StepCounter(node[p].push, k)
<1>6. s \in Count
  BY <1>3, <1>5, StepIs
<1>7. /\ r \in NodeFields /\ r.push = s /\ r.pop = node[p].pop
      /\ r.pushShadow = node[p].pushShadow /\ r.popShadow = node[p].popShadow
      /\ r.ring = node[p].ring /\ r.next = node[p].next
  BY <1>3, <1>6 DEF NodeFields
<1> HIDE DEF r
<1>8. /\ node' \in [QueueNodes -> NodeFields] /\ node'[p] = r
      /\ \A n \in QueueNodes \ {p} : node'[n] = node[n]
  BY <1>1, <1>2, <1>7, NodeSet DEF QueueInv
<1> DEFINE a == Dist(node[p].push, node[p].pushShadow)
           b == Dist(node[p].push, node[p].popShadow)
           z == Size(p)
<1>9. /\ a \in Nat /\ b \in Nat /\ z <= a /\ a + k <= sent /\ b + k <= sent /\ z + k <= NodeSlots
      /\ p # popHead => z >= 1
  BY <1>2, <1>3, <1>5, DistNat DEF RingFits
<1>10. z \in Nat /\ z = Dist(node[p].push, node[p].pop)
  BY <1>3 DEF Size
<1>11. a + k < Limit /\ b + k < Limit /\ z + k < Limit
  <2> HIDE DEF a, b, z, k
  <2> QED
    BY <1>5, <1>9, <1>10, Numbers
<1>12. /\ Dist(s, node[p].pushShadow) = a + k /\ Dist(s, node[p].popShadow) = b + k
       /\ Dist(s, node[p].pop) = z + k
  BY <1>3, <1>5, <1>10, <1>11, DistForth
<1> HIDE DEF s, a, b, z, k
<1>13. /\ producer'.filled = 0 /\ producer'.fresh = NoNode /\ producer' \in ProducerStates
       /\ \/ producer'.at = "idle" /\ producer'.left = 0 /\ producer'.op = "none"
          \/ /\ producer'.at = "allocate" /\ producer'.left = producer.left
             /\ producer'.op = producer.op /\ producer.left # 0
  <2>1. CASE producer.left = 0 /\ producer' = ProducerIdle
    BY <2>1, QueueAssumption, Numbers DEF ProducerIdle, ProducerStates, ProducerPlaces
  <2>2. CASE /\ producer.left # 0
             /\ producer' = [producer EXCEPT !.at = "allocate", !.filled = 0]
    <3>1. producer \in ProducerStates /\ 0 \in 0..NodeSlots
      BY Numbers DEF QueueInv, QueueTyped
    <3>2. producer' \in ProducerStates
      BY <2>2, <3>1 DEF ProducerStates, ProducerPlaces
    <3> QED
      BY <1>4, <2>2, <3>1, <3>2 DEF ProducerStates
  <2> QED
    BY <1>1, <2>1, <2>2
<1>14. /\ Size(p)' = z + k /\ Filling(p)' = 0 /\ Taking(p)' = Taking(p)
       /\ \A n \in QueueNodes \ {p} :
            Size(n)' = Size(n) /\ Filling(n)' = Filling(n) /\ Taking(n)' = Taking(n)
       /\ \A n \in QueueNodes : node'[n].next = node[n].next
  BY <1>1, <1>4, <1>7, <1>8, <1>12, <1>13 DEF Size, Filling, Taking, CAt
<1>15. QueueTyped'
  BY <1>1, <1>8, <1>13 DEF QueueInv, QueueTyped
<1>16. ProducerAt'
  BY <1>1, <1>4, <1>5, <1>13, Numbers, QueueAssumption DEF ProducerAt, Calm
<1>17. ConsumerAt'
  <2>1. popHead \in inUse /\ popHead \in QueueNodes
    BY HeadsInUse DEF QueueInv, QueueTyped
  <2>2. Size(popHead) \in Nat
    BY <2>1, FieldTypes DEF QueueInv
  <2>3. Size(popHead)' = Size(popHead) \/ Size(popHead)' = Size(popHead) + k
    BY <1>1, <1>14, <2>1 DEF z
  <2>4. Size(popHead)' \in Nat /\ Size(popHead) <= Size(popHead)'
    BY <1>5, <2>2, <2>3, Numbers
  <2> QED
    BY <1>1, <2>1, <2>4, ConsumerStays DEF QueueInv
<1>18. ChainThere'
  BY <1>1, <1>4, <1>13, <1>14, ChainKept DEF QueueInv, QueueTyped
<1>19. RingFits(p)'
  <2>1. /\ Dist(node[p].push, node[p].pushShadow)' = a + k
        /\ Dist(node[p].push, node[p].popShadow)' = b + k
    BY <1>1, <1>7, <1>8, <1>12
  <2>2. /\ z + k <= a + k /\ a + k + 0 <= sent /\ b + k + 0 <= sent /\ z + k + 0 <= NodeSlots
        /\ p # popHead => z + k >= 1
    BY <1>5, <1>9, <1>10, Numbers
  <2> QED
    BY <1>1, <1>14, <2>1, <2>2 DEF RingFits
<1>20. RingHolds(p)'
  <2>1. Holding(p)' = Holding(p) /\ node'[p].pop = node[p].pop
    BY <1>1, <1>7, <1>8 DEF Holding
  <2>2. Size(p)' + Filling(p)' - Taking(p)' = Size(p) + Filling(p) - Taking(p)
    <3>1. Taking(p) \in Nat
      BY <1>2, FillTypes DEF QueueInv
    <3> QED
      BY <1>5, <1>10, <1>14, <3>1, Numbers DEF z
  <2> QED
    BY <1>1, <1>2, <1>14, <2>1, <2>2 DEF RingHolds
<1>21. RingsSound'
  <2>1. sent' \in Nat /\ sent <= sent'
    BY <1>1, <1>5
  <2>2. inUse \subseteq QueueNodes
    BY DEF QueueInv, QueueTyped
  <2> QED
    BY <1>1, <1>2, <1>8, <1>14, <1>19, <1>20, <2>1, <2>2, OneRing DEF QueueInv
<1> QED
  BY <1>15, <1>16, <1>17, <1>18, <1>21 DEF QueueInv

---------------------------------------------------------------------------
(* Steps of the producer that change the chain                             *)

\* A way without repetitions is one of those that Paths has.
LEMMA PathIn ==
  ASSUME NEW S, IsFiniteSet(S), NEW k \in Nat, k >= 1, NEW c \in [1..k -> S],
         \A i, j \in 1..k : c[i] = c[j] => i = j
  PROVE  k \in 1..Cardinality(S)
<1>1. IsFiniteSet(1..k) /\ Cardinality(1..k) = k
  BY FS_Interval
<1>2. Cardinality(S) \in Nat
  BY FS_CardinalityType
<1>3. ~ (Cardinality(S) < k)
  <2> SUFFICES ASSUME Cardinality(S) < k PROVE FALSE
    OBVIOUS
  <2>1. \E i, j \in 1..k : i # j /\ c[i] = c[j]
    BY <1>1, FS_PigeonHole
  <2> QED
    BY <2>1
<1> QED
  BY <1>2, <1>3

LEMMA Way ==
  ASSUME ChainThere
  PROVE  \E k \in Nat : k >= 1 /\ \E c \in [1..k -> inUse] : Chained(c) /\ Len(c) = k
<1>1. PICK k \in 1..Cardinality(inUse) : \E c \in [1..k -> inUse] : Chained(c)
  BY DEF ChainThere, Paths
<1>2. PICK c \in [1..k -> inUse] : Chained(c)
  BY <1>1
<1>3. k \in Nat /\ k >= 1
  BY <1>1
<1>4. Len(c) = k
  BY <1>3
<1> QED
  BY <1>2, <1>3, <1>4

LEMMA WayNow ==
  ASSUME IsFiniteSet(inUse'), NEW k \in Nat, k >= 1, NEW c, c \in [1..k -> inUse'],
         c[1] = popHead', c[k] = pushHead',
         \A i \in 1..(k - 1) : node'[c[i]].next = c[i + 1],
         \A i, j \in 1..k : c[i] = c[j] => i = j,
         inUse' = {c[i] : i \in 1..k} \cup ({producer'.fresh} \ {NoNode}),
         \A i \in 1..k : c[i] # producer'.fresh
  PROVE  ChainThere'
<1>1. k \in 1..Cardinality(inUse')
  BY PathIn
<1>2. c \in Paths'
  BY <1>1 DEF Paths
<1>3. Len(c) = k
  OBVIOUS
<1>4. Chained(c)'
  BY <1>3 DEF Chained, IsChain
<1> QED
  BY <1>2, <1>4 DEF ChainThere

LEMMA AllocateNodeStep ==
  ASSUME QueueInv, AllocateNode PROVE QueueInv'
<1> DEFINE f == iteratorCounter
           k == Least(producer.left, NodeSlots)
           x == Filled(FreshNode(f).ring, f, k)
<1>1. PICK n \in QueueNodes \ inUse : n = CHOOSE m \in QueueNodes \ inUse : TRUE
  BY DEF AllocateNode, QueueInv, QueueTyped
<1>2. /\ producer.at = "allocate" /\ inUse' = inUse \cup {n}
      /\ node' = [node EXCEPT ![n] = [FreshNode(f) EXCEPT !.push = StepCounter(f, k), !.ring = x]]
      /\ producer' = [producer EXCEPT !.at = "chain", !.left = producer.left - k,
                                      !.filled = k, !.fresh = n]
      /\ sent' = sent + k /\ iteratorCounter' = StepCounter(f, NodeSlots)
      /\ UNCHANGED <<pushHead, got, clears, consumer, popHead>>
  <2>1. FreshNode(f).push = f
    BY DEF FreshNode
  <2> QED
    BY <1>1, <2>1 DEF AllocateNode, PAt, ProducerKeeps
<1>3. /\ producer.filled = 0 /\ producer.fresh = NoNode /\ producer.left >= 1
      /\ sent + producer.left <= MaxSent
      /\ producer.op = "one" => producer.left <= 1
  BY <1>2 DEF QueueInv, ProducerAt, Calm, QueueTyped
<1>4. /\ producer.left \in 0..MaxBatch /\ sent \in 0..MaxSent /\ f \in Count /\ f \in Nat
      /\ inUse \subseteq QueueNodes /\ NoNode \notin QueueNodes
  BY Numbers, QueueAssumption DEF QueueInv, QueueTyped, ProducerStates, Count
<1>5. k \in 1..producer.left /\ k \in 0..NodeSlots /\ k \in Nat /\ k >= 1
  <2>1. producer.left \in Nat /\ NodeSlots \in Nat /\ NodeSlots >= 1
    BY <1>4, QueueAssumption
  <2>2. k \in Nat /\ k <= producer.left /\ k <= NodeSlots /\ k >= 1
    BY <1>3, <2>1, LeastIs
  <2> HIDE DEF k
  <2> QED
    BY <2>1, <2>2
<1> HIDE DEF k
<1>6. /\ x \in [Ring -> 0..MaxSent] /\ {i \in Ring : x[i] # 0} = Covered(f, k)
  <2> DEFINE y == FreshNode(f).ring
  <2>1. y = [i \in Ring |-> 0]
    BY DEF FreshNode
  <2>2. y \in [Ring -> 0..MaxSent] /\ {i \in Ring : y[i] # 0} = {}
    BY <2>1, Numbers
  <2> HIDE DEF y
  <2>3. sent \in Nat /\ sent + k <= MaxSent
    BY <1>3, <1>4, <1>5, Numbers, QueueAssumption
  <2>4. /\ Filled(y, f, k) \in [Ring -> 0..MaxSent]
        /\ {i \in Ring : Filled(y, f, k)[i] # 0} = Covered(f, k) \cup {i \in Ring : y[i] # 0}
    BY <1>4, <1>5, <2>2, <2>3, FilledIs
  <2> QED
    BY <2>2, <2>4 DEF y
<1> DEFINE s == StepCounter(f, k)
<1>7. s \in Count /\ Dist(s, f) = k
  <2>1. Dist(f, f) = 0
    BY <1>4, DistSelf
  <2>2. Dist(f, f) + k < Limit /\ Dist(f, f) + k = k
    BY <1>5, <2>1, Numbers
  <2> QED
    BY <1>4, <1>5, <2>2, StepIs, DistForth
<1> DEFINE r == [FreshNode(f) EXCEPT !.push = s, !.ring = x]
<1> HIDE DEF s, x
<1>8. /\ r \in NodeFields /\ r.push = s /\ r.pop = f /\ r.pushShadow = f /\ r.popShadow = f
      /\ r.ring = x
  BY <1>4, <1>6, <1>7 DEF NodeFields, FreshNode
<1>9. node' = [node EXCEPT ![n] = r]
  BY <1>2 DEF s
<1> HIDE DEF r
<1>10. /\ node' \in [QueueNodes -> NodeFields] /\ node'[n] = r
       /\ \A m \in QueueNodes \ {n} : node'[m] = node[m]
  BY <1>1, <1>8, <1>9, NodeSet DEF QueueInv
<1>11. /\ producer'.at = "chain" /\ producer'.left = producer.left - k
       /\ producer'.op = producer.op /\ producer'.filled = k /\ producer'.fresh = n
  BY <1>2 DEF QueueInv, QueueTyped, ProducerStates
<1>12. producer' \in ProducerStates
  <2>1. producer.left - k \in 0..MaxBatch
    BY <1>4, <1>5, QueueAssumption
  <2> QED
    BY <1>1, <1>2, <1>5, <2>1 DEF QueueInv, QueueTyped, ProducerStates, ProducerPlaces
<1>13. popHead \in inUse /\ pushHead \in inUse /\ popHead # n /\ pushHead # n /\ n # NoNode
  BY <1>1, <1>4, HeadsInUse DEF QueueInv
<1>14. \A m \in inUse : /\ node'[m] = node[m] /\ Filling(m)' = Filling(m)
                        /\ Taking(m)' = Taking(m) /\ Size(m)' = Size(m)
  BY <1>1, <1>2, <1>3, <1>4, <1>10, <1>11, <1>13 DEF Filling, Taking, Size, CAt
<1>15. QueueTyped'
  <2>1. sent' \in 0..MaxSent
    BY <1>2, <1>3, <1>4, <1>5, Numbers, QueueAssumption
  <2>2. iteratorCounter' \in Count
    BY <1>2, <1>4, StepIs, Numbers
  <2> QED
    BY <1>1, <1>2, <1>10, <1>12, <2>1, <2>2 DEF QueueInv, QueueTyped
<1>16. ProducerAt'
  <2>1. sent' + producer'.left <= MaxSent
    BY <1>2, <1>3, <1>4, <1>5, <1>11, Numbers, QueueAssumption
  <2>2. producer'.op = "one" => producer'.left <= 1
    BY <1>3, <1>4, <1>5, <1>11, QueueAssumption
  <2> QED
    BY <1>11, <1>13, <2>1, <2>2 DEF ProducerAt, Calm
<1>17. ConsumerAt'
  <2>1. Size(popHead)' = Size(popHead) /\ Size(popHead) \in Nat
    BY <1>2, <1>13, <1>14, FieldTypes DEF QueueInv
  <2>2. inUse \subseteq inUse' /\ Size(popHead)' \in Nat /\ Size(popHead) <= Size(popHead)'
    BY <1>2, <2>1
  <2> QED
    BY <1>2, <1>13, <2>2, ConsumerStays DEF QueueInv
<1>18. ChainThere'
  <2>1. PICK j \in Nat : j >= 1 /\ \E c \in [1..j -> inUse] : Chained(c) /\ Len(c) = j
    BY Way DEF QueueInv
  <2>2. PICK c \in [1..j -> inUse] : Chained(c) /\ Len(c) = j
    BY <2>1
  <2>3. IsFiniteSet(inUse')
    BY <1>1, <1>2, <1>4, FS_Subset, QueueAssumption
  <2>4. /\ c \in [1..j -> inUse'] /\ \A i \in 1..j : c[i] \in inUse
    BY <1>2, <2>2
  <2>5. /\ c[1] = popHead' /\ c[j] = pushHead'
        /\ \A i, m \in 1..j : c[i] = c[m] => i = m
    BY <1>2, <2>2 DEF Chained, IsChain
  <2>6. \A i \in 1..(j - 1) : node'[c[i]].next = c[i + 1]
    BY <1>14, <2>2, <2>4 DEF Chained, IsChain
  <2>7. inUse = {c[i] : i \in 1..j}
    BY <1>3, <2>2 DEF Chained
  <2>8. inUse' = {c[i] : i \in 1..j} \cup ({producer'.fresh} \ {NoNode})
    BY <1>2, <1>11, <1>13, <2>7
  <2>9. \A i \in 1..j : c[i] # producer'.fresh
    BY <1>1, <1>11, <2>4
  <2> QED
    BY <2>1, <2>3, <2>4, <2>5, <2>6, <2>8, <2>9, WayNow
<1>19. RingFits(n)' /\ RingHolds(n)'
  <2>1. Size(n)' = k /\ Filling(n)' = 0 /\ Taking(n)' = 0 /\ node'[n].pop = f
    BY <1>2, <1>7, <1>8, <1>10, <1>13 DEF Size, Filling, Taking, CAt
  <2>2. /\ Dist(node[n].push, node[n].pushShadow)' = k
        /\ Dist(node[n].push, node[n].popShadow)' = k
    BY <1>7, <1>8, <1>10
  <2>3. k + 0 <= NodeSlots /\ k <= k /\ k + 0 <= sent'
    BY <1>2, <1>4, <1>5, Numbers
  <2>4. RingFits(n)'
    BY <1>5, <2>1, <2>2, <2>3 DEF RingFits
  <2>5. f + 0 = f /\ k + 0 - 0 = k
    BY <1>4, <1>5
  <2>6. Holding(n)' = Covered(f, k)
    BY <1>6, <1>8, <1>10 DEF Holding
  <2>7. RingHolds(n)'
    BY <2>1, <2>5, <2>6 DEF RingHolds
  <2> QED
    BY <2>4, <2>7
<1>20. RingsSound'
  <2>1. sent' \in Nat /\ sent <= sent' /\ popHead' = popHead
    BY <1>2, <1>4, <1>5
  <2>2. \A m \in inUse : RingFits(m)' /\ RingHolds(m)'
    BY <1>14, <2>1, RingStays DEF QueueInv, RingsSound
  <2> QED
    BY <1>2, <1>19, <2>2 DEF RingsSound
<1> QED
  BY <1>15, <1>16, <1>17, <1>18, <1>20 DEF QueueInv

LEMMA ChainNodeStep ==
  ASSUME QueueInv, ChainNode PROVE QueueInv'
<1> DEFINE p == pushHead
           r == [node[p] EXCEPT !.next = producer.fresh]
<1>1. /\ producer.at = "chain"
      /\ node' = [node EXCEPT ![p] = r]
      /\ producer' = [producer EXCEPT !.at = "switch"]
      /\ UNCHANGED <<inUse, pushHead, iteratorCounter, sent, got, clears, consumer, popHead>>
  BY DEF ChainNode, PAt, PGo, ProducerKeeps
<1>2. p \in inUse /\ p \in QueueNodes /\ RingFits(p) /\ RingHolds(p)
  BY HeadsInUse DEF QueueInv, QueueTyped, RingsSound
<1>3. node[p] \in NodeFields /\ producer.fresh \in QueueNodes \cup {NoNode}
  BY <1>2, FieldTypes DEF QueueInv, QueueTyped, ProducerStates
<1>4. /\ r \in NodeFields /\ r.push = node[p].push /\ r.pop = node[p].pop
      /\ r.pushShadow = node[p].pushShadow /\ r.popShadow = node[p].popShadow
      /\ r.ring = node[p].ring /\ r.next = producer.fresh
  BY <1>3 DEF NodeFields
<1> HIDE DEF r
<1>5. /\ node' \in [QueueNodes -> NodeFields] /\ node'[p] = r
      /\ \A n \in QueueNodes \ {p} : node'[n] = node[n]
  BY <1>1, <1>2, <1>4, NodeSet DEF QueueInv
<1>6. /\ producer' \in ProducerStates /\ producer'.at = "switch" /\ producer'.left = producer.left
      /\ producer'.op = producer.op /\ producer'.filled = producer.filled
      /\ producer'.fresh = producer.fresh
  BY <1>1 DEF QueueInv, QueueTyped, ProducerStates, ProducerPlaces
<1>7. \A n \in QueueNodes : /\ Size(n)' = Size(n) /\ Holding(n)' = Holding(n)
                            /\ Filling(n)' = Filling(n) /\ Taking(n)' = Taking(n)
  BY <1>1, <1>4, <1>5, <1>6 DEF Size, Holding, Filling, Taking, CAt
<1>8. QueueTyped'
  BY <1>1, <1>5, <1>6 DEF QueueInv, QueueTyped
<1>9. ProducerAt'
  BY <1>1, <1>4, <1>5, <1>6 DEF QueueInv, ProducerAt, Calm
<1>10. ConsumerAt'
  BY <1>1, <1>7 DEF QueueInv, ConsumerAt, QueueTyped
<1>11. ChainThere'
  <2>1. PICK j \in Nat : j >= 1 /\ \E c \in [1..j -> inUse] : Chained(c) /\ Len(c) = j
    BY Way DEF QueueInv
  <2>2. PICK c \in [1..j -> inUse] : Chained(c) /\ Len(c) = j
    BY <2>1
  <2>3. IsFiniteSet(inUse') /\ inUse \subseteq QueueNodes
    BY <1>1, FS_Subset, QueueAssumption DEF QueueInv, QueueTyped
  <2>4. /\ c[1] = popHead' /\ c[j] = pushHead' /\ c[j] = p
        /\ \A i, m \in 1..j : c[i] = c[m] => i = m
        /\ \A i \in 1..(j - 1) : node[c[i]].next = c[i + 1]
    BY <1>1, <2>2 DEF Chained, IsChain
  <2>5. \A i \in 1..(j - 1) : i \in 1..j /\ i # j /\ j \in 1..j
    BY <2>1
  <2>6. \A i \in 1..(j - 1) : c[i] \in QueueNodes \ {p}
    BY <2>2, <2>3, <2>4, <2>5
  <2>7. \A i \in 1..(j - 1) : node'[c[i]].next = c[i + 1]
    BY <1>5, <2>4, <2>6
  <2>8. /\ inUse' = {c[i] : i \in 1..j} \cup ({producer'.fresh} \ {NoNode})
        /\ \A i \in 1..j : c[i] # producer'.fresh
    BY <1>1, <1>6, <2>2 DEF Chained
  <2>9. c \in [1..j -> inUse']
    BY <1>1, <2>2
  <2> QED
    BY <2>1, <2>3, <2>4, <2>7, <2>8, <2>9, WayNow
<1>12. RingsSound'
  <2>1. inUse \subseteq QueueNodes
    BY DEF QueueInv, QueueTyped
  <2>2. RingFits(p)' /\ RingHolds(p)'
    BY <1>1, <1>2, <1>4, <1>5, <1>7 DEF RingFits, RingHolds
  <2>3. sent' \in Nat /\ sent <= sent'
    BY <1>1 DEF QueueInv, QueueTyped
  <2> QED
    BY <1>1, <1>2, <1>5, <1>7, <2>1, <2>2, <2>3, OneRing DEF QueueInv
<1> QED
  BY <1>8, <1>9, <1>10, <1>11, <1>12 DEF QueueInv

LEMMA SwitchPushHeadStep ==
  ASSUME QueueInv, SwitchPushHead PROVE QueueInv'
<1>1. /\ producer.at = "switch" /\ pushHead' = producer.fresh
      /\ \/ producer.left = 0 /\ producer' = ProducerIdle
         \/ /\ producer.left # 0
            /\ producer' = [producer EXCEPT !.at = "allocate", !.filled = 0, !.fresh = NoNode]
      /\ UNCHANGED <<inUse, node, iteratorCounter, sent, got, clears, consumer, popHead>>
  BY DEF SwitchPushHead, PAt, ProducerKeeps
<1>2. /\ producer.fresh # NoNode /\ node[pushHead].next = producer.fresh
      /\ sent + producer.left <= MaxSent /\ (producer.op = "one" => producer.left <= 1)
  BY <1>1 DEF QueueInv, ProducerAt
<1>3. producer \in ProducerStates /\ producer.fresh \in QueueNodes /\ producer.left \in Nat
  BY <1>2, QueueAssumption DEF QueueInv, QueueTyped, ProducerStates
<1>4. /\ producer'.filled = 0 /\ producer'.fresh = NoNode /\ producer' \in ProducerStates
      /\ \/ producer'.at = "idle" /\ producer'.left = 0 /\ producer'.op = "none"
         \/ /\ producer'.at = "allocate" /\ producer'.left = producer.left
            /\ producer'.op = producer.op /\ producer.left # 0
  <2>1. CASE producer.left = 0 /\ producer' = ProducerIdle
    BY <2>1, QueueAssumption, Numbers DEF ProducerIdle, ProducerStates, ProducerPlaces
  <2>2. CASE /\ producer.left # 0
             /\ producer' = [producer EXCEPT !.at = "allocate", !.filled = 0, !.fresh = NoNode]
    <3>1. 0 \in 0..NodeSlots
      BY Numbers
    <3>2. producer' \in ProducerStates
      BY <1>3, <2>2, <3>1 DEF ProducerStates, ProducerPlaces
    <3> QED
      BY <1>3, <2>2, <3>1, <3>2 DEF ProducerStates
  <2> QED
    BY <1>1, <2>1, <2>2
<1>5. /\ \A n \in inUse : Filling(n)' = Filling(n) /\ Taking(n)' = Taking(n)
      /\ \A n \in QueueNodes : Size(n)' = Size(n)
  BY <1>1, <1>2, <1>4 DEF Filling, Taking, Size, CAt
<1>6. QueueTyped'
  BY <1>1, <1>3, <1>4 DEF QueueInv, QueueTyped
<1>7. ProducerAt'
  BY <1>1, <1>2, <1>3, <1>4 DEF QueueInv, QueueTyped, ProducerAt, Calm
<1>8. PICK j \in Nat : j >= 1 /\ \E c \in [1..j -> inUse] : Chained(c) /\ Len(c) = j
  BY Way DEF QueueInv
<1>9. PICK c \in [1..j -> inUse] : Chained(c) /\ Len(c) = j
  BY <1>8
<1>10. /\ c[1] = popHead /\ c[j] = pushHead
       /\ \A i, m \in 1..j : c[i] = c[m] => i = m
       /\ \A i \in 1..(j - 1) : node[c[i]].next = c[i + 1]
       /\ \A i \in 1..j : c[i] # producer.fresh
       /\ inUse = {c[i] : i \in 1..j} \cup {producer.fresh}
  BY <1>2, <1>9 DEF Chained, IsChain
<1>11. popHead # pushHead'
  BY <1>1, <1>8, <1>10
<1>12. ConsumerAt'
  <2>1. popHead \in inUse /\ popHead \in QueueNodes
    BY HeadsInUse DEF QueueInv, QueueTyped
  <2>2. Size(popHead)' = Size(popHead) /\ Size(popHead) \in Nat
    BY <1>1, <1>5, <2>1, FieldTypes DEF QueueInv
  <2>3. Size(popHead)' \in Nat /\ Size(popHead) <= Size(popHead)' /\ inUse \subseteq inUse'
    BY <1>1, <2>2
  <2> QED
    BY <1>1, <1>11, <2>1, <2>3, ConsumerStays DEF QueueInv
<1>13. ChainThere'
  <2>1. PICK x : x = producer.fresh
    OBVIOUS
  <2> DEFINE e == [i \in 1..(j + 1) |-> IF i = j + 1 THEN x ELSE c[i]]
  <2>2. /\ e \in [1..(j + 1) -> inUse'] /\ e[j + 1] = x
        /\ \A i \in 1..j : e[i] = c[i] /\ i \in 1..(j + 1)
    BY <1>1, <1>8, <1>9, <1>10, <2>1
  <2> HIDE DEF e
  <2>3. IsFiniteSet(inUse')
    BY <1>1, FS_Subset, QueueAssumption DEF QueueInv, QueueTyped
  <2>4. e[1] = popHead' /\ e[j + 1] = pushHead'
    BY <1>1, <1>8, <1>10, <2>1, <2>2
  <2>5. \A i \in 1..(j + 1) : i \in 1..j \/ i = j + 1
    BY <1>8
  <2>6. \A i, m \in 1..(j + 1) : e[i] = e[m] => i = m
    BY <1>10, <2>1, <2>2, <2>5
  <2>7. \A i \in 1..((j + 1) - 1) : node'[e[i]].next = e[i + 1]
    <3> SUFFICES ASSUME NEW i \in 1..((j + 1) - 1) PROVE node'[e[i]].next = e[i + 1]
      OBVIOUS
    <3>1. CASE i = j
      BY <1>1, <1>2, <1>8, <1>10, <2>1, <2>2, <3>1
    <3>2. CASE i # j
      <4>1. i \in 1..(j - 1) /\ i \in 1..j /\ i + 1 \in 1..j
        BY <1>8, <3>2
      <4> QED
        BY <1>1, <1>10, <2>2, <4>1
    <3> QED
      BY <3>1, <3>2
  <2>8. inUse' = {e[i] : i \in 1..(j + 1)} \cup ({producer'.fresh} \ {NoNode})
    <3>1. inUse' = {c[i] : i \in 1..j} \cup {x} /\ {producer'.fresh} \ {NoNode} = {}
      BY <1>1, <1>4, <1>10, <2>1
    <3>2. {e[i] : i \in 1..(j + 1)} = {c[i] : i \in 1..j} \cup {x}
      <4>1. j + 1 \in 1..(j + 1)
        BY <1>8
      <4> QED
        BY <2>2, <2>5, <4>1
    <3> QED
      BY <3>1, <3>2
  <2>9. \A i \in 1..(j + 1) : e[i] # producer'.fresh
    <3>1. NoNode \notin inUse'
      BY <1>1, QueueAssumption DEF QueueInv, QueueTyped
    <3> QED
      BY <1>4, <2>2, <3>1
  <2>10. j + 1 \in Nat /\ j + 1 >= 1
    BY <1>8
  <2> QED
    BY <2>2, <2>3, <2>4, <2>6, <2>7, <2>8, <2>9, <2>10, WayNow
<1>14. RingsSound'
  BY <1>1, <1>5, RingsKept DEF QueueInv
<1> QED
  BY <1>6, <1>7, <1>12, <1>13, <1>14 DEF QueueInv

---------------------------------------------------------------------------
(* Steps of the consumer that write a field                                *)

LEMMA ConsumerWrites ==
  ASSUME QueueInv, ConsumerKeeps, UNCHANGED <<inUse, popHead>>, got' \in Seq(1..MaxSent),
         consumer' \in ConsumerStates, ConsumerAt', NEW p \in inUse,
         node' \in [QueueNodes -> NodeFields], \A n \in QueueNodes \ {p} : node'[n] = node[n],
         node'[p].next = node[p].next, Size(p)' \in Nat, Size(p)' <= Size(p),
         \A n \in inUse \ {p} : Taking(n)' = Taking(n), RingFits(p)', RingHolds(p)'
  PROVE  QueueInv'
<1>1. UNCHANGED <<pushHead, iteratorCounter, sent, clears, producer>>
  BY DEF ConsumerKeeps
<1>2. inUse \subseteq QueueNodes /\ pushHead \in QueueNodes /\ sent \in Nat
  BY DEF QueueInv, QueueTyped
<1>3. QueueTyped'
  BY <1>1 DEF QueueInv, QueueTyped
<1>4. ProducerAt'
  <2>1. pushHead \in inUse /\ Size(pushHead) \in Nat /\ NodeSlots \in Nat
    BY HeadsInUse, FieldTypes, Numbers DEF QueueInv
  <2>2. Size(pushHead)' \in Nat /\ Size(pushHead)' <= Size(pushHead)
    BY <1>1, <1>2, <2>1 DEF Size
  <2>3. Size(pushHead) < NodeSlots => Size(pushHead)' < NodeSlots
    BY <2>1, <2>2
  <2>4. node'[pushHead].next = node[pushHead].next
    BY <1>2
  <2> QED
    BY <1>1, <2>3, <2>4 DEF QueueInv, ProducerAt
<1>5. ChainThere'
  <2>1. \A n \in inUse : node'[n].next = node[n].next
    BY <1>2
  <2> QED
    BY <1>1, <2>1, ChainKept DEF QueueInv
<1>6. RingsSound'
  <2>1. \A n \in inUse \ {p} :
          node'[n] = node[n] /\ Filling(n)' = Filling(n) /\ Taking(n)' = Taking(n)
    BY <1>1, <1>2 DEF Filling
  <2>2. sent' \in Nat /\ sent <= sent'
    BY <1>1, <1>2
  <2> QED
    BY <2>1, <2>2, OneRing DEF QueueInv
<1> QED
  BY <1>3, <1>4, <1>5, <1>6 DEF QueueInv

LEMMA RefreshPushCachedStep ==
  ASSUME QueueInv, RefreshPushCached PROVE QueueInv'
<1> DEFINE p == consumer.node
           r == [node[p] EXCEPT !.popShadow = node[p].push]
<1>1. /\ consumer.at = "refresh" /\ consumer' = [consumer EXCEPT !.at = "compare"]
      /\ node' = [node EXCEPT ![p] = r]
      /\ UNCHANGED <<inUse, popHead, got>> /\ ConsumerKeeps
  BY DEF RefreshPushCached, CAt, CGo
<1>2. p \in inUse /\ p \in QueueNodes /\ RingFits(p) /\ RingHolds(p)
  BY <1>1 DEF QueueInv, QueueTyped, RingsSound, ConsumerAt, Asking
<1>3. /\ node[p] \in NodeFields /\ node[p].push \in Count /\ node[p].popShadow \in Count
      /\ Size(p) \in Nat
  BY <1>2, FieldTypes DEF QueueInv
<1>4. /\ r \in NodeFields /\ r.push = node[p].push /\ r.pop = node[p].pop
      /\ r.pushShadow = node[p].pushShadow /\ r.popShadow = node[p].push
      /\ r.ring = node[p].ring /\ r.next = node[p].next
  BY <1>3 DEF NodeFields
<1> HIDE DEF r
<1>5. /\ node' \in [QueueNodes -> NodeFields] /\ node'[p] = r
      /\ \A n \in QueueNodes \ {p} : node'[n] = node[n]
  BY <1>1, <1>2, <1>4, NodeSet DEF QueueInv
<1>6. /\ consumer' \in ConsumerStates /\ consumer'.at = "compare" /\ consumer'.node = p
      /\ consumer'.then = consumer.then /\ consumer'.seen = consumer.seen
  BY <1>1 DEF QueueInv, QueueTyped, ConsumerStates, ConsumerPlaces
<1>7. PICK m \in inUse : m = p
  BY <1>2
<1>8. \A n \in QueueNodes : /\ Size(n)' = Size(n) /\ Holding(n)' = Holding(n)
                            /\ Filling(n)' = Filling(n) /\ Taking(n)' = Taking(n)
                            /\ node'[n].push = node[n].push /\ node'[n].pop = node[n].pop
                            /\ node'[n].pushShadow = node[n].pushShadow
                            /\ node'[n].next = node[n].next
  BY <1>1, <1>4, <1>5, <1>6 DEF Size, Holding, Filling, Taking, CAt, ConsumerKeeps
<1>9. ConsumerAt'
  <2>1. popHead \in QueueNodes /\ Size(popHead)' = Size(popHead) /\ pushHead' = pushHead
    BY <1>1, <1>8 DEF QueueInv, QueueTyped, ConsumerKeeps
  <2> QED
    BY <1>1, <1>2, <1>6, <2>1 DEF QueueInv, ConsumerAt, Asking
<1>10. RingFits(m)'
  <2>1. Dist(node[m].push, node[m].popShadow) + Filling(m) <= sent
        /\ Dist(node[m].push, node[m].popShadow) \in Nat /\ Filling(m) \in Nat /\ sent \in Nat
    <3>1. Dist(node[m].push, node[m].popShadow) \in Nat
      BY <1>3, <1>7, DistNat
    <3>2. Filling(m) \in 0..NodeSlots
      BY FillTypes DEF QueueInv
    <3> QED
      BY <1>2, <1>7, <3>1, <3>2 DEF RingFits, QueueInv, QueueTyped
  <2>2. Dist(node[m].push, node[m].push) = 0
    BY <1>3, <1>7, DistSelf
  <2>3. Dist(node[m].push, node[m].popShadow)' = 0
    BY <1>4, <1>5, <1>7, <2>2
  <2>4. 0 + Filling(m) <= sent /\ sent' = sent
    BY <1>1, <2>1 DEF ConsumerKeeps
  <2> QED
    BY <1>1, <1>2, <1>7, <1>8, <2>3, <2>4 DEF RingFits
<1>11. RingHolds(m)'
  BY <1>1, <1>2, <1>7, <1>8 DEF RingHolds
<1>12. got' \in Seq(1..MaxSent)
  BY <1>1 DEF QueueInv, QueueTyped
<1>13. /\ \A n \in inUse \ {m} : Taking(n)' = Taking(n) /\ node'[m].next = node[m].next
       /\ node'[m].next = node[m].next /\ Size(m)' \in Nat /\ Size(m)' <= Size(m)
       /\ \A n \in QueueNodes \ {m} : node'[n] = node[n]
  <2>1. inUse \subseteq QueueNodes
    BY DEF QueueInv, QueueTyped
  <2> QED
    BY <1>2, <1>3, <1>5, <1>7, <1>8, <2>1
<1> QED
  BY <1>1, <1>5, <1>6, <1>9, <1>10, <1>11, <1>12, <1>13, ConsumerWrites

\* The consumer takes the first k elements of its node out of their slots.
LEMMA Takes ==
  ASSUME QueueInv, ConsumerKeeps, UNCHANGED <<inUse, popHead, got>>, NEW k \in 0..Size(popHead),
         Taking(popHead) = 0, Taking(popHead)' = k,
         consumer' \in ConsumerStates, ConsumerAt',
         node' \in [QueueNodes -> NodeFields], \A n \in QueueNodes \ {popHead} : node'[n] = node[n],
         node'[popHead].next = node[popHead].next, node'[popHead].push = node[popHead].push,
         node'[popHead].pop = node[popHead].pop,
         node'[popHead].pushShadow = node[popHead].pushShadow,
         node'[popHead].popShadow \in {node[popHead].popShadow, node[popHead].push},
         node'[popHead].ring = RingEmptied(node[popHead].ring, node[popHead].pop, k)
  PROVE  QueueInv'
<1>1. PICK p \in inUse : p = popHead
  BY HeadsInUse DEF QueueInv
<1>2. /\ p \in QueueNodes /\ RingFits(p) /\ RingHolds(p)
      /\ node[p].push \in Count /\ node[p].popShadow \in Count /\ node[p].pop \in Count
      /\ node[p].ring \in [Ring -> 0..MaxSent] /\ Size(p) \in Nat /\ Filling(p) \in 0..NodeSlots
  BY FieldTypes, FillTypes DEF QueueInv, RingsSound
<1>3. Size(p)' = Size(p) /\ Filling(p)' = Filling(p) /\ sent' = sent /\ sent \in Nat
  BY <1>1 DEF Size, Filling, ConsumerKeeps, QueueInv, QueueTyped
<1>4. RingFits(p)'
  <2> DEFINE b == Dist(node[p].push, node[p].popShadow)
  <2>1. b \in Nat /\ Dist(node[p].push, node[p].push) = 0
    BY <1>2, DistNat, DistSelf
  <2>2. b + Filling(p) <= sent
    BY <1>2 DEF RingFits
  <2>3. Dist(node[p].push, node[p].popShadow)' \in {b, 0}
    BY <1>1, <2>1
  <2> HIDE DEF b
  <2>4. Dist(node[p].push, node[p].popShadow)' + Filling(p) <= sent
    BY <1>2, <1>3, <2>1, <2>2, <2>3, Numbers
  <2>5. Dist(node[p].push, node[p].pushShadow)' = Dist(node[p].push, node[p].pushShadow)
    BY <1>1
  <2> QED
    BY <1>1, <1>2, <1>3, <2>4, <2>5 DEF RingFits
<1>5. RingHolds(p)'
  <2> DEFINE c == node[p].pop
             m == Size(p) + Filling(p) - k
             all == Size(p) + Filling(p)
  <2>1. /\ c \in Nat /\ k \in 0..NodeSlots /\ m \in 0..NodeSlots /\ k + m <= NodeSlots
        /\ m = all - k /\ all \in 0..NodeSlots /\ k <= all /\ c + 0 = c /\ all - 0 = all
    BY <1>1, <1>2, Numbers DEF Count, RingFits
  <2>2. Holding(p) = Covered(c, all)
    BY <1>1, <1>2, <2>1 DEF RingHolds
  <2>3. Holding(p)' = Holding(p) \ Covered(c, k)
    BY <1>1, <1>2, EmptiedIs DEF Holding
  <2> HIDE DEF c, m, all
  <2>4. Holding(p)' = Covered(c + k, m)
    BY <2>1, <2>2, <2>3, CoveredRest
  <2> QED
    BY <1>1, <1>3, <2>4 DEF RingHolds, c, m
<1>6. \A n \in inUse \ {p} : Taking(n)' = Taking(n)
  BY <1>1 DEF Taking
<1>7. got' \in Seq(1..MaxSent)
  BY DEF QueueInv, QueueTyped
<1>8. Size(p)' \in Nat /\ Size(p)' <= Size(p)
  BY <1>2, <1>3
<1> QED
  BY <1>1, <1>4, <1>5, <1>6, <1>7, <1>8, ConsumerWrites

LEMMA PopOneStep ==
  ASSUME QueueInv, PopOne PROVE QueueInv'
<1> DEFINE p == popHead
           x == RingEmptied(node[p].ring, node[p].pop, 1)
           r == [node[p] EXCEPT !.ring = x]
<1>1. /\ consumer.at \in {"kept", "removed"} /\ consumer.then = "one"
      /\ consumer' = [consumer EXCEPT !.at = "count"]
      /\ node' = [node EXCEPT ![p] = r]
      /\ UNCHANGED <<inUse, popHead, got>> /\ ConsumerKeeps
  BY DEF PopOne, CleanedUp, Told, CAt, CGo
<1>2. p \in inUse /\ p \in QueueNodes
  BY HeadsInUse DEF QueueInv, QueueTyped
<1>3. node[p] \in NodeFields /\ node[p].ring \in [Ring -> 0..MaxSent] /\ Size(p) \in Nat
  BY <1>2, FieldTypes DEF QueueInv
<1>4. x \in [Ring -> 0..MaxSent]
  BY <1>3, EmptiedIs
<1> HIDE DEF x
<1>5. /\ r \in NodeFields /\ r.push = node[p].push /\ r.pop = node[p].pop
      /\ r.pushShadow = node[p].pushShadow /\ r.popShadow = node[p].popShadow
      /\ r.ring = x /\ r.next = node[p].next
  BY <1>3, <1>4 DEF NodeFields
<1> HIDE DEF r
<1>6. /\ node' \in [QueueNodes -> NodeFields] /\ node'[p] = r
      /\ \A n \in QueueNodes \ {p} : node'[n] = node[n]
  BY <1>1, <1>2, <1>5, NodeSet DEF QueueInv
<1>7. /\ consumer' \in ConsumerStates /\ consumer'.at = "count" /\ consumer'.node = consumer.node
      /\ consumer'.then = "one" /\ consumer'.seen = consumer.seen
  BY <1>1 DEF QueueInv, QueueTyped, ConsumerStates, ConsumerPlaces
<1>8. consumer.node = NoNode /\ Size(p) >= 1 /\ Len(consumer.seen) = 1
  BY <1>1 DEF QueueInv, ConsumerAt, Asking
<1>9. 1 \in 0..Size(p) /\ Taking(p) = 0 /\ Taking(p)' = 1 /\ Size(p)' = Size(p)
  BY <1>1, <1>3, <1>5, <1>6, <1>7, <1>8 DEF Taking, CAt, Size
<1>10. ConsumerAt'
  BY <1>1, <1>7, <1>8, <1>9 DEF ConsumerAt, Asking, Callers
<1> QED
  BY <1>1, <1>5, <1>6, <1>7, <1>9, <1>10, Takes DEF x

LEMMA PopSomeStep ==
  ASSUME QueueInv, PopSome PROVE QueueInv'
<1> DEFINE p == popHead
           k == Least(consumer.left, SizeOf(p))
           x == RingEmptied(node[p].ring, node[p].pop, k)
           r == [node[p] EXCEPT !.ring = x]
<1>1. /\ consumer.at \in {"kept", "removed"} /\ consumer.then \in {"some", "more"}
      /\ consumer' = [consumer EXCEPT !.at = "count", !.left = consumer.left - k,
                                      !.seen = Contents(p, k)]
      /\ node' = [node EXCEPT ![p] = r]
      /\ UNCHANGED <<inUse, popHead, got>> /\ ConsumerKeeps
  BY DEF PopSome, CleanedUp, Told, CAt
<1>2. p \in inUse /\ p \in QueueNodes /\ RingFits(p) /\ RingHolds(p)
  BY HeadsInUse DEF QueueInv, QueueTyped, RingsSound
<1>3. node[p] \in NodeFields /\ node[p].ring \in [Ring -> 0..MaxSent] /\ Size(p) \in Nat
  BY <1>2, FieldTypes DEF QueueInv
<1>4. consumer.left \in 0..MaxBatch /\ consumer.left \in Nat /\ SizeOf(p) = Size(p)
  BY <1>2, SizeIs DEF QueueInv, QueueTyped, ConsumerStates
<1>5. k \in 0..Size(p) /\ consumer.left - k \in 0..MaxBatch
  <2>1. k \in Nat /\ k <= consumer.left /\ k <= Size(p)
    BY <1>3, <1>4, LeastIs
  <2> HIDE DEF k
  <2> QED
    BY <1>3, <1>4, <2>1, QueueAssumption
<1> HIDE DEF k
<1>6. x \in [Ring -> 0..MaxSent]
  BY <1>3, EmptiedIs
<1> HIDE DEF x
<1>7. /\ r \in NodeFields /\ r.push = node[p].push /\ r.pop = node[p].pop
      /\ r.pushShadow = node[p].pushShadow /\ r.popShadow = node[p].popShadow
      /\ r.ring = x /\ r.next = node[p].next
  BY <1>3, <1>6 DEF NodeFields
<1> HIDE DEF r
<1>8. /\ node' \in [QueueNodes -> NodeFields] /\ node'[p] = r
      /\ \A n \in QueueNodes \ {p} : node'[n] = node[n]
  BY <1>1, <1>2, <1>7, NodeSet DEF QueueInv
<1>9. consumer.node = NoNode /\ Taking(p) = 0
  BY <1>1 DEF QueueInv, ConsumerAt, Asking, Taking, CAt
<1>10. Contents(p, k) \in Seq(1..MaxSent) /\ Len(Contents(p, k)) = k
  BY <1>2, <1>5, <1>9, ContentsTyped DEF QueueInv
<1>11. /\ consumer' \in ConsumerStates /\ consumer'.at = "count" /\ consumer'.node = consumer.node
       /\ consumer'.then \in {"some", "more"} /\ Len(consumer.seen)' = k
  BY <1>1, <1>5, <1>10 DEF QueueInv, QueueTyped, ConsumerStates, ConsumerPlaces
<1>12. Taking(p)' = k /\ Size(p)' = Size(p)
  BY <1>1, <1>7, <1>8, <1>11 DEF Taking, CAt, Size
<1>13. ConsumerAt'
  BY <1>1, <1>3, <1>5, <1>9, <1>11, <1>12 DEF ConsumerAt, Asking, Callers
<1> QED
  BY <1>1, <1>5, <1>7, <1>8, <1>9, <1>11, <1>12, <1>13, Takes DEF x

\* A node that is not empty holds what lies from rindex up to windex.
LEMMA StockIs ==
  ASSUME QueueTyped, NEW n \in inUse, RingFits(n), Size(n) >= 1
  PROVE  (IF (node[n].push % NodeSlots) <= (node[n].pop % NodeSlots)
          THEN (NodeSlots - (node[n].pop % NodeSlots)) + (node[n].push % NodeSlots)
          ELSE (node[n].push % NodeSlots) - (node[n].pop % NodeSlots)) = Size(n)
<1> DEFINE w == (node[n].push % NodeSlots)
           r == (node[n].pop % NodeSlots)
           k == Size(n)
<1>1. node[n].pop \in Nat /\ k \in 0..NodeSlots
  BY FieldTypes, SizeIs, Numbers DEF Count
<1>2. r \in 0..(NodeSlots - 1)
  BY <1>1, SlotOf DEF Ring
<1>3. w = IF r + k < NodeSlots THEN r + k ELSE r + k - NodeSlots
  BY <1>1, SizeApart, SlotAfter
<1>4. k >= 1
  OBVIOUS
<1> HIDE DEF w, r, k
<1>5. (IF w <= r THEN (NodeSlots - r) + w ELSE w - r) = k
  BY <1>1, <1>2, <1>3, <1>4, Numbers
<1> QED
  BY <1>5 DEF w, r, k

LEMMA PopRangeStep ==
  ASSUME QueueInv, PopRange PROVE QueueInv'
<1> DEFINE p == popHead
           stock == IF (node[p].push % NodeSlots) <= (node[p].pop % NodeSlots)
                    THEN (NodeSlots - (node[p].pop % NodeSlots)) + (node[p].push % NodeSlots)
                    ELSE (node[p].push % NodeSlots) - (node[p].pop % NodeSlots)
           k == Least(consumer.left, stock)
           x == RingEmptied(node[p].ring, node[p].pop, k)
           r == [node[p] EXCEPT !.ring = x, !.popShadow = node[p].push]
           l == IF k = 0 THEN "cleanup" ELSE "count"
<1>1. p \in inUse /\ p \in QueueNodes /\ RingFits(p) /\ RingHolds(p)
  BY HeadsInUse DEF QueueInv, QueueTyped, RingsSound
<1>2. /\ node[p] \in NodeFields /\ node[p].ring \in [Ring -> 0..MaxSent] /\ Size(p) \in Nat
      /\ node[p].push \in Count
  BY <1>1, FieldTypes DEF QueueInv
<1>3. /\ consumer.at = "filled" /\ consumer.then = "range"
      /\ consumer' = [consumer EXCEPT !.at = l, !.then = "end", !.left = consumer.left - k,
                                      !.seen = Contents(p, k)]
      /\ node' = [node EXCEPT ![p] = r]
      /\ UNCHANGED <<inUse, popHead, got>> /\ ConsumerKeeps
  <2>1. node \in [QueueNodes -> NodeFields]
    BY DEF QueueInv, QueueTyped
  <2> QED
    BY <1>1, <1>2, <2>1 DEF PopRange, Told, CAt
<1>4. consumer.node = NoNode /\ Taking(p) = 0 /\ Size(p) >= 1
  BY <1>3 DEF QueueInv, ConsumerAt, Asking, Taking, CAt
<1>5. consumer.left \in 0..MaxBatch /\ consumer.left \in Nat /\ stock = Size(p)
  BY <1>1, <1>4, StockIs DEF QueueInv, QueueTyped, ConsumerStates
<1> HIDE DEF stock
<1>6. k \in 0..Size(p) /\ consumer.left - k \in 0..MaxBatch
  <2>1. k \in Nat /\ k <= consumer.left /\ k <= Size(p)
    BY <1>2, <1>5, LeastIs
  <2> HIDE DEF k
  <2> QED
    BY <1>2, <1>5, <2>1, QueueAssumption
<1> HIDE DEF k
<1>7. x \in [Ring -> 0..MaxSent] /\ l \in {"cleanup", "count"} /\ (l = "cleanup" => k = 0)
  BY <1>2, EmptiedIs
<1> HIDE DEF x, l
<1>8. /\ r \in NodeFields /\ r.push = node[p].push /\ r.pop = node[p].pop
      /\ r.pushShadow = node[p].pushShadow /\ r.popShadow = node[p].push
      /\ r.ring = x /\ r.next = node[p].next
  BY <1>2, <1>7 DEF NodeFields
<1> HIDE DEF r
<1>9. /\ node' \in [QueueNodes -> NodeFields] /\ node'[p] = r
      /\ \A n \in QueueNodes \ {p} : node'[n] = node[n]
  BY <1>1, <1>3, <1>8, NodeSet DEF QueueInv
<1>10. Contents(p, k) \in Seq(1..MaxSent) /\ Len(Contents(p, k)) = k
  BY <1>1, <1>4, <1>6, ContentsTyped DEF QueueInv
<1>11. /\ consumer' \in ConsumerStates /\ consumer'.at = l /\ consumer'.node = consumer.node
       /\ consumer'.then = "end" /\ Len(consumer.seen)' = k
  BY <1>3, <1>6, <1>7, <1>10
     DEF QueueInv, QueueTyped, ConsumerStates, ConsumerPlaces, Askers, Callers
<1>12. Taking(p)' = k /\ Size(p)' = Size(p)
  BY <1>3, <1>7, <1>8, <1>9, <1>11 DEF Taking, CAt, Size
<1>13. ConsumerAt'
  BY <1>2, <1>3, <1>4, <1>6, <1>7, <1>11, <1>12 DEF ConsumerAt, Asking, Callers
<1> QED
  BY <1>3, <1>4, <1>6, <1>8, <1>9, <1>11, <1>12, <1>13, Takes DEF x

LEMMA PopPublishStep ==
  ASSUME QueueInv, PopPublish PROVE QueueInv'
<1> DEFINE k == Len(consumer.seen)
           s == StepCounter(node[popHead].pop, k)
           r == [node[popHead] EXCEPT !.pop = s]
<1>1. PICK p \in inUse : p = popHead
  BY HeadsInUse DEF QueueInv
<1>2. /\ consumer.at = "count"
      /\ node' = [node EXCEPT ![popHead] = r]
      /\ got' = got \o consumer.seen
      /\ \/ consumer' = [consumer EXCEPT !.at = "maybe", !.node = popHead, !.then = "range",
                                         !.seen = <<>>]
         \/ consumer' = [consumer EXCEPT !.at = "cleanup", !.then = "more", !.seen = <<>>]
         \/ consumer' = [consumer EXCEPT !.at = "cleanup", !.then = "end", !.seen = <<>>]
      /\ UNCHANGED <<inUse, popHead>> /\ ConsumerKeeps
  BY DEF PopPublish, CAt, AskEmpty, AskCleanup
<1>3. /\ p \in QueueNodes /\ RingFits(p) /\ RingHolds(p) /\ node[p] \in NodeFields
      /\ node[p].push \in Count /\ node[p].pop \in Count /\ Size(p) \in 0..NodeSlots
      /\ node[p].pushShadow \in Count /\ Filling(p) \in 0..NodeSlots
  BY FieldTypes, FillTypes, SizeIs DEF QueueInv, RingsSound
<1>4. /\ consumer.node = NoNode /\ k \in 0..Size(p) /\ Taking(p) = k
      /\ consumer.seen \in Seq(1..MaxSent)
  BY <1>1, <1>2, <1>3 DEF QueueInv, ConsumerAt, Asking, Taking, CAt, QueueTyped, ConsumerStates
<1>5. k \in 0..NodeSlots /\ k \in Nat
  BY <1>3, <1>4, Numbers
<1> HIDE DEF k
<1>6. /\ s \in Count /\ Dist(node[p].push, s) = Size(p) - k
      /\ (s % NodeSlots) = ((node[p].pop + k) % NodeSlots)
  <2>1. k <= Dist(node[p].push, node[p].pop)
    BY <1>4 DEF Size
  <2>2. s = StepCounter(node[p].pop, k)
    BY <1>1
  <2>3. StepCounter(node[p].pop, k) \in Count
    BY <1>3, <1>5, StepIs
  <2>4. Dist(node[p].push, StepCounter(node[p].pop, k)) = Dist(node[p].push, node[p].pop) - k
    BY <1>3, <1>5, <2>1, DistBack
  <2>5. StepCounter(node[p].pop, k) % NodeSlots = ((node[p].pop + k) % NodeSlots)
    BY <1>3, <1>5, SlotStep
  <2> QED
    BY <2>2, <2>3, <2>4, <2>5 DEF Size
<1> HIDE DEF s
<1>7. /\ r \in NodeFields /\ r.push = node[p].push /\ r.pop = s
      /\ r.pushShadow = node[p].pushShadow /\ r.popShadow = node[p].popShadow
      /\ r.ring = node[p].ring /\ r.next = node[p].next
  BY <1>1, <1>3, <1>6 DEF NodeFields
<1> HIDE DEF r
<1>8. /\ node' \in [QueueNodes -> NodeFields] /\ node'[p] = r
      /\ \A n \in QueueNodes \ {p} : node'[n] = node[n]
  BY <1>1, <1>2, <1>3, <1>7, NodeSet DEF QueueInv
<1>9. /\ consumer' \in ConsumerStates
      /\ \/ consumer'.at = "maybe" /\ consumer'.node = p /\ consumer'.then = "range"
         \/ /\ consumer'.at = "cleanup" /\ consumer'.node = consumer.node
            /\ consumer'.then \in {"more", "end"}
  <2>1. PICK e : e = <<>>
    OBVIOUS
  <2>2. e \in Seq(1..MaxSent)
    BY <2>1
  <2>3. \/ consumer' = [consumer EXCEPT !.at = "maybe", !.node = p, !.then = "range", !.seen = e]
        \/ consumer' = [consumer EXCEPT !.at = "cleanup", !.then = "more", !.seen = e]
        \/ consumer' = [consumer EXCEPT !.at = "cleanup", !.then = "end", !.seen = e]
    BY <1>1, <1>2, <2>1
  <2> QED
    BY <1>3, <2>2, <2>3
       DEF QueueInv, QueueTyped, ConsumerStates, ConsumerPlaces, Askers, Callers
<1>10. /\ Size(p)' = Size(p) - k /\ Filling(p)' = Filling(p) /\ Taking(p)' = 0
       /\ Holding(p)' = Holding(p) /\ sent' = sent /\ pushHead' = pushHead
  BY <1>2, <1>6, <1>7, <1>8, <1>9 DEF Size, Filling, Taking, CAt, Holding, ConsumerKeeps
<1>11. ConsumerAt'
  BY <1>1, <1>2, <1>4, <1>9, <1>10 DEF ConsumerAt, Asking, Callers
<1>12. got' \in Seq(1..MaxSent)
  BY <1>2, <1>4 DEF QueueInv, QueueTyped
<1>13. RingFits(p)'
  <2> DEFINE a == Dist(node[p].push, node[p].pushShadow)
  <2>1. a \in Nat
    BY <1>3, DistNat
  <2>2. Size(p) <= a /\ Size(p) + Filling(p) <= NodeSlots
    BY <1>3 DEF RingFits
  <2>3. a = Dist(node[p].push, node[p].pushShadow)'
        /\ Dist(node[p].push, node[p].popShadow)' = Dist(node[p].push, node[p].popShadow)
    BY <1>7, <1>8
  <2> HIDE DEF a
  <2>4. Size(p) - k <= a /\ (Size(p) - k) + Filling(p) <= NodeSlots
    BY <1>3, <1>4, <1>5, <2>1, <2>2, Numbers
  <2> QED
    BY <1>1, <1>2, <1>3, <1>10, <2>3, <2>4 DEF RingFits, a
<1>14. RingHolds(p)'
  <2> DEFINE m == Size(p) + Filling(p) - k
  <2>1. (Size(p) - k) + Filling(p) - 0 = m /\ s + 0 = s
    BY <1>3, <1>4, <1>5, <1>6, Numbers DEF Count
  <2>2. Holding(p) = Covered(node[p].pop + k, m)
    BY <1>3, <1>4 DEF RingHolds
  <2>3. Covered(s, m) = Covered(node[p].pop + k, m)
    BY <1>6, CoveredSame
  <2>4. node'[p].pop = s
    BY <1>7, <1>8
  <2> HIDE DEF m
  <2>5. Covered(node'[p].pop + 0, (Size(p) - k) + Filling(p) - 0) = Covered(s, m)
    BY <2>1, <2>4
  <2> QED
    BY <1>10, <2>2, <2>3, <2>5 DEF RingHolds
<1>15. /\ \A n \in inUse \ {p} : Taking(n)' = Taking(n)
       /\ Size(p)' \in Nat /\ Size(p)' <= Size(p)
  BY <1>1, <1>2, <1>3, <1>4, <1>5, <1>10 DEF Taking
<1>16. node'[p].next = node[p].next
  BY <1>7, <1>8
<1> QED
  BY <1>2, <1>8, <1>9, <1>11, <1>12, <1>13, <1>14, <1>15, <1>16, ConsumerWrites

LEMMA FreshIs ==
  ASSUME NEW c \in Count
  PROVE  /\ FreshNode(c) \in NodeFields /\ FreshNode(c).push = c /\ FreshNode(c).pop = c
         /\ FreshNode(c).pushShadow = c /\ FreshNode(c).popShadow = c
         /\ {i \in Ring : FreshNode(c).ring[i] # 0} = {}
         /\ Dist(c, c) = 0 /\ Covered(c + 0, 0 + 0 - 0) = {} /\ 0 \in Count /\ c \in Nat
<1>1. [i \in Ring |-> 0] \in [Ring -> 0..MaxSent] /\ 0 \in Count /\ c \in Nat
  BY Numbers DEF Count
<1>2. FreshNode(c) \in NodeFields
  BY <1>1 DEF FreshNode, NodeFields
<1>3. c + 0 = c /\ 0 + 0 - 0 = 0 /\ Covered(c, 0) = {}
  BY <1>1, CoveredNone
<1> QED
  BY <1>1, <1>2, <1>3, DistSelf DEF FreshNode

LEMMA RemoveNodeStep ==
  ASSUME QueueInv, RemoveNode PROVE QueueInv'
<1>1. /\ consumer.at = "empty" /\ consumer.then \in Callers
      /\ consumer' = [consumer EXCEPT !.at = "removed"]
      /\ popHead' = node[popHead].next /\ inUse' = inUse \ {popHead}
      /\ node' = [node EXCEPT ![popHead] = FreshNode(0)]
      /\ UNCHANGED <<got, pushHead, iteratorCounter, sent, clears, producer>>
  BY DEF RemoveNode, CAt, CGo, ConsumerKeeps
<1>2. /\ popHead # pushHead /\ consumer.node = NoNode
      /\ (consumer.then = "one" => Len(consumer.seen) = 1)
      /\ consumer.then # "last"
  BY <1>1 DEF QueueInv, ConsumerAt, Asking, Callers
<1>3. /\ popHead \in inUse /\ popHead \in QueueNodes /\ pushHead \in QueueNodes
      /\ inUse \subseteq QueueNodes
  BY HeadsInUse DEF QueueInv, QueueTyped
<1>4. FreshNode(0) \in NodeFields
  BY FreshIs, Numbers DEF Count
<1>5. /\ node' \in [QueueNodes -> NodeFields]
      /\ \A n \in QueueNodes \ {popHead} : node'[n] = node[n]
  BY <1>1, <1>3, <1>4, NodeSet DEF QueueInv
<1>6. PICK j \in Nat : j >= 1 /\ \E c \in [1..j -> inUse] : Chained(c) /\ Len(c) = j
  BY Way DEF QueueInv
<1>7. PICK c \in [1..j -> inUse] : Chained(c) /\ Len(c) = j
  BY <1>6
<1>8. /\ c[1] = popHead /\ c[j] = pushHead
      /\ \A i, m \in 1..j : c[i] = c[m] => i = m
      /\ \A i \in 1..(j - 1) : node[c[i]].next = c[i + 1]
      /\ \A i \in 1..j : c[i] # producer.fresh
      /\ inUse = {c[i] : i \in 1..j} \cup ({producer.fresh} \ {NoNode})
  BY <1>7 DEF Chained, IsChain
<1>9. j >= 2 /\ 1 \in 1..(j - 1) /\ 1 \in 1..j /\ 2 \in 1..j /\ 1 + 1 = 2
  BY <1>2, <1>6, <1>8
<1>10. popHead' = c[2] /\ c[2] # popHead /\ c[2] \in inUse
  BY <1>1, <1>7, <1>8, <1>9
<1>11. /\ consumer' \in ConsumerStates /\ consumer'.at = "removed" /\ consumer'.node = NoNode
       /\ consumer'.then = consumer.then /\ consumer'.seen = consumer.seen
  BY <1>1, <1>2 DEF QueueInv, QueueTyped, ConsumerStates, ConsumerPlaces
<1>12. QueueTyped'
  BY <1>1, <1>3, <1>5, <1>10, <1>11 DEF QueueInv, QueueTyped
<1>13. ProducerAt'
  BY <1>1, <1>2, <1>3, <1>5 DEF QueueInv, ProducerAt, Size
<1>14. \A n \in inUse' : /\ n \in inUse /\ n \in QueueNodes /\ n # popHead
                         /\ node'[n] = node[n] /\ Size(n)' = Size(n) /\ Size(n) >= 1
                         /\ Filling(n)' = Filling(n) /\ Taking(n)' = Taking(n)
                         /\ Holding(n)' = Holding(n)
  <2> SUFFICES ASSUME NEW n \in inUse'
               PROVE  /\ n \in inUse /\ n \in QueueNodes /\ n # popHead
                      /\ node'[n] = node[n] /\ Size(n)' = Size(n) /\ Size(n) >= 1
                      /\ Filling(n)' = Filling(n) /\ Taking(n)' = Taking(n)
                      /\ Holding(n)' = Holding(n)
    OBVIOUS
  <2>1. n \in inUse /\ n \in QueueNodes /\ n # popHead /\ node'[n] = node[n]
    BY <1>1, <1>3, <1>5
  <2>2. Size(n) >= 1
    BY <2>1 DEF QueueInv, RingsSound, RingFits
  <2>3. Size(n)' = Size(n) /\ Holding(n)' = Holding(n) /\ Filling(n)' = Filling(n)
    BY <1>1, <2>1 DEF Size, Holding, Filling
  <2>4. Taking(n)' = Taking(n)
    BY <1>1, <1>11 DEF Taking, CAt
  <2> QED
    BY <2>1, <2>2, <2>3, <2>4
<1>15. ConsumerAt'
  <2>1. popHead' \in inUse'
    BY <1>1, <1>10
  <2>2. PICK n \in inUse' : n = popHead'
    BY <2>1
  <2>3. Size(popHead)' >= 1
    BY <1>14, <2>2 DEF Size
  <2> QED
    BY <1>2, <1>11, <2>3 DEF ConsumerAt, Asking, Callers
<1>16. ChainThere'
  <2>1. PICK k \in Nat : k = j - 1 /\ k >= 1
    BY <1>6, <1>9
  <2> DEFINE e == [i \in 1..k |-> c[i + 1]]
  <2>2. \A i \in 1..k : i + 1 \in 1..j /\ i + 1 # 1 /\ i \in 1..(j - 1)
    BY <1>6, <2>1
  <2>3. \A i \in 1..k : e[i] = c[i + 1]
    OBVIOUS
  <2>4. e \in [1..k -> inUse']
    BY <1>1, <1>7, <1>8, <1>9, <2>2
  <2> HIDE DEF e
  <2>5. IsFiniteSet(inUse')
    BY <1>1, <1>3, FS_Subset, QueueAssumption
  <2>6. e[1] = popHead' /\ e[k] = pushHead'
    <3>1. 1 \in 1..k /\ k \in 1..k /\ k + 1 = j /\ 1 + 1 = 2
      BY <1>6, <2>1
    <3> QED
      BY <1>1, <1>8, <1>10, <2>3, <3>1
  <2>7. \A i \in 1..(k - 1) : node'[e[i]].next = e[i + 1]
    <3> SUFFICES ASSUME NEW i \in 1..(k - 1) PROVE node'[e[i]].next = e[i + 1]
      OBVIOUS
    <3>1. i \in 1..k /\ i + 1 \in 1..k /\ i + 1 \in 1..(j - 1)
      BY <1>6, <2>1
    <3>2. e[i] = c[i + 1] /\ e[i + 1] = c[(i + 1) + 1] /\ c[i + 1] \in inUse'
      BY <2>3, <2>4, <3>1
    <3>3. node[c[i + 1]].next = c[(i + 1) + 1]
      BY <1>8, <3>1
    <3> QED
      BY <1>14, <3>2, <3>3
  <2>8. \A i, m \in 1..k : e[i] = e[m] => i = m
    <3> SUFFICES ASSUME NEW i \in 1..k, NEW m \in 1..k, e[i] = e[m] PROVE i = m
      OBVIOUS
    <3>1. i + 1 = m + 1
      BY <1>8, <2>2, <2>3
    <3> QED
      BY <3>1
  <2>9. inUse' = {e[i] : i \in 1..k} \cup ({producer'.fresh} \ {NoNode})
    <3>1. ASSUME NEW n \in inUse', n \notin {producer.fresh} \ {NoNode} PROVE n \in {e[i] : i \in 1..k}
      <4>1. PICK i \in 1..j : n = c[i]
        BY <1>1, <1>8, <3>1
      <4>2. i # 1
        BY <1>1, <1>8, <4>1
      <4>3. i - 1 \in 1..k /\ (i - 1) + 1 = i
        BY <1>6, <2>1, <4>2
      <4>4. n = e[i - 1]
        BY <2>3, <4>1, <4>3
      <4> QED
        BY <4>3, <4>4
    <3>2. {e[i] : i \in 1..k} \subseteq inUse'
      BY <2>4
    <3>3. {producer.fresh} \ {NoNode} \subseteq inUse'
      BY <1>1, <1>8, <1>9
    <3> QED
      BY <1>1, <3>1, <3>2, <3>3
  <2>10. \A i \in 1..k : e[i] # producer'.fresh
    BY <1>1, <1>8, <2>2, <2>3
  <2> QED
    BY <2>1, <2>4, <2>5, <2>6, <2>7, <2>8, <2>9, <2>10, WayNow
<1>17. RingsSound'
  <2>1. ASSUME NEW n \in inUse' PROVE RingFits(n)' /\ RingHolds(n)'
    <3>1. RingFits(n) /\ RingHolds(n)
      BY <1>14, <2>1 DEF QueueInv, RingsSound
    <3>2. RingFits(n)'
      BY <1>1, <1>14, <2>1, <3>1 DEF RingFits
    <3>3. RingHolds(n)'
      BY <1>14, <2>1, <3>1 DEF RingHolds
    <3> QED
      BY <3>2, <3>3
  <2> QED
    BY <2>1 DEF RingsSound
<1> QED
  BY <1>12, <1>13, <1>15, <1>16, <1>17 DEF QueueInv

LEMMA ClearListStep ==
  ASSUME QueueInv, ClearList PROVE QueueInv'
<1>1. /\ producer.at = "idle" /\ consumer.at = "idle" /\ clears < MaxClears
      /\ clears' = clears + 1 /\ pushHead' = popHead
      /\ node' = [n \in QueueNodes |-> FreshNode(0)] /\ inUse' = {popHead}
      /\ iteratorCounter' = NodeSlots
      /\ UNCHANGED <<popHead, sent, got, producer, consumer>>
  BY DEF ClearList, PAt, CAt
<1>2. /\ producer.fresh = NoNode /\ producer.filled = 0 /\ consumer.node = NoNode
      /\ consumer.then = "idle"
  BY <1>1 DEF QueueInv, ProducerAt, ConsumerAt, Calm, Asking
<1>3. /\ 0 \in Count /\ FreshNode(0) \in NodeFields /\ FreshNode(0).push = 0
      /\ FreshNode(0).pop = 0 /\ FreshNode(0).pushShadow = 0 /\ FreshNode(0).popShadow = 0
      /\ {i \in Ring : FreshNode(0).ring[i] # 0} = {}
      /\ Dist(0, 0) = 0 /\ Covered(0 + 0, 0 + 0 - 0) = {}
  BY FreshIs, Numbers DEF Count
<1>4. popHead \in inUse /\ popHead \in QueueNodes
  BY HeadsInUse DEF QueueInv, QueueTyped
<1>5. PICK p \in QueueNodes : p = popHead
  BY <1>4
<1>6. node' \in [QueueNodes -> NodeFields] /\ node'[p] = FreshNode(0)
  BY <1>1, <1>3
<1>7. QueueTyped'
  <2>1. iteratorCounter' \in Count
    BY <1>1, Numbers DEF Count
  <2>2. clears' \in 0..MaxClears
    BY <1>1, QueueAssumption DEF QueueInv, QueueTyped
  <2> QED
    BY <1>1, <1>4, <1>6, <2>1, <2>2 DEF QueueInv, QueueTyped
<1>8. ProducerAt'
  BY <1>1 DEF QueueInv, ProducerAt, Calm
<1>9. ConsumerAt'
  BY <1>1, <1>2 DEF ConsumerAt, Asking, Callers
<1>10. ChainThere'
  <2> DEFINE e == [i \in 1..1 |-> p]
  <2>1. e \in [1..1 -> inUse'] /\ e[1] = p
    BY <1>1, <1>5
  <2> HIDE DEF e
  <2>2. IsFiniteSet(inUse')
    BY <1>1, <1>4, FS_Subset, QueueAssumption
  <2>3. \A i \in 1..1 : i = 1
    OBVIOUS
  <2>4. {e[i] : i \in 1..1} = {p}
    BY <2>1, <2>3
  <2>5. p # producer'.fresh /\ {producer'.fresh} \ {NoNode} = {}
    BY <1>1, <1>2, QueueAssumption
  <2>6. /\ e[1] = popHead' /\ e[1] = pushHead'
        /\ \A i \in 1..(1 - 1) : node'[e[i]].next = e[i + 1]
        /\ \A i, m \in 1..1 : e[i] = e[m] => i = m
        /\ inUse' = {e[i] : i \in 1..1} \cup ({producer'.fresh} \ {NoNode})
        /\ \A i \in 1..1 : e[i] # producer'.fresh
    BY <1>1, <1>5, <2>1, <2>3, <2>4, <2>5
  <2>7. 1 \in Nat /\ 1 >= 1
    OBVIOUS
  <2> QED
    BY <2>1, <2>2, <2>6, <2>7, WayNow
<1>11. RingsSound'
  <2>1. Size(p)' = 0 /\ Filling(p)' = 0 /\ Taking(p)' = 0 /\ Holding(p)' = {}
    BY <1>1, <1>2, <1>3, <1>6 DEF Size, Filling, Taking, CAt, Holding
  <2>2. /\ Dist(node[p].push, node[p].pushShadow)' = 0
        /\ Dist(node[p].push, node[p].popShadow)' = 0
    BY <1>3, <1>6
  <2>3. 0 + 0 <= NodeSlots /\ 0 + 0 <= sent' /\ 0 <= 0
    BY <1>1, Numbers DEF QueueInv, QueueTyped
  <2>4. RingFits(p)'
    BY <1>1, <1>5, <2>1, <2>2, <2>3 DEF RingFits
  <2>5. node'[p].pop = 0
    BY <1>3, <1>6
  <2>6. RingHolds(p)'
    BY <1>3, <2>1, <2>5 DEF RingHolds
  <2> QED
    BY <1>1, <1>5, <2>4, <2>6 DEF RingsSound
<1> QED
  BY <1>7, <1>8, <1>9, <1>10, <1>11 DEF QueueInv

LEMMA QueueStarts == ASSUME PowerOfTwoSlots, QueueInit PROVE QueueInv
<1>1. PICK n \in QueueNodes : n = CHOOSE m \in QueueNodes : TRUE
  BY QueueAssumption
<1>2. /\ inUse = {n} /\ node = [m \in QueueNodes |-> FreshNode(IF m = n THEN FirstCount ELSE 0)]
      /\ pushHead = n /\ popHead = n /\ iteratorCounter = NodeSlots
      /\ sent = 0 /\ got = <<>> /\ clears = 0
      /\ producer = ProducerIdle /\ consumer = ConsumerIdle
  BY <1>1 DEF QueueInit
<1>3. FirstCount \in Count /\ 0 \in Count
  BY CounterAssumption, Numbers DEF Count
<1>4. node \in [QueueNodes -> NodeFields] /\ node[n] = FreshNode(FirstCount)
  <2>1. \A m \in QueueNodes : FreshNode(IF m = n THEN FirstCount ELSE 0) \in NodeFields
    BY <1>3, FreshIs
  <2> QED
    BY <1>2, <2>1
<1>5. /\ FreshNode(FirstCount).push = FirstCount /\ FreshNode(FirstCount).pop = FirstCount
      /\ FreshNode(FirstCount).pushShadow = FirstCount
      /\ FreshNode(FirstCount).popShadow = FirstCount
      /\ {i \in Ring : FreshNode(FirstCount).ring[i] # 0} = {}
      /\ Dist(FirstCount, FirstCount) = 0 /\ Covered(FirstCount + 0, 0 + 0 - 0) = {}
  BY <1>3, FreshIs
<1>6. producer \in ProducerStates /\ producer.at = "idle" /\ producer.fresh = NoNode
      /\ producer.filled = 0 /\ producer.left = 0 /\ producer.op = "none"
  BY <1>2, QueueAssumption, Numbers DEF ProducerIdle, ProducerStates, ProducerPlaces
<1>7. /\ consumer \in ConsumerStates /\ consumer.at = "idle" /\ consumer.node = NoNode
      /\ consumer.then = "idle"
  BY <1>2, IdleTyped DEF ConsumerIdle
<1>8. QueueTyped
  <2>1. iteratorCounter \in Count
    BY <1>2, Numbers DEF Count
  <2>2. 0 \in 0..MaxSent /\ 0 \in 0..MaxClears /\ <<>> \in Seq(1..MaxSent)
    BY QueueAssumption
  <2> QED
    BY <1>2, <1>4, <1>6, <1>7, <2>1, <2>2 DEF QueueTyped
<1>9. ProducerAt
  BY <1>2, <1>6, Numbers DEF ProducerAt, Calm
<1>10. ConsumerAt
  BY <1>7 DEF ConsumerAt, Asking, Callers
<1>11. ChainThere
  <2> DEFINE e == [i \in 1..1 |-> n]
  <2>1. e \in [1..1 -> inUse] /\ e[1] = n
    BY <1>2
  <2> HIDE DEF e
  <2>2. IsFiniteSet(inUse)
    BY <1>2, FS_Subset, QueueAssumption
  <2>3. \A i \in 1..1 : i = 1
    OBVIOUS
  <2>4. {e[i] : i \in 1..1} = {n} /\ Len(e) = 1
    BY <2>1, <2>3
  <2>5. n # producer.fresh /\ {producer.fresh} \ {NoNode} = {}
    BY <1>6, QueueAssumption
  <2>6. Chained(e)
    BY <1>2, <2>1, <2>3, <2>4, <2>5 DEF Chained, IsChain
  <2>7. 1 \in 1..Cardinality(inUse)
    <3>1. 1 \in Nat /\ 1 >= 1
      OBVIOUS
    <3>2. \A i, j \in 1..1 : e[i] = e[j] => i = j
      BY <2>3
    <3> QED
      BY <2>1, <2>2, <3>1, <3>2, PathIn
  <2> QED
    BY <2>1, <2>6, <2>7 DEF ChainThere, Paths
<1>12. RingsSound
  <2>1. Size(n) = 0 /\ Filling(n) = 0 /\ Taking(n) = 0 /\ Holding(n) = {}
    BY <1>2, <1>4, <1>5, <1>6, <1>7 DEF Size, Filling, Taking, CAt, Holding
  <2>2. /\ Dist(node[n].push, node[n].pushShadow) = 0
        /\ Dist(node[n].push, node[n].popShadow) = 0
    BY <1>4, <1>5
  <2>3. 0 + 0 <= NodeSlots /\ 0 + 0 <= sent /\ 0 <= 0
    BY <1>2, Numbers
  <2>4. RingFits(n)
    BY <1>2, <2>1, <2>2, <2>3 DEF RingFits
  <2>5. node[n].pop = FirstCount
    BY <1>4, <1>5
  <2>6. RingHolds(n)
    BY <1>5, <2>1, <2>5 DEF RingHolds
  <2> QED
    BY <1>2, <2>4, <2>6 DEF RingsSound
<1> QED
  BY <1>8, <1>9, <1>10, <1>11, <1>12 DEF QueueInv

---------------------------------------------------------------------------
LEMMA QueueStep == ASSUME QueueInv, QueueNext PROVE QueueInv'
<1>1. CASE \E n \in 1..MaxBatch, op \in {"one", "batch", "stream"} : Push(op, n)
  BY <1>1, PushStep
<1>2. CASE \E n \in 1..MaxBatch, op \in {"one", "some", "range"} : Call(op, n)
  BY <1>2, CallStep
<1>3. CASE ProducerStep
  BY <1>3, PushMaybeFullStep, RefreshPopCachedStep, PushFullStep, FillStep, PublishStep,
     AllocateNodeStep, ChainNodeStep, SwitchPushHeadStep DEF ProducerStep
<1>4. CASE ConsumerStep
  BY <1>4, NodeMaybeEmptyStep, RefreshPushCachedStep, NodeEmptyStep, LookPushHeadStep,
     ListEmptyStep, CleanupStep, RemoveNodeStep, KeepNodeStep, TopStep, PopOneStep,
     PopSomeStep, PopRangeStep, RangeEmptyStep, PopPublishStep, FinishStep DEF ConsumerStep
<1>5. CASE ClearList
  BY <1>5, ClearListStep
<1> QED
  BY <1>1, <1>2, <1>3, <1>4, <1>5 DEF QueueNext

LEMMA QueueStutters == ASSUME QueueInv, UNCHANGED queueVars PROVE QueueInv'
<1>1. UNCHANGED <<inUse, node, pushHead, popHead, iteratorCounter, sent, got, clears,
                  producer, consumer>>
  BY DEF queueVars
<1>2. QueueTyped' /\ ProducerAt' /\ ConsumerAt'
  BY <1>1 DEF QueueInv, QueueTyped, ProducerAt, ConsumerAt, Size
<1>3. ChainThere'
  BY <1>1, ChainKept DEF QueueInv
<1>4. RingsSound'
  BY <1>1, RingsKept DEF QueueInv, Filling, Taking, CAt
<1> QED
  BY <1>2, <1>3, <1>4 DEF QueueInv

LEMMA QueueExact == ASSUME QueueInv, NEW n \in inUse PROVE NegativeExact(n)
<1>1. ASSUME ~ MaybeFull(n) PROVE ~ RingFull(n)
  <2>1. Size(n) < NodeSlots /\ node[n].push \in Count /\ node[n].pop \in Count
    BY <1>1, NotMaybeFull, FieldTypes DEF QueueInv, RingsSound
  <2>2. Dist(node[n].pop, node[n].pop) = 0 /\ NodeSlots \in 0..NodeSlots
        /\ 0 + NodeSlots < Limit /\ 0 + NodeSlots = NodeSlots
    BY <2>1, DistSelf, Numbers
  <2>3. Dist(StepCounter(node[n].pop, NodeSlots), node[n].pop) = NodeSlots
    BY <2>1, <2>2, DistForth
  <2> QED
    BY <2>1, <2>3, Numbers DEF RingFull, Size
<1>2. ASSUME ~ MaybeEmpty(n) PROVE node[n].pop # node[n].push
  <2>1. Size(n) >= 1 /\ node[n].push \in Count /\ node[n].pop \in Count
    BY <1>2, NotMaybeEmpty, FieldTypes DEF QueueInv, RingsSound
  <2>2. node[n].push = node[n].pop => Size(n) = 0
    BY <2>1, DistSelf DEF Size
  <2> QED
    BY <2>1, <2>2
<1> QED
  BY <1>1, <1>2 DEF NegativeExact

LEMMA QueueSays == ASSUME QueueInv PROVE NodesSound
<1>1. consumer.node \in inUse \cup {NoNode}
  BY DEF QueueInv, ConsumerAt, Asking
<1>2. ASSUME NEW n \in inUse PROVE SlotsSound(n)
  <2>1. RingFits(n) /\ RingHolds(n) /\ SizeOf(n) = Size(n)
    BY <1>2, SizeIs DEF QueueInv, RingsSound
  <2> QED
    BY <2>1 DEF SlotsSound, RingFits, RingHolds, Holding
<1> QED
  BY <1>1, <1>2, QueueExact DEF QueueInv, ChainThere, NodesSound

\* The queue list, for every number of nodes and elements, every number of slots that is
\* a power of two and every width of its counters, wherever they start: the nodes
\* allocated are the chain and the one about to join it, and in every node just the slots
\* between the counters hold elements; and when maybe_full() or maybe_empty() says no, it
\* is right, wherever the counters wrap around and however far a shadow has stayed behind.
THEOREM ListIsSound == ASSUME PowerOfTwoSlots PROVE QueueSpec => []NodesSound
<1>1. QueueInit => QueueInv
  BY QueueStarts
<1>2. QueueInv /\ [QueueNext]_queueVars => QueueInv'
  BY QueueStep, QueueStutters
<1>3. QueueInv => NodesSound
  BY QueueSays
<1> QED
  BY <1>1, <1>2, <1>3, PTL DEF QueueSpec

(***************************************************************************)
(* The elements in order                                                   *)
(***************************************************************************)
\* What is published and not yet appended to the abstract queue does not count.
Published == sent - producer.filled

\* before[n] elements came before the first one of node n: the slots hold numbers that
\* follow one another, within a node and from a node to the next.
RingsNumbered(before) ==
  \A n \in inUse : \A m \in Taking(n)..(Size(n) + Filling(n) - 1) :
    node[n].ring[(node[n].pop + m) % NodeSlots] = before[n] + m + 1
LinksNumbered(before) ==
  \A n \in inUse :
    n # pushHead /\ n # producer.fresh => before[node[n].next] = before[n] + Size(n)
EndNumbered(before) ==
  /\ before[pushHead] + Size(pushHead) = Published
  /\ producer.fresh # NoNode =>
       /\ before[producer.fresh] = Published /\ Size(producer.fresh) = producer.filled
       /\ node[producer.fresh].next = NoNode
SeenNumbered(before) ==
  consumer.at = "count" \/ consumer.then = "one" =>
    \A j \in 1..Len(consumer.seen) : consumer.seen[j] = before[popHead] + j

Numbered(before) ==
  RingsNumbered(before) /\ LinksNumbered(before) /\ EndNumbered(before) /\ SeenNumbered(before)

\* A node that cleanup_empty() found empty is, and calls move no more than a batch.
StepsSmall ==
  /\ consumer.at = "empty" /\ consumer.then \in Callers => Size(popHead) = 0
  /\ producer.filled <= MaxBatch /\ Len(consumer.seen) <= MaxBatch

InOrder == StepsSmall /\ \E before \in [inUse -> Nat] : Numbered(before)

\* The elements that follow the b-th, up to the t-th.
Stretch(b, t) == [j \in 1..(t - b) |-> b + j]

---------------------------------------------------------------------------
LEMMA FunctionIsSeq ==
  ASSUME NEW S, NEW k \in Nat, NEW f \in [1..k -> S]
  PROVE  f \in Seq(S) /\ Len(f) = k
OBVIOUS

\* The sequences of k elements of S.
Lists(k, S) == [1..k -> S]

\* u is the a elements of s and then the d elements of r.
Follow(u, a, s, d, r) == (\A j \in 1..a : u[j] = s[j]) /\ \A j \in 1..d : u[a + j] = r[j]

LEMMA Joins ==
  ASSUME NEW S, NEW a \in Nat, NEW d \in Nat, NEW s \in Lists(a, S), NEW r \in Lists(d, S),
         NEW e \in Nat, e = a + d, NEW u \in Lists(e, S),
         Follow(u, a, s, d, r)
  PROVE  s \o r = u
<1>0. s \in [1..a -> S] /\ r \in [1..d -> S] /\ u \in [1..e -> S]
  BY DEF Lists
<1>8. (\A j \in 1..a : u[j] = s[j]) /\ \A j \in 1..d : u[a + j] = r[j]
  BY DEF Follow
<1>1. s \in Seq(S) /\ Len(s) = a
  BY <1>0, FunctionIsSeq
<1>2. r \in Seq(S) /\ Len(r) = d
  BY <1>0, FunctionIsSeq
<1> DEFINE t == s \o r
<1>3. t \in Seq(S) /\ Len(t) = e
  BY <1>1, <1>2
<1>4. \A j \in 1..a : t[j] = s[j]
  BY <1>1, <1>2
<1>5. ASSUME NEW j \in 1..e, j > a PROVE t[j] = u[j]
  <2>1. j - a \in 1..d /\ a + (j - a) = j
    BY <1>5
  <2>2. t[j] = r[j - a]
    BY <1>1, <1>2, <1>5
  <2> QED
    BY <1>8, <2>1, <2>2
<1> HIDE DEF t
<1>6. \A j \in 1..e : t[j] = u[j]
  BY <1>4, <1>5, <1>8
<1>7. t = [j \in 1..e |-> t[j]] /\ u = [j \in 1..e |-> u[j]]
  BY <1>0, <1>3
<1> QED
  BY <1>6, <1>7 DEF t

\* The sequences t joined, so far.
Joined(k, t, f) == [i \in 0..k |-> IF i = 0 THEN <<>> ELSE f[i - 1] \o t[i]]

\* Only one function satisfies the recursion that joins sequences.
LEMMA JoinedOnce ==
  ASSUME NEW k \in Nat, NEW t, NEW f, NEW g,
         f = Joined(k, t, f), g = Joined(k, t, g)
  PROVE  f = g
<1>1. \A i \in 0..k : f[i] = IF i = 0 THEN <<>> ELSE f[i - 1] \o t[i]
  BY DEF Joined
<1>2. \A i \in 0..k : g[i] = IF i = 0 THEN <<>> ELSE g[i - 1] \o t[i]
  BY DEF Joined
<1> DEFINE G == {i \in Nat : i <= k => f[i] = g[i]}
<1>3. 0 \in G
  BY <1>1, <1>2
<1>4. ASSUME NEW i \in Nat, i \in G PROVE i + 1 \in G
  <2> SUFFICES ASSUME i + 1 <= k PROVE f[i + 1] = g[i + 1]
    OBVIOUS
  <2>1. i + 1 \in 0..k /\ i + 1 # 0 /\ (i + 1) - 1 = i
    OBVIOUS
  <2>2. f[i] = g[i]
    BY <1>4
  <2>3. f[i + 1] = f[i] \o t[i + 1]
    BY <1>1, <2>1
  <2>4. g[i + 1] = g[i] \o t[i + 1]
    BY <1>2, <2>1
  <2> QED
    BY <2>2, <2>3, <2>4
<1>5. \A i \in Nat : i \in G
  <2> HIDE DEF G
  <2> QED
    BY <1>3, <1>4, NatSetInduction
<1>6. \A i \in 0..k : i \in Nat /\ i <= k
  OBVIOUS
<1>9. \A i \in 0..k : f[i] = g[i]
  BY <1>5, <1>6
<1>8. f = [i \in 0..k |-> f[i]] /\ g = [i \in 0..k |-> g[i]]
  BY DEF Joined
<1> QED
  BY <1>8, <1>9

\* More elements at the end, and fewer at the start.
LEMMA StretchGrows ==
  ASSUME NEW b \in Nat, NEW t \in Nat, b <= t, NEW n \in Nat
  PROVE  Stretch(b, t) \o [i \in 1..n |-> t + i] = Stretch(b, t + n)
<1> DEFINE s == Stretch(b, t)
           r == [i \in 1..n |-> t + i]
           u == Stretch(b, t + n)
           d == t - b
           e == (t + n) - b
<1>1. d \in Nat /\ e \in Nat /\ e = d + n
  OBVIOUS
<1>2. s \in Lists(d, Nat) /\ r \in Lists(n, Nat) /\ u \in Lists(e, Nat)
  BY <1>1 DEF Stretch, Lists
<1>3. Follow(u, d, s, n, r)
  BY <1>1 DEF Stretch, Follow
<1> HIDE DEF s, r, u, d, e
<1>4. s \o r = u
  BY <1>1, <1>2, <1>3, Joins
<1> QED
  BY <1>4 DEF s, r, u

LEMMA StretchShrinks ==
  ASSUME NEW b \in Nat, NEW t \in Nat, b <= t, NEW n \in Nat, b + n <= t
  PROVE  /\ Len(Stretch(b, t)) = t - b
         /\ SubSeq(Stretch(b, t), 1, n) = [i \in 1..n |-> b + i]
         /\ SubSeq(Stretch(b, t), n + 1, t - b) = Stretch(b + n, t)
<1> DEFINE s == Stretch(b, t)
<1>1. s \in Seq(Nat) /\ Len(s) = t - b /\ t - b \in Nat
  <2>1. s \in [1..(t - b) -> Nat] /\ t - b \in Nat
    BY DEF Stretch
  <2> HIDE DEF s
  <2> QED
    BY <2>1
<1>2. \A j \in 1..(t - b) : s[j] = b + j
  BY DEF Stretch
<1> HIDE DEF s
<1>3. SubSeq(s, 1, n) = [i \in 1..n |-> b + i]
  <2>1. SubSeq(s, 1, n) = [i \in 1..n |-> s[i]]
    BY <1>1
  <2>2. \A i \in 1..n : s[i] = b + i
    BY <1>2
  <2> QED
    BY <2>1, <2>2
<1>4. SubSeq(s, n + 1, t - b) = [i \in 1..(t - (b + n)) |-> (b + n) + i]
  <2>1. SubSeq(s, n + 1, t - b) = [i \in 1..((t - b) - (n + 1) + 1) |-> s[(n + 1) + i - 1]]
    BY <1>1
  <2>2. (t - b) - (n + 1) + 1 = t - (b + n)
    OBVIOUS
  <2>3. \A i \in 1..(t - (b + n)) : s[(n + 1) + i - 1] = (b + n) + i
    <3> SUFFICES ASSUME NEW i \in 1..(t - (b + n)) PROVE s[(n + 1) + i - 1] = (b + n) + i
      OBVIOUS
    <3>1. (n + 1) + i - 1 = n + i /\ n + i \in 1..(t - b) /\ b + (n + i) = (b + n) + i
      OBVIOUS
    <3> QED
      BY <1>2, <3>1
  <2> QED
    BY <2>1, <2>2, <2>3
<1> QED
  BY <1>1, <1>3, <1>4 DEF s, Stretch

---------------------------------------------------------------------------
(* What is queued                                                          *)

LEMMA TheWay ==
  ASSUME QueueInv, NEW before \in [inUse -> Nat], Numbered(before)
  PROVE  \E k \in Nat : k >= 1 /\ \E c \in [1..k -> inUse] :
           /\ c = (CHOOSE p \in Paths : IsChain(p)) /\ Len(c) = k
           /\ c[1] = popHead /\ c[k] = pushHead
           /\ \A i \in 2..k : c[i] # popHead
           /\ \A i \in 1..(k - 1) : before[c[i + 1]] = before[c[i]] + Size(c[i])
<1> DEFINE w == CHOOSE p \in Paths : IsChain(p)
<1>1. w \in Paths /\ IsChain(w)
  BY DEF QueueInv, ChainThere, Chained
<1> HIDE DEF w
<1>2. PICK k \in 1..Cardinality(inUse) : w \in [1..k -> inUse]
  BY <1>1 DEF Paths
<1>3. k \in Nat /\ k >= 1
  BY <1>2
<1>4. Len(w) = k
  BY <1>2, <1>3
<1>5. /\ w[1] = popHead /\ w[k] = pushHead
      /\ \A i \in 1..(k - 1) : node[w[i]].next = w[i + 1]
      /\ \A i, j \in 1..k : w[i] = w[j] => i = j
  BY <1>1, <1>4 DEF IsChain
<1>6. \A i \in 1..k : w[i] \in inUse
  BY <1>2
<1>7. NoNode \notin inUse
  BY QueueAssumption DEF QueueInv, QueueTyped
<1>8. ASSUME NEW i \in 1..(k - 1) PROVE before[w[i + 1]] = before[w[i]] + Size(w[i])
  <2>1. i \in 1..k /\ i + 1 \in 1..k /\ k \in 1..k /\ i # k
    BY <1>3
  <2>2. w[i] # pushHead /\ w[i] \in inUse /\ w[i + 1] # NoNode
    BY <1>5, <1>6, <1>7, <2>1
  <2>3. node[w[i]].next = w[i + 1]
    BY <1>5
  <2>4. w[i] # producer.fresh
    <3> SUFFICES ASSUME w[i] = producer.fresh PROVE FALSE
      OBVIOUS
    <3>1. producer.fresh # NoNode
      BY <1>7, <2>2
    <3>2. node[producer.fresh].next = NoNode
      BY <3>1 DEF Numbered, EndNumbered
    <3> QED
      BY <2>2, <2>3, <3>2
  <2>5. before[node[w[i]].next] = before[w[i]] + Size(w[i])
    BY <2>2, <2>4 DEF Numbered, LinksNumbered
  <2> QED
    BY <2>3, <2>5
<1>9. \A i \in 2..k : w[i] # popHead
  <2> SUFFICES ASSUME NEW i \in 2..k PROVE w[i] # popHead
    OBVIOUS
  <2>1. i \in 1..k /\ 1 \in 1..k /\ i # 1
    BY <1>3
  <2> QED
    BY <1>5, <2>1
<1> QED
  BY <1>2, <1>3, <1>4, <1>5, <1>8, <1>9 DEF w

\* Numbers of which each is the one before it and what that one adds.
LEMMA Rising ==
  ASSUME NEW k \in Nat, k >= 1, NEW h \in [1..k -> Nat], NEW d \in [1..k -> Nat],
         \A i \in 1..(k - 1) : h[i + 1] = h[i] + d[i]
  PROVE  \A i \in 1..k : h[i] >= h[1] /\ (i > 1 => h[i] >= h[1] + d[1])
<1>0. 1 \in 1..k /\ h[1] \in Nat /\ d[1] \in Nat
  OBVIOUS
<1> DEFINE G == {i \in Nat : i \in 1..k => h[i] >= h[1] /\ (i > 1 => h[i] >= h[1] + d[1])}
<1>1. 0 \in G
  OBVIOUS
<1>2. ASSUME NEW i \in Nat, i \in G PROVE i + 1 \in G
  <2>1. CASE i + 1 \in 1..k /\ i # 0
    <3>1. i \in 1..(k - 1) /\ i \in 1..k
      BY <2>1
    <3>2. h[i + 1] = h[i] + d[i] /\ h[i] \in Nat /\ d[i] \in Nat
      BY <3>1
    <3>3. h[i] >= h[1] /\ (i > 1 => h[i] >= h[1] + d[1])
      BY <1>2, <3>1
    <3>4. h[i + 1] >= h[1] + d[1]
      <4>1. CASE i = 1
        BY <1>0, <3>2, <4>1
      <4>2. CASE i # 1
        BY <1>0, <3>1, <3>2, <3>3, <4>2
      <4> QED
        BY <4>1, <4>2
    <3> QED
      BY <1>0, <3>4
  <2>2. CASE i = 0
    BY <1>0, <2>2
  <2>3. CASE ~ (i + 1 \in 1..k)
    BY <2>3
  <2> QED
    BY <2>1, <2>2, <2>3
<1>3. \A i \in Nat : i \in G
  <2> HIDE DEF G
  <2> QED
    BY <1>1, <1>2, NatSetInduction
<1> QED
  BY <1>3

LEMMA Ends ==
  ASSUME NEW k \in Nat, k >= 1, NEW h \in [1..k -> Nat], NEW d \in [1..k -> Nat],
         \A i \in 1..(k - 1) : h[i + 1] = h[i] + d[i]
  PROVE  \E e \in [0..k -> Nat] :
           /\ e[0] = 0 /\ e[k] = (h[k] + d[k]) - h[1]
           /\ \A i \in 1..k : e[i - 1] = h[i] - h[1] /\ e[i] = e[i - 1] + d[i]
           /\ \A i \in 2..k : \A j \in Nat :
                j >= 1 => e[i - 1] + j > d[1] /\ e[i - 1] + j \in Nat
                          /\ h[1] + (e[i - 1] + j) = h[i] + j
<1> DEFINE e == [i \in 0..k |-> IF i = 0 THEN 0 ELSE (h[i] + d[i]) - h[1]]
<1>1. \A i \in 1..k : h[i] >= h[1]
  BY Rising
<1>2. 1 \in 1..k /\ h[1] \in Nat /\ \A i \in 1..k : h[i] \in Nat /\ d[i] \in Nat
  OBVIOUS
<1>3. e[0] = 0 /\ \A i \in 1..k : e[i] = (h[i] + d[i]) - h[1] /\ e[i] \in Nat
  BY <1>1, <1>2
<1>4. e \in [0..k -> Nat]
  BY <1>1, <1>2
<1> HIDE DEF e
<1>5. ASSUME NEW i \in 1..k PROVE e[i - 1] = h[i] - h[1] /\ e[i] = e[i - 1] + d[i]
  <2>1. CASE i = 1
    BY <1>2, <1>3, <2>1
  <2>2. CASE i # 1
    <3>1. i - 1 \in 1..(k - 1) /\ i - 1 \in 1..k /\ (i - 1) + 1 = i
      BY <2>2
    <3>2. h[i] = h[i - 1] + d[i - 1]
      BY <3>1
    <3>3. e[i - 1] = (h[i - 1] + d[i - 1]) - h[1] /\ e[i] = (h[i] + d[i]) - h[1]
      BY <1>3, <3>1
    <3>4. h[i] \in Nat /\ d[i] \in Nat
      BY <1>2
    <3> QED
      BY <1>2, <3>2, <3>3, <3>4
  <2> QED
    BY <2>1, <2>2
<1>6. k \in 1..k
  OBVIOUS
<1>7. ASSUME NEW i \in 2..k, NEW j \in Nat, j >= 1
      PROVE  e[i - 1] + j > d[1] /\ e[i - 1] + j \in Nat /\ h[1] + (e[i - 1] + j) = h[i] + j
  <2>1. i \in 1..k /\ i > 1
    OBVIOUS
  <2>2. h[i] \in Nat /\ h[i] >= h[1] + d[1] /\ e[i - 1] = h[i] - h[1]
    BY <1>2, <1>5, <2>1, Rising
  <2> QED
    BY ONLY <1>2, <1>7, <2>2
<1> QED
  BY <1>3, <1>4, <1>5, <1>6, <1>7

\* The first n elements of q.
Start(q, n) == [j \in 1..n |-> q[j]]

LEMMA StartGrows ==
  ASSUME NEW q \in [Nat -> Nat], NEW a \in Nat, NEW d \in Nat, NEW e \in Nat, e = a + d,
         NEW v \in Lists(d, Nat), \A j \in 1..d : v[j] = q[a + j]
  PROVE  Start(q, a) \o v = Start(q, e)
<1> DEFINE s == Start(q, a)
           u == Start(q, e)
<1>1. s \in Lists(a, Nat) /\ u \in Lists(e, Nat)
  BY DEF Start, Lists
<1>2. Follow(u, a, s, d, v)
  BY DEF Start, Follow
<1> HIDE DEF s, u
<1>4. s \o v = u
  BY <1>1, <1>2, Joins
<1> QED
  BY <1>4 DEF s, u

\* Lists that are parts of q one after the other: joining them gives the start of q.
InParts(k, e, d, q, t) ==
  /\ e \in [0..k -> Nat] /\ d \in [1..k -> Nat] /\ q \in [Nat -> Nat] /\ e[0] = 0
  /\ \A i \in 1..k :
       /\ e[i] = e[i - 1] + d[i] /\ t[i] \in Lists(d[i], Nat)
       /\ \A j \in 1..d[i] : t[i][j] = q[e[i - 1] + j]

\* The sequences of t one after the other.
AllOf(k, t) == (CHOOSE f : f = Joined(k, t, f))[k]

LEMMA AllOfIs ==
  ASSUME NEW k \in Nat, NEW e, NEW d, NEW q, NEW t, InParts(k, e, d, q, t)
  PROVE  AllOf(k, t) = Start(q, e[k])
<1> DEFINE f == [i \in 0..k |-> Start(q, e[i])]
<1>0. e \in [0..k -> Nat] /\ d \in [1..k -> Nat] /\ q \in [Nat -> Nat] /\ e[0] = 0
  BY DEF InParts
<1>1. ASSUME NEW i \in 1..k PROVE Start(q, e[i]) = Start(q, e[i - 1]) \o t[i]
  <2>0. i - 1 \in 0..k /\ i \in 0..k
    BY ONLY i \in 1..k, k \in Nat
  <2>1. e[i - 1] \in Nat /\ e[i] \in Nat /\ d[i] \in Nat /\ e[i] = e[i - 1] + d[i]
    BY <1>0, <2>0 DEF InParts
  <2>2. t[i] \in Lists(d[i], Nat) /\ \A j \in 1..d[i] : t[i][j] = q[e[i - 1] + j]
    BY DEF InParts
  <2> QED
    BY ONLY <1>0, <2>1, <2>2, StartGrows
<1>2. Start(q, e[0]) = <<>>
  BY <1>0 DEF Start
<1>3. f = Joined(k, t, f)
  <2>1. \A i \in 0..k : f[i] = Start(q, e[i])
    BY DEF f
  <2>2. \A i \in 1..k : i - 1 \in 0..k /\ i \in 0..k /\ i # 0
    OBVIOUS
  <2>3. \A i \in 0..k : Start(q, e[i]) = IF i = 0 THEN <<>> ELSE f[i - 1] \o t[i]
    <3> HIDE DEF f
    <3>1. \A i \in 1..k : Start(q, e[i]) = f[i - 1] \o t[i]
      BY <1>1, <2>1, <2>2
    <3>2. \A i \in 0..k : i = 0 \/ i \in 1..k
      OBVIOUS
    <3> QED
      BY <1>2, <3>1, <3>2
  <2> QED
    BY <2>3 DEF Joined
<1> DEFINE g == CHOOSE u : u = Joined(k, t, u)
<1> HIDE DEF f
<1>4. g = Joined(k, t, g)
  BY <1>3
<1> HIDE DEF g
<1>5. g = f
  BY <1>3, <1>4, JoinedOnce
<1>6. f[k] = Start(q, e[k])
  BY DEF f
<1> QED
  BY <1>5, <1>6 DEF g, AllOf

LEMMA Extended ==
  ASSUME NEW d \in Nat, NEW b \in Nat, NEW s \in Lists(d, Nat)
  PROVE  \E q \in [Nat -> Nat] :
           (\A j \in 1..d : q[j] = s[j]) /\ \A j \in Nat : j > d => q[j] = b + j
<1> DEFINE q == [j \in Nat |-> IF j \in 1..d THEN s[j] ELSE b + j]
<1>1. \A j \in 1..d : s[j] \in Nat
  BY DEF Lists
<1>2. q \in [Nat -> Nat]
  BY <1>1
<1>3. \A j \in 1..d : q[j] = s[j]
  OBVIOUS
<1>4. \A j \in Nat : j > d => q[j] = b + j
  OBVIOUS
<1> HIDE DEF q
<1> QED
  BY <1>2, <1>3, <1>4

LEMMA ContentsIs ==
  ASSUME QueueTyped, NEW n \in inUse, NEW k \in Nat
  PROVE  /\ Contents(n, k) \in Lists(k, Nat)
         /\ \A j \in 1..k : /\ Contents(n, k)[j] = node[n].ring[(node[n].pop + (j - 1)) % NodeSlots]
                            /\ Contents(n, k)[j] \in Nat
<1>1. /\ node[n].pop \in Nat /\ node[n].ring \in [Ring -> 0..MaxSent] /\ MaxSent \in Nat
  BY FieldTypes, Numbers DEF Count
<1> DEFINE p == node[n].pop
           x == node[n].ring
<1>2. ASSUME NEW j \in 1..k PROVE p + j - 1 = p + (j - 1) /\ x[(p + (j - 1)) % NodeSlots] \in Nat
  <2>1. p + (j - 1) \in Nat /\ p + j - 1 = p + (j - 1)
    BY <1>1
  <2>2. ((p + (j - 1)) % NodeSlots) \in Ring
    BY <2>1, SlotOf
  <2> QED
    BY <1>1, <2>1, <2>2
<1>3. \A j \in 1..k : Contents(n, k)[j] = x[(p + (j - 1)) % NodeSlots]
  BY <1>2 DEF Contents
<1>4. Contents(n, k) \in [1..k -> Nat]
  BY <1>2 DEF Contents
<1> QED
  BY <1>2, <1>3, <1>4 DEF Lists

\* The number in a slot that the consumer has not begun to empty.
LEMMA NumberIs ==
  ASSUME QueueInv, NEW before \in [inUse -> Nat], Numbered(before), NEW n \in inUse,
         NEW j \in Nat, Taking(n) < j, j <= Size(n)
  PROVE  node[n].ring[(node[n].pop + (j - 1)) % NodeSlots] = before[n] + j
<1>1. Size(n) \in Nat /\ Filling(n) \in 0..NodeSlots /\ NodeSlots \in Nat /\ Taking(n) \in Nat
  BY FieldTypes, FillTypes, Numbers DEF QueueInv
<1>2. j - 1 \in Taking(n)..(Size(n) + Filling(n) - 1)
  BY <1>1
<1>3. node[n].ring[(node[n].pop + (j - 1)) % NodeSlots] = before[n] + (j - 1) + 1
  BY <1>2 DEF Numbered, RingsNumbered
<1>4. before[n] \in Nat
  OBVIOUS
<1> QED
  BY <1>3, <1>4

LEMMA EndsAt ==
  ASSUME NEW a \in Nat, NEW b \in Nat, NEW d \in Nat, NEW i \in Nat, NEW t,
         t = b + i, a + d <= b + i
  PROVE  t \in Nat /\ a + d <= t
OBVIOUS

LEMMA QueuedIs ==
  ASSUME QueueInv, NEW before \in [inUse -> Nat], Numbered(before)
  PROVE  /\ Published \in Nat /\ before[popHead] \in Nat /\ Size(popHead) \in Nat
         /\ before[popHead] + Size(popHead) <= Published
         /\ \E q \in [Nat -> Nat] :
              /\ Queued = Start(q, Published - before[popHead])
              /\ \A j \in 1..(Published - before[popHead]) :
                   Taking(popHead) < j => q[j] = before[popHead] + j
<1>1. PICK k \in Nat : k >= 1 /\ \E c \in [1..k -> inUse] :
           /\ c = (CHOOSE p \in Paths : IsChain(p)) /\ Len(c) = k
           /\ c[1] = popHead /\ c[k] = pushHead
           /\ \A i \in 2..k : c[i] # popHead
           /\ \A i \in 1..(k - 1) : before[c[i + 1]] = before[c[i]] + Size(c[i])
  BY TheWay
<1>2. PICK c \in [1..k -> inUse] :
           /\ c = (CHOOSE p \in Paths : IsChain(p)) /\ Len(c) = k
           /\ c[1] = popHead /\ c[k] = pushHead
           /\ \A i \in 2..k : c[i] # popHead
           /\ \A i \in 1..(k - 1) : before[c[i + 1]] = before[c[i]] + Size(c[i])
  BY <1>1
<1>3. /\ c[1] = popHead /\ c[k] = pushHead /\ Len(c) = k
      /\ c = CHOOSE p \in Paths : IsChain(p)
  BY <1>2
<1>4. \A i \in 2..k : c[i] # popHead
  BY <1>2
<1>5. \A i \in 1..(k - 1) : before[c[i + 1]] = before[c[i]] + Size(c[i])
  BY <1>2
<1>6. 1 \in 1..k /\ k \in 1..k /\ k \in 0..k
  BY <1>1
<1>7. ASSUME NEW n \in inUse PROVE Size(n) \in Nat /\ SizeOf(n) = Size(n)
  BY FieldTypes, SizeIs DEF QueueInv, RingsSound
<1> DEFINE h == [i \in 1..k |-> before[c[i]]]
           d == [i \in 1..k |-> Size(c[i])]
           t == [i \in 1..k |-> Contents(c[i], Size(c[i]))]
<1>8. h \in [1..k -> Nat] /\ d \in [1..k -> Nat]
  BY <1>7
<1>9. \A i \in 1..k : /\ c[i] \in inUse /\ h[i] = before[c[i]] /\ d[i] = Size(c[i])
                      /\ t[i] = Contents(c[i], Size(c[i])) /\ h[i] \in Nat /\ d[i] \in Nat
  BY <1>7
<1> HIDE DEF h, d, t
<1>10. ASSUME NEW i \in 1..(k - 1) PROVE h[i + 1] = h[i] + d[i]
  <2>1. i \in 1..k /\ i + 1 \in 1..k
    OBVIOUS
  <2>2. before[c[i + 1]] = before[c[i]] + Size(c[i])
    BY <1>5
  <2> QED
    BY <1>9, <2>1, <2>2
<1>11. PICK e \in [0..k -> Nat] :
           /\ e[0] = 0 /\ e[k] = (h[k] + d[k]) - h[1]
           /\ \A i \in 1..k : e[i - 1] = h[i] - h[1] /\ e[i] = e[i - 1] + d[i]
           /\ \A i \in 2..k : \A j \in Nat :
                j >= 1 => e[i - 1] + j > d[1] /\ e[i - 1] + j \in Nat
                          /\ h[1] + (e[i - 1] + j) = h[i] + j
  BY <1>1, <1>8, <1>10, Ends
<1>12. h[k] + d[k] = Published
  <2>1. h[k] = before[pushHead] /\ d[k] = Size(pushHead)
    BY <1>3, <1>6, <1>9
  <2> QED
    BY <2>1 DEF Numbered, EndNumbered
<1>13. h[1] = before[popHead] /\ d[1] = Size(popHead) /\ h[1] \in Nat /\ d[1] \in Nat
       /\ popHead \in inUse /\ t[1] = Contents(popHead, Size(popHead))
  BY <1>3, <1>6, <1>9
<1>14. \A i \in 1..k : h[i] >= h[1] /\ (i > 1 => h[i] >= h[1] + d[1])
  BY <1>1, <1>8, <1>10, Rising
<1>15. h[1] + d[1] <= h[k] + d[k] /\ h[k] \in Nat /\ d[k] \in Nat
  <2>1. h[k] \in Nat /\ d[k] \in Nat /\ (k > 1 => h[k] >= h[1] + d[1])
    BY <1>6, <1>9, <1>14
  <2>2. CASE k = 1
    BY <1>13, <2>1, <2>2
  <2>3. CASE k # 1
    BY <1>1, <1>13, <2>1, <2>3
  <2> QED
    BY <2>1, <2>2, <2>3
<1>16. \A i \in 1..k : t[i] \in Lists(d[i], Nat)
  <2> SUFFICES ASSUME NEW i \in 1..k PROVE t[i] \in Lists(d[i], Nat)
    OBVIOUS
  <2>1. c[i] \in inUse /\ d[i] = Size(c[i]) /\ d[i] \in Nat /\ t[i] = Contents(c[i], d[i])
    BY <1>9
  <2> QED
    BY <2>1, ContentsIs DEF QueueInv
<1> DEFINE s == t[1]
<1>17. s \in Lists(d[1], Nat)
  BY <1>6, <1>16
<1>18. PICK q \in [Nat -> Nat] : /\ \A j \in 1..d[1] : q[j] = s[j]
                                /\ \A j \in Nat : j > d[1] => q[j] = h[1] + j
  BY <1>13, <1>17, Extended
<1> HIDE DEF s
<1>19. ASSUME NEW n \in inUse, NEW j \in Nat, Taking(n) < j, j <= Size(n)
       PROVE  Contents(n, Size(n))[j] = before[n] + j
  <2>1. Size(n) \in Nat /\ Taking(n) \in Nat
    BY <1>7, FillTypes DEF QueueInv
  <2>2. j \in 1..Size(n)
    BY <1>19, <2>1
  <2>3. Contents(n, Size(n))[j] = node[n].ring[(node[n].pop + (j - 1)) % NodeSlots]
    BY <2>1, <2>2, ContentsIs DEF QueueInv
  <2> QED
    BY <1>19, <2>3, NumberIs
<1>20. ASSUME NEW i \in 1..k, NEW j \in Nat, j >= 1, j <= d[i]
       PROVE  t[i][j] = q[e[i - 1] + j]
  <2>1. CASE i = 1
    <3>1. e[i - 1] + j = j /\ j \in 1..d[1]
      BY <1>6, <1>9, <1>11, <1>20, <2>1
    <3> QED
      BY <1>18, <2>1, <3>1 DEF s
  <2>2. CASE i # 1
    <3>1. e[i - 1] = h[i] - h[1] /\ h[i] \in Nat /\ h[i] >= h[1] + d[1] /\ d[i] \in Nat
      <4>1. i > 1
        BY <2>2
      <4> QED
        BY <1>9, <1>11, <1>14, <4>1
    <3>2. e[i - 1] + j > d[1] /\ e[i - 1] + j \in Nat /\ h[1] + (e[i - 1] + j) = h[i] + j
      <4>1. i \in 2..k
        BY <2>2
      <4> QED
        BY <1>11, <1>20, <4>1
    <3>3. q[e[i - 1] + j] = h[i] + j
      BY <1>18, <3>2
    <3>4. c[i] \in inUse /\ h[i] = before[c[i]] /\ d[i] = Size(c[i])
          /\ t[i] = Contents(c[i], Size(c[i]))
      BY <1>9
    <3>5. i \in 2..k
      BY <2>2
    <3>6. Taking(c[i]) = 0
      BY <1>4, <3>5 DEF Taking
    <3>7. j \in Nat /\ 0 < j /\ j <= Size(c[i])
      BY <1>20, <3>1, <3>4
    <3>8. t[i][j] = before[c[i]] + j
      BY <1>19, <3>4, <3>6, <3>7
    <3> QED
      BY <3>3, <3>4, <3>8
  <2> QED
    BY <2>1, <2>2
<1>21. AllOf(k, t) = Start(q, e[k])
  <2>1. e[0] = 0 /\ \A i \in 1..k : e[i] = e[i - 1] + d[i]
    BY <1>11
  <2>2. InParts(k, e, d, q, t)
    <3>1. \A i \in 1..k : \A j \in 1..d[i] : j \in Nat /\ j >= 1 /\ j <= d[i]
      BY <1>9
    <3>2. \A i \in 1..k : \A j \in 1..d[i] : t[i][j] = q[e[i - 1] + j]
      BY <1>20, <3>1
    <3> QED
      BY <1>8, <1>16, <2>1, <3>2 DEF InParts
  <2> QED
    BY ONLY <2>2, AllOfIs, k \in Nat
<1>22. Queued = AllOf(k, t)
  <2> DEFINE r(f) == [i \in 0..Len(c) |-> IF i = 0 THEN <<>> ELSE f[i - 1] \o Contents(c[i], SizeOf(c[i]))]
  <2>0. c = CHOOSE p \in Paths : IsChain(p)
    BY <1>3
  <2>1. Queued = (CHOOSE f : f = r(f))[Len(c)]
    BY ONLY <2>0 DEF Queued
  <2>2. ASSUME NEW f PROVE r(f) = Joined(k, t, f)
    <3>1. \A i \in 0..k : i = 0 \/ i \in 1..k
      OBVIOUS
    <3>2. \A i \in 1..k : t[i] = Contents(c[i], SizeOf(c[i]))
      BY <1>7, <1>9
    <3>3. Len(c) = k
      BY <1>3
    <3> QED
      BY ONLY <3>1, <3>2, <3>3 DEF Joined
  <2> HIDE DEF r
  <2> QED
    BY <1>3, <2>1, <2>2 DEF AllOf
<1>23. Queued = Start(q, Published - before[popHead])
  <2>1. e[k] = Published - before[popHead]
    BY <1>11, <1>12, <1>13
  <2> QED
    BY <1>21, <1>22, <2>1
<1>24. ASSUME NEW j \in 1..(Published - before[popHead]), Taking(popHead) < j
       PROVE  q[j] = before[popHead] + j
  <2>0. j \in Nat
    OBVIOUS
  <2>1. CASE j <= d[1]
    <3>1. popHead \in inUse /\ j <= Size(popHead) /\ j \in 1..d[1]
      BY <1>13, <2>0, <2>1
    <3>2. Contents(popHead, Size(popHead))[j] = before[popHead] + j
      BY <1>19, <1>24, <2>0, <3>1
    <3> QED
      BY <1>13, <1>18, <3>1, <3>2 DEF s
  <2>2. CASE ~ (j <= d[1])
    BY <1>13, <1>18, <2>0, <2>2
  <2> QED
    BY <2>1, <2>2
<1>25. /\ Published \in Nat /\ before[popHead] \in Nat /\ Size(popHead) \in Nat
       /\ before[popHead] + Size(popHead) <= Published
  <2>1. h[1] \in Nat /\ d[1] \in Nat /\ h[k] \in Nat /\ d[k] \in Nat
    BY <1>13, <1>15
  <2>2. Published = h[k] + d[k] /\ h[1] + d[1] <= h[k] + d[k]
    BY <1>12, <1>15
  <2>3. Published \in Nat /\ h[1] + d[1] <= Published
    BY ONLY <2>1, <2>2, EndsAt
  <2> QED
    BY ONLY <1>13, <2>1, <2>3
<1> QED
  BY <1>23, <1>24, <1>25

\* What the abstract queue holds, by the numbers.
ReadsBy(before) ==
  /\ Published \in Nat /\ before[popHead] \in Nat /\ before[popHead] <= Published
  /\ Inside = Stretch(before[popHead], Published)

LEMMA StartIs ==
  ASSUME NEW b \in Nat, NEW t \in Nat, b <= t, NEW q \in [Nat -> Nat],
         \A j \in 1..(t - b) : q[j] = b + j
  PROVE  Start(q, t - b) = Stretch(b, t)
BY DEF Start, Stretch

LEMMA RestIs ==
  ASSUME NEW b \in Nat, NEW t \in Nat, b <= t, NEW q \in [Nat -> Nat], NEW s \in Nat, b + s <= t,
         NEW seen \in Lists(s, Nat), \A j \in 1..s : seen[j] = b + j,
         \A j \in 1..(t - b) : s < j => q[j] = b + j
  PROVE  seen \o SubSeq(Start(q, t - b), s + 1, Len(Start(q, t - b))) = Stretch(b, t)
<1> DEFINE e == t - b
           d == e - s
           v == Start(q, e)
           r == SubSeq(v, s + 1, e)
           u == Stretch(b, t)
<1>1. e \in Nat /\ d \in Nat /\ e = s + d
  OBVIOUS
<1>2. v \in [1..e -> Nat] /\ \A j \in 1..e : v[j] = q[j]
  BY DEF Start
<1>3. u \in Lists(e, Nat) /\ \A j \in 1..e : u[j] = b + j
  BY DEF Stretch, Lists
<1>4. \A j \in 1..e : s < j => q[j] = b + j
  OBVIOUS
<1> HIDE DEF e, v, u
<1>5. v \in Seq(Nat) /\ Len(v) = e
  BY <1>1, <1>2, FunctionIsSeq
<1>6. r = [i \in 1..(e - (s + 1) + 1) |-> v[(s + 1) + i - 1]]
  BY <1>1, <1>5
<1>7. e - (s + 1) + 1 = d
  BY <1>1
<1>8. r = [i \in 1..d |-> v[(s + 1) + i - 1]]
  BY <1>6, <1>7
<1> HIDE DEF d, r
<1>9. ASSUME NEW i \in 1..d PROVE v[(s + 1) + i - 1] = b + (s + i) /\ s + i \in 1..e
  <2>1. s + i \in 1..e /\ s < s + i /\ (s + 1) + i - 1 = s + i
    BY <1>1
  <2> QED
    BY <1>2, <1>4, <2>1
<1>10. \A i \in 1..d : r[i] = b + (s + i) /\ r[i] \in Nat
  <2> SUFFICES ASSUME NEW i \in 1..d PROVE r[i] = b + (s + i) /\ r[i] \in Nat
    OBVIOUS
  <2>1. r[i] = v[(s + 1) + i - 1]
    BY <1>8
  <2>2. s + i \in Nat
    BY <1>1
  <2> QED
    BY <1>9, <2>1, <2>2
<1>11. r \in Lists(d, Nat)
  BY <1>8, <1>10 DEF Lists
<1>12. \A j \in 1..s : j \in 1..e
  BY <1>1
<1>13. Follow(u, s, seen, d, r)
  BY <1>3, <1>9, <1>10, <1>12 DEF Follow
<1>14. seen \o r = u
  BY <1>1, <1>3, <1>11, <1>13, Joins
<1> QED
  BY <1>5, <1>14 DEF r, v, e, u

LEMMA InsideIs ==
  ASSUME QueueInv, NEW before \in [inUse -> Nat], Numbered(before)
  PROVE  ReadsBy(before)
<1> DEFINE b == before[popHead]
           t == Published
<1>1. t \in Nat /\ b \in Nat /\ Size(popHead) \in Nat /\ b + Size(popHead) <= t
  BY QueuedIs
<1>2. PICK q \in [Nat -> Nat] :
         Queued = Start(q, t - b) /\ \A j \in 1..(t - b) : Taking(popHead) < j => q[j] = b + j
  BY QueuedIs
<1> HIDE DEF b, t
<1>3. b <= t
  BY <1>1
<1>4. Inside = Stretch(b, t)
  <2>1. CASE consumer.at = "count"
    <3> DEFINE seen == consumer.seen
               s == Len(seen)
    <3>1. seen \in Seq(1..MaxSent) /\ s <= Size(popHead)
      BY <2>1 DEF QueueInv, QueueTyped, ConsumerStates, ConsumerAt
    <3> HIDE DEF seen
    <3>2. s \in Nat /\ seen \in [1..s -> Nat]
      <4> DEFINE S == 1..MaxSent
      <4>0. seen \in Seq(S)
        BY <3>1
      <4> HIDE DEF S
      <4>3. Len(seen) \in Nat /\ seen \in [1..Len(seen) -> S]
        BY ONLY <4>0
      <4>1. s \in Nat /\ seen \in [1..s -> 1..MaxSent]
        BY <4>3 DEF S
      <4>2. \A i \in 1..MaxSent : i \in Nat
        BY Numbers
      <4> HIDE DEF s
      <4> QED
        BY <4>1, <4>2
    <3>3. seen \in Lists(s, Nat)
      BY <3>2 DEF Lists
    <3>4. \A j \in 1..s : seen[j] = b + j
      BY <2>1 DEF Numbered, SeenNumbered, b, seen
    <3>5. Taking(popHead) = s
      BY <2>1 DEF Taking, CAt, seen
    <3> HIDE DEF s
    <3>6. b + s <= t
      BY <1>1, <3>1, <3>2
    <3>7. seen \o SubSeq(Start(q, t - b), s + 1, Len(Start(q, t - b))) = Stretch(b, t)
      BY <1>1, <1>2, <1>3, <3>2, <3>3, <3>4, <3>5, <3>6, RestIs
    <3>8. Inside = seen \o SubSeq(Queued, s + 1, Len(Queued))
      BY <2>1 DEF Inside, CAt, seen, s
    <3> QED
      BY <1>2, <3>7, <3>8
  <2>2. CASE consumer.at # "count"
    <3>1. Taking(popHead) = 0 /\ Inside = Queued
      BY <2>2 DEF Taking, CAt, Inside
    <3>2. \A j \in 1..(t - b) : q[j] = b + j
      BY <1>1, <1>2, <3>1
    <3> QED
      BY <1>1, <1>2, <1>3, <3>1, <3>2, StartIs
  <2> QED
    BY <2>1, <2>2
<1> QED
  BY <1>1, <1>3, <1>4 DEF ReadsBy, b, t

\* What the numbers say of the list now, and after a step.
Reads == \A before \in [inUse -> Nat] : Numbered(before) => ReadsBy(before)

LEMMA ListReads == ASSUME QueueInv PROVE Reads
BY InsideIs DEF Reads

---------------------------------------------------------------------------
(* How the numbers move                                                    *)

LEMMA LinksIn ==
  ASSUME QueueInv
  PROVE  /\ pushHead \in inUse /\ popHead \in inUse
         /\ producer.fresh # NoNode =>
              producer.fresh \in inUse /\ producer.fresh # pushHead /\ producer.fresh # popHead
         /\ \A n \in inUse : n # pushHead /\ n # producer.fresh =>
              /\ node[n].next \in inUse /\ node[n].next # popHead
              /\ node[n].next # producer.fresh
<1>1. PICK k \in Nat : k >= 1 /\ \E c \in [1..k -> inUse] : Chained(c) /\ Len(c) = k
  BY Way DEF QueueInv
<1>2. PICK c \in [1..k -> inUse] : Chained(c) /\ Len(c) = k
  BY <1>1
<1>3. /\ c[1] = popHead /\ c[k] = pushHead
      /\ \A i \in 1..(k - 1) : node[c[i]].next = c[i + 1]
      /\ \A i, j \in 1..k : c[i] = c[j] => i = j
      /\ inUse = {c[i] : i \in 1..k} \cup ({producer.fresh} \ {NoNode})
      /\ \A i \in 1..k : c[i] # producer.fresh
  BY <1>2 DEF Chained, IsChain
<1>4. 1 \in 1..k /\ k \in 1..k
  BY <1>1
<1>5. ASSUME NEW n \in inUse, n # pushHead, n # producer.fresh
      PROVE  /\ node[n].next \in inUse /\ node[n].next # popHead
             /\ node[n].next # producer.fresh
  <2>1. PICK i \in 1..k : n = c[i]
    BY <1>3, <1>5
  <2>2. i \in 1..(k - 1) /\ i + 1 \in 1..k /\ i + 1 # 1
    BY <1>1, <1>3, <1>5, <2>1
  <2>3. node[n].next = c[i + 1]
    BY <1>3, <2>1, <2>2
  <2> QED
    BY <1>3, <1>4, <2>2, <2>3
<1> QED
  BY <1>3, <1>4, <1>5

\* What a step does to the numbers: the elements it moves come in, or go out, in order.
Passes(b, c) ==
  \/ /\ \E n \in 0..MaxBatch : Published' = Published + n
     /\ c[popHead'] = b[popHead] /\ got' = got
  \/ /\ Published' = Published
     /\ \E n \in 0..MaxBatch :
          /\ c[popHead'] = b[popHead] + n
          /\ got' = got \o [j \in 1..n |-> b[popHead] + j]
  \/ Published' = Published /\ c[popHead'] = Published /\ got' = got

Goes(b) == StepsSmall' /\ \E c \in [inUse' -> Nat] : Numbered(c)' /\ Passes(b, c)

\* What the numbers are about.
Alike(n) ==
  /\ node'[n].push = node[n].push /\ node'[n].pop = node[n].pop /\ node'[n].ring = node[n].ring
  /\ (n # pushHead => node'[n].next = node[n].next)
  /\ Filling(n)' = Filling(n) /\ Taking(n)' = Taking(n)

LEMMA PublishedIs ==
  ASSUME QueueInv
  PROVE  /\ Published \in Int /\ MaxBatch \in Nat /\ 0 \in 0..MaxBatch
         /\ sent \in Nat /\ producer.filled \in Nat
BY QueueAssumption, Numbers DEF QueueInv, QueueTyped, ProducerStates, Published

LEMMA NumbersKept ==
  ASSUME QueueInv, NEW b \in [inUse -> Nat], Numbered(b), UNCHANGED <<inUse, popHead, pushHead>>,
         Published' = Published, producer'.fresh = producer.fresh,
         producer.fresh # NoNode => producer'.filled = producer.filled,
         \A n \in inUse : Alike(n), SeenNumbered(b)'
  PROVE  Numbered(b)'
<1>1. \A n \in inUse : Size(n)' = Size(n)
  BY DEF Alike, Size
<1>2. RingsNumbered(b)'
  BY <1>1 DEF Numbered, RingsNumbered, Alike
<1>3. LinksNumbered(b)'
  BY <1>1 DEF Numbered, LinksNumbered, Alike
<1>4. EndNumbered(b)'
  BY <1>1, LinksIn DEF Numbered, EndNumbered, Alike
<1> QED
  BY <1>2, <1>3, <1>4 DEF Numbered

LEMMA NothingPasses ==
  ASSUME QueueInv, NEW b \in [inUse -> Nat], Numbered(b), UNCHANGED <<inUse, popHead, pushHead>>,
         Published' = Published, producer'.fresh = producer.fresh,
         producer.fresh # NoNode => producer'.filled = producer.filled,
         \A n \in inUse : Alike(n), SeenNumbered(b)', got' = got, StepsSmall'
  PROVE  Goes(b)
<1>1. Numbered(b)'
  BY NumbersKept
<1>2. Passes(b, b)
  <2>1. Published' = Published + 0 /\ 0 \in 0..MaxBatch
    BY PublishedIs
  <2> QED
    BY <2>1 DEF Passes
<1> QED
  BY <1>1, <1>2 DEF Goes

\* The producer goes on and writes nothing.
LEMMA ProducerGoes ==
  ASSUME QueueInv, StepsSmall, NEW b \in [inUse -> Nat], Numbered(b), ProducerKeeps,
         UNCHANGED <<inUse, node, pushHead, sent>>,
         producer'.filled = producer.filled, producer'.fresh = producer.fresh
  PROVE  Goes(b)
<1>1. UNCHANGED <<got, consumer, popHead>>
  BY DEF ProducerKeeps
<1>2. Published' = Published
  BY DEF Published
<1>3. \A n \in inUse : Alike(n)
  BY <1>1 DEF Alike, Filling, Taking, CAt
<1>4. SeenNumbered(b)'
  BY <1>1 DEF Numbered, SeenNumbered
<1>5. StepsSmall'
  BY <1>1 DEF StepsSmall, Size
<1> QED
  BY <1>1, <1>2, <1>3, <1>4, <1>5, NothingPasses

\* The consumer goes on and takes nothing.
LEMMA ConsumerGoes ==
  ASSUME QueueInv, StepsSmall, NEW b \in [inUse -> Nat], Numbered(b), ConsumerKeeps,
         UNCHANGED <<inUse, popHead, got>>,
         \A n \in inUse : /\ node'[n].push = node[n].push /\ node'[n].pop = node[n].pop
                          /\ node'[n].ring = node[n].ring /\ node'[n].next = node[n].next,
         consumer.at # "count", consumer'.at # "count",
         consumer'.then = "one" =>
           \A j \in 1..Len(consumer'.seen) : consumer'.seen[j] = b[popHead] + j,
         consumer'.at = "empty" /\ consumer'.then \in Callers => Size(popHead) = 0,
         Len(consumer'.seen) <= MaxBatch
  PROVE  Goes(b)
<1>1. UNCHANGED <<sent, producer, pushHead>>
  BY DEF ConsumerKeeps
<1>2. Published' = Published
  BY <1>1 DEF Published
<1>3. \A n \in inUse : Alike(n)
  BY <1>1 DEF Alike, Filling, Taking, CAt
<1>4. SeenNumbered(b)'
  BY DEF Numbered, SeenNumbered
<1>5. Size(popHead)' = Size(popHead)
  BY LinksIn DEF Size
<1>6. StepsSmall'
  BY <1>1, <1>5 DEF StepsSmall
<1> QED
  BY <1>1, <1>2, <1>3, <1>4, <1>6, NothingPasses

LEMMA ConsumerMovesOn ==
  ASSUME QueueInv, StepsSmall, NEW b \in [inUse -> Nat], Numbered(b), ConsumerKeeps,
         UNCHANGED <<inUse, node, popHead, got>>, consumer.at # "count", consumer'.at # "count",
         consumer'.seen = consumer.seen \/ consumer'.seen = <<>>,
         consumer'.then = "one" => consumer.then = "one" /\ consumer'.seen = consumer.seen,
         consumer'.at = "empty" /\ consumer'.then \in Callers => Size(popHead) = 0
  PROVE  Goes(b)
<1>1. consumer'.then = "one" =>
        \A j \in 1..Len(consumer'.seen) : consumer'.seen[j] = b[popHead] + j
  BY DEF Numbered, SeenNumbered
<1>2. Len(consumer'.seen) <= MaxBatch
  <2>1. CASE consumer'.seen = consumer.seen
    BY <2>1 DEF StepsSmall
  <2>2. CASE consumer'.seen = <<>>
    <3>1. Len(consumer'.seen) = 0
      BY <2>2
    <3> QED
      BY <3>1, PublishedIs
  <2> QED
    BY <2>1, <2>2
<1> QED
  BY <1>1, <1>2, ConsumerGoes

LEMMA PushGoes ==
  ASSUME QueueInv, StepsSmall, NEW b \in [inUse -> Nat], Numbered(b), NEW n \in 1..MaxBatch,
         NEW op \in {"one", "batch", "stream"}, Push(op, n)
  PROVE  Goes(b)
<1>1. /\ producer.at = "idle" /\ producer'.filled = 0 /\ producer'.fresh = NoNode
      /\ UNCHANGED <<inUse, node, pushHead, sent>> /\ ProducerKeeps
  BY DEF Push, PAt
<1>2. producer.filled = 0 /\ producer.fresh = NoNode
  BY <1>1 DEF QueueInv, ProducerAt, Calm, QueueTyped
<1> QED
  BY <1>1, <1>2, ProducerGoes

LEMMA PushMaybeFullGoes ==
  ASSUME QueueInv, StepsSmall, NEW b \in [inUse -> Nat], Numbered(b), PushMaybeFull \/ PushFull
  PROVE  Goes(b)
<1>1. /\ producer'.filled = producer.filled /\ producer'.fresh = producer.fresh
      /\ UNCHANGED <<inUse, node, pushHead, sent>> /\ ProducerKeeps
  <2>1. CASE PushMaybeFull
    BY <2>1 DEF PushMaybeFull, PGo, QueueInv, QueueTyped, ProducerStates
  <2>2. CASE PushFull
    BY <2>2 DEF PushFull, PGo, QueueInv, QueueTyped, ProducerStates
  <2> QED
    BY <2>1, <2>2
<1> QED
  BY <1>1, ProducerGoes

LEMMA CallGoes ==
  ASSUME QueueInv, StepsSmall, NEW b \in [inUse -> Nat], Numbered(b), NEW n \in 1..MaxBatch,
         NEW op \in {"one", "some", "range"}, Call(op, n)
  PROVE  Goes(b)
<1> DEFINE c == [ConsumerIdle EXCEPT !.op = op, !.left = n]
<1>1. /\ consumer.at = "idle"
      /\ consumer' = CASE op = "one" ->
                            [c EXCEPT !.at = "maybe", !.node = popHead, !.then = "look"]
                       [] op = "some" -> [c EXCEPT !.at = "cleanup", !.then = "some"]
                       [] op = "range" ->
                            [c EXCEPT !.at = "maybe", !.node = popHead, !.then = "range"]
      /\ UNCHANGED <<inUse, node, popHead, got>> /\ ConsumerKeeps
  BY DEF Call, CAt
<1> DEFINE called(l, m, t) ==
             [at |-> l, op |-> op, left |-> n, node |-> m, then |-> t, seen |-> <<>>]
<1>2. \/ consumer' = called("maybe", popHead, "look")
      \/ consumer' = called("cleanup", NoNode, "some")
      \/ consumer' = called("maybe", popHead, "range")
  BY <1>1 DEF ConsumerIdle
<1>3. /\ consumer'.at \in {"maybe", "cleanup"} /\ consumer'.then \in {"look", "some", "range"}
      /\ consumer'.seen = <<>>
  BY <1>2
<1> QED
  BY <1>1, <1>3, ConsumerMovesOn

LEMMA NodeEmptyGoes ==
  ASSUME QueueInv, StepsSmall, NEW b \in [inUse -> Nat], Numbered(b), NodeMaybeEmpty \/ NodeEmpty
  PROVE  Goes(b)
<1>1. consumer \in ConsumerStates
  BY DEF QueueInv, QueueTyped
<1>2. CASE NodeMaybeEmpty
  <2>1. /\ consumer.at = "maybe" /\ consumer'.at \in {"refresh", "filled"}
        /\ UNCHANGED <<inUse, node, popHead, got>> /\ ConsumerKeeps
        /\ consumer'.then = consumer.then /\ consumer'.seen = consumer.seen
    BY <1>1, <1>2 DEF NodeMaybeEmpty, CAt, CGo, Answer, ConsumerStates
  <2> QED
    BY <2>1, ConsumerMovesOn
<1>3. CASE NodeEmpty
  <2> DEFINE l == IF node[consumer.node].pop = node[consumer.node].push THEN "empty" ELSE "filled"
  <2>1. /\ consumer.at = "compare" /\ consumer' = [consumer EXCEPT !.at = l, !.node = NoNode]
        /\ UNCHANGED <<inUse, node, popHead, got>> /\ ConsumerKeeps
    BY <1>3 DEF NodeEmpty, CAt, Answer
  <2>2. l = "empty" => node[consumer.node].pop = node[consumer.node].push
    OBVIOUS
  <2>3. l \in {"empty", "filled"}
    OBVIOUS
  <2> HIDE DEF l
  <2>4. consumer'.at = l /\ consumer'.then = consumer.then /\ consumer'.seen = consumer.seen
    BY <1>1, <2>1 DEF ConsumerStates
  <2>5. consumer'.then \in Callers => consumer.node = popHead
    BY <2>1, <2>4 DEF QueueInv, ConsumerAt, Asking, Callers
  <2>6. consumer'.at = "empty" /\ consumer'.then \in Callers => Size(popHead) = 0
    <3>1. node[popHead].push \in Count /\ node[popHead].pop \in Count
      BY LinksIn, FieldTypes DEF QueueInv
    <3>2. node[popHead].push = node[popHead].pop => Size(popHead) = 0
      BY <3>1, DistSelf DEF Size
    <3> QED
      BY <2>2, <2>4, <2>5, <3>2
  <2> QED
    BY <2>1, <2>3, <2>4, <2>6, ConsumerMovesOn
<1> QED
  BY <1>2, <1>3

LEMMA LookGoes ==
  ASSUME QueueInv, StepsSmall, NEW b \in [inUse -> Nat], Numbered(b), LookPushHead \/ ListEmpty
  PROVE  Goes(b)
<1>1. consumer \in ConsumerStates
  BY DEF QueueInv, QueueTyped
<1>2. /\ consumer.at \in {"empty", "filled"} /\ consumer'.at \in {"idle", "maybe", "cleanup"}
      /\ UNCHANGED <<inUse, node, popHead, got>> /\ ConsumerKeeps
      /\ consumer'.then # "one"
      /\ consumer'.seen = consumer.seen \/ consumer'.seen = <<>>
  <2>1. CASE LookPushHead
    BY <1>1, <2>1 DEF LookPushHead, CAt, Told, AskEmpty, ConsumerIdle, ConsumerStates
  <2>2. CASE ListEmpty
    BY <1>1, <2>2 DEF ListEmpty, CAt, Told, AskCleanup, ConsumerIdle, ConsumerStates
  <2> QED
    BY <2>1, <2>2
<1> QED
  BY <1>2, ConsumerMovesOn

LEMMA CleanupGoes ==
  ASSUME QueueInv, StepsSmall, NEW b \in [inUse -> Nat], Numbered(b), Cleanup \/ KeepNode
  PROVE  Goes(b)
<1>1. consumer \in ConsumerStates
  BY DEF QueueInv, QueueTyped
<1>2. /\ consumer.at \in {"cleanup", "filled"} /\ consumer'.at \in {"kept", "maybe"}
      /\ UNCHANGED <<inUse, node, popHead, got>> /\ ConsumerKeeps
      /\ consumer'.then = consumer.then /\ consumer'.seen = consumer.seen
  <2>1. CASE Cleanup
    BY <1>1, <2>1 DEF Cleanup, CAt, AskEmpty, ConsumerStates
  <2>2. CASE KeepNode
    BY <1>1, <2>2 DEF KeepNode, CAt, CGo, ConsumerStates
  <2> QED
    BY <2>1, <2>2
<1> QED
  BY <1>2, ConsumerMovesOn

LEMMA FinishGoes ==
  ASSUME QueueInv, StepsSmall, NEW b \in [inUse -> Nat], Numbered(b), RangeEmpty \/ Finish
  PROVE  Goes(b)
<1>1. consumer \in ConsumerStates
  BY DEF QueueInv, QueueTyped
<1>2. /\ consumer.at \in {"empty", "kept", "removed"}
      /\ consumer'.at \in {"idle", "maybe", "cleanup"}
      /\ UNCHANGED <<inUse, node, popHead, got>> /\ ConsumerKeeps
      /\ consumer'.then # "one"
      /\ consumer'.seen = consumer.seen \/ consumer'.seen = <<>>
  <2>1. CASE RangeEmpty
    BY <1>1, <2>1 DEF RangeEmpty, Told, CAt, AskCleanup, ConsumerStates
  <2>2. CASE Finish
    BY <1>1, <2>2 DEF Finish, CleanedUp, Told, CAt, AskEmpty, ConsumerIdle, ConsumerStates
  <2> QED
    BY <2>1, <2>2
<1> QED
  BY <1>2, ConsumerMovesOn

LEMMA RefreshGoes ==
  ASSUME QueueInv, StepsSmall, NEW b \in [inUse -> Nat], Numbered(b), RefreshPopCached
  PROVE  Goes(b)
<1> DEFINE p == pushHead
           r == [node[p] EXCEPT !.pushShadow = node[p].pop]
           l == IF producer.at = "refresh" THEN "full" ELSE "publish"
<1>1. /\ node' = [node EXCEPT ![p] = r] /\ producer' = [producer EXCEPT !.at = l]
      /\ UNCHANGED <<inUse, pushHead, sent, got, consumer, popHead>>
  BY DEF RefreshPopCached, PAt, PGo, ProducerKeeps
<1>2. p \in inUse /\ p \in QueueNodes /\ node[p] \in NodeFields /\ node[p].pop \in Count
  BY LinksIn, FieldTypes DEF QueueInv, QueueTyped
<1>3. /\ r \in NodeFields /\ r.push = node[p].push /\ r.pop = node[p].pop
      /\ r.ring = node[p].ring /\ r.next = node[p].next
  BY <1>2 DEF NodeFields
<1> HIDE DEF r, l
<1>4. node'[p] = r /\ \A n \in QueueNodes \ {p} : node'[n] = node[n]
  BY <1>1, <1>2, <1>3, NodeSet DEF QueueInv
<1>5. producer'.filled = producer.filled /\ producer'.fresh = producer.fresh
  BY <1>1 DEF QueueInv, QueueTyped, ProducerStates
<1>6. \A n \in inUse : Alike(n)
  BY <1>1, <1>3, <1>4, <1>5 DEF Alike, Filling, Taking, CAt, QueueInv, QueueTyped
<1>7. SeenNumbered(b)' /\ Published' = Published
  BY <1>1, <1>5 DEF Numbered, SeenNumbered, Published
<1>8. Size(popHead)' = Size(popHead)
  BY <1>1, <1>6, LinksIn DEF Alike, Size
<1>9. StepsSmall'
  BY <1>1, <1>5, <1>8 DEF StepsSmall
<1> QED
  BY <1>1, <1>5, <1>6, <1>7, <1>9, NothingPasses

LEMMA ChainNodeGoes ==
  ASSUME QueueInv, StepsSmall, NEW b \in [inUse -> Nat], Numbered(b), ChainNode
  PROVE  Goes(b)
<1> DEFINE p == pushHead
           r == [node[p] EXCEPT !.next = producer.fresh]
<1>1. /\ node' = [node EXCEPT ![p] = r] /\ producer' = [producer EXCEPT !.at = "switch"]
      /\ UNCHANGED <<inUse, pushHead, sent, got, consumer, popHead>>
  BY DEF ChainNode, PAt, PGo, ProducerKeeps
<1>2. p \in inUse /\ p \in QueueNodes /\ node[p] \in NodeFields
      /\ producer.fresh \in QueueNodes \cup {NoNode}
  BY LinksIn, FieldTypes DEF QueueInv, QueueTyped, ProducerStates
<1>3. /\ r \in NodeFields /\ r.push = node[p].push /\ r.pop = node[p].pop
      /\ r.ring = node[p].ring
  BY <1>2 DEF NodeFields
<1> HIDE DEF r
<1>4. node'[p] = r /\ \A n \in QueueNodes \ {p} : node'[n] = node[n]
  BY <1>1, <1>2, <1>3, NodeSet DEF QueueInv
<1>5. producer'.filled = producer.filled /\ producer'.fresh = producer.fresh
  BY <1>1 DEF QueueInv, QueueTyped, ProducerStates
<1>6. \A n \in inUse : Alike(n)
  BY <1>1, <1>3, <1>4, <1>5 DEF Alike, Filling, Taking, CAt, QueueInv, QueueTyped
<1>7. SeenNumbered(b)' /\ Published' = Published
  BY <1>1, <1>5 DEF Numbered, SeenNumbered, Published
<1>8. Size(popHead)' = Size(popHead)
  BY <1>1, <1>6, LinksIn DEF Alike, Size
<1>9. StepsSmall'
  BY <1>1, <1>5, <1>8 DEF StepsSmall
<1> QED
  BY <1>1, <1>5, <1>6, <1>7, <1>9, NothingPasses

LEMMA RefreshPushGoes ==
  ASSUME QueueInv, StepsSmall, NEW b \in [inUse -> Nat], Numbered(b), RefreshPushCached
  PROVE  Goes(b)
<1> DEFINE p == consumer.node
           r == [node[p] EXCEPT !.popShadow = node[p].push]
<1>1. /\ consumer.at = "refresh" /\ consumer' = [consumer EXCEPT !.at = "compare"]
      /\ node' = [node EXCEPT ![p] = r]
      /\ UNCHANGED <<inUse, popHead, got>> /\ ConsumerKeeps
  BY DEF RefreshPushCached, CAt, CGo
<1>2. p \in inUse /\ p \in QueueNodes
  BY <1>1 DEF QueueInv, QueueTyped, ConsumerAt, Asking
<1>3. node[p] \in NodeFields /\ node[p].push \in Count
  BY <1>2, FieldTypes DEF QueueInv
<1>4. /\ r \in NodeFields /\ r.push = node[p].push /\ r.pop = node[p].pop
      /\ r.ring = node[p].ring /\ r.next = node[p].next
  BY <1>3 DEF NodeFields
<1> HIDE DEF r
<1>5. node'[p] = r /\ \A n \in QueueNodes \ {p} : node'[n] = node[n]
  BY <1>1, <1>2, <1>4, NodeSet DEF QueueInv
<1>6. /\ consumer'.at = "compare" /\ consumer'.then = consumer.then
      /\ consumer'.seen = consumer.seen
  BY <1>1 DEF QueueInv, QueueTyped, ConsumerStates
<1>7. \A n \in inUse : /\ node'[n].push = node[n].push /\ node'[n].pop = node[n].pop
                       /\ node'[n].ring = node[n].ring /\ node'[n].next = node[n].next
  BY <1>4, <1>5 DEF QueueInv, QueueTyped
<1>8. consumer'.then = "one" =>
        \A j \in 1..Len(consumer'.seen) : consumer'.seen[j] = b[popHead] + j
  BY <1>6 DEF Numbered, SeenNumbered
<1>9. Len(consumer'.seen) <= MaxBatch
  BY <1>6 DEF StepsSmall
<1> QED
  BY <1>1, <1>6, <1>7, <1>8, <1>9, ConsumerGoes

\* The consumer is handed the elements with the next numbers.
LEMMA SeenIs ==
  ASSUME QueueInv, NEW b \in [inUse -> Nat], Numbered(b), Taking(popHead) = 0,
         NEW k \in 0..Size(popHead)
  PROVE  /\ Contents(popHead, k) \in Seq(1..MaxSent) /\ Len(Contents(popHead, k)) = k
         /\ \A j \in 1..k : Contents(popHead, k)[j] = b[popHead] + j
<1>1. popHead \in inUse /\ RingFits(popHead) /\ RingHolds(popHead)
  BY LinksIn DEF QueueInv, RingsSound
<1>2. Size(popHead) \in Nat /\ k \in Nat
  BY <1>1, FieldTypes DEF QueueInv
<1>3. ASSUME NEW j \in 1..k PROVE Contents(popHead, k)[j] = b[popHead] + j
  <2>1. j \in Nat /\ Taking(popHead) < j /\ j <= Size(popHead)
    BY <1>2
  <2>2. Contents(popHead, k)[j] = node[popHead].ring[(node[popHead].pop + (j - 1)) % NodeSlots]
    BY <1>1, <1>2, ContentsIs DEF QueueInv
  <2> QED
    BY <1>1, <2>1, <2>2, NumberIs
<1>4. Contents(popHead, k) \in Seq(1..MaxSent) /\ Len(Contents(popHead, k)) = k
  BY <1>1, ContentsTyped DEF QueueInv
<1> QED
  BY <1>3, <1>4

LEMMA TopGoes ==
  ASSUME QueueInv, StepsSmall, NEW b \in [inUse -> Nat], Numbered(b), Top
  PROVE  Goes(b)
<1>1. /\ consumer.at \in {"kept", "removed"} /\ consumer.then = "top"
      /\ UNCHANGED <<inUse, node, popHead, got>> /\ ConsumerKeeps
      /\ consumer' = [consumer EXCEPT !.at = "cleanup", !.then = "one",
                                      !.seen = Contents(popHead, 1)]
  BY DEF Top, CleanedUp, Told, CAt, AskCleanup
<1>2. Size(popHead) >= 1 /\ Taking(popHead) = 0
  BY <1>1 DEF QueueInv, ConsumerAt, Taking, CAt
<1>3. 1 \in 0..Size(popHead)
  BY <1>2, LinksIn, FieldTypes DEF QueueInv
<1>4. /\ Len(Contents(popHead, 1)) = 1
      /\ \A j \in 1..1 : Contents(popHead, 1)[j] = b[popHead] + j
  BY <1>2, <1>3, SeenIs
<1>5. consumer'.at = "cleanup" /\ consumer'.seen = Contents(popHead, 1)
  BY <1>1 DEF QueueInv, QueueTyped, ConsumerStates
<1>6. Len(consumer'.seen) <= MaxBatch
  <2>1. Len(consumer'.seen) = 1
    BY <1>4, <1>5
  <2> QED
    BY ONLY <2>1, QueueAssumption
<1>7. \A j \in 1..Len(consumer'.seen) : consumer'.seen[j] = b[popHead] + j
  BY <1>4, <1>5
<1> QED
  BY <1>1, <1>5, <1>6, <1>7, ConsumerGoes

\* k elements leave their slots and are not counted yet.
LEMMA TakesGoes ==
  ASSUME QueueInv, StepsSmall, NEW b \in [inUse -> Nat], Numbered(b), ConsumerKeeps,
         UNCHANGED <<inUse, popHead, got>>, NEW k \in 0..Size(popHead),
         Taking(popHead) = 0, Taking(popHead)' = k,
         \A n \in QueueNodes \ {popHead} : node'[n] = node[n],
         node'[popHead].next = node[popHead].next, node'[popHead].push = node[popHead].push,
         node'[popHead].pop = node[popHead].pop,
         node'[popHead].ring = RingEmptied(node[popHead].ring, node[popHead].pop, k),
         Len(consumer'.seen) <= MaxBatch, consumer'.at # "empty",
         \A j \in 1..Len(consumer'.seen) : consumer'.seen[j] = b[popHead] + j
  PROVE  Goes(b)
<1>1. popHead \in inUse /\ popHead \in QueueNodes /\ inUse \subseteq QueueNodes
  BY LinksIn DEF QueueInv, QueueTyped
<1>2. UNCHANGED <<pushHead, sent, producer>> /\ Published' = Published
  BY DEF ConsumerKeeps, Published
<1>3. \A n \in inUse : /\ Size(n)' = Size(n) /\ node'[n].next = node[n].next
                       /\ node'[n].pop = node[n].pop /\ Filling(n)' = Filling(n)
                       /\ (n # popHead => node'[n] = node[n] /\ Taking(n)' = Taking(n))
  BY <1>1, <1>2 DEF Size, Filling, Taking
<1>4. /\ Size(popHead) \in Nat /\ Filling(popHead) \in Nat /\ k \in Nat /\ NodeSlots \in Nat
      /\ Size(popHead) + Filling(popHead) <= NodeSlots
      /\ node[popHead].pop \in Nat /\ node[popHead].ring \in [Ring -> 0..MaxSent]
  BY <1>1, FieldTypes, FillTypes, Numbers DEF QueueInv, RingsSound, RingFits, Count
<1>5. RingsNumbered(b)'
  <2> SUFFICES ASSUME NEW n \in inUse, NEW m \in Taking(n)'..(Size(n) + Filling(n) - 1)
               PROVE  node'[n].ring[(node[n].pop + m) % NodeSlots] = b[n] + m + 1
    BY <1>3 DEF RingsNumbered
  <2>1. CASE n # popHead
    BY <1>3, <2>1 DEF Numbered, RingsNumbered
  <2>2. CASE n = popHead
    <3>1. m \in k..(Size(popHead) + Filling(popHead) - 1)
      BY <2>2
    <3>2. m \in 0..(Size(popHead) + Filling(popHead) - 1) /\ m \in Ring /\ ~ (m < k)
      BY <1>4, <3>1 DEF Ring
    <3> DEFINE i == (node[popHead].pop + m) % NodeSlots
    <3>3. i \in Ring /\ Offset(i, node[popHead].pop) = m
      BY <1>4, <3>2, OffsetOf
    <3>4. i \notin Covered(node[popHead].pop, k)
      BY <3>2, <3>3, CoveredIs
    <3>5. node[popHead].ring[i] = b[popHead] + m + 1
      BY <1>1, <3>2 DEF Numbered, RingsNumbered
    <3> HIDE DEF i
    <3>6. node'[popHead].ring[i] = node[popHead].ring[i]
      BY <3>3, <3>4 DEF RingEmptied
    <3> QED
      BY <2>2, <3>5, <3>6 DEF i
  <2> QED
    BY <2>1, <2>2
<1>6. LinksNumbered(b)'
  BY <1>2, <1>3 DEF Numbered, LinksNumbered
<1>7. EndNumbered(b)'
  BY <1>2, <1>3, LinksIn DEF Numbered, EndNumbered
<1>8. SeenNumbered(b)'
  BY DEF SeenNumbered
<1>9. StepsSmall'
  BY <1>2 DEF StepsSmall
<1>10. Passes(b, b)
  <2>1. Published' = Published + 0 /\ 0 \in 0..MaxBatch
    BY <1>2, PublishedIs
  <2> QED
    BY <2>1 DEF Passes
<1> QED
  BY <1>5, <1>6, <1>7, <1>8, <1>9, <1>10 DEF Goes, Numbered

LEMMA PopOneGoes ==
  ASSUME QueueInv, StepsSmall, NEW b \in [inUse -> Nat], Numbered(b), PopOne
  PROVE  Goes(b)
<1> DEFINE p == popHead
           x == RingEmptied(node[p].ring, node[p].pop, 1)
           r == [node[p] EXCEPT !.ring = x]
<1>1. /\ consumer.at \in {"kept", "removed"} /\ consumer.then = "one"
      /\ consumer' = [consumer EXCEPT !.at = "count"]
      /\ node' = [node EXCEPT ![p] = r]
      /\ UNCHANGED <<inUse, popHead, got>> /\ ConsumerKeeps
  BY DEF PopOne, CleanedUp, Told, CAt, CGo
<1>2. p \in inUse /\ p \in QueueNodes
  BY LinksIn DEF QueueInv, QueueTyped
<1>3. node[p] \in NodeFields /\ node[p].ring \in [Ring -> 0..MaxSent] /\ Size(p) \in Nat
  BY <1>2, FieldTypes DEF QueueInv
<1>4. x \in [Ring -> 0..MaxSent]
  BY <1>3, EmptiedIs
<1> HIDE DEF x
<1>5. /\ r \in NodeFields /\ r.push = node[p].push /\ r.pop = node[p].pop
      /\ r.ring = x /\ r.next = node[p].next
  BY <1>3, <1>4 DEF NodeFields
<1> HIDE DEF r
<1>6. node'[p] = r /\ \A n \in QueueNodes \ {p} : node'[n] = node[n]
  BY <1>1, <1>2, <1>5, NodeSet DEF QueueInv
<1>7. consumer'.at = "count" /\ consumer'.seen = consumer.seen
  BY <1>1 DEF QueueInv, QueueTyped, ConsumerStates
<1>8. Size(p) >= 1 /\ Len(consumer.seen) = 1
  BY <1>1 DEF QueueInv, ConsumerAt
<1>9. 1 \in 0..Size(p) /\ Taking(p) = 0 /\ Taking(p)' = 1
  BY <1>1, <1>3, <1>7, <1>8 DEF Taking, CAt
<1>10. \A j \in 1..Len(consumer'.seen) : consumer'.seen[j] = b[popHead] + j
  BY <1>1, <1>7 DEF Numbered, SeenNumbered
<1>11. Len(consumer'.seen) <= MaxBatch
  BY <1>7 DEF StepsSmall
<1> QED
  BY <1>1, <1>5, <1>6, <1>7, <1>9, <1>10, <1>11, TakesGoes DEF x

LEMMA SmallBatch ==
  ASSUME NEW a \in 0..MaxBatch, NEW s \in Nat, NEW k, k = Least(a, s)
  PROVE  k \in 0..s /\ k <= MaxBatch
<1>1. a \in Nat /\ MaxBatch \in Nat
  BY QueueAssumption
<1>2. k \in Nat /\ k <= a /\ k <= s
  BY <1>1, LeastIs
<1> QED
  BY <1>1, <1>2

LEMMA PopSomeGoes ==
  ASSUME QueueInv, StepsSmall, NEW b \in [inUse -> Nat], Numbered(b), PopSome
  PROVE  Goes(b)
<1> DEFINE p == popHead
           k == Least(consumer.left, SizeOf(p))
           x == RingEmptied(node[p].ring, node[p].pop, k)
           r == [node[p] EXCEPT !.ring = x]
<1>1. /\ consumer.at \in {"kept", "removed"} /\ consumer.then \in {"some", "more"}
      /\ consumer' = [consumer EXCEPT !.at = "count", !.left = consumer.left - k,
                                      !.seen = Contents(p, k)]
      /\ node' = [node EXCEPT ![p] = r]
      /\ UNCHANGED <<inUse, popHead, got>> /\ ConsumerKeeps
  BY DEF PopSome, CleanedUp, Told, CAt
<1>2. p \in inUse /\ p \in QueueNodes /\ RingFits(p)
  BY LinksIn DEF QueueInv, QueueTyped, RingsSound
<1>3. node[p] \in NodeFields /\ node[p].ring \in [Ring -> 0..MaxSent] /\ Size(p) \in Nat
  BY <1>2, FieldTypes DEF QueueInv
<1>4. consumer.left \in 0..MaxBatch /\ SizeOf(p) = Size(p)
  BY <1>2, SizeIs DEF QueueInv, QueueTyped, ConsumerStates
<1>5. k \in 0..Size(p) /\ k <= MaxBatch
  <2>1. k = Least(consumer.left, Size(p))
    BY <1>4
  <2> HIDE DEF k
  <2> QED
    BY <1>3, <1>4, <2>1, SmallBatch
<1> HIDE DEF k
<1>6. x \in [Ring -> 0..MaxSent]
  BY <1>3, EmptiedIs
<1> HIDE DEF x
<1>7. /\ r \in NodeFields /\ r.push = node[p].push /\ r.pop = node[p].pop
      /\ r.ring = x /\ r.next = node[p].next
  BY <1>3, <1>6 DEF NodeFields
<1> HIDE DEF r
<1>8. node'[p] = r /\ \A n \in QueueNodes \ {p} : node'[n] = node[n]
  BY <1>1, <1>2, <1>7, NodeSet DEF QueueInv
<1>9. Taking(p) = 0
  BY <1>1 DEF Taking, CAt
<1>10. /\ Len(Contents(p, k)) = k
       /\ \A j \in 1..k : Contents(p, k)[j] = b[p] + j
  BY <1>5, <1>9, SeenIs
<1>11. consumer'.at = "count" /\ consumer'.seen = Contents(p, k)
  BY <1>1 DEF QueueInv, QueueTyped, ConsumerStates
<1>12. Taking(p)' = k
  BY <1>1, <1>10, <1>11 DEF Taking, CAt
<1>13. /\ Len(consumer'.seen) <= MaxBatch
       /\ \A j \in 1..Len(consumer'.seen) : consumer'.seen[j] = b[popHead] + j
  BY <1>5, <1>10, <1>11
<1> QED
  BY <1>1, <1>5, <1>7, <1>8, <1>9, <1>11, <1>12, <1>13, TakesGoes DEF x

LEMMA PopRangeGoes ==
  ASSUME QueueInv, StepsSmall, NEW b \in [inUse -> Nat], Numbered(b), PopRange
  PROVE  Goes(b)
<1> DEFINE p == popHead
           stock == IF (node[p].push % NodeSlots) <= (node[p].pop % NodeSlots)
                    THEN (NodeSlots - (node[p].pop % NodeSlots)) + (node[p].push % NodeSlots)
                    ELSE (node[p].push % NodeSlots) - (node[p].pop % NodeSlots)
           k == Least(consumer.left, stock)
           x == RingEmptied(node[p].ring, node[p].pop, k)
           r == [node[p] EXCEPT !.ring = x, !.popShadow = node[p].push]
           l == IF k = 0 THEN "cleanup" ELSE "count"
<1>1. p \in inUse /\ p \in QueueNodes /\ RingFits(p)
  BY LinksIn DEF QueueInv, QueueTyped, RingsSound
<1>2. /\ node[p] \in NodeFields /\ node[p].ring \in [Ring -> 0..MaxSent] /\ Size(p) \in Nat
      /\ node[p].push \in Count
  BY <1>1, FieldTypes DEF QueueInv
<1>3. /\ consumer.at = "filled" /\ consumer.then = "range"
      /\ consumer' = [consumer EXCEPT !.at = l, !.then = "end", !.left = consumer.left - k,
                                      !.seen = Contents(p, k)]
      /\ node' = [node EXCEPT ![p] = r]
      /\ UNCHANGED <<inUse, popHead, got>> /\ ConsumerKeeps
  <2>1. node \in [QueueNodes -> NodeFields]
    BY DEF QueueInv, QueueTyped
  <2> QED
    BY <1>1, <1>2, <2>1 DEF PopRange, Told, CAt
<1>4. Taking(p) = 0 /\ Size(p) >= 1
  BY <1>3 DEF QueueInv, ConsumerAt, Taking, CAt
<1>5. consumer.left \in 0..MaxBatch /\ stock = Size(p)
  BY <1>1, <1>4, StockIs DEF QueueInv, QueueTyped, ConsumerStates
<1> HIDE DEF stock
<1>6. k \in 0..Size(p) /\ k <= MaxBatch
  <2>1. k = Least(consumer.left, Size(p))
    BY <1>5
  <2> HIDE DEF k
  <2> QED
    BY <1>2, <1>5, <2>1, SmallBatch
<1> HIDE DEF k
<1>7. x \in [Ring -> 0..MaxSent] /\ l \in {"cleanup", "count"} /\ (l = "cleanup" => k = 0)
  BY <1>2, EmptiedIs
<1> HIDE DEF x, l
<1>8. /\ r \in NodeFields /\ r.push = node[p].push /\ r.pop = node[p].pop
      /\ r.ring = x /\ r.next = node[p].next
  BY <1>2, <1>7 DEF NodeFields
<1> HIDE DEF r
<1>9. node'[p] = r /\ \A n \in QueueNodes \ {p} : node'[n] = node[n]
  BY <1>1, <1>3, <1>8, NodeSet DEF QueueInv
<1>10. /\ Len(Contents(p, k)) = k
       /\ \A j \in 1..k : Contents(p, k)[j] = b[p] + j
  BY <1>4, <1>6, SeenIs
<1>11. consumer'.at = l /\ consumer'.seen = Contents(p, k)
  BY <1>3 DEF QueueInv, QueueTyped, ConsumerStates
<1>12. Taking(p)' = k
  BY <1>3, <1>7, <1>10, <1>11 DEF Taking, CAt
<1>13. /\ Len(consumer'.seen) <= MaxBatch /\ consumer'.at # "empty"
       /\ \A j \in 1..Len(consumer'.seen) : consumer'.seen[j] = b[popHead] + j
  BY <1>6, <1>7, <1>10, <1>11
<1> QED
  BY <1>3, <1>4, <1>6, <1>8, <1>9, <1>11, <1>12, <1>13, TakesGoes DEF x

LEMMA FilledAt ==
  ASSUME NEW ring, NEW c, NEW k, NEW i \in Ring
  PROVE  /\ Offset(i, c) < k => Filled(ring, c, k)[i] = sent + 1 + Offset(i, c)
         /\ ~ (Offset(i, c) < k) => Filled(ring, c, k)[i] = ring[i]
<1>1. i \in Covered(c, k) <=> Offset(i, c) < k
  BY CoveredIs
<1> QED
  BY <1>1 DEF Filled, Offset

\* Where the slots that follow those in use are, from the counters.
LEMMA SlotPast ==
  ASSUME QueueTyped, NEW n \in inUse, RingFits(n), NEW m \in Ring
  PROVE  /\ ((node[n].pop + m) % NodeSlots) \in Ring
         /\ Offset((node[n].pop + m) % NodeSlots, node[n].push)
              = IF m >= Size(n) THEN m - Size(n) ELSE m + NodeSlots - Size(n)
<1> DEFINE c == node[n].pop
           a == node[n].push
           k == Size(n)
           i == (c + m) % NodeSlots
<1>1. c \in Nat /\ k \in 0..NodeSlots /\ a \in Nat
  BY FieldTypes, SizeIs, Numbers DEF Count
<1>2. (a % NodeSlots) = ((c + k) % NodeSlots)
  BY SizeApart
<1> HIDE DEF c, k, a
<1>3. i \in Ring /\ Offset(i, c) = m
  BY <1>1, OffsetOf
<1>4. Offset(i, c + k) = IF m >= k THEN m - k ELSE m + NodeSlots - k
  <2> HIDE DEF i
  <2> QED
    BY <1>1, <1>3, OffsetAfter
<1>5. Offset(i, a) = Offset(i, c + k)
  BY <1>2 DEF Offset
<1> QED
  BY <1>3, <1>4, <1>5 DEF c, k, a, i

LEMMA FillGoes ==
  ASSUME QueueInv, StepsSmall, NEW b \in [inUse -> Nat], Numbered(b), Fill
  PROVE  Goes(b)
<1> DEFINE p == pushHead
           k == Least(producer.left, Room)
           x == Filled(node[p].ring, node[p].push, k)
           r == [node[p] EXCEPT !.ring = x]
           l == IF producer.op = "stream" THEN "shadow" ELSE "publish"
<1>1. /\ producer.at = "fill"
      /\ node' = [node EXCEPT ![p] = r]
      /\ producer' = [producer EXCEPT !.at = l, !.left = producer.left - k, !.filled = k]
      /\ sent' = sent + k
      /\ UNCHANGED <<inUse, pushHead, got, consumer, popHead>>
  BY DEF Fill, PAt, ProducerKeeps
<1>2. p \in inUse /\ p \in QueueNodes /\ RingFits(p) /\ inUse \subseteq QueueNodes
  BY LinksIn DEF QueueInv, QueueTyped, RingsSound
<1>3. /\ node[p] \in NodeFields /\ node[p].push \in Nat
      /\ node[p].ring \in [Ring -> 0..MaxSent] /\ Size(p) \in Nat /\ NodeSlots \in Nat
  BY <1>2, FieldTypes, Numbers DEF QueueInv, Count
<1>4. /\ producer.filled = 0 /\ producer.fresh = NoNode
      /\ sent + producer.left <= MaxSent /\ Size(p) < NodeSlots
  BY <1>1 DEF QueueInv, ProducerAt, Calm, QueueTyped
<1>5. producer.left \in 0..MaxBatch /\ sent \in 0..MaxSent
  BY DEF QueueInv, QueueTyped, ProducerStates
<1>6. Room \in 1..(NodeSlots - Size(p))
  BY <1>2, <1>4, RoomIs DEF QueueInv
<1>7. k \in Nat /\ k <= producer.left /\ k <= NodeSlots - Size(p) /\ k <= MaxBatch
  <2>1. k \in 0..Room /\ k <= MaxBatch
    <3>1. k = Least(producer.left, Room) /\ Room \in Nat
      BY <1>3, <1>6
    <3> HIDE DEF k
    <3> QED
      BY <1>5, <3>1, SmallBatch
  <2>2. producer.left \in Nat /\ Room \in Nat /\ Room <= NodeSlots - Size(p)
    BY <1>3, <1>5, <1>6, QueueAssumption
  <2>3. k <= producer.left
    BY <2>2, LeastIs
  <2> HIDE DEF k
  <2> QED
    BY <1>3, <2>1, <2>2, <2>3
<1> HIDE DEF k
<1>8. x \in [Ring -> 0..MaxSent]
  <2>1. sent \in Nat /\ sent + k <= MaxSent
    BY <1>4, <1>5, <1>7, Numbers, QueueAssumption
  <2> QED
    BY <1>3, <1>7, <2>1, FilledIs
<1> HIDE DEF x, l
<1>9. /\ r \in NodeFields /\ r.push = node[p].push /\ r.pop = node[p].pop
      /\ r.ring = x /\ r.next = node[p].next
  BY <1>3, <1>8 DEF NodeFields
<1> HIDE DEF r
<1>10. node'[p] = r /\ \A n \in QueueNodes \ {p} : node'[n] = node[n]
  BY <1>1, <1>2, <1>9, NodeSet DEF QueueInv
<1>11. producer'.filled = k /\ producer'.fresh = NoNode
  BY <1>1, <1>4 DEF QueueInv, QueueTyped, ProducerStates
<1>12. \A n \in inUse : /\ Size(n)' = Size(n) /\ Taking(n)' = Taking(n)
                        /\ node'[n].next = node[n].next /\ node'[n].pop = node[n].pop
                        /\ (n # p => node'[n].ring = node[n].ring)
                        /\ Filling(n) = 0 /\ Filling(n)' = IF n = p THEN k ELSE 0
  BY <1>1, <1>2, <1>4, <1>9, <1>10, <1>11 DEF Size, Taking, CAt, Filling
<1>13. Published = sent /\ Published' = Published
  BY <1>1, <1>4, <1>5, <1>7, <1>11, Numbers DEF Published
<1>14. RingsNumbered(b)'
  <2> SUFFICES ASSUME NEW n \in inUse, NEW m \in Taking(n)..(Size(n) + Filling(n)' - 1)
               PROVE  node'[n].ring[(node[n].pop + m) % NodeSlots] = b[n] + m + 1
    BY <1>1, <1>12 DEF RingsNumbered
  <2>1. CASE n # p
    <3>1. Filling(n)' = Filling(n)
      BY <1>12, <2>1
    <3> QED
      BY <1>12, <2>1, <3>1 DEF Numbered, RingsNumbered
  <2>2. CASE n = p
    <3>1. Taking(p) \in Nat
      BY <1>2, FillTypes DEF QueueInv
    <3>2. Filling(n)' = k
      BY <1>12, <2>2
    <3>3. m \in Nat /\ Taking(p) <= m /\ m < Size(p) + k /\ m \in Ring
      BY <1>3, <1>7, <2>2, <3>1, <3>2 DEF Ring
    <3> DEFINE i == (node[p].pop + m) % NodeSlots
               f == Offset(i, node[p].push)
    <3>4. i \in Ring /\ f = IF m >= Size(p) THEN m - Size(p) ELSE m + NodeSlots - Size(p)
      BY <1>2, <3>3, SlotPast DEF QueueInv
    <3>5. (f < k => x[i] = sent + 1 + f) /\ (~ (f < k) => x[i] = node[p].ring[i])
      BY <3>4, FilledAt DEF x
    <3>6. node'[n].ring[(node[n].pop + m) % NodeSlots] = x[i]
      BY <1>9, <1>10, <2>2
    <3> HIDE DEF f
    <3>7. CASE m >= Size(p)
      <4>1. f = m - Size(p) /\ f < k
        BY <1>3, <1>7, <3>3, <3>4, <3>7
      <4>2. b[p] + Size(p) = sent /\ b[p] \in Nat
        BY <1>2, <1>13 DEF Numbered, EndNumbered
      <4>3. sent + 1 + f = b[p] + m + 1
        BY <1>3, <3>3, <4>1, <4>2
      <4> QED
        BY <2>2, <3>5, <3>6, <4>1, <4>3
    <3>8. CASE ~ (m >= Size(p))
      <4>1. ~ (f < k)
        BY <1>3, <1>7, <3>3, <3>4, <3>8
      <4>2. Filling(p) = 0
        BY <1>2, <1>12
      <4>3. m \in Taking(p)..(Size(p) + Filling(p) - 1)
        BY <1>3, <3>1, <3>3, <3>8, <4>2
      <4>4. node[p].ring[i] = b[p] + m + 1
        BY <1>2, <4>3 DEF Numbered, RingsNumbered
      <4> QED
        BY <2>2, <3>5, <3>6, <4>1, <4>4
    <3> QED
      BY <3>7, <3>8
  <2> QED
    BY <2>1, <2>2
<1>15. LinksNumbered(b)'
  BY <1>1, <1>4, <1>11, <1>12 DEF Numbered, LinksNumbered
<1>16. EndNumbered(b)'
  BY <1>1, <1>2, <1>11, <1>12, <1>13 DEF Numbered, EndNumbered
<1>17. SeenNumbered(b)'
  BY <1>1 DEF Numbered, SeenNumbered
<1>18. StepsSmall'
  BY <1>1, <1>7, <1>11, <1>12, LinksIn DEF StepsSmall
<1>19. Passes(b, b)
  <2>1. Published' = Published + 0 /\ 0 \in 0..MaxBatch
    BY <1>13, PublishedIs
  <2> QED
    BY <1>1, <2>1 DEF Passes
<1> QED
  BY <1>1, <1>14, <1>15, <1>16, <1>17, <1>18, <1>19 DEF Goes, Numbered

LEMMA PublishGoes ==
  ASSUME QueueInv, StepsSmall, NEW b \in [inUse -> Nat], Numbered(b), Publish
  PROVE  Goes(b)
<1> DEFINE p == pushHead
           k == producer.filled
           s == StepCounter(node[p].push, k)
           r == [node[p] EXCEPT !.push = s]
<1>1. /\ producer.at = "publish"
      /\ node' = [node EXCEPT ![p] = r]
      /\ \/ producer' = ProducerIdle
         \/ producer' = [producer EXCEPT !.at = "allocate", !.filled = 0]
      /\ UNCHANGED <<inUse, pushHead, sent, got, consumer, popHead>>
  BY DEF Publish, PAt, ProducerKeeps
<1>2. p \in inUse /\ p \in QueueNodes /\ RingFits(p) /\ inUse \subseteq QueueNodes
  BY LinksIn DEF QueueInv, QueueTyped, RingsSound
<1>3. /\ node[p] \in NodeFields /\ node[p].push \in Count /\ node[p].pop \in Count
      /\ Size(p) \in Nat
  BY <1>2, FieldTypes DEF QueueInv
<1>4. producer.fresh = NoNode
  BY <1>1 DEF QueueInv, ProducerAt
<1>5. k \in 0..NodeSlots /\ k \in Nat /\ k \in 0..MaxBatch /\ sent \in Nat
  <2>1. k \in 0..NodeSlots /\ k <= MaxBatch /\ MaxBatch \in Nat
    BY QueueAssumption DEF QueueInv, QueueTyped, ProducerStates, StepsSmall
  <2> HIDE DEF k
  <2> QED
    BY <2>1, PublishedIs, Numbers
<1>6. s \in Count /\ Dist(s, node[p].pop) = Size(p) + k
  <2>1. Filling(p) = k
    BY <1>4 DEF Filling
  <2>2. Size(p) + k <= NodeSlots
    BY <1>2, <2>1 DEF RingFits
  <2> HIDE DEF k
  <2>3. Size(p) + k < Limit
    BY <1>3, <1>5, <2>2, Numbers
  <2> QED
    BY <1>3, <1>5, <2>3, StepIs, DistForth DEF Size
<1> HIDE DEF s
<1>7. /\ r \in NodeFields /\ r.push = s /\ r.pop = node[p].pop
      /\ r.ring = node[p].ring /\ r.next = node[p].next
  BY <1>3, <1>6 DEF NodeFields
<1> HIDE DEF r
<1>8. node'[p] = r /\ \A n \in QueueNodes \ {p} : node'[n] = node[n]
  BY <1>1, <1>2, <1>7, NodeSet DEF QueueInv
<1>9. producer'.filled = 0 /\ producer'.fresh = NoNode
  <2>1. producer \in ProducerStates
    BY DEF QueueInv, QueueTyped
  <2>2. CASE producer' = ProducerIdle
    BY <2>2 DEF ProducerIdle
  <2>3. CASE producer' = [producer EXCEPT !.at = "allocate", !.filled = 0]
    BY <1>4, <2>1, <2>3 DEF ProducerStates
  <2> QED
    BY <1>1, <2>2, <2>3
<1>10. \A n \in inUse : /\ Taking(n)' = Taking(n) /\ Size(n) \in Nat
                        /\ node'[n].next = node[n].next /\ node'[n].pop = node[n].pop
                        /\ node'[n].ring = node[n].ring
                        /\ Size(n)' = (IF n = p THEN Size(n) + k ELSE Size(n))
                        /\ Filling(n)' = 0 /\ Filling(n) = IF n = p THEN k ELSE 0
  <2>1. \A n \in inUse : Size(n) \in Nat
    BY FieldTypes DEF QueueInv
  <2> QED
    BY <1>1, <1>2, <1>4, <1>6, <1>7, <1>8, <1>9, <2>1 DEF Size, Taking, CAt, Filling
<1>11. Published' = Published + k
  BY <1>1, <1>5, <1>9 DEF Published
<1>12. RingsNumbered(b)'
  <2>1. ASSUME NEW n \in inUse, NEW m \in Taking(n)'..(Size(n)' + Filling(n)' - 1)
        PROVE  node'[n].ring[(node'[n].pop + m) % NodeSlots] = b[n] + m + 1
    <3>1. Size(n)' + Filling(n)' = Size(n) + Filling(n)
      BY <1>5, <1>10
    <3>2. m \in Taking(n)..(Size(n) + Filling(n) - 1)
      <4>1. Taking(n)' = Taking(n) /\ Taking(n) \in Nat /\ Size(n) \in Nat
        BY <1>10, FillTypes DEF QueueInv
      <4>2. Filling(n) \in Nat /\ Filling(n)' \in Nat /\ Size(n)' \in Nat
        BY <1>5, <1>10
      <4> QED
        BY <2>1, <3>1, <4>1, <4>2
    <3>3. node[n].ring[(node[n].pop + m) % NodeSlots] = b[n] + m + 1
      BY <3>2 DEF Numbered, RingsNumbered
    <3> QED
      BY <1>10, <3>3
  <2> QED
    BY <1>1, <2>1 DEF RingsNumbered
<1>13. LinksNumbered(b)'
  BY <1>1, <1>4, <1>9, <1>10 DEF Numbered, LinksNumbered
<1>14. EndNumbered(b)'
  <2>1. b[p] + Size(p) = Published /\ b[p] \in Nat
    BY <1>2 DEF Numbered, EndNumbered
  <2>2. Size(p)' = Size(p) + k
    BY <1>1, <1>2, <1>10
  <2>3. b[p] + Size(p)' = Published'
    BY <1>3, <1>5, <1>11, <2>1, <2>2
  <2> QED
    BY <1>1, <1>9, <2>3 DEF EndNumbered
<1>15. SeenNumbered(b)'
  BY <1>1 DEF Numbered, SeenNumbered
<1>16. StepsSmall'
  <2>1. consumer.at = "empty" /\ consumer.then \in Callers => popHead # pushHead
    BY DEF QueueInv, ConsumerAt
  <2>2. consumer.at = "empty" /\ consumer.then \in Callers => Size(popHead)' = Size(popHead)
    BY <1>1, <1>10, <2>1, LinksIn
  <2>3. producer'.filled <= MaxBatch
    BY <1>9, QueueAssumption
  <2> QED
    BY <1>1, <2>2, <2>3 DEF StepsSmall
<1>17. Passes(b, b)
  BY <1>1, <1>5, <1>11 DEF Passes
<1> QED
  BY <1>1, <1>12, <1>13, <1>14, <1>15, <1>16, <1>17 DEF Goes, Numbered

LEMMA SwitchGoes ==
  ASSUME QueueInv, StepsSmall, NEW b \in [inUse -> Nat], Numbered(b), SwitchPushHead
  PROVE  Goes(b)
<1> DEFINE p == pushHead
           q == producer.fresh
           k == producer.filled
<1>1. /\ producer.at = "switch" /\ pushHead' = q
      /\ \/ producer' = ProducerIdle
         \/ producer' = [producer EXCEPT !.at = "allocate", !.filled = 0, !.fresh = NoNode]
      /\ UNCHANGED <<inUse, node, sent, got, consumer, popHead>>
  BY DEF SwitchPushHead, PAt, ProducerKeeps
<1>2. q # NoNode /\ node[p].next = q
  BY <1>1 DEF QueueInv, ProducerAt
<1>3. producer'.filled = 0 /\ producer'.fresh = NoNode
  <2>1. producer \in ProducerStates
    BY DEF QueueInv, QueueTyped
  <2>2. CASE producer' = ProducerIdle
    BY <2>2 DEF ProducerIdle
  <2>3. CASE producer' = [producer EXCEPT !.at = "allocate", !.filled = 0, !.fresh = NoNode]
    BY <2>1, <2>3 DEF ProducerStates
  <2> QED
    BY <1>1, <2>2, <2>3
<1>4. /\ q \in inUse /\ q # p /\ p \in inUse
      /\ \A n \in inUse : n # p /\ n # q => node[n].next \in inUse
  BY <1>2, LinksIn
<1>5. /\ b[q] = Published /\ Size(q) = k /\ node[q].next = NoNode
      /\ b[p] + Size(p) = Published
  BY <1>2 DEF Numbered, EndNumbered
<1>6. \A n \in inUse : /\ Filling(n) = 0 /\ Filling(n)' = 0 /\ Taking(n)' = Taking(n)
                       /\ Size(n)' = Size(n)
  BY <1>1, <1>2, <1>3 DEF Filling, Taking, Size, CAt
<1>7. k \in 0..MaxBatch /\ Published' = Published + k
  <2>1. k \in Nat /\ sent \in Nat /\ MaxBatch \in Nat /\ k <= MaxBatch
    BY PublishedIs DEF StepsSmall
  <2> QED
    BY <1>1, <1>3, <2>1 DEF Published
<1>8. RingsNumbered(b)'
  BY <1>1, <1>6 DEF Numbered, RingsNumbered
<1>9. LinksNumbered(b)'
  <2> SUFFICES ASSUME NEW n \in inUse, n # q
               PROVE  b[node[n].next] = b[n] + Size(n)
    BY <1>1, <1>3, <1>6 DEF LinksNumbered
  <2>1. CASE n = p
    BY <1>2, <1>5, <2>1
  <2>2. CASE n # p
    BY <2>2 DEF Numbered, LinksNumbered
  <2> QED
    BY <2>1, <2>2
<1>10. EndNumbered(b)'
  BY <1>1, <1>3, <1>4, <1>5, <1>6, <1>7 DEF EndNumbered
<1>11. SeenNumbered(b)'
  BY <1>1 DEF Numbered, SeenNumbered
<1>12. StepsSmall'
  BY <1>1, <1>3, QueueAssumption DEF StepsSmall, Size
<1>13. Passes(b, b)
  BY <1>1, <1>7 DEF Passes
<1> QED
  BY <1>1, <1>8, <1>9, <1>10, <1>11, <1>12, <1>13 DEF Goes, Numbered

LEMMA AllocateGoes ==
  ASSUME QueueInv, StepsSmall, NEW b \in [inUse -> Nat], Numbered(b), AllocateNode
  PROVE  Goes(b)
<1> DEFINE f == iteratorCounter
           k == Least(producer.left, NodeSlots)
           s == StepCounter(f, k)
           x == Filled(FreshNode(f).ring, f, k)
           r == [FreshNode(f) EXCEPT !.push = s, !.ring = x]
<1>1. PICK q \in QueueNodes \ inUse : q = CHOOSE m \in QueueNodes \ inUse : TRUE
  BY DEF AllocateNode, QueueInv, QueueTyped
<1>2. /\ producer.at = "allocate" /\ inUse' = inUse \cup {q}
      /\ node' = [node EXCEPT ![q] = r]
      /\ producer' = [producer EXCEPT !.at = "chain", !.left = producer.left - k,
                                      !.filled = k, !.fresh = q]
      /\ sent' = sent + k
      /\ UNCHANGED <<pushHead, got, consumer, popHead>>
  <2>1. FreshNode(f).push = f
    BY DEF FreshNode
  <2> QED
    BY <1>1, <2>1 DEF AllocateNode, PAt, ProducerKeeps
<1>3. producer.filled = 0 /\ producer.fresh = NoNode /\ sent + producer.left <= MaxSent
  BY <1>2 DEF QueueInv, ProducerAt, Calm, QueueTyped
<1>4. /\ producer.left \in 0..MaxBatch /\ sent \in Nat /\ f \in Count /\ f \in Nat
      /\ inUse \subseteq QueueNodes /\ NoNode \notin QueueNodes /\ NodeSlots \in Nat
  BY PublishedIs, Numbers, QueueAssumption DEF QueueInv, QueueTyped, ProducerStates, Count
<1>5. k \in Nat /\ k \in 0..NodeSlots /\ k <= MaxBatch /\ k <= producer.left
  <2>1. k \in 0..NodeSlots /\ k <= MaxBatch
    BY <1>4, SmallBatch
  <2>2. k <= producer.left
    <3>1. producer.left \in Nat
      BY <1>4, QueueAssumption
    <3> QED
      BY <1>4, <3>1, LeastIs
  <2> HIDE DEF k
  <2> QED
    BY <1>4, <2>1, <2>2
<1> HIDE DEF k
<1>6. x \in [Ring -> 0..MaxSent]
  <2>1. FreshNode(f).ring \in [Ring -> 0..MaxSent]
    BY Numbers DEF FreshNode
  <2>2. sent + k <= MaxSent
    BY <1>3, <1>4, <1>5, Numbers, QueueAssumption
  <2> QED
    BY <1>4, <1>5, <2>1, <2>2, FilledIs
<1>7. s \in Count /\ Dist(s, f) = k
  <2>1. Dist(f, f) = 0
    BY <1>4, DistSelf
  <2>2. Dist(f, f) + k < Limit /\ Dist(f, f) + k = k
    BY <1>5, <2>1, Numbers
  <2> QED
    BY <1>4, <1>5, <2>2, StepIs, DistForth
<1> HIDE DEF s, x
<1>8. r \in NodeFields /\ r.push = s /\ r.pop = f /\ r.ring = x /\ r.next = NoNode
  BY <1>4, <1>6, <1>7 DEF NodeFields, FreshNode
<1> HIDE DEF r
<1>9. node'[q] = r /\ \A m \in QueueNodes \ {q} : node'[m] = node[m]
  BY <1>1, <1>2, <1>8, NodeSet DEF QueueInv
<1>10. producer'.filled = k /\ producer'.fresh = q
  BY <1>2 DEF QueueInv, QueueTyped, ProducerStates
<1>11. /\ q \notin inUse /\ q # NoNode /\ pushHead \in inUse /\ popHead \in inUse
       /\ \A n \in inUse : n # pushHead => node[n].next \in inUse
  BY <1>1, <1>3, <1>4, LinksIn
<1>12. \A n \in inUse : /\ node'[n] = node[n] /\ Size(n)' = Size(n) /\ Taking(n)' = Taking(n)
                        /\ Filling(n) = 0 /\ Filling(n)' = 0
  BY <1>1, <1>2, <1>3, <1>4, <1>9, <1>10, <1>11 DEF Size, Taking, CAt, Filling
<1>13. Size(q)' = k /\ Taking(q)' = 0 /\ Filling(q)' = 0
  BY <1>2, <1>7, <1>8, <1>9, <1>11 DEF Size, Taking, Filling
<1>14. Published = sent /\ Published' = sent
  BY <1>2, <1>3, <1>4, <1>5, <1>10 DEF Published
<1>15. PICK c \in [inUse' -> Nat] : c[q] = sent /\ \A n \in inUse : c[n] = b[n]
  <2> DEFINE c == [n \in inUse' |-> IF n = q THEN sent ELSE b[n]]
  <2>1. c \in [inUse' -> Nat] /\ c[q] = sent /\ \A n \in inUse : c[n] = b[n]
    BY <1>2, <1>4, <1>11
  <2> QED
    BY <2>1
<1>16. RingsNumbered(c)'
  <2> SUFFICES ASSUME NEW n \in inUse', NEW m \in Taking(n)'..(Size(n)' + Filling(n)' - 1)
               PROVE  node'[n].ring[(node'[n].pop + m) % NodeSlots] = c[n] + m + 1
    BY DEF RingsNumbered
  <2>1. CASE n \in inUse
    BY <1>12, <1>15, <2>1 DEF Numbered, RingsNumbered
  <2>2. CASE n = q
    <3>1. m \in Nat /\ m < k /\ m \in Ring
      BY <1>4, <1>5, <1>13, <2>2 DEF Ring
    <3> DEFINE i == (f + m) % NodeSlots
    <3>2. i \in Ring /\ Offset(i, f) = m
      BY <1>4, <3>1, OffsetOf
    <3> HIDE DEF i
    <3>3. x[i] = sent + 1 + m
      BY <3>1, <3>2, FilledAt DEF x
    <3>4. node'[n].ring[(node'[n].pop + m) % NodeSlots] = x[i]
      BY <1>8, <1>9, <2>2 DEF i
    <3> QED
      BY <1>4, <1>15, <2>2, <3>1, <3>3, <3>4
  <2> QED
    BY <1>2, <2>1, <2>2
<1>17. LinksNumbered(c)'
  <2> SUFFICES ASSUME NEW n \in inUse', n # pushHead, n # q
               PROVE  c[node'[n].next] = c[n] + Size(n)'
    BY <1>2, <1>10 DEF LinksNumbered
  <2>1. n \in inUse /\ node[n].next \in inUse
    BY <1>2, <1>11
  <2>2. b[node[n].next] = b[n] + Size(n)
    BY <1>3, <1>4, <2>1 DEF Numbered, LinksNumbered
  <2> QED
    BY <1>12, <1>15, <2>1, <2>2
<1>18. EndNumbered(c)'
  <2>1. c[pushHead] + Size(pushHead)' = Published'
    <3>1. c[pushHead] = b[pushHead] /\ Size(pushHead)' = Size(pushHead)
      BY <1>2, <1>11, <1>12, <1>15
    <3>2. b[pushHead] + Size(pushHead) = Published
      BY DEF Numbered, EndNumbered
    <3> QED
      BY <1>14, <3>1, <3>2
  <2> QED
    BY <1>2, <1>8, <1>9, <1>10, <1>13, <1>14, <1>15, <2>1 DEF EndNumbered
<1>19. SeenNumbered(c)'
  BY <1>2, <1>11, <1>15 DEF Numbered, SeenNumbered
<1>20. StepsSmall'
  BY <1>2, <1>5, <1>10, <1>11, <1>12 DEF StepsSmall
<1>21. Passes(b, c)
  <2>1. Published' = Published + 0 /\ 0 \in 0..MaxBatch
    BY <1>4, <1>14, PublishedIs
  <2> QED
    BY <1>2, <1>11, <1>15, <2>1 DEF Passes
<1> QED
  BY <1>15, <1>16, <1>17, <1>18, <1>19, <1>20, <1>21 DEF Goes, Numbered

LEMMA PopPublishGoes ==
  ASSUME QueueInv, StepsSmall, NEW b \in [inUse -> Nat], Numbered(b), PopPublish
  PROVE  Goes(b)
<1> DEFINE k == Len(consumer.seen)
           s == StepCounter(node[popHead].pop, k)
           r == [node[popHead] EXCEPT !.pop = s]
<1>1. PICK p \in inUse : p = popHead
  BY LinksIn
<1>2. /\ consumer.at = "count"
      /\ node' = [node EXCEPT ![p] = r]
      /\ got' = got \o consumer.seen
      /\ \/ consumer' = [consumer EXCEPT !.at = "maybe", !.node = popHead, !.then = "range",
                                         !.seen = <<>>]
         \/ consumer' = [consumer EXCEPT !.at = "cleanup", !.then = "more", !.seen = <<>>]
         \/ consumer' = [consumer EXCEPT !.at = "cleanup", !.then = "end", !.seen = <<>>]
      /\ UNCHANGED <<inUse, popHead, pushHead, sent, producer>>
  BY <1>1 DEF PopPublish, CAt, AskEmpty, AskCleanup, ConsumerKeeps
<1>3. /\ p \in QueueNodes /\ inUse \subseteq QueueNodes /\ node[p] \in NodeFields
      /\ node[p].push \in Count /\ node[p].pop \in Count /\ Size(p) \in 0..NodeSlots
      /\ node[p].pop \in Nat /\ NodeSlots \in Nat /\ Size(p) \in Nat
      /\ Filling(p) \in Nat
  BY FieldTypes, FillTypes, SizeIs, Numbers DEF QueueInv, RingsSound, Count, QueueTyped
<1>4. /\ k \in 0..Size(p) /\ Taking(p) = k /\ consumer.seen \in Seq(1..MaxSent)
      /\ k \in Nat /\ k <= MaxBatch /\ k \in 0..NodeSlots
  <2>1. k <= Size(p) /\ consumer.seen \in Seq(1..MaxSent) /\ k <= MaxBatch /\ Taking(p) = k
    BY <1>1, <1>2
       DEF QueueInv, ConsumerAt, Taking, CAt, QueueTyped, ConsumerStates, StepsSmall
  <2>2. k \in Nat
    BY <2>1
  <2> HIDE DEF k
  <2> QED
    BY <1>3, <2>1, <2>2
<1>5. consumer.seen = [j \in 1..k |-> b[p] + j]
  <2>1. \A j \in 1..k : consumer.seen[j] = b[p] + j
    BY <1>1, <1>2 DEF Numbered, SeenNumbered
  <2>2. consumer.seen = [j \in 1..k |-> consumer.seen[j]]
    BY <1>4
  <2> QED
    BY <2>1, <2>2
<1> HIDE DEF k
<1>6. /\ s \in Count /\ Dist(node[p].push, s) = Size(p) - k
      /\ (s % NodeSlots) = ((node[p].pop + k) % NodeSlots)
  <2>1. k <= Dist(node[p].push, node[p].pop)
    BY <1>3, <1>4 DEF Size
  <2>2. s = StepCounter(node[p].pop, k)
    BY <1>1
  <2>3. StepCounter(node[p].pop, k) \in Count
    BY <1>3, <1>4, StepIs
  <2>4. Dist(node[p].push, StepCounter(node[p].pop, k)) = Dist(node[p].push, node[p].pop) - k
    BY <1>3, <1>4, <2>1, DistBack
  <2>5. StepCounter(node[p].pop, k) % NodeSlots = ((node[p].pop + k) % NodeSlots)
    BY <1>3, <1>4, SlotStep
  <2> QED
    BY <2>2, <2>3, <2>4, <2>5 DEF Size
<1> HIDE DEF s
<1>7. /\ r \in NodeFields /\ r.push = node[p].push /\ r.pop = s
      /\ r.ring = node[p].ring /\ r.next = node[p].next
  BY <1>1, <1>3, <1>6 DEF NodeFields
<1> HIDE DEF r
<1>8. node'[p] = r /\ \A n \in QueueNodes \ {p} : node'[n] = node[n]
  BY <1>2, <1>3, <1>7, NodeSet DEF QueueInv
<1>9. consumer'.at \in {"maybe", "cleanup"} /\ consumer'.then # "one" /\ consumer'.seen = <<>>
  <2>1. consumer \in ConsumerStates
    BY DEF QueueInv, QueueTyped
  <2> QED
    BY <1>2, <2>1 DEF ConsumerStates
<1>10. \A n \in inUse : /\ Taking(n)' = 0 /\ (n # p => Taking(n) = 0)
                        /\ node'[n].next = node[n].next /\ node'[n].ring = node[n].ring
                        /\ Filling(n)' = Filling(n) /\ (n # p => node'[n] = node[n])
                        /\ (n # p => Size(n)' = Size(n))
  BY <1>1, <1>2, <1>3, <1>7, <1>8, <1>9 DEF Taking, CAt, Filling, Size
<1>11. Size(p)' = Size(p) - k /\ Published' = Published
  BY <1>2, <1>6, <1>7, <1>8 DEF Size, Published
<1>12. b[p] \in Nat
  OBVIOUS
<1>13. PICK c \in [inUse -> Nat] :
          c[p] = b[p] + k /\ \A n \in inUse : n # p => c[n] = b[n]
  <2> DEFINE c == [b EXCEPT ![p] = b[p] + k]
  <2>1. c \in [inUse -> Nat] /\ c[p] = b[p] + k /\ \A n \in inUse : n # p => c[n] = b[n]
    BY <1>4, <1>12
  <2> QED
    BY <2>1
<1>14. /\ pushHead \in inUse
       /\ producer.fresh # NoNode => producer.fresh \in inUse /\ producer.fresh # p
       /\ \A n \in inUse : n # pushHead /\ n # producer.fresh =>
            node[n].next \in inUse /\ node[n].next # p
  BY <1>1, LinksIn
<1>15. \A n \in inUse : c[n] + Size(n)' = b[n] + Size(n)
  <2>1. c[p] + Size(p)' = b[p] + Size(p)
    BY <1>3, <1>4, <1>11, <1>12, <1>13
  <2> QED
    BY <1>10, <1>13, <2>1
<1>16. RingsNumbered(c)'
  <2> SUFFICES ASSUME NEW n \in inUse, NEW m \in Taking(n)'..(Size(n)' + Filling(n)' - 1)
               PROVE  node'[n].ring[(node'[n].pop + m) % NodeSlots] = c[n] + m + 1
    BY <1>2 DEF RingsNumbered
  <2>1. CASE n # p
    BY <1>10, <1>13, <2>1 DEF Numbered, RingsNumbered
  <2>2. CASE n = p
    <3>1. Taking(p)' = 0 /\ Filling(p)' = Filling(p)
      BY <1>10
    <3>2. m \in Nat /\ m < (Size(p) - k) + Filling(p)
      BY <1>3, <1>4, <1>11, <2>2, <3>1
    <3>3. k + m \in Taking(p)..(Size(p) + Filling(p) - 1)
      BY <1>3, <1>4, <3>2
    <3>4. node[p].ring[(node[p].pop + (k + m)) % NodeSlots] = b[p] + (k + m) + 1
      BY <3>3 DEF Numbered, RingsNumbered
    <3>5. ((s + m) % NodeSlots) = ((node[p].pop + (k + m)) % NodeSlots)
      <4>1. s \in Nat /\ node[p].pop + k \in Nat
        <5>1. s \in Nat
          BY <1>6, Numbers DEF Count
        <5>2. node[p].pop + k \in Nat
          BY <1>3, <1>4
        <5> QED
          BY <5>1, <5>2
      <4>2. m \in 0..NodeSlots
        <5>1. RingFits(p)
          BY DEF QueueInv, RingsSound
        <5>2. Size(p) + Filling(p) <= NodeSlots
          BY <5>1 DEF RingFits
        <5> QED
          BY <1>3, <1>4, <3>2, <5>2
      <4>3. ((s + m) % NodeSlots) = (((node[p].pop + k) + m) % NodeSlots)
        BY <1>6, <4>1, <4>2, SlotAfter
      <4>4. (node[p].pop + k) + m = node[p].pop + (k + m)
        BY <1>3, <1>4, <3>2
      <4> QED
        BY <4>3, <4>4
    <3>6. node'[p].ring = node[p].ring /\ node'[p].pop = s
      BY <1>7, <1>8
    <3>7. b[p] + (k + m) + 1 = c[p] + m + 1
      BY <1>4, <1>12, <1>13, <3>2
    <3> QED
      BY <2>2, <3>4, <3>5, <3>6, <3>7
  <2> QED
    BY <2>1, <2>2
<1>17. LinksNumbered(c)'
  <2> SUFFICES ASSUME NEW n \in inUse, n # pushHead, n # producer.fresh
               PROVE  c[node[n].next] = c[n] + Size(n)'
    BY <1>2, <1>10 DEF LinksNumbered
  <2>1. b[node[n].next] = b[n] + Size(n)
    BY DEF Numbered, LinksNumbered
  <2> QED
    BY <1>13, <1>14, <1>15, <2>1
<1>18. EndNumbered(c)'
  <2>1. c[pushHead] + Size(pushHead)' = Published'
    <3>1. b[pushHead] + Size(pushHead) = Published
      BY DEF Numbered, EndNumbered
    <3>2. \A n \in inUse : n = pushHead => n = pushHead'
      BY <1>2
    <3>3. \A n \in inUse : n = pushHead => c[pushHead'] + Size(pushHead)' = c[n] + Size(n)'
      BY <3>2
    <3> QED
      BY <1>2, <1>11, <1>14, <1>15, <3>1, <3>3
  <2>2. ASSUME NEW n \in inUse, n = producer.fresh
        PROVE  c[n] = Published' /\ Size(n)' = producer.filled /\ node'[n].next = NoNode
    <3>1. n # NoNode /\ n # p
      BY <1>3, <1>14, <2>2, QueueAssumption
    <3>2. b[n] = Published /\ Size(n) = producer.filled /\ node[n].next = NoNode
      BY <2>2, <3>1 DEF Numbered, EndNumbered
    <3> QED
      BY <1>10, <1>11, <1>13, <3>1, <3>2
  <2>3. \A n \in inUse : producer'.fresh = n => Size(producer.fresh)' = Size(n)'
    BY DEF Size
  <2> QED
    BY <1>2, <1>14, <2>1, <2>2, <2>3 DEF EndNumbered
<1>19. SeenNumbered(c)'
  BY <1>9 DEF SeenNumbered
<1>20. StepsSmall'
  <2>1. Len(consumer'.seen) = 0
    BY <1>9
  <2> QED
    BY <1>2, <1>9, <2>1, QueueAssumption DEF StepsSmall
<1>21. Passes(b, c)
  <2>1. k \in 0..MaxBatch
    BY <1>4, QueueAssumption
  <2>2. got' = got \o [j \in 1..k |-> b[popHead] + j]
    BY <1>1, <1>2, <1>5
  <2>3. c[popHead'] = b[popHead] + k
    BY <1>1, <1>2, <1>13
  <2> QED
    BY <1>11, <2>1, <2>2, <2>3 DEF Passes
<1> QED
  BY <1>2, <1>13, <1>16, <1>17, <1>18, <1>19, <1>20, <1>21 DEF Goes, Numbered

LEMMA RemoveNodeGoes ==
  ASSUME QueueInv, StepsSmall, NEW b \in [inUse -> Nat], Numbered(b), RemoveNode
  PROVE  Goes(b)
<1>1. /\ consumer.at = "empty" /\ consumer.then \in Callers
      /\ consumer' = [consumer EXCEPT !.at = "removed"]
      /\ popHead' = node[popHead].next /\ inUse' = inUse \ {popHead}
      /\ node' = [node EXCEPT ![popHead] = FreshNode(0)]
      /\ UNCHANGED <<got, pushHead, sent, producer>>
  BY DEF RemoveNode, CAt, CGo, ConsumerKeeps
<1>2. popHead # pushHead /\ Size(popHead) = 0
  BY <1>1 DEF QueueInv, ConsumerAt, StepsSmall
<1>3. consumer.then # "one"
  BY <1>2 DEF QueueInv, ConsumerAt
<1>4. /\ popHead \in inUse /\ pushHead \in inUse /\ inUse \subseteq QueueNodes
      /\ producer.fresh # NoNode =>
           producer.fresh \in inUse /\ producer.fresh # pushHead /\ producer.fresh # popHead
      /\ \A n \in inUse : n # pushHead /\ n # producer.fresh =>
           node[n].next \in inUse /\ node[n].next # popHead /\ node[n].next # producer.fresh
  BY LinksIn DEF QueueInv, QueueTyped
<1>5. popHead # producer.fresh
  BY <1>4, QueueAssumption
<1>6. popHead' \in inUse /\ popHead' # popHead /\ popHead' \in inUse'
  BY <1>1, <1>2, <1>4, <1>5
<1>7. \A n \in inUse' : n \in inUse /\ n # popHead /\ node'[n] = node[n]
  <2>1. node \in [QueueNodes -> NodeFields]
    BY DEF QueueInv, QueueTyped
  <2> QED
    BY <1>1, <1>4, <2>1
<1>8. consumer'.at = "removed" /\ consumer'.then = consumer.then /\ consumer'.seen = consumer.seen
  BY <1>1 DEF QueueInv, QueueTyped, ConsumerStates
<1>9. \A n \in inUse' : /\ Taking(n)' = 0 /\ Taking(n) = 0 /\ Filling(n)' = Filling(n)
                        /\ Size(n)' = Size(n)
  BY <1>1, <1>7, <1>8 DEF Taking, CAt, Filling, Size
<1>10. b[popHead'] = b[popHead]
  <2>1. b[node[popHead].next] = b[popHead] + Size(popHead)
    BY <1>2, <1>4, <1>5 DEF Numbered, LinksNumbered
  <2>2. b[popHead] \in Nat
    BY <1>4
  <2> QED
    BY <1>1, <1>2, <2>1, <2>2
<1>11. PICK c \in [inUse' -> Nat] : \A n \in inUse' : c[n] = b[n]
  <2> DEFINE c == [n \in inUse' |-> b[n]]
  <2>1. c \in [inUse' -> Nat] /\ \A n \in inUse' : c[n] = b[n]
    BY <1>7
  <2> QED
    BY <2>1
<1>12. RingsNumbered(c)'
  BY <1>7, <1>9, <1>11 DEF Numbered, RingsNumbered
<1>13. LinksNumbered(c)'
  <2> SUFFICES ASSUME NEW n \in inUse', n # pushHead, n # producer.fresh
               PROVE  c[node[n].next] = c[n] + Size(n)
    BY <1>1, <1>7, <1>9 DEF LinksNumbered
  <2>1. b[node[n].next] = b[n] + Size(n)
    BY <1>7 DEF Numbered, LinksNumbered
  <2>2. node[n].next \in inUse'
    BY <1>1, <1>4, <1>7
  <2> QED
    BY <1>11, <2>1, <2>2
<1>14. EndNumbered(c)'
  <2>1. pushHead \in inUse' /\ (producer.fresh # NoNode => producer.fresh \in inUse')
    BY <1>1, <1>2, <1>4
  <2>2. Published' = Published
    BY <1>1 DEF Published
  <2>3. c[pushHead] + Size(pushHead)' = Published'
    <3>1. b[pushHead] + Size(pushHead) = Published
      BY DEF Numbered, EndNumbered
    <3>2. \A n \in inUse' : n = pushHead => c[pushHead'] + Size(pushHead)' = c[n] + Size(n)'
      BY <1>1
    <3> QED
      BY <1>1, <1>9, <1>11, <2>1, <2>2, <3>1, <3>2
  <2>4. ASSUME NEW n \in inUse', n = producer.fresh
        PROVE  c[n] = Published' /\ Size(n)' = producer.filled /\ node'[n].next = NoNode
    <3>1. n # NoNode
      BY <1>4, <1>7, <2>4, QueueAssumption
    <3>2. b[n] = Published /\ Size(n) = producer.filled /\ node[n].next = NoNode
      BY <2>4, <3>1 DEF Numbered, EndNumbered
    <3> QED
      BY <1>7, <1>9, <1>11, <2>2, <3>1, <3>2
  <2>5. \A n \in inUse' : producer'.fresh = n => Size(producer.fresh)' = Size(n)'
    BY DEF Size
  <2> QED
    BY <1>1, <2>1, <2>3, <2>4, <2>5 DEF EndNumbered
<1>15. SeenNumbered(c)'
  BY <1>3, <1>8 DEF SeenNumbered
<1>16. StepsSmall'
  BY <1>1, <1>8 DEF StepsSmall
<1>17. Passes(b, c)
  <2>1. Published' = Published + 0 /\ 0 \in 0..MaxBatch
    BY <1>1, PublishedIs DEF Published
  <2>2. c[popHead'] = b[popHead]
    BY <1>6, <1>10, <1>11
  <2> QED
    BY <1>1, <2>1, <2>2 DEF Passes
<1> QED
  BY <1>12, <1>13, <1>14, <1>15, <1>16, <1>17 DEF Goes, Numbered

\* A list with one node, that is empty, and how its elements are numbered.
NothingIn ==
  /\ inUse = {popHead} /\ pushHead = popHead /\ producer.fresh = NoNode
  /\ producer.filled = 0 /\ Size(popHead) = 0 /\ sent \in Nat /\ consumer.at = "idle"
  /\ consumer.then = "idle" /\ Len(consumer.seen) <= MaxBatch
NumberedAnew ==
  StepsSmall /\ \E c \in [inUse -> Nat] : Numbered(c) /\ c[popHead] = Published

LEMMA EmptyNumbers == NothingIn => NumberedAnew
<1> SUFFICES ASSUME NothingIn PROVE NumberedAnew
  OBVIOUS
<1> DEFINE c == [n \in inUse |-> sent]
<1>1. c \in [inUse -> Nat] /\ c[popHead] = sent /\ popHead \in inUse
  BY DEF NothingIn
<1> HIDE DEF c
<1>2. Published = sent
  BY DEF Published, NothingIn
<1>3. Filling(popHead) = 0 /\ Taking(popHead) = 0
  BY DEF Filling, Taking, CAt, NothingIn
<1>4. RingsNumbered(c)
  <2> SUFFICES ASSUME NEW m \in Taking(popHead)..(Size(popHead) + Filling(popHead) - 1)
               PROVE  FALSE
    BY DEF RingsNumbered, NothingIn
  <2> QED
    BY <1>3 DEF NothingIn
<1>5. LinksNumbered(c) /\ EndNumbered(c) /\ SeenNumbered(c)
  BY <1>1, <1>2 DEF LinksNumbered, EndNumbered, SeenNumbered, NothingIn
<1>6. StepsSmall
  BY QueueAssumption DEF StepsSmall, NothingIn
<1> QED
  BY <1>1, <1>2, <1>4, <1>5, <1>6 DEF Numbered, NumberedAnew

LEMMA ClearListGoes ==
  ASSUME QueueInv, StepsSmall, NEW b \in [inUse -> Nat], Numbered(b), ClearList
  PROVE  Goes(b)
<1>1. /\ producer.at = "idle" /\ consumer.at = "idle" /\ pushHead' = popHead
      /\ node' = [n \in QueueNodes |-> FreshNode(0)] /\ inUse' = {popHead}
      /\ UNCHANGED <<popHead, sent, got, producer, consumer>>
  BY DEF ClearList, PAt, CAt
<1>2. PICK p \in QueueNodes : p = popHead
  BY LinksIn DEF QueueInv, QueueTyped
<1>3. producer.fresh = NoNode /\ producer.filled = 0 /\ consumer.then = "idle"
  BY <1>1 DEF QueueInv, ProducerAt, ConsumerAt, Calm, Asking
<1>4. Size(p)' = 0
  <2>1. 0 \in Count
    BY Numbers DEF Count
  <2>2. FreshNode(0).push = 0 /\ FreshNode(0).pop = 0 /\ Dist(0, 0) = 0
    BY <2>1, FreshIs
  <2>3. node'[p] = FreshNode(0)
    BY <1>1
  <2> QED
    BY <2>2, <2>3 DEF Size
<1>5. sent' \in Nat /\ Len(consumer'.seen) <= MaxBatch
  BY <1>1, PublishedIs DEF StepsSmall
<1>6. /\ inUse' = {p} /\ popHead' = p /\ pushHead' = p /\ producer'.fresh = NoNode
      /\ producer'.filled = 0 /\ consumer'.at = "idle" /\ consumer'.then = "idle"
  BY <1>1, <1>2, <1>3
<1>7. NothingIn'
  <2>1. Size(popHead)' = 0
    BY <1>1, <1>2, <1>4 DEF Size
  <2> QED
    BY <1>5, <1>6, <2>1 DEF NothingIn
<1>8. NumberedAnew'
  <2>1. (NothingIn => NumberedAnew)'
    BY EmptyNumbers, PTL
  <2> QED
    BY <1>7, <2>1
<1>9. Published' = Published /\ got' = got
  BY <1>1 DEF Published
<1> QED
  BY <1>8, <1>9 DEF NumberedAnew, Goes, Passes

---------------------------------------------------------------------------
LEMMA StepGoes ==
  ASSUME QueueInv, StepsSmall, NEW b \in [inUse -> Nat], Numbered(b), QueueNext
  PROVE  Goes(b)
<1>1. CASE \E n \in 1..MaxBatch, op \in {"one", "batch", "stream"} : Push(op, n)
  BY <1>1, PushGoes
<1>2. CASE \E n \in 1..MaxBatch, op \in {"one", "some", "range"} : Call(op, n)
  BY <1>2, CallGoes
<1>3. CASE ProducerStep
  BY <1>3, PushMaybeFullGoes, RefreshGoes, FillGoes, PublishGoes, AllocateGoes,
     ChainNodeGoes, SwitchGoes DEF ProducerStep
<1>4. CASE ConsumerStep
  BY <1>4, NodeEmptyGoes, RefreshPushGoes, LookGoes, CleanupGoes, RemoveNodeGoes, TopGoes,
     PopOneGoes, PopSomeGoes, PopRangeGoes, PopPublishGoes, FinishGoes DEF ConsumerStep
<1>5. CASE ClearList
  BY <1>5, ClearListGoes
<1> QED
  BY <1>1, <1>2, <1>3, <1>4, <1>5 DEF QueueNext

LEMMA ListStarts == ASSUME PowerOfTwoSlots, QueueInit PROVE InOrder /\ Lossless!FifoInit
<1>1. PICK p \in QueueNodes : p = CHOOSE m \in QueueNodes : TRUE
  BY QueueAssumption
<1>2. /\ inUse = {p} /\ node[p] = FreshNode(FirstCount) /\ pushHead = p /\ popHead = p
      /\ sent = 0 /\ got = <<>> /\ producer = ProducerIdle /\ consumer = ConsumerIdle
  BY <1>1 DEF QueueInit
<1>3. /\ producer.fresh = NoNode /\ producer.filled = 0 /\ consumer.at = "idle"
      /\ consumer.then = "idle" /\ consumer.seen = <<>>
  BY <1>2 DEF ProducerIdle, ConsumerIdle
<1>4. Size(p) = 0
  <2>1. FirstCount \in Count
    BY CounterAssumption DEF Count
  <2>2. /\ FreshNode(FirstCount).push = FirstCount /\ FreshNode(FirstCount).pop = FirstCount
        /\ Dist(FirstCount, FirstCount) = 0
    BY <2>1, FreshIs
  <2> QED
    BY <1>2, <2>2 DEF Size
<1>5. Len(consumer.seen) <= MaxBatch /\ sent \in Nat
  <2>1. Len(consumer.seen) = 0
    BY <1>3
  <2> QED
    BY <1>2, <2>1, QueueAssumption
<1>6. NumberedAnew
  BY <1>2, <1>3, <1>4, <1>5, EmptyNumbers DEF NothingIn
<1>7. PICK c \in [inUse -> Nat] : Numbered(c) /\ c[popHead] = Published
  BY <1>6 DEF NumberedAnew
<1>8. Published = 0
  BY <1>2, <1>3 DEF Published
<1>9. Inside = Stretch(0, 0)
  BY <1>7, <1>8, QueueStarts, ListReads DEF Reads, ReadsBy
<1>10. Stretch(0, 0) = <<>>
  BY DEF Stretch
<1>11. sent - producer.filled = 0
  BY <1>8 DEF Published
<1> QED
  BY <1>2, <1>6, <1>9, <1>10, <1>11 DEF NumberedAnew, InOrder, Lossless!FifoInit

LEMMA ListMoves ==
  ASSUME QueueInv, Reads, Reads', NEW b \in [inUse -> Nat], Numbered(b), Goes(b)
  PROVE  InOrder' /\ [Lossless!FifoNext]_(Lossless!fifoVars)
<1>1. PICK c \in [inUse' -> Nat] : Numbered(c)' /\ Passes(b, c)
  BY DEF Goes
<1>2. InOrder'
  BY <1>1 DEF Goes, InOrder
<1> DEFINE h == b[popHead]
           i == c[popHead']
<1>3. ReadsBy(b) /\ ReadsBy(c)'
  BY <1>1 DEF Reads
<1>4. PICK t \in Nat : t = Published
  BY <1>3 DEF ReadsBy
<1>5. PICK u \in Nat : u = Published'
  BY <1>3 DEF ReadsBy
<1>6. /\ h \in Nat /\ h <= t /\ Inside = Stretch(h, t)
      /\ i \in Nat /\ i <= u /\ Inside' = Stretch(i, u)
  BY <1>3, <1>4, <1>5 DEF ReadsBy
<1>7. t = sent - producer.filled /\ u = (sent - producer.filled)'
  BY <1>4, <1>5 DEF Published
<1>8. PICK x \in Nat, y \in Nat : x = h /\ y = i
  BY <1>6
<1>9. \/ \E n \in 0..MaxBatch : u = t + n /\ y = x /\ got' = got
      \/ /\ u = t
         /\ \E n \in 0..MaxBatch : y = x + n /\ got' = got \o [j \in 1..n |-> x + j]
      \/ u = t /\ y = t /\ got' = got
  BY <1>1, <1>4, <1>5, <1>8 DEF Passes
<1>10. x <= t /\ Inside = Stretch(x, t) /\ y <= u /\ Inside' = Stretch(y, u)
  BY <1>6, <1>8
<1> HIDE DEF h, i
<1>11. MaxBatch \in Nat
  BY QueueAssumption
<1>12. CASE \E n \in 0..MaxBatch : u = t + n /\ y = x /\ got' = got
  <2>1. PICK n \in 0..MaxBatch : u = t + n /\ y = x /\ got' = got
    BY <1>12
  <2>2. CASE n = 0
    <3>1. u = t /\ Inside' = Inside
      BY <1>10, <2>1, <2>2
    <3> QED
      BY <1>2, <1>7, <2>1, <3>1 DEF Lossless!fifoVars
  <2>3. CASE n # 0
    <3>1. n \in 1..MaxBatch /\ n \in Nat
      BY <1>11, <2>3
    <3>2. Inside \o [j \in 1..n |-> t + j] = Inside'
      BY <1>10, <2>1, <3>1, StretchGrows
    <3>3. Lossless!Extend(n)
      BY <1>7, <2>1, <3>2 DEF Lossless!Extend
    <3> QED
      BY <1>2, <3>1, <3>3 DEF Lossless!FifoNext
  <2> QED
    BY <2>2, <2>3
<1>13. CASE /\ u = t
            /\ \E n \in 0..MaxBatch : y = x + n /\ got' = got \o [j \in 1..n |-> x + j]
  <2>1. PICK n \in 0..MaxBatch : y = x + n /\ got' = got \o [j \in 1..n |-> x + j]
    BY <1>13
  <2>2. CASE n = 0
    <3>1. y = x /\ [j \in 1..n |-> x + j] = <<>>
      BY <2>1, <2>2
    <3>2. got \o <<>> = got
      BY DEF QueueInv, QueueTyped
    <3>3. Inside' = Inside /\ got' = got
      BY <1>10, <1>13, <2>1, <3>1, <3>2
    <3> QED
      BY <1>2, <1>7, <1>13, <3>3 DEF Lossless!fifoVars
  <2>3. CASE n # 0
    <3>1. n \in 1..MaxBatch /\ n \in Nat /\ x + n <= t
      BY <1>10, <1>11, <1>13, <2>1, <2>3
    <3>2. /\ Len(Inside) = t - x /\ n <= t - x
          /\ SubSeq(Inside, 1, n) = [j \in 1..n |-> x + j]
          /\ SubSeq(Inside, n + 1, t - x) = Inside'
      <4>1. /\ Len(Stretch(x, t)) = t - x
            /\ SubSeq(Stretch(x, t), 1, n) = [j \in 1..n |-> x + j]
            /\ SubSeq(Stretch(x, t), n + 1, t - x) = Stretch(x + n, t)
        BY ONLY <1>10, <3>1, StretchShrinks
      <4>2. Inside = Stretch(x, t) /\ Inside' = Stretch(x + n, t)
        BY ONLY <1>10, <1>13, <2>1
      <4>3. n <= t - x
        BY ONLY <3>1
      <4> QED
        BY ONLY <4>1, <4>2, <4>3
    <3>3. Lossless!Remove(n)
      BY <1>7, <1>13, <2>1, <3>2 DEF Lossless!Remove
    <3> QED
      BY <1>2, <3>1, <3>3 DEF Lossless!FifoNext
  <2> QED
    BY <2>2, <2>3
<1>14. CASE u = t /\ y = t /\ got' = got
  <2>1. Inside' = <<>>
    BY <1>10, <1>14 DEF Stretch
  <2>2. Lossless!Clear
    BY <1>7, <1>14, <2>1 DEF Lossless!Clear
  <2> QED
    BY <1>2, <2>2 DEF Lossless!FifoNext
<1> QED
  BY <1>9, <1>12, <1>13, <1>14

LEMMA ListStays ==
  ASSUME InOrder, UNCHANGED queueVars
  PROVE  InOrder' /\ UNCHANGED Lossless!fifoVars
<1>1. UNCHANGED <<inUse, node, pushHead, popHead, sent, got, producer, consumer>>
  BY DEF queueVars
<1>2. Inside' = Inside
  BY <1>1 DEF Inside, Queued, Paths, IsChain, SizeOf, CAt, Contents
<1>3. StepsSmall'
  BY <1>1 DEF InOrder, StepsSmall, Size
<1>4. PICK b \in [inUse -> Nat] : Numbered(b)
  BY DEF InOrder
<1>5. Numbered(b)'
  <2>1. RingsNumbered(b)' /\ LinksNumbered(b)'
    BY <1>1, <1>4 DEF Numbered, RingsNumbered, LinksNumbered, Taking, Filling, Size, CAt
  <2>2. EndNumbered(b)' /\ SeenNumbered(b)'
    BY <1>1, <1>4 DEF Numbered, EndNumbered, SeenNumbered, Published, Size
  <2> QED
    BY <2>1, <2>2 DEF Numbered
<1> QED
  BY <1>1, <1>2, <1>3, <1>5 DEF InOrder, Lossless!fifoVars

\* The queue list is a first-in first-out queue, for every number of nodes and elements,
\* every number of slots that is a power of two and every width of its counters: what is
\* published is appended, what a pop counts out is what came first, and no other step of
\* the ring, the chain or cleanup_empty() moves, loses, repeats or reorders an element.
THEOREM ListIsAFifo == ASSUME PowerOfTwoSlots PROVE QueueSpec => RefinesFifo
<1>1. QueueInit => QueueInv /\ InOrder /\ Lossless!FifoInit
  BY QueueStarts, ListStarts
<1>2. QueueInv /\ [QueueNext]_queueVars => QueueInv'
  BY QueueStep, QueueStutters
<1>3. QueueInv => Reads
  BY ListReads
<1>4. QueueInv /\ InOrder /\ Reads /\ Reads' /\ [QueueNext]_queueVars
        => InOrder' /\ [Lossless!FifoNext]_(Lossless!fifoVars)
  <2>1. CASE QueueNext
    BY <2>1, StepGoes, ListMoves DEF InOrder
  <2>2. CASE UNCHANGED queueVars
    BY <2>2, ListStays
  <2> QED
    BY <2>1, <2>2
<1> QED
  BY <1>1, <1>2, <1>3, <1>4, PTL DEF QueueSpec, RefinesFifo, Lossless!FifoSpec
=============================================================================
