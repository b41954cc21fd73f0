---------------------------- MODULE Data_proofs ----------------------------
(***************************************************************************)
(* Proofs about the allocators and the entity systems.  The regions that a *)
(* linear cache hands out lie apart.  A block of iris_allocator_t is       *)
(* counted by all who may touch it, is in one place, and is not lost; and  *)
(* no item is given twice.  The vector and the two lists of an entity      *)
(* system agree, and a system is a map from entities to components.        *)
(***************************************************************************)
EXTENDS LinearCache, BlockAllocator, EntitySystem, Counting, TLAPS

(***************************************************************************)
(* The linear cache                                                        *)
(***************************************************************************)
\* A set of numbers up to n has a largest one.
LEMMA LargestNumber ==
  ASSUME NEW n \in Nat, NEW T \in SUBSET (1..n), T # {}
  PROVE  \E a \in T : \A b \in T : b <= a
<1> DEFINE D == {n - a : a \in T}
<1>1. D \subseteq Nat /\ D # {}
  <2>1. \A a \in T : n - a \in Nat
    OBVIOUS
  <2> QED
    BY <2>1
<1>2. PICK d \in D : \A e \in D : d <= e
  BY <1>1, SmallestNumber
<1>3. PICK a \in T : d = n - a
  BY <1>2
<1>4. \A b \in T : b <= a
  <2> SUFFICES ASSUME NEW b \in T PROVE b <= a
    OBVIOUS
  <2>1. n - a <= n - b
    BY <1>2, <1>3
  <2> QED
    BY <2>1
<1> QED
  BY <1>4

\* iris_get_alignment is a number.
LEMMA AlignmentType == ASSUME NEW n \in Nat PROVE Alignment(n) \in Nat
<1> DEFINE powers == {a \in 1..n : PowerOfTwo(a) /\ n % a = 0}
<1>1. CASE n = 0
  BY <1>1 DEF Alignment
<1>2. CASE n # 0
  <2>1. 1 \in powers
    BY <1>2 DEF PowerOfTwo
  <2>2. \E a \in powers : \A b \in powers : b <= a
    BY <2>1, LargestNumber
  <2>3. Alignment(n) = CHOOSE a \in powers : \A b \in powers : b <= a
    BY <1>2 DEF Alignment
  <2>4. Alignment(n) \in powers
    BY <2>2, <2>3
  <2> QED
    BY <2>4
<1> QED
  BY <1>1, <1>2

\* What is added for an alignment is less than it, and nothing at the start of a node.
LEMMA PaddingType ==
  ASSUME NEW n \in Nat, NEW alignment \in Nat \ {0}
  PROVE  Padding(n, alignment) \in 0..(alignment - 1) /\ Padding(0, alignment) = 0
<1>1. \A z \in Int : z % alignment \in 0..(alignment - 1)
  OBVIOUS
<1>2. alignment % alignment = 0
  <2>1. alignment * 1 + 0 = alignment
    OBVIOUS
  <2> QED
    BY <2>1
<1>3. Alignment(0) = 0
  BY DEF Alignment
<1>4. alignment - Alignment(n) \in Int
  BY AlignmentType
<1> QED
  BY <1>1, <1>2, <1>3, <1>4 DEF Padding

\* Every region lies in a node that is there.
RegionsLie ==
  \A r \in regions : r.node \in 1..Len(filled) /\ r.first \in Nat /\ r.count \in Nat
CacheInv == CacheTypeOK /\ RegionsLie /\ RegionsApart

\* The elements of a sequence.
LEMMA SeqIs ==
  ASSUME NEW B, NEW q \in Seq(B)
  PROVE  Len(q) \in Nat /\ \A n \in 1..Len(q) : q[n] \in B
OBVIOUS

\* How far the nodes are filled.
LEMMA FilledIs ==
  ASSUME CacheTypeOK
  PROVE  /\ Len(filled) \in 1..MaxNodes /\ Len(filled) \in Nat
         /\ \A n \in 1..Len(filled) : filled[n] \in 0..CacheSlots /\ filled[n] \in Nat
<1>1. filled \in Seq(0..CacheSlots) /\ Len(filled) \in 1..MaxNodes
  BY DEF CacheTypeOK
<1>2. Len(filled) \in Nat /\ \A n \in 1..Len(filled) : filled[n] \in 0..CacheSlots
  BY <1>1, SeqIs
<1> QED
  BY <1>1, <1>2, CacheAssumption

\* A step that hands out a region of node n, past all that were handed out before.
LEMMA Handed ==
  ASSUME CacheInv, CacheTypeOK', NEW n \in 1..Len(filled'), NEW c \in Nat, NEW a, NEW f \in Nat,
         Len(filled') \in Nat, Len(filled) <= Len(filled'),
         \A m \in 1..Len(filled) : filled[m] <= filled'[m],
         n <= Len(filled) => f = filled[n], f + c <= filled'[n],
         regions' = regions \cup {[node |-> n, first |-> f, count |-> c, alignment |-> a]}
  PROVE  CacheInv'
<1> DEFINE new == [node |-> n, first |-> f, count |-> c, alignment |-> a]
<1>0. new.node = n /\ new.first = f /\ new.count = c /\ regions' = regions \cup {new}
  OBVIOUS
<1> HIDE DEF new
<1>1. Len(filled) \in Nat /\ \A m \in 1..Len(filled) : filled[m] \in Nat
  BY FilledIs DEF CacheInv
<1>1a. \A m \in 1..Len(filled) : filled'[m] \in Nat
  <2>1. \A m \in 1..Len(filled') : filled'[m] \in 0..CacheSlots
    BY SeqIs DEF CacheTypeOK
  <2> QED
    BY <1>1, <2>1, CacheAssumption
<1>2. RegionsLie'
  BY <1>0, <1>1 DEF CacheInv, RegionsLie
<1>3. \A r \in regions : r.first + r.count <= filled'[r.node]
  <2> SUFFICES ASSUME NEW r \in regions PROVE r.first + r.count <= filled'[r.node]
    OBVIOUS
  <2>1. r.node \in 1..Len(filled) /\ r.first \in Nat /\ r.count \in Nat /\ r.first + r.count <= filled[r.node]
    BY DEF CacheInv, RegionsLie, RegionsApart
  <2>2. filled[r.node] <= filled'[r.node] /\ filled[r.node] \in Nat /\ filled'[r.node] \in Nat
    BY <1>1, <1>1a, <2>1
  <2> QED
    BY <2>1, <2>2
<1>4. \A r \in regions : r.node = n => r.first + r.count <= f
  BY <1>1 DEF CacheInv, RegionsLie, RegionsApart
<1>5. \A r, q \in regions' : r # q /\ r.node = q.node =>
        r.first + r.count <= q.first \/ q.first + q.count <= r.first
  BY <1>0, <1>4 DEF CacheInv, RegionsApart
<1> QED
  BY <1>0, <1>2, <1>3, <1>5 DEF CacheInv, RegionsApart

\* Every step keeps the regions apart.
LEMMA CacheStep == ASSUME CacheInv, [CacheNext]_cacheVars PROVE CacheInv'
<1>a. /\ CacheSlots \in Nat \ {0} /\ MaxNodes \in Nat \ {0}
      /\ \A r \in Requests : r[1] \in 1..CacheSlots /\ r[2] \in 1..CacheSlots
  BY CacheAssumption DEF Requests
<1>b. /\ filled \in Seq(0..CacheSlots) /\ Len(filled) \in 1..MaxNodes /\ pushAt \in 1..Len(filled)
      /\ Len(filled) \in Nat /\ \A n \in 1..Len(filled) : filled[n] \in 0..CacheSlots /\ filled[n] \in Nat
  BY FilledIs DEF CacheInv, CacheTypeOK
<1>1. ASSUME NEW r \in Requests, AllocateLinear(r[1], r[2]) PROVE CacheInv'
  <2> DEFINE c == r[1]
             a == r[2]
             roomy == {n \in pushAt..Len(filled) : Fits(n, c, a)}
  <2>0. c \in 1..CacheSlots /\ a \in 1..CacheSlots
    BY <1>a
  <2>1. CASE roomy # {}
    <3>1. PICK n \in roomy : Give(n, c, a)
      BY <1>1, <2>1 DEF AllocateLinear
    <3>2. n \in 1..Len(filled) /\ n \in Nat /\ Fits(n, c, a)
      BY <1>b, <3>1
    <3> DEFINE p == Padding(filled[n], a)
    <3>3. p \in Nat
      <4>1. a \in Nat \ {0} /\ filled[n] \in Nat
        BY <1>a, <1>b, <2>0, <3>2
      <4>2. p \in 0..(a - 1)
        BY <4>1, PaddingType
      <4> QED
        BY <4>1, <4>2
    <3>4. filled[n] + c + p <= CacheSlots
      BY <3>2 DEF Fits
    <3>5. filled' = [filled EXCEPT ![n] = filled[n] + c + p] /\ pushAt' = n
          /\ regions' = regions \cup {[node |-> n, first |-> filled[n], count |-> c, alignment |-> a]}
      BY <3>1 DEF Give
    <3> HIDE DEF p, c, a, roomy
    <3>6. filled[n] \in Nat /\ filled[n] + c + p \in 0..CacheSlots
      <4>1. filled[n] \in Nat /\ c \in Nat /\ CacheSlots \in Nat
        BY <1>a, <1>b, <2>0, <3>2
      <4> QED
        BY <4>1, <3>3, <3>4
    <3>7. filled' \in Seq(0..CacheSlots) /\ Len(filled') = Len(filled)
          /\ filled'[n] = filled[n] + c + p /\ \A m \in 1..Len(filled) : m # n => filled'[m] = filled[m]
      BY <1>b, <3>2, <3>5, <3>6
    <3>8. CacheTypeOK'
      BY <1>b, <3>2, <3>5, <3>7 DEF CacheTypeOK
    <3>9. (\A m \in 1..Len(filled) : filled[m] <= filled'[m]) /\ filled[n] + c <= filled'[n]
      <4>1. c \in Nat /\ filled[n] \in Nat
        BY <1>a, <2>0, <3>6
      <4>2. filled[n] + c <= filled'[n] /\ filled[n] <= filled'[n]
        BY <3>3, <3>7, <4>1
      <4>3. \A m \in 1..Len(filled) : filled[m] <= filled[m]
        BY <1>b
      <4> QED
        BY <3>7, <4>2, <4>3
    <3>10. n \in 1..Len(filled') /\ c \in Nat /\ Len(filled) <= Len(filled') /\ Len(filled') \in Nat
      BY <1>a, <1>b, <2>0, <3>2, <3>7
    <3> QED
      BY <3>5, <3>6, <3>8, <3>9, <3>10, Handed
  <2>2. CASE roomy = {}
    <3>1. /\ Len(filled) < MaxNodes
          /\ filled' = Append(filled, c + Padding(0, a))
          /\ regions' = regions \cup {[node |-> Len(filled) + 1, first |-> 0, count |-> c, alignment |-> a]}
          /\ pushAt' = Len(filled) + 1
      BY <1>1, <2>2 DEF AllocateLinear
    <3> HIDE DEF c, a, roomy
    <3>2. c + Padding(0, a) = c
      <4>1. a \in Nat \ {0} /\ c \in Nat /\ 0 \in Nat
        BY <1>a, <2>0
      <4>2. Padding(0, a) = 0
        BY <4>1, PaddingType
      <4> QED
        BY <4>1, <4>2
    <3>3. filled' \in Seq(0..CacheSlots) /\ Len(filled') = Len(filled) + 1
          /\ filled'[Len(filled) + 1] = c /\ \A m \in 1..Len(filled) : filled'[m] = filled[m]
      BY <1>a, <1>b, <2>0, <3>1, <3>2
    <3>4. CacheTypeOK'
      BY <1>a, <1>b, <3>1, <3>3 DEF CacheTypeOK
    <3> DEFINE n == Len(filled) + 1
    <3>5. n \in 1..Len(filled') /\ c \in Nat /\ Len(filled) <= Len(filled') /\ Len(filled') \in Nat
          /\ ~(n <= Len(filled)) /\ filled'[n] = c /\ 0 + c <= filled'[n] /\ 0 \in Nat
      BY <1>a, <1>b, <2>0, <3>3
    <3>6. \A m \in 1..Len(filled) : filled[m] <= filled'[m]
      BY <1>b, <3>3
    <3>7. regions' = regions \cup {[node |-> n, first |-> 0, count |-> c, alignment |-> a]}
      BY <3>1
    <3> HIDE DEF n
    <3> QED
      BY <3>4, <3>5, <3>6, <3>7, Handed
  <2> QED
    BY <2>1, <2>2
<1>2. CASE ResetCache
  <2>1. filled' \in Seq(0..CacheSlots) /\ Len(filled') = Len(filled)
    BY <1>2, <1>a, <1>b DEF ResetCache
  <2> QED
    BY <1>2, <1>b, <2>1 DEF ResetCache, CacheInv, CacheTypeOK, RegionsLie, RegionsApart
<1>3. CASE ClearCache
  BY <1>3, <1>a DEF ClearCache, CacheInv, CacheTypeOK, RegionsLie, RegionsApart
<1>4. CASE UNCHANGED cacheVars
  BY <1>4 DEF cacheVars, CacheInv, CacheTypeOK, RegionsLie, RegionsApart
<1> QED
  BY <1>1, <1>2, <1>3, <1>4 DEF CacheNext

\* No two regions that iris_cache_t has handed out since the last reset overlap, and
\* each lies in what is filled of its node.
THEOREM CacheRegionsApart == CacheSpec => []RegionsApart
<1>1. CacheInit => CacheInv
  BY CacheAssumption DEF CacheInit, CacheInv, CacheTypeOK, RegionsLie, RegionsApart
<1> QED
  BY <1>1, CacheStep, PTL DEF CacheSpec, CacheInv

(***************************************************************************)
(* Blocks: the invariant                                                   *)
(***************************************************************************)
\* t has a block that it has taken out of a slot or the list, or is to put into one.
Moves(t) == step[t] \in {"put back", "push back", "popped", "unmanage", "put", "count", "push"}

\* Where each thread is, and what it has in its hands there.
FitsOf(t) ==
  /\ hand[t] = NoBlock <=> step[t] \in {"idle", "slot", "list", "root"}
  /\ rest[t] # <<>> => step[t] \in {"put back", "push back"}
  /\ step[t] = "push back" => rest[t] # <<>>
  /\ step[t] \in {"slot", "put"} => index[t] \in 1..NControls
  /\ step[t] \in {"set", "refer"} => index[t] \in Bits
HandsFit ==
  /\ index \in [Users -> Nat] /\ rest \in [Users -> Seq(Blocks)]
  /\ \A t \in Users : FitsOf(t)

InSlot(b) == \E n \in 1..NControls : control[n] = b
Lot(t) == Range(rest[t]) \cup (IF Moves(t) THEN {hand[t]} ELSE {})

\* A managed block is in one slot, or in the list, or with one thread, and there once.
LotOnce(t) == Once(rest[t]) /\ (Moves(t) => hand[t] \notin Range(rest[t]))
SlotsOnce == \A n, m \in 1..NControls : control[n] = control[m] /\ control[n] # NoBlock => n = m
ListApart == Once(recycled) /\ \A b \in Range(recycled) : ~InSlot(b)
LotApart(t) == \A b \in Lot(t) : b \notin Range(recycled) /\ ~InSlot(b)
LotsApart == \A t, u \in Users : t # u => Lot(t) \cap Lot(u) = {}
Managed(b) == b \in Range(recycled) \/ InSlot(b) \/ \E t \in Users : b \in Lot(t)
Spots ==
  /\ \A t \in Users : LotOnce(t) /\ LotApart(t)
  /\ SlotsOnce /\ ListApart /\ LotsApart
  /\ \A b \in Blocks : managed[b] <=> Managed(b)

\* A bit is set if a client has the item, or one thread is about to be given it.
BitsMean ==
  /\ \A i \in Items : live[i] \in {0, 1}
  /\ \A b \in Blocks, x \in Bits :
       x \in bits[b] <=> \/ live[<<b, x>>] = 1
                         \/ \E t \in Users : step[t] = "refer" /\ hand[t] = b /\ index[t] = x
  /\ \A t \in Users : step[t] = "refer" => live[<<hand[t], index[t]>>] = 0
  /\ \A t, u \in Users : /\ t # u /\ step[t] = "refer" /\ step[u] = "refer"
                         => hand[t] # hand[u] \/ index[t] # index[u]

\* What a block is counted for.
Spot(b) == b \in Range(recycled) \/ InSlot(b) \/ \E t \in Users : b \in Range(rest[t])
Counts ==
  /\ \A b \in Blocks : refs[b] = One(Spot(b)) + Cardinality(Holders(b)) + InClients(b)
  /\ used = {b \in Blocks : refs[b] > 0}

AllocatorInv == AllocatorTypeOK /\ HandsFit /\ Spots /\ BitsMean /\ Counts

(***************************************************************************)
(* How many hold a block                                                   *)
(***************************************************************************)
Clients(f, b) == SumFunctionOnSet(f, {b} \X Bits)

\* What the sum in the model means.
LEMMA ClientsAre == ASSUME NEW b PROVE InClients(b) = Clients(live, b) /\ InClients(b)' = Clients(live', b)
BY DEF InClients, Clients, MapThenSumSet, MapThenFoldSet, SumFunctionOnSet, FoldFunctionOnSet

\* A block has as many items as bits.
LEMMA ItemsFinite ==
  ASSUME NEW b PROVE IsFiniteSet({b} \X Bits) /\ Cardinality({b} \X Bits) = Cardinality(Bits)
<1>1. IsFiniteSet({b}) /\ Cardinality({b}) = 1
  BY FS_Singleton
<1>2. IsFiniteSet(Bits) /\ Cardinality(Bits) \in Nat
  BY AllocatorAssumption, FS_CardinalityType
<1>3. IsFiniteSet({b} \X Bits) /\ Cardinality({b} \X Bits) = Cardinality({b}) * Cardinality(Bits)
  BY <1>1, <1>2, FS_Product
<1> QED
  BY <1>1, <1>2, <1>3

\* Item i now has v clients.
Becomes(f, g, i, v) == f \in [Items -> Nat] /\ i \in Items /\ v \in Nat /\ g = [f EXCEPT ![i] = v]

\* So do the sums.
LEMMA ClientsBecome ==
  ASSUME NEW f, NEW g, NEW i, NEW v, Becomes(f, g, i, v)
  PROVE  \A b \in Blocks :
           /\ Clients(f, b) \in Nat /\ Clients(g, b) \in Nat
           /\ i[1] # b => Clients(g, b) = Clients(f, b)
           /\ i[1] = b => Clients(g, b) = Clients(f, b) - f[i] + v
<1> SUFFICES ASSUME NEW b \in Blocks
             PROVE  /\ Clients(f, b) \in Nat /\ Clients(g, b) \in Nat
                    /\ i[1] # b => Clients(g, b) = Clients(f, b)
                    /\ i[1] = b => Clients(g, b) = Clients(f, b) - f[i] + v
  OBVIOUS
<1>0. f \in [Items -> Nat] /\ i \in Items /\ v \in Nat /\ g = [f EXCEPT ![i] = v]
  BY DEF Becomes
<1> DEFINE B == {b} \X Bits
<1>1. IsFiniteSet(B) /\ B \subseteq Items
  BY ItemsFinite DEF Items
<1>2. \A x \in B : f[x] \in Nat /\ g[x] \in Nat
  BY <1>0, <1>1
<1>3. Clients(f, b) \in Nat /\ Clients(g, b) \in Nat
  <2> HIDE DEF B
  <2> QED
    BY <1>1, <1>2, SumAtLeast DEF Clients, B
<1>4. CASE i[1] # b
  <2>1. \A x \in B : f[x] = g[x]
    BY <1>0, <1>4, <1>1
  <2> HIDE DEF B
  <2>2. SumFunctionOnSet(f, B) = SumFunctionOnSet(g, B)
    BY <1>1, <2>1, SumSame
  <2> QED
    BY <1>3, <1>4, <2>2 DEF Clients, B
<1>5. CASE i[1] = b
  <2>1. i \in B /\ \A x \in B \ {i} : f[x] = g[x]
    BY <1>0, <1>5, <1>1 DEF Items
  <2>2. g[i] = v
    BY <1>0
  <2>3. \A x \in B : f[x] \in Int /\ g[x] \in Int
    BY <1>2
  <2> HIDE DEF B
  <2>4. SumFunctionOnSet(g, B) = SumFunctionOnSet(f, B) - f[i] + g[i]
    BY <1>1, <2>1, <2>3, SumChange
  <2> QED
    BY <1>3, <1>5, <2>2, <2>4 DEF Clients, B
<1> QED
  BY <1>4, <1>5

\* A block in whose items clients have none, or at least one.
LEMMA SomeClient ==
  ASSUME NEW f \in [Items -> Nat], NEW b \in Blocks
  PROVE  Clients(f, b) \in Nat /\ \A x \in Bits : f[<<b, x>>] <= Clients(f, b)
<1> DEFINE B == {b} \X Bits
<1>1. IsFiniteSet(B) /\ B \subseteq Items
  BY ItemsFinite DEF Items
<1>2. \A x \in B : f[x] \in Nat
  BY <1>1
<1>3. \A x \in Bits : <<b, x>> \in B
  OBVIOUS
<1> HIDE DEF B
<1>4. SumFunctionOnSet(f, B) \in Nat /\ \A x \in B : f[x] <= SumFunctionOnSet(f, B)
  BY <1>1, <1>2, SumAtLeast
<1> QED
  BY <1>3, <1>4 DEF Clients, B

\* How the holders of blocks change with one thread.
LEMMA HoldersMove ==
  ASSUME NEW t \in Users, \A u \in Users \ {t} : hand'[u] = hand[u]
  PROVE  \A b : /\ Cardinality(Holders(b)) \in Nat /\ Cardinality(Holders(b)') \in Nat
                /\ Cardinality(Holders(b)') = Cardinality(Holders(b)) - One(hand[t] = b) + One(hand'[t] = b)
<1> SUFFICES ASSUME NEW b
             PROVE  /\ Cardinality(Holders(b)) \in Nat /\ Cardinality(Holders(b)') \in Nat
                    /\ Cardinality(Holders(b)') = Cardinality(Holders(b)) - One(hand[t] = b) + One(hand'[t] = b)
  OBVIOUS
<1> DEFINE A == Holders(b)
           B == Holders(b)'
<1>1. IsFiniteSet(A)
  BY AllocatorAssumption, FS_Subset DEF Holders
<1>2. \A u : u # t => (u \in A <=> u \in B)
  BY DEF Holders
<1>3. (t \in A <=> hand[t] = b) /\ (t \in B <=> hand'[t] = b)
  BY DEF Holders
<1> HIDE DEF A, B
<1>4. /\ Cardinality(A) \in Nat /\ Cardinality(B) \in Nat
      /\ Cardinality(B) = Cardinality(A) - (IF t \in A THEN 1 ELSE 0) + (IF t \in B THEN 1 ELSE 0)
  BY <1>1, <1>2, OneMoves
<1> QED
  BY <1>3, <1>4 DEF One, A, B

\* A block that somebody works on is counted.
LEMMA HolderCounts ==
  ASSUME NEW b PROVE Cardinality(Holders(b)) \in Nat /\ \A t \in Users : hand[t] = b => Cardinality(Holders(b)) >= 1
<1>1. IsFiniteSet(Holders(b)) /\ Cardinality(Holders(b)) \in Nat
  BY AllocatorAssumption, FS_Subset, FS_CardinalityType DEF Holders
<1>2. \A t \in Users : hand[t] = b => Holders(b) # {}
  BY DEF Holders
<1>3. Holders(b) # {} => Cardinality(Holders(b)) # 0
  BY <1>1, FS_EmptySet
<1> QED
  BY <1>1, <1>2, <1>3

\* The other threads are where they were.
Others(t) ==
  \A u \in Users \ {t} :
    step'[u] = step[u] /\ hand'[u] = hand[u] /\ index'[u] = index[u] /\ rest'[u] = rest[u]

\* What the other threads have in their hands still fits.
LEMMA FitsStay ==
  ASSUME HandsFit, NEW t \in Users, Others(t), FitsOf(t)',
         index' \in [Users -> Nat], rest' \in [Users -> Seq(Blocks)]
  PROVE  HandsFit'
<1>1. ASSUME NEW u \in Users, u # t PROVE FitsOf(u)'
  BY <1>1 DEF HandsFit, FitsOf, Others
<1> QED
  BY <1>1 DEF HandsFit

\* No block goes from one place to another.
LEMMA SpotsStay ==
  ASSUME Spots, NEW t \in Users, Others(t), control' = control, recycled' = recycled, managed' = managed,
         rest'[t] = rest[t], Moves(t)' <=> Moves(t), Moves(t) => hand'[t] = hand[t]
  PROVE  Spots' /\ \A b : Spot(b)' <=> Spot(b)
<1>1. \A u \in Users : Lot(u)' = Lot(u) /\ rest'[u] = rest[u] /\ (Moves(u)' <=> Moves(u))
                       /\ (Moves(u) => hand'[u] = hand[u])
  BY DEF Others, Lot, Moves
<1>2. \A b : InSlot(b)' <=> InSlot(b)
  BY DEF InSlot
<1>3. \A b : Spot(b)' <=> Spot(b)
  BY <1>1, <1>2 DEF Spot
<1>4. \A u \in Users : LotOnce(u)' /\ LotApart(u)'
  BY <1>1, <1>2 DEF Spots, LotOnce, LotApart, Once
<1>5. SlotsOnce' /\ ListApart' /\ LotsApart'
  BY <1>1, <1>2 DEF Spots, SlotsOnce, ListApart, LotsApart, Once
<1>6. \A b \in Blocks : managed'[b] <=> Managed(b)'
  BY <1>1, <1>2 DEF Spots, Managed
<1> QED
  BY <1>3, <1>4, <1>5, <1>6 DEF Spots

\* No bit is set or cleared, and no item given.
LEMMA BitsStay ==
  ASSUME BitsMean, NEW t \in Users, Others(t), live' = live, bits' = bits,
         step[t] # "refer", step'[t] # "refer"
  PROVE  BitsMean'
<1>1. \A u \in Users : step'[u] = "refer" <=> step[u] = "refer"
  BY DEF Others
<1>2. \A u \in Users : step[u] = "refer" => hand'[u] = hand[u] /\ index'[u] = index[u]
  BY DEF Others
<1> QED
  BY <1>1, <1>2 DEF BitsMean

\* What a block is counted for changes as its count does.
LEMMA Balance ==
  ASSUME AllocatorInv, AllocatorTypeOK', NEW t \in Users, Others(t),
         \A b \in Blocks : refs'[b] = refs[b] - One(Spot(b)) + One(Spot(b)') - One(hand[t] = b) + One(hand'[t] = b)
                                        - Clients(live, b) + Clients(live', b),
         used' = {b \in Blocks : refs'[b] > 0}
  PROVE  Counts'
<1> SUFFICES ASSUME NEW b \in Blocks PROVE refs'[b] = One(Spot(b)') + Cardinality(Holders(b)') + Clients(live', b)
  BY ClientsAre DEF Counts
<1>1. Clients(live, b) \in Nat /\ Clients(live', b) \in Nat
  BY SomeClient DEF AllocatorInv, AllocatorTypeOK
<1>2. Cardinality(Holders(b)) \in Nat /\ Cardinality(Holders(b)') \in Nat
      /\ Cardinality(Holders(b)') = Cardinality(Holders(b)) - One(hand[t] = b) + One(hand'[t] = b)
  BY HoldersMove DEF Others
<1>3. refs[b] = One(Spot(b)) + Cardinality(Holders(b)) + Clients(live, b)
  BY ClientsAre DEF AllocatorInv, Counts
<1>4. \A p \in BOOLEAN : One(p) \in Nat
  BY DEF One
<1>5. One(Spot(b)) \in Nat /\ One(Spot(b)') \in Nat /\ One(hand[t] = b) \in Nat /\ One(hand'[t] = b) \in Nat
  BY DEF One
<1> QED
  BY <1>1, <1>2, <1>3, <1>5

\* The blocks have the counts that they had.
LEMMA CountsKept ==
  ASSUME AllocatorInv, AllocatorTypeOK', NEW t \in Users, Others(t),
         refs' = refs, used' = used, live' = live,
         \A b \in Blocks : One(Spot(b)) + One(hand[t] = b) = One(Spot(b)') + One(hand'[t] = b)
  PROVE  Counts'
<1>1. used' = {b \in Blocks : refs'[b] > 0}
  BY DEF AllocatorInv, Counts
<1>2. ASSUME NEW b \in Blocks
      PROVE  refs'[b] = refs[b] - One(Spot(b)) + One(Spot(b)') - One(hand[t] = b) + One(hand'[t] = b)
                                        - Clients(live, b) + Clients(live', b)
  <2>1. One(Spot(b)) \in Nat /\ One(Spot(b)') \in Nat /\ One(hand[t] = b) \in Nat /\ One(hand'[t] = b) \in Nat
    BY DEF One
  <2>2. Clients(live, b) \in Nat /\ Clients(live', b) = Clients(live, b)
    BY SomeClient DEF AllocatorInv, AllocatorTypeOK
  <2>3. refs[b] \in Nat
    BY DEF AllocatorInv, AllocatorTypeOK
  <2>4. One(Spot(b)) + One(hand[t] = b) = One(Spot(b)') + One(hand'[t] = b)
    OBVIOUS
  <2> QED
    BY <2>1, <2>2, <2>3, <2>4
<1> QED
  BY <1>1, <1>2, Balance

\* A step of t that moves no block and no item.
LEMMA Quiet ==
  ASSUME AllocatorInv, AllocatorTypeOK', NEW t \in Users, Others(t), FitsOf(t)',
         index' \in [Users -> Nat], rest' = rest, hand' = hand,
         control' = control, recycled' = recycled, blockVars' = blockVars, live' = live,
         Moves(t)' <=> Moves(t), step[t] # "refer", step'[t] # "refer"
  PROVE  AllocatorInv'
<1>1. Spots' /\ \A b : Spot(b)' <=> Spot(b)
  BY SpotsStay DEF AllocatorInv, blockVars
<1>2. BitsMean'
  BY BitsStay DEF AllocatorInv, blockVars
<1>3. HandsFit'
  BY FitsStay DEF AllocatorInv, HandsFit
<1>4. \A b : One(Spot(b)) + One(hand[t] = b) = One(Spot(b)') + One(hand'[t] = b)
  BY <1>1 DEF One
<1>5. Counts'
  BY <1>4, CountsKept DEF blockVars
<1> QED
  BY <1>1, <1>2, <1>3, <1>5 DEF AllocatorInv

(***************************************************************************)
(* Steps that move nothing                                                 *)
(***************************************************************************)
StepNames ==
  {"idle", "slot", "list", "put back", "push back", "popped", "unmanage", "root", "word", "set",
   "refer", "recycle", "manage", "put", "count", "push", "drop"}

\* What the types say.
LEMMA TypesSay ==
  ASSUME AllocatorInv
  PROVE  /\ control \in [1..NControls -> Blocks \cup {NoBlock}] /\ recycled \in Seq(Blocks) /\ count \in Int
         /\ refs \in [Blocks -> Nat] /\ managed \in [Blocks -> BOOLEAN] /\ bits \in [Blocks -> SUBSET Bits]
         /\ used \subseteq Blocks /\ live \in [Items -> Nat]
         /\ step \in [Users -> StepNames]
         /\ hand \in [Users -> Blocks \cup {NoBlock}]
         /\ index \in [Users -> Nat] /\ rest \in [Users -> Seq(Blocks)]
         /\ giving \in [Users -> BOOLEAN] /\ calls \in [Users -> 0..MaxCalls]
         /\ \A t \in Users : FitsOf(t)
BY DEF AllocatorInv, AllocatorTypeOK, HandsFit, StepNames

\* What the constants are.
LEMMA Numbers ==
  /\ NControls \in Nat /\ NControls > 0 /\ MaxCalls \in Nat /\ MaxRecycled \in Nat
  /\ Bits \subseteq Nat /\ NoBlock \notin Blocks
BY AllocatorAssumption

\* The types after a step that does nothing to the blocks but what is given.
LEMMA Typed ==
  ASSUME AllocatorInv, NEW t \in Users, NEW l \in StepNames, NEW k \in Nat, NEW h \in Blocks \cup {NoBlock},
         NEW q \in Seq(Blocks), step' = [step EXCEPT ![t] = l], index' = [index EXCEPT ![t] = k],
         hand' = [hand EXCEPT ![t] = h], rest' = [rest EXCEPT ![t] = q],
         control' \in [1..NControls -> Blocks \cup {NoBlock}], recycled' \in Seq(Blocks), count' \in Int,
         refs' \in [Blocks -> Nat], managed' \in [Blocks -> BOOLEAN], bits' \in [Blocks -> SUBSET Bits],
         used' \subseteq Blocks, live' \in [Items -> Nat],
         giving' \in [Users -> BOOLEAN], calls' \in [Users -> 0..MaxCalls]
  PROVE  /\ AllocatorTypeOK' /\ index' \in [Users -> Nat] /\ rest' \in [Users -> Seq(Blocks)] /\ Others(t)
         /\ step'[t] = l /\ index'[t] = k /\ hand'[t] = h /\ rest'[t] = q
<1>1. step' \in [Users -> StepNames] /\ index' \in [Users -> Nat] /\ hand' \in [Users -> Blocks \cup {NoBlock}]
      /\ rest' \in [Users -> Seq(Blocks)]
  BY TypesSay
<1>2. AllocatorTypeOK'
  BY <1>1 DEF AllocatorTypeOK, StepNames
<1>3. Others(t)
  BY TypesSay DEF Others
<1>4. step'[t] = l /\ index'[t] = k /\ hand'[t] = h /\ rest'[t] = q
  BY TypesSay
<1> QED
  BY <1>1, <1>2, <1>3, <1>4

\* The steps of t that move no block and no item.
QuietStep(t) ==
  \/ AllocateItem(t) \/ Popped(t) \/ LoadWord(t) \/ Recycle(t) \/ CountSlots(t)
  \/ TakeSlot(t) /\ control[index[t]] = NoBlock
  \/ TakeList(t) /\ recycled = <<>>
  \/ PutBack(t) /\ recycled # <<>>
  \/ PutSlot(t) /\ control[index[t]] # NoBlock

\* The least of a set of bits is one of them.
LEMMA LeastBit == ASSUME NEW F \in SUBSET Bits, F # {} PROVE Min(F) \in F
<1>1. F \subseteq Nat
  BY Numbers
<1>2. PICK n \in F : \A m \in F : n <= m
  BY <1>1, SmallestNumber
<1>3. Min(F) = CHOOSE x \in F : \A y \in F : x <= y
  BY DEF Min
<1> QED
  BY <1>2, <1>3

\* A step of t after which it stands at l, with k in its hands.
StepsTo(t, l, k) ==
  /\ step' = [step EXCEPT ![t] = l] /\ index' = [index EXCEPT ![t] = k]
  /\ hand' = hand /\ rest' = rest /\ control' = control /\ recycled' = recycled
  /\ UNCHANGED <<refs, managed, bits, used, live>>
  /\ count' \in Int /\ giving' \in [Users -> BOOLEAN] /\ calls' \in [Users -> 0..MaxCalls]

\* So nothing about the blocks changes.
LEMMA QuietTo ==
  ASSUME AllocatorInv, NEW t \in Users, NEW l \in StepNames, NEW k \in Nat, StepsTo(t, l, k),
         l \in {"slot", "put"} => k \in 1..NControls,
         l = "set" => k \in Bits,
         step[t] # "refer", l # "refer",
         step[t] \in {"idle", "slot", "list", "root"} <=> l \in {"idle", "slot", "list", "root"},
         Moves(t) <=> l \in {"put back", "push back", "popped", "unmanage", "put", "count", "push"},
         rest[t] # <<>> => l = "push back",
         l = "push back" => rest[t] # <<>>
  PROVE  AllocatorInv'
<1>1. hand' = [hand EXCEPT ![t] = hand[t]] /\ rest' = [rest EXCEPT ![t] = rest[t]]
  BY TypesSay DEF StepsTo
<1>2. hand[t] \in Blocks \cup {NoBlock} /\ rest[t] \in Seq(Blocks)
  BY TypesSay
<1>3. /\ AllocatorTypeOK' /\ index' \in [Users -> Nat] /\ Others(t)
      /\ step'[t] = l /\ index'[t] = k /\ hand'[t] = hand[t] /\ rest'[t] = rest[t]
  BY <1>1, <1>2, TypesSay, Typed DEF StepsTo
<1>4. FitsOf(t)
  BY TypesSay
<1>5. FitsOf(t)' /\ (Moves(t)' <=> Moves(t))
  BY <1>3, <1>4 DEF FitsOf, Moves
<1> QED
  BY <1>3, <1>5, Quiet DEF StepsTo, blockVars

\* The steps that move nothing keep the invariant.
LEMMA QuietSteps == ASSUME AllocatorInv, NEW t \in Users, QuietStep(t) PROVE AllocatorInv'
<1> USE DEF At, Goto, Set, listVars, blockVars, threadVars
<1>a. FitsOf(t)
  BY TypesSay
<1>b. /\ index' = index => index' = [index EXCEPT ![t] = index[t]]
      /\ index[t] \in Nat /\ index[t] + 1 \in Nat /\ 1 \in Nat /\ 1 \in 1..NControls
  BY TypesSay, Numbers
<1>c. /\ count \in Int /\ count + 1 \in Int /\ count - 1 \in Int
      /\ giving \in [Users -> BOOLEAN] /\ calls \in [Users -> 0..MaxCalls]
  BY TypesSay
<1>1. CASE AllocateItem(t)
  <2>1. calls' \in [Users -> 0..MaxCalls] /\ giving' \in [Users -> BOOLEAN]
    <3>1. calls[t] + 1 \in 0..MaxCalls
      BY <1>1, <1>c, Numbers DEF AllocateItem
    <3> QED
      BY <1>1, <1>c, <3>1 DEF AllocateItem
  <2>2. StepsTo(t, "slot", 1) /\ step[t] = "idle"
    BY <1>1, <1>c, <2>1 DEF AllocateItem, Scan, StepsTo
  <2> QED
    BY <2>2, <1>a, <1>b, QuietTo DEF StepNames, Moves, FitsOf
<1>2. CASE Popped(t)
  <2>1. StepsTo(t, "unmanage", index[t]) /\ step[t] = "popped"
    BY <1>2, <1>b, <1>c DEF Popped, StepsTo
  <2> QED
    BY <2>1, <1>a, <1>b, QuietTo DEF StepNames, Moves, FitsOf
<1>3. CASE LoadWord(t)
  <2> DEFINE free == Bits \ bits[hand[t]]
  <2>0. free # {} => Min(free) \in Bits /\ Min(free) \in Nat
    <3>1. free \in SUBSET Bits
      OBVIOUS
    <3> HIDE DEF free
    <3> QED
      BY <3>1, LeastBit, Numbers
  <2>1. step[t] = "word" /\ \/ StepsTo(t, "drop", index[t])
                            \/ free # {} /\ StepsTo(t, "set", Min(free))
    BY <1>3, <1>b, <1>c DEF LoadWord, StepsTo
  <2> HIDE DEF free
  <2> QED
    BY <2>0, <2>1, <1>a, <1>b, QuietTo DEF StepNames, Moves, FitsOf
<1>4. CASE Recycle(t)
  <2>1. step[t] = "recycle" /\ (StepsTo(t, "manage", index[t]) \/ StepsTo(t, "drop", index[t]))
    BY <1>4, <1>b, <1>c DEF Recycle, StepsTo
  <2> QED
    BY <2>1, <1>a, <1>b, QuietTo DEF StepNames, Moves, FitsOf
<1>5. CASE CountSlots(t)
  <2>1. StepsTo(t, "push", index[t]) /\ step[t] = "count"
    BY <1>5, <1>b, <1>c DEF CountSlots, StepsTo
  <2> QED
    BY <2>1, <1>a, <1>b, QuietTo DEF StepNames, Moves, FitsOf
<1>6. CASE TakeSlot(t) /\ control[index[t]] = NoBlock
  <2>1. step[t] = "slot" /\ \/ StepsTo(t, "list", index[t] + 1)
                            \/ index[t] # NControls /\ StepsTo(t, "slot", index[t] + 1)
    BY <1>6, <1>b, <1>c DEF TakeSlot, StepsTo
  <2>2. index[t] # NControls => index[t] + 1 \in 1..NControls
    BY <2>1, <1>a, Numbers DEF FitsOf
  <2> QED
    BY <2>1, <2>2, <1>a, <1>b, QuietTo DEF StepNames, Moves, FitsOf
<1>7. CASE TakeList(t) /\ recycled = <<>>
  <2>1. StepsTo(t, "root", index[t]) /\ step[t] = "list"
    BY <1>7, <1>b, <1>c DEF TakeList, StepsTo
  <2>2. rest[t] = <<>> /\ ~Moves(t) /\ "root" \in StepNames
    BY <2>1, <1>a DEF FitsOf, Moves, StepNames
  <2> QED
    BY <2>1, <2>2, <1>b, QuietTo
<1>8. CASE PutBack(t) /\ recycled # <<>>
  <2>1. step[t] = "put back" /\ \/ rest[t] = <<>> /\ StepsTo(t, "popped", index[t])
                                \/ rest[t] # <<>> /\ StepsTo(t, "push back", index[t])
    BY <1>8, <1>b, <1>c DEF PutBack, StepsTo
  <2> QED
    BY <2>1, <1>a, <1>b, QuietTo DEF StepNames, Moves, FitsOf
<1>9. CASE PutSlot(t) /\ control[index[t]] # NoBlock
  <2>1. step[t] = "put" /\ \/ StepsTo(t, "count", index[t] + 1)
                           \/ index[t] # NControls /\ StepsTo(t, "put", index[t] + 1)
    BY <1>9, <1>b, <1>c DEF PutSlot, StepsTo
  <2>2. index[t] # NControls => index[t] + 1 \in 1..NControls
    BY <2>1, <1>a, Numbers DEF FitsOf
  <2> QED
    BY <2>1, <2>2, <1>a, <1>b, QuietTo DEF StepNames, Moves, FitsOf
<1> QED
  BY <1>1, <1>2, <1>3, <1>4, <1>5, <1>6, <1>7, <1>8, <1>9 DEF QuietStep

(***************************************************************************)
(* Steps that move blocks                                                  *)
(***************************************************************************)
\* b is where t may move it from or to.
Near(t, b) == b \in Range(recycled) \/ InSlot(b) \/ b \in Lot(t)

\* What is managed is a block.
LEMMA LotsAreBlocks ==
  ASSUME AllocatorInv, NEW t \in Users
  PROVE  Lot(t) \subseteq Blocks /\ Range(rest[t]) \subseteq Blocks /\ Range(recycled) \subseteq Blocks
<1>1. Range(rest[t]) \subseteq Blocks
  <2>1. rest[t] \in Seq(Blocks) /\ Once(rest[t])
    BY TypesSay DEF AllocatorInv, Spots, LotOnce
  <2> QED
    BY <2>1, ListOnce
<1>2. Range(recycled) \subseteq Blocks
  <2>1. recycled \in Seq(Blocks) /\ Once(recycled)
    BY TypesSay DEF AllocatorInv, Spots, ListApart
  <2> QED
    BY <2>1, ListOnce
<1>3. Moves(t) => hand[t] \in Blocks
  BY TypesSay DEF FitsOf, Moves
<1> QED
  BY <1>1, <1>2, <1>3 DEF Lot

\* t moves blocks between its hands, the slots and the list.
LEMMA SpotsMove ==
  ASSUME AllocatorInv, NEW t \in Users, Others(t), LotOnce(t)', SlotsOnce', ListApart', LotApart(t)',
         \A b \in Blocks : Near(t, b)' => Near(t, b) \/ ~managed[b],
         Lot(t)' \subseteq Blocks,
         \A b \in Blocks : managed'[b] <=> Near(t, b)' \/ (managed[b] /\ ~Near(t, b))
  PROVE  Spots'
<1>1. \A u \in Users \ {t} : Lot(u)' = Lot(u) /\ rest'[u] = rest[u] /\ (Moves(u)' <=> Moves(u))
                       /\ hand'[u] = hand[u]
  BY DEF Others, Lot, Moves
<1>2. ASSUME NEW u \in Users \ {t}, NEW b \in Lot(u) PROVE b \in Blocks /\ managed[b] /\ ~Near(t, b) /\ ~Near(t, b)'
  <2>1. b \in Blocks
    BY <1>2, LotsAreBlocks
  <2>2. managed[b]
    BY <1>2, <2>1 DEF AllocatorInv, Spots, Managed
  <2>3. ~Near(t, b)
    BY <1>2 DEF AllocatorInv, Spots, LotApart, LotsApart, Near
  <2> QED
    BY <2>1, <2>2, <2>3
<1>3. ASSUME NEW u \in Users PROVE LotOnce(u)' /\ LotApart(u)'
  <2>1. CASE u = t
    BY <2>1
  <2>2. CASE u # t
    <3>1. LotOnce(u)'
      BY <1>1, <2>2 DEF AllocatorInv, Spots, LotOnce, Once
    <3>2. LotApart(u)'
      BY <1>1, <1>2, <2>2 DEF LotApart, Near
    <3> QED
      BY <3>1, <3>2
  <2> QED
    BY <2>1, <2>2
<1>4. LotsApart'
  <2> SUFFICES ASSUME NEW u \in Users, NEW v \in Users, u # v PROVE Lot(u)' \cap Lot(v)' = {}
    BY DEF LotsApart
  <2>1. CASE u # t /\ v # t
    BY <1>1, <2>1 DEF AllocatorInv, Spots, LotsApart
  <2>2. CASE u = t
    BY <1>1, <1>2, <2>2 DEF Near
  <2>3. CASE v = t
    BY <1>1, <1>2, <2>3 DEF Near
  <2> QED
    BY <2>1, <2>2, <2>3
<1>5. ASSUME NEW b \in Blocks PROVE managed'[b] <=> Managed(b)'
  <2>1. Managed(b)' <=> Near(t, b)' \/ \E u \in Users \ {t} : b \in Lot(u)'
    BY DEF Managed, Near
  <2>2. (\E u \in Users \ {t} : b \in Lot(u)') <=> \E u \in Users \ {t} : b \in Lot(u)
    BY <1>1
  <2>3. (\E u \in Users \ {t} : b \in Lot(u)) => managed[b] /\ ~Near(t, b)
    BY <1>2
  <2>4. managed[b] /\ ~Near(t, b) => \E u \in Users \ {t} : b \in Lot(u)
    BY DEF AllocatorInv, Spots, Managed, Near
  <2> QED
    BY <2>1, <2>2, <2>3, <2>4
<1> QED
  BY <1>3, <1>4, <1>5 DEF Spots

\* Blocks that others have taken are none of those that t may move.
LEMMA SpotsNear ==
  ASSUME AllocatorInv, NEW t \in Users, Others(t)
  PROVE  \A b \in Blocks :
           /\ Spot(b) <=> b \in Range(recycled) \/ InSlot(b) \/ b \in Range(rest[t])
                            \/ \E u \in Users \ {t} : b \in Range(rest[u])
           /\ Spot(b)' <=> b \in Range(recycled)' \/ InSlot(b)' \/ b \in Range(rest'[t])
                            \/ \E u \in Users \ {t} : b \in Range(rest[u])
           /\ (\E u \in Users \ {t} : b \in Range(rest[u])) => managed[b] /\ ~Near(t, b)
<1> SUFFICES ASSUME NEW b \in Blocks
             PROVE  /\ Spot(b) <=> b \in Range(recycled) \/ InSlot(b) \/ b \in Range(rest[t])
                            \/ \E u \in Users \ {t} : b \in Range(rest[u])
                    /\ Spot(b)' <=> b \in Range(recycled)' \/ InSlot(b)' \/ b \in Range(rest'[t])
                            \/ \E u \in Users \ {t} : b \in Range(rest[u])
                    /\ (\E u \in Users \ {t} : b \in Range(rest[u])) => managed[b] /\ ~Near(t, b)
  OBVIOUS
<1>1. \A u \in Users \ {t} : rest'[u] = rest[u]
  BY DEF Others
<1>2. ASSUME NEW u \in Users \ {t}, b \in Range(rest[u]) PROVE managed[b] /\ ~Near(t, b)
  <2>1. b \in Lot(u)
    BY <1>2 DEF Lot
  <2>2. managed[b]
    BY <2>1 DEF AllocatorInv, Spots, Managed
  <2> QED
    BY <2>1, <2>2 DEF AllocatorInv, Spots, LotApart, LotsApart, Near
<1>3. Spot(b)' <=> b \in Range(recycled)' \/ InSlot(b)' \/ \E u \in Users : b \in Range(rest'[u])
  BY DEF Spot
<1> QED
  BY <1>1, <1>2, <1>3 DEF Spot

\* A step of t that moves blocks and no items.
LEMMA Moved ==
  ASSUME AllocatorInv, AllocatorTypeOK', NEW t \in Users, Others(t), FitsOf(t)',
         index' \in [Users -> Nat], rest' \in [Users -> Seq(Blocks)], Spots',
         live' = live, bits' = bits, refs' = refs, used' = used,
         step[t] # "refer", step'[t] # "refer",
         \A b \in Blocks : One(Spot(b)) + One(hand[t] = b) = One(Spot(b)') + One(hand'[t] = b)
  PROVE  AllocatorInv'
<1>1. BitsMean'
  BY BitsStay DEF AllocatorInv
<1>2. HandsFit'
  BY FitsStay DEF AllocatorInv
<1>3. Counts'
  BY CountsKept
<1> QED
  BY <1>1, <1>2, <1>3 DEF AllocatorInv

Moving == {"put back", "push back", "popped", "unmanage", "put", "count", "push"}

\* What a block is counted for where t may move it.
NearSpot(t, b) == b \in Range(recycled) \/ InSlot(b) \/ b \in Range(rest[t])

\* t now stands at l, with h and q in its hands.
Stands(t, l, k, h, q) ==
  /\ l \in StepNames /\ k \in Nat /\ h \in Blocks \cup {NoBlock} /\ q \in Seq(Blocks)
  /\ AllocatorTypeOK' /\ index' \in [Users -> Nat] /\ rest' \in [Users -> Seq(Blocks)]
  /\ Others(t)
  /\ step'[t] = l /\ index'[t] = k /\ hand'[t] = h /\ rest'[t] = q

Goes(t, l, k, h, q) ==
  /\ l \in StepNames /\ k \in Nat /\ h \in Blocks \cup {NoBlock} /\ q \in Seq(Blocks)
  /\ step' = [step EXCEPT ![t] = l] /\ index' = [index EXCEPT ![t] = k]
  /\ hand' = [hand EXCEPT ![t] = h] /\ rest' = [rest EXCEPT ![t] = q]

\* So the types are right.
LEMMA StandsAfter ==
  ASSUME AllocatorInv, NEW t \in Users, NEW l, NEW k, NEW h, NEW q, Goes(t, l, k, h, q),
         control' \in [1..NControls -> Blocks \cup {NoBlock}], recycled' \in Seq(Blocks), count' \in Int,
         refs' \in [Blocks -> Nat], managed' \in [Blocks -> BOOLEAN], bits' \in [Blocks -> SUBSET Bits],
         used' \subseteq Blocks, live' \in [Items -> Nat],
         giving' \in [Users -> BOOLEAN], calls' \in [Users -> 0..MaxCalls]
  PROVE  Stands(t, l, k, h, q)
<1>1. l \in StepNames /\ k \in Nat /\ h \in Blocks \cup {NoBlock} /\ q \in Seq(Blocks)
  BY DEF Goes
<1> QED
  BY <1>1, Typed DEF Goes, Stands

\* What it has in its hands fits there.
Fitting(l, k, h, q) ==
  /\ h = NoBlock <=> l \in {"idle", "slot", "list", "root"}
  /\ q # <<>> => l \in {"put back", "push back"}
  /\ l = "push back" => q # <<>>
  /\ l \in {"slot", "put"} => k \in 1..NControls
  /\ l \notin {"set", "refer"}

\* It has L now, and what is in L, in the list or in a slot is N.
Placed(t, h, q, L, N) ==
  /\ Once(q) /\ SlotsOnce' /\ Once(recycled')
  /\ \A b \in Blocks : b \in Range(recycled') => ~InSlot(b)'
  /\ \A b \in Blocks : b \in L => b \notin Range(recycled') /\ ~InSlot(b)'
  /\ \A b \in Blocks : b \in N <=> b \in Range(recycled') \/ InSlot(b)' \/ b \in L

\* It had them, or they were not managed.
Known(t, h, q, N) ==
  /\ \A b \in Blocks : b \in N => Near(t, b) \/ ~managed[b]
  /\ \A b \in Blocks : managed'[b] <=> b \in N \/ (managed[b] /\ ~Near(t, b))
  /\ \A b \in Blocks : ~Near(t, b) /\ managed[b] => (hand[t] = b <=> h = b)
  /\ \A b \in Blocks : One(NearSpot(t, b)) + One(hand[t] = b)
                             = One(b \in Range(recycled') \/ InSlot(b)' \/ b \in Range(q)) + One(h = b)

\* What a step of t does to the blocks that it may move.
LEMMA MovedTo ==
  ASSUME AllocatorInv, NEW t \in Users, NEW l, NEW k, NEW h, NEW q, Stands(t, l, k, h, q),
         UNCHANGED <<refs, bits, used, live>>, step[t] # "refer",
         Fitting(l, k, h, q), l \in Moving => h \notin Range(q),
         NEW L, L = Range(q) \cup (IF l \in Moving THEN {h} ELSE {}),
         NEW N, Placed(t, h, q, L, N), Known(t, h, q, N)
  PROVE  AllocatorInv'
<1> USE DEF Stands, Fitting
<1>2. FitsOf(t)'
  BY DEF FitsOf
<1>3. Lot(t)' = L /\ (Moves(t)' <=> l \in Moving)
  BY DEF Lot, Moves, Moving
<1>4. Range(q) \subseteq Blocks /\ Range(recycled') \subseteq Blocks
  <2>1. recycled' \in Seq(Blocks) /\ Once(recycled') /\ q \in Seq(Blocks) /\ Once(q)
    BY DEF AllocatorTypeOK, Placed
  <2> QED
    BY <2>1, ListOnce
<1>5. L \subseteq Blocks
  BY <1>4, Numbers DEF Moving, Fitting
<1>6. LotOnce(t)' /\ LotApart(t)' /\ ListApart'
  <2>1. LotOnce(t)'
    BY <1>3 DEF LotOnce, Placed
  <2>2. LotApart(t)'
    BY <1>3, <1>5 DEF LotApart, Placed
  <2>3. ListApart'
    BY <1>4 DEF ListApart, Placed
  <2> QED
    BY <2>1, <2>2, <2>3
<1>7. \A b \in Blocks : Near(t, b)' <=> b \in N
  BY <1>3 DEF Near, Placed
<1>8. Spots'
  BY <1>3, <1>5, <1>6, <1>7, SpotsMove DEF Placed, Known
<1>9. ASSUME NEW b \in Blocks PROVE One(Spot(b)) + One(hand[t] = b) = One(Spot(b)') + One(hand'[t] = b)
  <2>1. /\ Spot(b) <=> NearSpot(t, b) \/ \E u \in Users \ {t} : b \in Range(rest[u])
        /\ Spot(b)' <=> b \in Range(recycled') \/ InSlot(b)' \/ b \in Range(q)
                          \/ \E u \in Users \ {t} : b \in Range(rest[u])
        /\ (\E u \in Users \ {t} : b \in Range(rest[u])) => managed[b] /\ ~Near(t, b)
    BY SpotsNear DEF NearSpot
  <2>2. CASE \E u \in Users \ {t} : b \in Range(rest[u])
    <3>1. Spot(b) /\ Spot(b)' /\ (hand[t] = b <=> h = b)
      BY <2>1, <2>2 DEF Known
    <3> QED
      BY <3>1 DEF One
  <2>3. CASE ~ \E u \in Users \ {t} : b \in Range(rest[u])
    <3>1. One(Spot(b)) = One(NearSpot(t, b))
      BY <2>1, <2>3 DEF One
    <3>2. One(Spot(b)') = One(b \in Range(recycled') \/ InSlot(b)' \/ b \in Range(q))
      BY <2>1, <2>3 DEF One
    <3>3. One(hand'[t] = b) = One(h = b)
      OBVIOUS
    <3>4. One(NearSpot(t, b)) + One(hand[t] = b)
            = One(b \in Range(recycled') \/ InSlot(b)' \/ b \in Range(q)) + One(h = b)
      BY DEF Known
    <3> QED
      BY <3>1, <3>2, <3>3, <3>4
  <2> QED
    BY <2>2, <2>3
<1> QED
  BY <1>2, <1>8, <1>9, Moved

\* A block is taken out of a slot.
LEMMA SlotEmptied ==
  ASSUME SlotsOnce, NEW n \in 1..NControls, control \in [1..NControls -> Blocks \cup {NoBlock}],
         control[n] # NoBlock, control' = [control EXCEPT ![n] = NoBlock]
  PROVE  /\ SlotsOnce' /\ control' \in [1..NControls -> Blocks \cup {NoBlock}]
         /\ InSlot(control[n]) /\ control[n] \in Blocks
         /\ \A b \in Blocks : InSlot(b)' <=> InSlot(b) /\ b # control[n]
<1>0. NoBlock \notin Blocks
  BY Numbers
<1>1. SlotsOnce' /\ control' \in [1..NControls -> Blocks \cup {NoBlock}]
  BY DEF SlotsOnce
<1>2. InSlot(control[n]) /\ control[n] \in Blocks
  BY DEF InSlot
<1>3. ASSUME NEW b \in Blocks PROVE InSlot(b)' <=> InSlot(b) /\ b # control[n]
  <2>1. ASSUME InSlot(b)' PROVE InSlot(b) /\ b # control[n]
    <3>1. PICK m \in 1..NControls : control'[m] = b
      BY <2>1 DEF InSlot
    <3>2. m # n /\ control[m] = b
      BY <1>0, <3>1
    <3> QED
      BY <1>0, <3>2 DEF InSlot, SlotsOnce
  <2>2. ASSUME InSlot(b), b # control[n] PROVE InSlot(b)'
    BY <2>2 DEF InSlot
  <2> QED
    BY <2>1, <2>2
<1> QED
  BY <1>1, <1>2, <1>3

\* A block is put into a slot.
LEMMA SlotTaken ==
  ASSUME SlotsOnce, NEW n \in 1..NControls, control \in [1..NControls -> Blocks \cup {NoBlock}],
         control[n] = NoBlock, NEW h \in Blocks, ~InSlot(h), control' = [control EXCEPT ![n] = h]
  PROVE  /\ SlotsOnce' /\ control' \in [1..NControls -> Blocks \cup {NoBlock}]
         /\ \A b \in Blocks : InSlot(b)' <=> InSlot(b) \/ b = h
<1>0. NoBlock \notin Blocks
  BY Numbers
<1>1. control' \in [1..NControls -> Blocks \cup {NoBlock}]
  OBVIOUS
<1>2. \A m \in 1..NControls : control'[m] = IF m = n THEN h ELSE control[m]
  OBVIOUS
<1>3. \A m \in 1..NControls : control[m] # h
  BY DEF InSlot
<1>4. SlotsOnce'
  BY <1>2, <1>3 DEF SlotsOnce
<1>5. \A b \in Blocks : InSlot(b)' <=> InSlot(b) \/ b = h
  BY <1>0, <1>2 DEF InSlot
<1> QED
  BY <1>1, <1>4, <1>5

\* A block is taken out of a slot.
LEMMA SlotStep ==
  ASSUME AllocatorInv, NEW t \in Users, TakeSlot(t), control[index[t]] # NoBlock
  PROVE  AllocatorInv'
<1> DEFINE n == index[t]
           c == control[n]
<1>1. /\ step[t] = "slot" /\ step' = [step EXCEPT ![t] = "unmanage"]
      /\ control' = [control EXCEPT ![n] = NoBlock] /\ hand' = [hand EXCEPT ![t] = c]
      /\ index' = index /\ rest' = rest /\ recycled' = recycled /\ count' = count
      /\ UNCHANGED <<refs, managed, bits, used, live, giving, calls>>
  BY DEF TakeSlot, At, Goto, Set, blockVars
<1>2. n \in 1..NControls /\ hand[t] = NoBlock /\ rest[t] = <<>> /\ ~Moves(t)
  BY <1>1, TypesSay DEF FitsOf, Moves
<1>3. /\ SlotsOnce' /\ control' \in [1..NControls -> Blocks \cup {NoBlock}]
      /\ InSlot(c) /\ c \in Blocks
      /\ \A b \in Blocks : InSlot(b)' <=> InSlot(b) /\ b # c
  BY <1>1, <1>2, TypesSay, SlotEmptied DEF AllocatorInv, Spots
<1>4. index' = [index EXCEPT ![t] = n] /\ rest' = [rest EXCEPT ![t] = <<>>] /\ n \in Nat
  BY <1>1, <1>2, TypesSay
<1>5. Stands(t, "unmanage", n, c, <<>>)
  <2>1. "unmanage" \in StepNames /\ <<>> \in Seq(Blocks)
    BY DEF StepNames
  <2>2. /\ recycled' \in Seq(Blocks) /\ count' \in Int
        /\ refs' \in [Blocks -> Nat] /\ managed' \in [Blocks -> BOOLEAN] /\ bits' \in [Blocks -> SUBSET Bits]
        /\ used' \subseteq Blocks /\ live' \in [Items -> Nat]
        /\ giving' \in [Users -> BOOLEAN] /\ calls' \in [Users -> 0..MaxCalls]
    BY <1>1, TypesSay
  <2> HIDE DEF n, c
  <2> QED
    BY <1>1, <1>3, <1>4, <2>1, <2>2, StandsAfter DEF Goes
<1>6. Lot(t) = {}
  BY <1>2, ListOfNone DEF Lot
<1>7. ListApart /\ (\A b \in Blocks : managed[b] <=> Managed(b)) /\ Once(recycled)
  BY DEF AllocatorInv, Spots, ListApart
<1>8. c \notin Range(recycled) /\ managed[c] /\ hand[t] # c
  BY <1>2, <1>3, <1>7, Numbers DEF ListApart, Managed
<1>9. \A b \in Blocks : /\ Near(t, b) <=> b \in Range(recycled) \/ InSlot(b)
                        /\ NearSpot(t, b) <=> b \in Range(recycled) \/ InSlot(b)
  BY <1>2, <1>6, ListOfNone DEF Near, NearSpot
<1> DEFINE N == {b \in Blocks : Near(t, b)}
<1>10. Placed(t, c, <<>>, {c}, N)
  <2>1. Once(<<>>) /\ Once(recycled')
    BY <1>1, <1>7, ListOfNone
  <2>2. \A b \in Blocks : b \in Range(recycled') => ~InSlot(b)'
    BY <1>1, <1>3, <1>7 DEF ListApart
  <2>3. \A b \in Blocks : b \in {c} => b \notin Range(recycled') /\ ~InSlot(b)'
    BY <1>1, <1>3, <1>8
  <2>4. \A b \in Blocks : b \in N <=> b \in Range(recycled') \/ InSlot(b)' \/ b \in {c}
    BY <1>1, <1>3, <1>9
  <2> QED
    BY <1>3, <2>1, <2>2, <2>3, <2>4 DEF Placed
<1>11. Known(t, c, <<>>, N)
  <2>1. \A b \in Blocks : managed'[b] <=> b \in N \/ (managed[b] /\ ~Near(t, b))
    BY <1>1, <1>7, <1>9 DEF Managed
  <2>2. \A b \in Blocks : ~Near(t, b) /\ managed[b] => (hand[t] = b <=> c = b)
    BY <1>2, <1>3, <1>9, Numbers
  <2>3. \A b \in Blocks : One(NearSpot(t, b)) + One(hand[t] = b)
                             = One(b \in Range(recycled') \/ InSlot(b)' \/ b \in Range(<<>>)) + One(c = b)
    BY <1>1, <1>2, <1>3, <1>8, <1>9, ListOfNone, Numbers DEF One
  <2> QED
    BY <2>1, <2>2, <2>3 DEF Known
<1>12. {c} = Range(<<>>) \cup (IF "unmanage" \in Moving THEN {c} ELSE {})
  BY ListOfNone DEF Moving
<1>13. Fitting("unmanage", n, c, <<>>) /\ c \notin Range(<<>>)
  BY <1>3, ListOfNone, Numbers DEF Fitting
<1> HIDE DEF n, c, N
<1> QED
  BY <1>1, <1>5, <1>10, <1>11, <1>12, <1>13, MovedTo

\* What the invariant says of the blocks that t may move.
LEMMA NearSays ==
  ASSUME AllocatorInv, NEW t \in Users
  PROVE  /\ \A b \in Blocks : Near(t, b) => managed[b]
         /\ SlotsOnce /\ Once(recycled) /\ Once(rest[t]) /\ (Moves(t) => hand[t] \notin Range(rest[t]))
         /\ \A b \in Blocks : b \in Range(recycled) => ~InSlot(b)
         /\ \A b \in Blocks : b \in Lot(t) => b \notin Range(recycled) /\ ~InSlot(b)
         /\ (Moves(t) => hand[t] \in Blocks /\ hand[t] \in Lot(t) /\ managed[hand[t]])
         /\ Lot(t) = Range(rest[t]) \cup (IF Moves(t) THEN {hand[t]} ELSE {})
         /\ Range(rest[t]) \subseteq Blocks /\ Range(recycled) \subseteq Blocks
<1>1. /\ SlotsOnce /\ Once(recycled) /\ Once(rest[t]) /\ (Moves(t) => hand[t] \notin Range(rest[t]))
      /\ \A b \in Blocks : b \in Range(recycled) => ~InSlot(b)
      /\ \A b \in Blocks : b \in Lot(t) => b \notin Range(recycled) /\ ~InSlot(b)
  BY DEF AllocatorInv, Spots, ListApart, LotOnce, LotApart
<1>2. \A b \in Blocks : Near(t, b) => managed[b]
  BY DEF AllocatorInv, Spots, Managed, Near
<1>3. Moves(t) => hand[t] \in Blocks /\ hand[t] \in Lot(t)
  BY LotsAreBlocks DEF Lot
<1>4. Moves(t) => managed[hand[t]]
  BY <1>2, <1>3 DEF Near
<1> QED
  BY <1>1, <1>2, <1>3, <1>4, LotsAreBlocks DEF Lot

\* The list is taken.
LEMMA ListStep ==
  ASSUME AllocatorInv, NEW t \in Users, TakeList(t), recycled # <<>>
  PROVE  AllocatorInv'
<1> DEFINE c == Head(recycled)
           q == Tail(recycled)
<1>1. /\ step[t] = "list" /\ step' = [step EXCEPT ![t] = "put back"]
      /\ hand' = [hand EXCEPT ![t] = c] /\ rest' = [rest EXCEPT ![t] = q] /\ recycled' = <<>>
      /\ control' = control /\ index' = index /\ count' = count
      /\ UNCHANGED <<refs, managed, bits, used, live, giving, calls>>
  BY DEF TakeList, At, Goto, Set, blockVars
<1>2. hand[t] = NoBlock /\ rest[t] = <<>> /\ ~Moves(t) /\ index[t] \in Nat
  BY <1>1, TypesSay DEF FitsOf, Moves
<1>3. /\ c \in Blocks /\ q \in Seq(Blocks) /\ Once(q)
      /\ Range(recycled) = {c} \cup Range(q) /\ c \notin Range(q) /\ Range(q) \subseteq Blocks
  <2>1. recycled \in Seq(Blocks) /\ Once(recycled)
    BY NearSays, TypesSay
  <2>2. /\ c \in Blocks /\ q \in Seq(Blocks) /\ Once(q)
        /\ Range(recycled) = {c} \cup Range(q) /\ c \notin Range(q) /\ Range(recycled) \subseteq Blocks
    BY <2>1, ListOnce
  <2> QED
    BY <2>2
<1>4. Stands(t, "put back", index[t], c, q)
  <2>1. "put back" \in StepNames /\ recycled' \in Seq(Blocks)
    BY <1>1, ListOfNone DEF StepNames
  <2>2. /\ control' \in [1..NControls -> Blocks \cup {NoBlock}] /\ count' \in Int
        /\ refs' \in [Blocks -> Nat] /\ managed' \in [Blocks -> BOOLEAN] /\ bits' \in [Blocks -> SUBSET Bits]
        /\ used' \subseteq Blocks /\ live' \in [Items -> Nat]
        /\ giving' \in [Users -> BOOLEAN] /\ calls' \in [Users -> 0..MaxCalls]
        /\ index' = [index EXCEPT ![t] = index[t]]
    BY <1>1, TypesSay
  <2> HIDE DEF c, q
  <2> QED
    BY <1>1, <1>2, <1>3, <2>1, <2>2, StandsAfter DEF Goes
<1>5. \A b \in Blocks : InSlot(b)' <=> InSlot(b)
  BY <1>1 DEF InSlot
<1>6. /\ Lot(t) = {} /\ Range(rest[t]) = {} /\ Once(<<>>) /\ Range(<<>>) = {}
      /\ \A b \in Blocks : Near(t, b) <=> b \in {c} \cup Range(q) \/ InSlot(b)
      /\ \A b \in Blocks : NearSpot(t, b) <=> b \in {c} \cup Range(q) \/ InSlot(b)
  BY <1>2, <1>3, ListOfNone DEF Lot, Near, NearSpot
<1>7. SlotsOnce' /\ SlotsOnce
  BY <1>1, NearSays DEF SlotsOnce
<1>8. \A b \in {c} \cup Range(q) : ~InSlot(b)
  BY <1>3, NearSays
<1> DEFINE N == {b \in Blocks : Near(t, b)}
           L == {c} \cup Range(q)
<1>9. Placed(t, c, q, L, N)
  BY <1>1, <1>3, <1>5, <1>6, <1>7, <1>8 DEF Placed
<1>10. Known(t, c, q, N)
  <2>1. \A b \in Blocks : managed'[b] <=> b \in N \/ (managed[b] /\ ~Near(t, b))
    BY <1>1, NearSays
  <2>2. \A b \in Blocks : ~Near(t, b) /\ managed[b] => (hand[t] = b <=> c = b)
    BY <1>2, <1>6, Numbers
  <2>3. \A b \in Blocks : One(NearSpot(t, b)) + One(hand[t] = b)
                             = One(b \in Range(recycled') \/ InSlot(b)' \/ b \in Range(q)) + One(c = b)
    <3> SUFFICES ASSUME NEW b \in Blocks
                 PROVE  One(NearSpot(t, b)) + One(hand[t] = b)
                          = One(b \in Range(recycled') \/ InSlot(b)' \/ b \in Range(q)) + One(c = b)
      OBVIOUS
    <3>1. hand[t] # b /\ b \notin Range(recycled') /\ (InSlot(b)' <=> InSlot(b))
      BY <1>1, <1>2, <1>5, <1>6, Numbers
    <3>2. NearSpot(t, b) <=> b \in {c} \cup Range(q) \/ InSlot(b)
      BY <1>6
    <3>3. c \notin Range(q) /\ ~InSlot(c)
      BY <1>3, <1>8
    <3> HIDE DEF c, q
    <3> QED
      BY <3>1, <3>2, <3>3 DEF One
  <2> QED
    BY <2>1, <2>2, <2>3 DEF Known
<1>11. L = Range(q) \cup (IF "put back" \in Moving THEN {c} ELSE {})
  BY DEF Moving
<1>12. Fitting("put back", index[t], c, q) /\ c \notin Range(q)
  BY <1>3, Numbers DEF Fitting
<1> HIDE DEF c, q, N, L
<1> QED
  BY <1>1, <1>4, <1>9, <1>10, <1>11, <1>12, MovedTo

\* The rest of the list is put back into an empty one.
LEMMA RestStep ==
  ASSUME AllocatorInv, NEW t \in Users, PutBack(t), recycled = <<>>
  PROVE  AllocatorInv'
<1> DEFINE h == hand[t]
<1>1. /\ step[t] = "put back" /\ step' = [step EXCEPT ![t] = "popped"]
      /\ hand' = hand /\ rest' = [rest EXCEPT ![t] = <<>>] /\ recycled' = rest[t]
      /\ control' = control /\ index' = index /\ count' = count
      /\ UNCHANGED <<refs, managed, bits, used, live, giving, calls>>
  BY DEF PutBack, At, Goto, Set, blockVars
<1>2. /\ Moves(t) /\ index[t] \in Nat /\ h \in Blocks /\ h \in Lot(t) /\ h \notin Range(rest[t])
      /\ rest[t] \in Seq(Blocks) /\ Once(rest[t]) /\ Range(rest[t]) \subseteq Blocks
      /\ Lot(t) = Range(rest[t]) \cup {h}
  BY <1>1, TypesSay, NearSays DEF Moves
<1>3. Stands(t, "popped", index[t], h, <<>>)
  <2>1. "popped" \in StepNames /\ <<>> \in Seq(Blocks)
    BY ListOfNone DEF StepNames
  <2>2. /\ control' \in [1..NControls -> Blocks \cup {NoBlock}] /\ count' \in Int
        /\ refs' \in [Blocks -> Nat] /\ managed' \in [Blocks -> BOOLEAN] /\ bits' \in [Blocks -> SUBSET Bits]
        /\ used' \subseteq Blocks /\ live' \in [Items -> Nat]
        /\ giving' \in [Users -> BOOLEAN] /\ calls' \in [Users -> 0..MaxCalls]
        /\ index' = [index EXCEPT ![t] = index[t]] /\ hand' = [hand EXCEPT ![t] = h]
    BY <1>1, TypesSay
  <2> HIDE DEF h
  <2> QED
    BY <1>1, <1>2, <2>1, <2>2, StandsAfter DEF Goes
<1>4. \A b \in Blocks : InSlot(b)' <=> InSlot(b)
  BY <1>1 DEF InSlot
<1>5. /\ Once(<<>>) /\ Range(<<>>) = {} /\ Range(recycled) = {}
      /\ \A b \in Blocks : Near(t, b) <=> b \in Range(rest[t]) \cup {h} \/ InSlot(b)
      /\ \A b \in Blocks : NearSpot(t, b) <=> b \in Range(rest[t]) \/ InSlot(b)
  BY <1>2, ListOfNone DEF Near, NearSpot
<1>6. SlotsOnce' /\ SlotsOnce
  BY <1>1, NearSays DEF SlotsOnce
<1>7. \A b \in Range(rest[t]) \cup {h} : ~InSlot(b)
  BY <1>2, NearSays
<1> DEFINE N == {b \in Blocks : Near(t, b)}
<1>8. Placed(t, h, <<>>, {h}, N)
  BY <1>1, <1>2, <1>4, <1>5, <1>6, <1>7 DEF Placed
<1>9. Known(t, h, <<>>, N)
  <2>1. \A b \in Blocks : managed'[b] <=> b \in N \/ (managed[b] /\ ~Near(t, b))
    BY <1>1, NearSays
  <2>2. \A b \in Blocks : One(NearSpot(t, b)) + One(hand[t] = b)
                             = One(b \in Range(recycled') \/ InSlot(b)' \/ b \in Range(<<>>)) + One(h = b)
    BY <1>1, <1>2, <1>4, <1>5, <1>7 DEF One
  <2> QED
    BY <2>1, <2>2 DEF Known
<1>10. {h} = Range(<<>>) \cup (IF "popped" \in Moving THEN {h} ELSE {})
  BY <1>5 DEF Moving
<1>11. Fitting("popped", index[t], h, <<>>) /\ h \notin Range(<<>>)
  BY <1>2, <1>5, Numbers DEF Fitting
<1> HIDE DEF h, N
<1> QED
  BY <1>1, <1>3, <1>8, <1>9, <1>10, <1>11, MovedTo

\* A block goes to the front of the list.
LEMMA PushBackStep ==
  ASSUME AllocatorInv, NEW t \in Users, PushBack(t)
  PROVE  AllocatorInv'
<1> DEFINE h == hand[t]
           c == Head(rest[t])
           q == Tail(rest[t])
           l == IF Len(rest[t]) = 1 THEN "popped" ELSE "push back"
<1>1. /\ step[t] = "push back" /\ step' = [step EXCEPT ![t] = l]
      /\ hand' = hand /\ recycled' = <<c>> \o recycled
      /\ control' = control /\ index' = index /\ count' = count
      /\ UNCHANGED <<refs, managed, bits, used, live, giving, calls>>
  BY DEF PushBack, At, Goto, Set, blockVars
<1>2. /\ Moves(t) /\ index[t] \in Nat /\ h \in Blocks /\ h \in Lot(t) /\ h \notin Range(rest[t])
      /\ rest[t] \in Seq(Blocks) /\ Once(rest[t]) /\ rest[t] # <<>>
      /\ Lot(t) = Range(rest[t]) \cup {h}
  BY <1>1, TypesSay, NearSays DEF Moves, FitsOf
<1>3. /\ c \in Blocks /\ q \in Seq(Blocks) /\ Once(q) /\ Range(q) \subseteq Blocks
      /\ Range(rest[t]) = {c} \cup Range(q) /\ c \notin Range(q)
  <2>1. /\ c \in Blocks /\ q \in Seq(Blocks) /\ Once(q) /\ Range(rest[t]) \subseteq Blocks
        /\ Range(rest[t]) = {c} \cup Range(q) /\ c \notin Range(q)
    BY <1>2, ListOnce
  <2> QED
    BY <2>1
<1>4. /\ c \notin Range(recycled) /\ ~InSlot(c) /\ h # c /\ ~InSlot(h) /\ h \notin Range(recycled)
      /\ \A b \in Range(q) : b \notin Range(recycled) /\ ~InSlot(b)
  BY <1>2, <1>3, NearSays
<1>5. recycled' \in Seq(Blocks) /\ Once(recycled') /\ Range(recycled') = {c} \cup Range(recycled)
  <2>1. recycled \in Seq(Blocks) /\ Once(recycled)
    BY NearSays, TypesSay
  <2>2. c \in Blocks /\ c \notin Range(recycled) /\ recycled' = <<c>> \o recycled
    BY <1>1, <1>3, <1>4
  <2> HIDE DEF c
  <2> QED
    BY <2>1, <2>2, ListOnce
<1>6. /\ l = "popped" \/ l = "push back"
      /\ l = "push back" <=> q # <<>>
  <2>1. Len(rest[t]) = 1 <=> q = <<>>
    <3>1. Len(rest[t]) \in Nat /\ Len(q) = Len(rest[t]) - 1
      BY <1>2
    <3>2. q = <<>> <=> Len(q) = 0
      <4>1. q \in Seq(Blocks)
        BY <1>3
      <4> HIDE DEF q
      <4> QED
        BY <4>1
    <3> QED
      BY <3>1, <3>2
  <2> QED
    BY <2>1
<1>7. Stands(t, l, index[t], h, q)
  <2>1. l \in StepNames
    BY <1>6 DEF StepNames
  <2>2. /\ control' \in [1..NControls -> Blocks \cup {NoBlock}] /\ count' \in Int
        /\ refs' \in [Blocks -> Nat] /\ managed' \in [Blocks -> BOOLEAN] /\ bits' \in [Blocks -> SUBSET Bits]
        /\ used' \subseteq Blocks /\ live' \in [Items -> Nat]
        /\ giving' \in [Users -> BOOLEAN] /\ calls' \in [Users -> 0..MaxCalls]
        /\ index' = [index EXCEPT ![t] = index[t]] /\ hand' = [hand EXCEPT ![t] = h]
    BY <1>1, TypesSay
  <2>3. rest' = [rest EXCEPT ![t] = q]
    BY DEF PushBack
  <2> HIDE DEF h, q, l
  <2> QED
    BY <1>1, <1>2, <1>3, <1>5, <2>1, <2>2, <2>3, StandsAfter DEF Goes
<1>8. \A b \in Blocks : InSlot(b)' <=> InSlot(b)
  BY <1>1 DEF InSlot
<1>9. /\ \A b \in Blocks : Near(t, b) <=> b \in Range(recycled) \/ b \in {c} \cup Range(q) \cup {h} \/ InSlot(b)
      /\ \A b \in Blocks : NearSpot(t, b) <=> b \in Range(recycled) \/ b \in {c} \cup Range(q) \/ InSlot(b)
  BY <1>2, <1>3 DEF Near, NearSpot
<1>10. SlotsOnce' /\ \A b \in Blocks : b \in Range(recycled) => ~InSlot(b)
  BY <1>1, NearSays DEF SlotsOnce
<1> DEFINE N == {b \in Blocks : Near(t, b)}
           L == {h} \cup Range(q)
<1>11. Placed(t, h, q, L, N)
  <2> HIDE DEF h, c, q
  <2>1. \A b \in Blocks : b \in Range(recycled') => ~InSlot(b)'
    BY <1>4, <1>5, <1>8, <1>10
  <2>2. \A b \in Blocks : b \in L => b \notin Range(recycled') /\ ~InSlot(b)'
    BY <1>2, <1>3, <1>4, <1>5, <1>8
  <2>3. \A b \in Blocks : b \in N <=> b \in Range(recycled') \/ InSlot(b)' \/ b \in L
    BY <1>5, <1>8, <1>9
  <2> HIDE DEF L, N
  <2> QED
    BY <1>3, <1>5, <1>10, <2>1, <2>2, <2>3 DEF Placed
<1>12. Known(t, h, q, N)
  <2>1. \A b \in Blocks : managed'[b] <=> b \in N \/ (managed[b] /\ ~Near(t, b))
    BY <1>1, NearSays
  <2>2. \A b \in Blocks : One(NearSpot(t, b)) + One(hand[t] = b)
                             = One(b \in Range(recycled') \/ InSlot(b)' \/ b \in Range(q)) + One(h = b)
    <3> SUFFICES ASSUME NEW b \in Blocks
                 PROVE  NearSpot(t, b) <=> b \in Range(recycled') \/ InSlot(b)' \/ b \in Range(q)
      BY DEF One
    <3> HIDE DEF h, c, q
    <3> QED
      BY <1>5, <1>8, <1>9
  <2> QED
    BY <2>1, <2>2 DEF Known
<1>13. L = Range(q) \cup (IF l \in Moving THEN {h} ELSE {})
  BY <1>6 DEF Moving
<1>14. Fitting(l, index[t], h, q) /\ h \notin Range(q)
  <2> HIDE DEF h, c, q, l
  <2> QED
    BY <1>2, <1>3, <1>6, Numbers DEF Fitting
<1> HIDE DEF c, h, q, l, N, L
<1> QED
  BY <1>1, <1>7, <1>11, <1>12, <1>13, <1>14, MovedTo

\* The block that was taken is not managed any more.
LEMMA UnmanageStep ==
  ASSUME AllocatorInv, NEW t \in Users, Unmanage(t)
  PROVE  AllocatorInv'
<1> DEFINE h == hand[t]
<1>1. /\ step[t] = "unmanage" /\ step' = [step EXCEPT ![t] = "word"] /\ managed' = [managed EXCEPT ![h] = FALSE]
      /\ hand' = hand /\ recycled' = recycled /\ control' = control /\ index' = index /\ count' = count /\ rest' = rest
      /\ UNCHANGED <<refs, bits, used, live, giving, calls>>
  BY DEF Unmanage, At, Goto, Set, listVars, threadVars
<1>2. /\ Moves(t) /\ index[t] \in Nat /\ h \in Blocks /\ h \in Lot(t) /\ rest[t] = <<>>
      /\ Lot(t) = Range(rest[t]) \cup {h}
  BY <1>1, TypesSay, NearSays DEF Moves, FitsOf
<1>3. Stands(t, "word", index[t], h, <<>>)
  <2>1. "word" \in StepNames /\ <<>> \in Seq(Blocks)
    BY ListOfNone DEF StepNames
  <2>2. /\ control' \in [1..NControls -> Blocks \cup {NoBlock}] /\ count' \in Int
        /\ refs' \in [Blocks -> Nat] /\ managed' \in [Blocks -> BOOLEAN] /\ bits' \in [Blocks -> SUBSET Bits]
        /\ used' \subseteq Blocks /\ live' \in [Items -> Nat] /\ recycled' \in Seq(Blocks)
        /\ giving' \in [Users -> BOOLEAN] /\ calls' \in [Users -> 0..MaxCalls]
        /\ index' = [index EXCEPT ![t] = index[t]] /\ hand' = [hand EXCEPT ![t] = h]
        /\ rest' = [rest EXCEPT ![t] = <<>>]
    BY <1>1, <1>2, TypesSay
  <2> HIDE DEF h
  <2> QED
    BY <1>1, <1>2, <2>1, <2>2, StandsAfter DEF Goes
<1>4. \A b \in Blocks : InSlot(b)' <=> InSlot(b)
  BY <1>1 DEF InSlot
<1>5. /\ Once(<<>>) /\ Range(<<>>) = {} /\ Range(recycled') = Range(recycled)
      /\ \A b \in Blocks : Near(t, b) <=> b \in Range(recycled) \/ b = h \/ InSlot(b)
      /\ \A b \in Blocks : NearSpot(t, b) <=> b \in Range(recycled) \/ InSlot(b)
  BY <1>1, <1>2, ListOfNone DEF Near, NearSpot
<1>6. /\ SlotsOnce' /\ Once(recycled') /\ h \notin Range(recycled) /\ ~InSlot(h)
      /\ \A b \in Blocks : b \in Range(recycled) => ~InSlot(b)
  BY <1>1, <1>2, NearSays DEF SlotsOnce
<1> DEFINE N == {b \in Blocks : Near(t, b) /\ b # h}
<1>7. Placed(t, h, <<>>, {}, N)
  BY <1>4, <1>5, <1>6 DEF Placed
<1>8. Known(t, h, <<>>, N)
  <2>1. \A b \in Blocks : managed'[b] <=> b \in N \/ (managed[b] /\ ~Near(t, b))
    <3>1. managed \in [Blocks -> BOOLEAN] /\ Near(t, h) /\ \A b \in Blocks : Near(t, b) => managed[b]
      BY <1>2, <1>5, NearSays, TypesSay
    <3> QED
      BY <1>1, <1>2, <3>1
  <2>2. \A b \in Blocks : One(NearSpot(t, b)) + One(hand[t] = b)
                             = One(b \in Range(recycled') \/ InSlot(b)' \/ b \in Range(<<>>)) + One(h = b)
    BY <1>4, <1>5 DEF One
  <2> QED
    BY <2>1, <2>2 DEF Known
<1>9. {} = Range(<<>>) \cup (IF "word" \in Moving THEN {h} ELSE {})
  BY <1>5 DEF Moving
<1>10. Fitting("word", index[t], h, <<>>) /\ h \notin Range(<<>>)
  BY <1>2, <1>5, Numbers DEF Fitting
<1> HIDE DEF h, N
<1> QED
  BY <1>1, <1>3, <1>7, <1>8, <1>9, <1>10, MovedTo

\* A block that nobody manages comes to be managed by t, or is left to who manages it.
LEMMA ManageStep ==
  ASSUME AllocatorInv, NEW t \in Users, Manage(t)
  PROVE  AllocatorInv'
<1> DEFINE h == hand[t]
<1>1. /\ step[t] = "manage" /\ managed' = [managed EXCEPT ![h] = TRUE] /\ index' = [index EXCEPT ![t] = 1]
      /\ hand' = hand /\ recycled' = recycled /\ control' = control /\ count' = count /\ rest' = rest
      /\ UNCHANGED <<refs, bits, used, live, giving, calls>>
      /\ step' = [step EXCEPT ![t] = IF managed[h] THEN "drop" ELSE "put"]
  BY DEF Manage, At, Goto, Set, listVars
<1>2. /\ ~Moves(t) /\ h \in Blocks /\ rest[t] = <<>> /\ managed[h] \in BOOLEAN /\ managed \in [Blocks -> BOOLEAN]
      /\ 1 \in Nat /\ 1 \in 1..NControls
  <2>1. ~Moves(t)
    BY <1>1 DEF Moves
  <2>2. h \in Blocks /\ rest[t] = <<>> /\ managed \in [Blocks -> BOOLEAN]
    BY <1>1, TypesSay DEF FitsOf
  <2> QED
    BY <2>1, <2>2, Numbers
<1>3. CASE managed[h]
  <2>1. managed' = managed /\ step' = [step EXCEPT ![t] = "drop"]
    BY <1>1, <1>2, <1>3
  <2>2. count' \in Int /\ giving' \in [Users -> BOOLEAN] /\ calls' \in [Users -> 0..MaxCalls]
    BY <1>1, TypesSay
  <2>3. StepsTo(t, "drop", 1)
    BY <1>1, <2>1, <2>2 DEF StepsTo
  <2>4. "drop" \in StepNames
    BY DEF StepNames
  <2> HIDE DEF h
  <2> QED
    BY <1>1, <1>2, <2>3, <2>4, QuietTo
<1>4. CASE ~managed[h]
  <2>1. Stands(t, "put", 1, h, <<>>)
    <3>1. "put" \in StepNames /\ <<>> \in Seq(Blocks)
      BY ListOfNone DEF StepNames
    <3>2. /\ control' \in [1..NControls -> Blocks \cup {NoBlock}] /\ count' \in Int
          /\ refs' \in [Blocks -> Nat] /\ managed' \in [Blocks -> BOOLEAN] /\ bits' \in [Blocks -> SUBSET Bits]
          /\ used' \subseteq Blocks /\ live' \in [Items -> Nat] /\ recycled' \in Seq(Blocks)
          /\ giving' \in [Users -> BOOLEAN] /\ calls' \in [Users -> 0..MaxCalls]
          /\ hand' = [hand EXCEPT ![t] = h] /\ rest' = [rest EXCEPT ![t] = <<>>]
          /\ step' = [step EXCEPT ![t] = "put"]
      BY <1>1, <1>2, <1>4, TypesSay
    <3> HIDE DEF h
    <3> QED
      BY <1>1, <1>2, <3>1, <3>2, StandsAfter DEF Goes
  <2>2. \A b \in Blocks : InSlot(b)' <=> InSlot(b)
    BY <1>1 DEF InSlot
  <2>3. /\ Once(<<>>) /\ Range(<<>>) = {} /\ Range(recycled') = Range(recycled)
        /\ \A b \in Blocks : Near(t, b) <=> b \in Range(recycled) \/ InSlot(b)
        /\ \A b \in Blocks : NearSpot(t, b) <=> b \in Range(recycled) \/ InSlot(b)
    BY <1>1, <1>2, ListOfNone DEF Near, NearSpot, Lot
  <2>4. ~Near(t, h) /\ \A b \in Blocks : Near(t, b) => managed[b]
    BY <1>2, <1>4, NearSays
  <2>5. /\ SlotsOnce' /\ Once(recycled') /\ h \notin Range(recycled) /\ ~InSlot(h)
        /\ \A b \in Blocks : b \in Range(recycled) => ~InSlot(b)
    BY <1>1, <1>2, <2>3, <2>4, NearSays DEF SlotsOnce
  <2> DEFINE N == {b \in Blocks : Near(t, b) \/ b = h}
  <2>6. Placed(t, h, <<>>, {h}, N)
    BY <1>2, <2>2, <2>3, <2>5 DEF Placed
  <2>7. Known(t, h, <<>>, N)
    <3>1. \A b \in Blocks : managed'[b] <=> b \in N \/ (managed[b] /\ ~Near(t, b))
      BY <1>1, <1>2, <2>4
    <3>2. \A b \in Blocks : One(NearSpot(t, b)) + One(hand[t] = b)
                               = One(b \in Range(recycled') \/ InSlot(b)' \/ b \in Range(<<>>)) + One(h = b)
      BY <2>2, <2>3 DEF One
    <3>3. \A b \in Blocks : b \in N => Near(t, b) \/ ~managed[b]
      BY <1>4
    <3> QED
      BY <3>1, <3>2, <3>3 DEF Known
  <2>8. {h} = Range(<<>>) \cup (IF "put" \in Moving THEN {h} ELSE {})
    BY <2>3 DEF Moving
  <2>9. Fitting("put", 1, h, <<>>) /\ h \notin Range(<<>>)
    BY <1>2, <2>3, Numbers DEF Fitting
  <2> HIDE DEF h, N
  <2> QED
    BY <1>1, <2>1, <2>6, <2>7, <2>8, <2>9, MovedTo
<1> QED
  BY <1>2, <1>3, <1>4

\* A block goes into a slot.
LEMMA FillStep ==
  ASSUME AllocatorInv, NEW t \in Users, PutSlot(t), control[index[t]] = NoBlock
  PROVE  AllocatorInv'
<1> DEFINE n == index[t]
           h == hand[t]
<1>1. /\ step[t] = "put" /\ step' = [step EXCEPT ![t] = "idle"]
      /\ control' = [control EXCEPT ![n] = h] /\ hand' = [hand EXCEPT ![t] = NoBlock]
      /\ index' = index /\ rest' = rest /\ recycled' = recycled /\ count' = count
      /\ UNCHANGED <<refs, managed, bits, used, live, giving, calls>>
  BY DEF PutSlot, At, Goto, Done, Set, blockVars
<1>2. /\ n \in 1..NControls /\ n \in Nat /\ Moves(t) /\ h \in Blocks /\ h \in Lot(t) /\ rest[t] = <<>>
      /\ Lot(t) = Range(rest[t]) \cup {h} /\ h \notin Range(recycled) /\ ~InSlot(h)
  BY <1>1, TypesSay, NearSays DEF Moves, FitsOf
<1>3. /\ SlotsOnce' /\ control' \in [1..NControls -> Blocks \cup {NoBlock}]
      /\ \A b \in Blocks : InSlot(b)' <=> InSlot(b) \/ b = h
  <2>1. SlotsOnce /\ control \in [1..NControls -> Blocks \cup {NoBlock}] /\ control[n] = NoBlock
    BY NearSays, TypesSay
  <2> HIDE DEF n, h
  <2> QED
    BY <1>1, <1>2, <2>1, SlotTaken
<1>4. Stands(t, "idle", n, NoBlock, <<>>)
  <2>1. "idle" \in StepNames /\ <<>> \in Seq(Blocks) /\ NoBlock \in Blocks \cup {NoBlock}
    BY ListOfNone DEF StepNames
  <2>2. /\ recycled' \in Seq(Blocks) /\ count' \in Int
        /\ refs' \in [Blocks -> Nat] /\ managed' \in [Blocks -> BOOLEAN] /\ bits' \in [Blocks -> SUBSET Bits]
        /\ used' \subseteq Blocks /\ live' \in [Items -> Nat]
        /\ giving' \in [Users -> BOOLEAN] /\ calls' \in [Users -> 0..MaxCalls]
        /\ index' = [index EXCEPT ![t] = n] /\ rest' = [rest EXCEPT ![t] = <<>>]
    BY <1>1, <1>2, TypesSay
  <2> HIDE DEF n, h
  <2> QED
    BY <1>1, <1>2, <1>3, <2>1, <2>2, StandsAfter DEF Goes
<1>5. /\ Once(<<>>) /\ Range(<<>>) = {} /\ Range(recycled') = Range(recycled) /\ Once(recycled')
      /\ \A b \in Blocks : Near(t, b) <=> b \in Range(recycled) \/ b = h \/ InSlot(b)
      /\ \A b \in Blocks : NearSpot(t, b) <=> b \in Range(recycled) \/ InSlot(b)
      /\ \A b \in Blocks : b \in Range(recycled) => ~InSlot(b)
  BY <1>1, <1>2, ListOfNone, NearSays DEF Near, NearSpot
<1> DEFINE N == {b \in Blocks : Near(t, b)}
<1>6. Placed(t, NoBlock, <<>>, {}, N)
  <2> HIDE DEF n, h
  <2> QED
    BY <1>2, <1>3, <1>5 DEF Placed
<1>7. Known(t, NoBlock, <<>>, N)
  <2>1. \A b \in Blocks : managed'[b] <=> b \in N \/ (managed[b] /\ ~Near(t, b))
    BY <1>1, NearSays
  <2>2. \A b \in Blocks : ~Near(t, b) /\ managed[b] => (hand[t] = b <=> NoBlock = b)
    BY <1>5, Numbers
  <2>3. \A b \in Blocks : One(NearSpot(t, b)) + One(hand[t] = b)
                             = One(b \in Range(recycled') \/ InSlot(b)' \/ b \in Range(<<>>)) + One(NoBlock = b)
    <3> SUFFICES ASSUME NEW b \in Blocks
                 PROVE  One(NearSpot(t, b)) + One(h = b)
                          = One(b \in Range(recycled') \/ InSlot(b)' \/ b \in Range(<<>>)) + One(NoBlock = b)
      OBVIOUS
    <3>1. NoBlock # b /\ (InSlot(b)' <=> InSlot(b) \/ b = h)
      BY <1>3, Numbers
    <3> HIDE DEF h
    <3> QED
      BY <3>1, <1>2, <1>5 DEF One
  <2> QED
    BY <2>1, <2>2, <2>3 DEF Known
<1>8. {} = Range(<<>>) \cup (IF "idle" \in Moving THEN {NoBlock} ELSE {})
  BY <1>5 DEF Moving
<1>9. Fitting("idle", n, NoBlock, <<>>) /\ NoBlock \notin Range(<<>>)
  BY <1>5 DEF Fitting
<1> HIDE DEF n, h, N
<1> QED
  BY <1>1, <1>4, <1>6, <1>7, <1>8, <1>9, MovedTo

\* A block goes into the list.
LEMMA PushStep ==
  ASSUME AllocatorInv, NEW t \in Users, PushList(t)
  PROVE  AllocatorInv'
<1> DEFINE h == hand[t]
<1>1. /\ step[t] = "push" /\ step' = [step EXCEPT ![t] = "idle"]
      /\ recycled' = <<h>> \o recycled /\ hand' = [hand EXCEPT ![t] = NoBlock]
      /\ index' = index /\ rest' = rest /\ control' = control /\ count' = count
      /\ UNCHANGED <<refs, managed, bits, used, live, giving, calls>>
  BY DEF PushList, At, Goto, Done, Set, blockVars
<1>2. /\ index[t] \in Nat /\ Moves(t) /\ h \in Blocks /\ h \in Lot(t) /\ rest[t] = <<>>
      /\ Lot(t) = Range(rest[t]) \cup {h} /\ h \notin Range(recycled) /\ ~InSlot(h)
  BY <1>1, TypesSay, NearSays DEF Moves, FitsOf
<1>3. recycled' \in Seq(Blocks) /\ Once(recycled') /\ Range(recycled') = {h} \cup Range(recycled)
  <2>1. recycled \in Seq(Blocks) /\ Once(recycled)
    BY NearSays, TypesSay
  <2> QED
    BY <1>1, <1>2, <2>1, ListOnce
<1>4. Stands(t, "idle", index[t], NoBlock, <<>>)
  <2>1. "idle" \in StepNames /\ <<>> \in Seq(Blocks) /\ NoBlock \in Blocks \cup {NoBlock}
    BY ListOfNone DEF StepNames
  <2>2. /\ control' \in [1..NControls -> Blocks \cup {NoBlock}] /\ count' \in Int
        /\ refs' \in [Blocks -> Nat] /\ managed' \in [Blocks -> BOOLEAN] /\ bits' \in [Blocks -> SUBSET Bits]
        /\ used' \subseteq Blocks /\ live' \in [Items -> Nat]
        /\ giving' \in [Users -> BOOLEAN] /\ calls' \in [Users -> 0..MaxCalls]
        /\ index' = [index EXCEPT ![t] = index[t]] /\ rest' = [rest EXCEPT ![t] = <<>>]
    BY <1>1, <1>2, TypesSay
  <2> HIDE DEF h
  <2> QED
    BY <1>1, <1>2, <1>3, <2>1, <2>2, StandsAfter DEF Goes
<1>5. /\ Once(<<>>) /\ Range(<<>>) = {} /\ SlotsOnce'
      /\ \A b \in Blocks : Near(t, b) <=> b \in Range(recycled) \/ b = h \/ InSlot(b)
      /\ \A b \in Blocks : NearSpot(t, b) <=> b \in Range(recycled) \/ InSlot(b)
      /\ \A b \in Blocks : b \in Range(recycled) => ~InSlot(b)
  BY <1>1, <1>2, ListOfNone, NearSays DEF Near, NearSpot, SlotsOnce
<1>6. \A b \in Blocks : InSlot(b)' <=> InSlot(b)
  BY <1>1 DEF InSlot
<1> DEFINE N == {b \in Blocks : Near(t, b)}
<1>7. Placed(t, NoBlock, <<>>, {}, N)
  <2> HIDE DEF h
  <2> QED
    BY <1>2, <1>3, <1>5, <1>6 DEF Placed
<1>8. Known(t, NoBlock, <<>>, N)
  <2>1. \A b \in Blocks : managed'[b] <=> b \in N \/ (managed[b] /\ ~Near(t, b))
    BY <1>1, NearSays
  <2>2. \A b \in Blocks : ~Near(t, b) /\ managed[b] => (hand[t] = b <=> NoBlock = b)
    BY <1>5, Numbers
  <2>3. \A b \in Blocks : One(NearSpot(t, b)) + One(hand[t] = b)
                             = One(b \in Range(recycled') \/ InSlot(b)' \/ b \in Range(<<>>)) + One(NoBlock = b)
    <3> SUFFICES ASSUME NEW b \in Blocks
                 PROVE  One(NearSpot(t, b)) + One(h = b)
                          = One(b \in Range(recycled') \/ InSlot(b)' \/ b \in Range(<<>>)) + One(NoBlock = b)
      OBVIOUS
    <3>1. NoBlock # b /\ (InSlot(b)' <=> InSlot(b)) /\ (b \in Range(recycled') <=> b = h \/ b \in Range(recycled))
      BY <1>3, <1>6, Numbers
    <3> HIDE DEF h
    <3> QED
      BY <3>1, <1>2, <1>5 DEF One
  <2> QED
    BY <2>1, <2>2, <2>3 DEF Known
<1>9. {} = Range(<<>>) \cup (IF "idle" \in Moving THEN {NoBlock} ELSE {})
  BY <1>5 DEF Moving
<1>10. Fitting("idle", index[t], NoBlock, <<>>) /\ NoBlock \notin Range(<<>>)
  BY <1>5 DEF Fitting
<1> HIDE DEF h, N
<1> QED
  BY <1>1, <1>4, <1>7, <1>8, <1>9, <1>10, MovedTo

(***************************************************************************)
(* Steps that give and take items                                          *)
(***************************************************************************)
\* How many hold a block, and how many items of it clients have.
LEMMA RefsAre ==
  ASSUME AllocatorInv, NEW b \in Blocks
  PROVE  /\ refs[b] = One(Spot(b)) + Cardinality(Holders(b)) + Clients(live, b)
         /\ refs[b] \in Nat /\ One(Spot(b)) \in Nat /\ Cardinality(Holders(b)) \in Nat /\ Clients(live, b) \in Nat
         /\ b \in used <=> refs[b] > 0
         /\ \A t \in Users : hand[t] = b => refs[b] >= 1
<1>1. refs[b] = One(Spot(b)) + Cardinality(Holders(b)) + Clients(live, b) /\ (b \in used <=> refs[b] > 0)
  BY ClientsAre DEF AllocatorInv, Counts
<1>2. refs[b] \in Nat /\ One(Spot(b)) \in Nat /\ Cardinality(Holders(b)) \in Nat /\ Clients(live, b) \in Nat
  BY TypesSay, HolderCounts, SomeClient DEF One
<1>3. \A t \in Users : hand[t] = b => Cardinality(Holders(b)) >= 1
  BY HolderCounts
<1> DEFINE r == refs[b]
           s == One(Spot(b))
           c == Cardinality(Holders(b))
           n == Clients(live, b)
<1>4. c >= 1 => r >= 1
  <2> HIDE DEF r, s, c, n
  <2>1. r = s + c + n /\ s \in Nat /\ c \in Nat /\ n \in Nat
    BY <1>1, <1>2 DEF r, s, c, n
  <2> QED
    BY <2>1
<1> QED
  BY <1>1, <1>2, <1>3, <1>4

\* A bit is set.
LEMMA SetStep ==
  ASSUME AllocatorInv, NEW t \in Users, SetBit(t)
  PROVE  AllocatorInv'
<1> DEFINE h == hand[t]
           k == index[t]
<1>1. /\ step[t] = "set" /\ bits' = [bits EXCEPT ![h] = @ \cup {k}]
      /\ step' = [step EXCEPT ![t] = IF k \in bits[h] THEN "drop" ELSE "refer"]
      /\ hand' = hand /\ recycled' = recycled /\ control' = control /\ count' = count /\ rest' = rest
      /\ index' = index /\ UNCHANGED <<refs, managed, used, live, giving, calls>>
  BY DEF SetBit, At, Goto, listVars, threadVars
<1>2. ~Moves(t) /\ "drop" \notin Moving /\ "refer" \notin Moving /\ "drop" \in StepNames /\ "refer" \in StepNames
  BY <1>1 DEF Moves, Moving, StepNames
<1>3. h \in Blocks /\ rest[t] = <<>> /\ k \in Bits /\ k \in Nat
  BY <1>1, TypesSay DEF FitsOf
<1>4. bits \in [Blocks -> SUBSET Bits]
  BY TypesSay
<1>5. CASE k \in bits[h]
  <2>1. bits' = bits /\ step' = [step EXCEPT ![t] = "drop"]
    BY <1>1, <1>3, <1>4, <1>5
  <2>2. count' \in Int /\ giving' \in [Users -> BOOLEAN] /\ calls' \in [Users -> 0..MaxCalls]
        /\ index' = [index EXCEPT ![t] = k]
    BY <1>1, TypesSay
  <2>3. StepsTo(t, "drop", k)
    BY <1>1, <2>1, <2>2 DEF StepsTo
  <2> HIDE DEF h, k
  <2> QED
    BY <1>1, <1>2, <1>3, <2>3, QuietTo
<1>6. CASE k \notin bits[h]
  <2>1. Stands(t, "refer", k, h, <<>>)
    <3>1. <<>> \in Seq(Blocks)
      BY ListOfNone
    <3>2. bits' \in [Blocks -> SUBSET Bits]
      BY <1>1, <1>3, <1>4
    <3>3. /\ control' \in [1..NControls -> Blocks \cup {NoBlock}] /\ count' \in Int
          /\ refs' \in [Blocks -> Nat] /\ managed' \in [Blocks -> BOOLEAN]
          /\ used' \subseteq Blocks /\ live' \in [Items -> Nat] /\ recycled' \in Seq(Blocks)
          /\ giving' \in [Users -> BOOLEAN] /\ calls' \in [Users -> 0..MaxCalls]
          /\ hand' = [hand EXCEPT ![t] = h] /\ rest' = [rest EXCEPT ![t] = <<>>] /\ index' = [index EXCEPT ![t] = k]
          /\ step' = [step EXCEPT ![t] = "refer"]
      BY <1>1, <1>3, <1>6, TypesSay
    <3> HIDE DEF h, k
    <3> QED
      BY <1>2, <1>3, <3>1, <3>2, <3>3, StandsAfter DEF Goes
  <2>2. ~Moves(t)' /\ Others(t) /\ rest'[t] = rest[t] /\ hand'[t] = hand[t] /\ step'[t] = "refer"
    BY <1>2, <1>3, <2>1 DEF Stands, Moves, Moving
  <2>3. Spots' /\ \A b : Spot(b)' <=> Spot(b)
    BY <1>1, <1>2, <2>2, SpotsStay DEF AllocatorInv
  <2>4. HandsFit'
    <3>1. FitsOf(t)'
      BY <1>3, <2>1, Numbers DEF FitsOf, Stands
    <3> QED
      BY <2>1, <3>1, FitsStay DEF AllocatorInv, Stands
  <2>5. Counts'
    <3>1. \A b \in Blocks : One(Spot(b)) + One(hand[t] = b) = One(Spot(b)') + One(hand'[t] = b)
      BY <2>2, <2>3 DEF One
    <3> QED
      BY <1>1, <2>1, <3>1, CountsKept DEF Stands
  <2>6. BitsMean'
    <3>1. /\ \A u \in Users \ {t} : step'[u] = step[u] /\ hand'[u] = hand[u] /\ index'[u] = index[u]
          /\ step'[t] = "refer" /\ hand'[t] = h /\ index'[t] = k /\ step[t] # "refer"
      BY <1>1, <2>1 DEF Stands, Others
    <3>2. /\ \A i \in Items : live[i] \in {0, 1}
          /\ \A b \in Blocks, x \in Bits :
               x \in bits[b] <=> \/ live[<<b, x>>] = 1
                                 \/ \E u \in Users : step[u] = "refer" /\ hand[u] = b /\ index[u] = x
          /\ \A u \in Users : step[u] = "refer" => live[<<hand[u], index[u]>>] = 0
          /\ \A u, v \in Users : /\ u # v /\ step[u] = "refer" /\ step[v] = "refer"
                                 => hand[u] # hand[v] \/ index[u] # index[v]
      BY DEF AllocatorInv, BitsMean
    <3>3. /\ live[<<h, k>>] = 0
          /\ ~ \E u \in Users : step[u] = "refer" /\ hand[u] = h /\ index[u] = k
      BY <1>3, <1>6, <3>2 DEF Items
    <3>4. ASSUME NEW b \in Blocks, NEW x \in Bits
          PROVE  x \in bits'[b] <=> \/ live'[<<b, x>>] = 1
                                    \/ \E u \in Users : step'[u] = "refer" /\ hand'[u] = b /\ index'[u] = x
      <4>1. x \in bits'[b] <=> x \in bits[b] \/ (b = h /\ x = k)
        BY <1>1, <1>3, <1>4
      <4>2. (\E u \in Users : step'[u] = "refer" /\ hand'[u] = b /\ index'[u] = x)
              <=> (b = h /\ x = k) \/ \E u \in Users : step[u] = "refer" /\ hand[u] = b /\ index[u] = x
        <5> HIDE DEF h, k
        <5> QED
          BY <3>1
      <4>3. live'[<<b, x>>] = live[<<b, x>>]
        BY <1>1
      <4>4. x \in bits[b] <=> \/ live[<<b, x>>] = 1
                              \/ \E u \in Users : step[u] = "refer" /\ hand[u] = b /\ index[u] = x
        BY <3>2
      <4> QED
        BY <4>1, <4>2, <4>3, <4>4
    <3>5. \A i \in Items : live'[i] \in {0, 1}
      BY <1>1, <3>2
    <3>6. \A u \in Users : step'[u] = "refer" => live'[<<hand'[u], index'[u]>>] = 0
      <4> HIDE DEF h, k
      <4> QED
        BY <1>1, <3>1, <3>2, <3>3
    <3>7. \A u, v \in Users : /\ u # v /\ step'[u] = "refer" /\ step'[v] = "refer"
                               => hand'[u] # hand'[v] \/ index'[u] # index'[v]
      <4> HIDE DEF h, k
      <4> QED
        BY <3>1, <3>2, <3>3
    <3> QED
      BY <3>4, <3>5, <3>6, <3>7 DEF BitsMean
  <2> QED
    BY <2>1, <2>3, <2>4, <2>5, <2>6 DEF AllocatorInv, Stands
<1> QED
  BY <1>5, <1>6

\* The item is the caller's.
LEMMA ReferStep ==
  ASSUME AllocatorInv, NEW t \in Users, Refer(t)
  PROVE  AllocatorInv'
<1> DEFINE h == hand[t]
           k == index[t]
           i == <<h, k>>
<1>1. /\ step[t] = "refer" /\ refs' = [refs EXCEPT ![h] = @ + 1] /\ live' = [live EXCEPT ![i] = @ + 1]
      /\ step' = [step EXCEPT ![t] = "recycle"] /\ giving' = [giving EXCEPT ![t] = FALSE]
      /\ hand' = hand /\ recycled' = recycled /\ control' = control /\ count' = count /\ rest' = rest
      /\ index' = index /\ UNCHANGED <<bits, managed, used, calls>>
  BY DEF Refer, At, Goto, Set, listVars
<1>2. ~Moves(t) /\ "recycle" \notin Moving /\ "recycle" \in StepNames
  BY <1>1 DEF Moves, Moving, StepNames
<1>3. h \in Blocks /\ rest[t] = <<>> /\ k \in Bits /\ k \in Nat /\ i \in Items
  BY <1>1, TypesSay DEF FitsOf, Items
<1>4. /\ refs \in [Blocks -> Nat] /\ live \in [Items -> Nat] /\ giving \in [Users -> BOOLEAN]
      /\ live[i] = 0 /\ refs[h] >= 1 /\ refs[h] \in Nat
  BY <1>1, <1>3, TypesSay, RefsAre DEF AllocatorInv, BitsMean
<1>5. live' = [live EXCEPT ![i] = 1] /\ live' \in [Items -> Nat] /\ refs' \in [Blocks -> Nat]
      /\ giving' \in [Users -> BOOLEAN]
  <2> HIDE DEF i, h
  <2> QED
    BY <1>1, <1>3, <1>4
<1>6. Stands(t, "recycle", k, h, <<>>)
  <2>1. <<>> \in Seq(Blocks)
    BY ListOfNone
  <2>2. /\ control' \in [1..NControls -> Blocks \cup {NoBlock}] /\ count' \in Int
        /\ managed' \in [Blocks -> BOOLEAN] /\ bits' \in [Blocks -> SUBSET Bits]
        /\ used' \subseteq Blocks /\ recycled' \in Seq(Blocks) /\ calls' \in [Users -> 0..MaxCalls]
        /\ hand' = [hand EXCEPT ![t] = h] /\ rest' = [rest EXCEPT ![t] = <<>>] /\ index' = [index EXCEPT ![t] = k]
    BY <1>1, <1>3, TypesSay
  <2> HIDE DEF h, k, i
  <2> QED
    BY <1>1, <1>2, <1>3, <1>5, <2>1, <2>2, StandsAfter DEF Goes
<1>7. ~Moves(t)' /\ Others(t) /\ rest'[t] = rest[t] /\ hand'[t] = hand[t] /\ step'[t] = "recycle"
  BY <1>2, <1>3, <1>6 DEF Stands, Moves, Moving
<1>8. Spots' /\ \A b : Spot(b)' <=> Spot(b)
  BY <1>1, <1>2, <1>7, SpotsStay DEF AllocatorInv
<1>9. HandsFit'
  <2>1. FitsOf(t)'
    BY <1>3, <1>6, Numbers DEF FitsOf, Stands
  <2> QED
    BY <1>6, <2>1, FitsStay DEF AllocatorInv, Stands
<1>10. Counts'
  <2>1. \A b \in Blocks : refs'[b] = IF b = h THEN refs[b] + 1 ELSE refs[b]
    BY <1>1, <1>3, <1>4
  <2>2. \A b \in Blocks : Clients(live', b) = IF b = h THEN Clients(live, b) + 1 ELSE Clients(live, b)
    <3> SUFFICES ASSUME NEW b \in Blocks
                 PROVE  Clients(live', b) = IF b = h THEN Clients(live, b) + 1 ELSE Clients(live, b)
      OBVIOUS
    <3>1. i[1] = h
      OBVIOUS
    <3> HIDE DEF h, k, i
    <3>2. Becomes(live, live', i, 1)
      BY <1>3, <1>4, <1>5 DEF Becomes
    <3>3. /\ Clients(live, b) \in Nat
          /\ i[1] # b => Clients(live', b) = Clients(live, b)
          /\ i[1] = b => Clients(live', b) = Clients(live, b) - live[i] + 1
      BY <3>2, ClientsBecome
    <3> QED
      BY <1>4, <3>1, <3>3
  <2>3. ASSUME NEW b \in Blocks
        PROVE  refs'[b] = refs[b] - One(Spot(b)) + One(Spot(b)') - One(hand[t] = b) + One(hand'[t] = b)
                                        - Clients(live, b) + Clients(live', b)
    <3>1. One(Spot(b)) = One(Spot(b)') /\ One(hand[t] = b) = One(hand'[t] = b)
          /\ One(Spot(b)) \in Nat /\ One(hand[t] = b) \in Nat
      BY <1>7, <1>8 DEF One
    <3>2. refs[b] \in Nat /\ Clients(live, b) \in Nat
      BY RefsAre
    <3> HIDE DEF h
    <3> QED
      BY <2>1, <2>2, <3>1, <3>2
  <2>4. used' = {b \in Blocks : refs'[b] > 0}
    <3>1. used = {b \in Blocks : refs[b] > 0}
      BY DEF AllocatorInv, Counts
    <3> HIDE DEF h
    <3> QED
      BY <1>1, <1>4, <2>1, <3>1
  <2>5. AllocatorTypeOK'
    BY <1>6 DEF Stands
  <2> QED
    BY <1>7, <2>3, <2>4, <2>5, Balance
<1>11. BitsMean'
  <2>1. /\ \A u \in Users \ {t} : step'[u] = step[u] /\ hand'[u] = hand[u] /\ index'[u] = index[u]
        /\ step'[t] = "recycle" /\ hand[t] = h /\ index[t] = k /\ step[t] = "refer"
    BY <1>1, <1>6 DEF Stands, Others
  <2>2. /\ \A j \in Items : live[j] \in {0, 1}
        /\ \A b \in Blocks, x \in Bits :
             x \in bits[b] <=> \/ live[<<b, x>>] = 1
                               \/ \E u \in Users : step[u] = "refer" /\ hand[u] = b /\ index[u] = x
        /\ \A u \in Users : step[u] = "refer" => live[<<hand[u], index[u]>>] = 0
        /\ \A u, v \in Users : /\ u # v /\ step[u] = "refer" /\ step[v] = "refer"
                               => hand[u] # hand[v] \/ index[u] # index[v]
    BY DEF AllocatorInv, BitsMean
  <2>3. \A j \in Items : live'[j] = IF j = i THEN 1 ELSE live[j]
    BY <1>3, <1>4, <1>5
  <2>4. ASSUME NEW b \in Blocks, NEW x \in Bits
        PROVE  x \in bits'[b] <=> \/ live'[<<b, x>>] = 1
                                  \/ \E u \in Users : step'[u] = "refer" /\ hand'[u] = b /\ index'[u] = x
    <3>1. x \in bits'[b] <=> x \in bits[b]
      BY <1>1
    <3>2. (\E u \in Users : step[u] = "refer" /\ hand[u] = b /\ index[u] = x)
            <=> (b = h /\ x = k) \/ \E u \in Users : step'[u] = "refer" /\ hand'[u] = b /\ index'[u] = x
      <4> HIDE DEF h, k
      <4> QED
        BY <2>1
    <3>3. live'[<<b, x>>] = 1 <=> (b = h /\ x = k) \/ live[<<b, x>>] = 1
      <4>1. <<b, x>> \in Items /\ (<<b, x>> = i <=> b = h /\ x = k)
        BY DEF Items
      <4> HIDE DEF h, k, i
      <4> QED
        BY <2>3, <4>1
    <3>4. x \in bits[b] <=> \/ live[<<b, x>>] = 1
                            \/ \E u \in Users : step[u] = "refer" /\ hand[u] = b /\ index[u] = x
      BY <2>2
    <3> QED
      BY <3>1, <3>2, <3>3, <3>4
  <2>5. \A j \in Items : live'[j] \in {0, 1}
    BY <2>2, <2>3
  <2>6. ASSUME NEW u \in Users, step'[u] = "refer" PROVE live'[<<hand'[u], index'[u]>>] = 0
    <3>1. u # t /\ step[u] = "refer" /\ hand'[u] = hand[u] /\ index'[u] = index[u]
      BY <2>1, <2>6
    <3>2. <<hand[u], index[u]>> \in Items
      BY <3>1, TypesSay DEF FitsOf, Items
    <3>3. hand[u] # h \/ index[u] # k
      BY <2>1, <2>2, <3>1
    <3>4. <<hand[u], index[u]>> # i
      BY <3>3
    <3> HIDE DEF h, k, i
    <3> QED
      BY <2>2, <2>3, <3>1, <3>2, <3>4
  <2>7. \A u, v \in Users : /\ u # v /\ step'[u] = "refer" /\ step'[v] = "refer"
                             => hand'[u] # hand'[v] \/ index'[u] # index'[v]
    <3> HIDE DEF h, k
    <3> QED
      BY <2>1, <2>2
  <2> QED
    BY <2>4, <2>5, <2>6, <2>7 DEF BitsMean
<1> QED
  BY <1>6, <1>8, <1>9, <1>10, <1>11 DEF AllocatorInv, Stands

\* A client gives an item back.
LEMMA DeallocateStep ==
  ASSUME AllocatorInv, NEW t \in Users, Deallocate(t)
  PROVE  AllocatorInv'
<1>0. PICK i \in Items :
        /\ live[i] > 0
        /\ live' = [live EXCEPT ![i] = @ - 1]
        /\ bits' = [bits EXCEPT ![i[1]] = @ \ {i[2]}]
        /\ hand' = Set(hand, t, i[1])
  BY DEF Deallocate
<1> DEFINE h == i[1]
           k == i[2]
<1>1. /\ step[t] = "idle" /\ calls[t] < MaxCalls /\ calls' = [calls EXCEPT ![t] = @ + 1]
      /\ step' = [step EXCEPT ![t] = "recycle"]
      /\ recycled' = recycled /\ control' = control /\ count' = count /\ rest' = rest
      /\ index' = index /\ UNCHANGED <<refs, managed, used, giving>>
  BY DEF Deallocate, At, Goto, listVars
<1>2. ~Moves(t) /\ "recycle" \notin Moving /\ "recycle" \in StepNames
  BY <1>1 DEF Moves, Moving, StepNames
<1>3. h \in Blocks /\ k \in Bits /\ i = <<h, k>> /\ rest[t] = <<>> /\ hand[t] = NoBlock /\ index[t] \in Nat
  <2>1. h \in Blocks /\ k \in Bits /\ i = <<h, k>>
    BY DEF Items
  <2>2. rest[t] = <<>> /\ hand[t] = NoBlock /\ index[t] \in Nat
    BY <1>1, TypesSay DEF FitsOf
  <2> QED
    BY <2>1, <2>2
<1>4. live \in [Items -> Nat] /\ live[i] = 1 /\ bits \in [Blocks -> SUBSET Bits]
  <2>1. live[i] \in {0, 1}
    BY DEF AllocatorInv, BitsMean
  <2> QED
    BY <1>0, <2>1, TypesSay
<1>5. live' = [live EXCEPT ![i] = 0] /\ live' \in [Items -> Nat] /\ bits' \in [Blocks -> SUBSET Bits]
      /\ bits' = [bits EXCEPT ![h] = bits[h] \ {k}] /\ hand' = [hand EXCEPT ![t] = h]
  BY <1>0, <1>3, <1>4 DEF Set
<1> HIDE DEF h, k
<1>6. Stands(t, "recycle", index[t], h, <<>>)
  <2>1. <<>> \in Seq(Blocks)
    BY ListOfNone
  <2>2. calls' \in [Users -> 0..MaxCalls]
    <3>1. calls[t] + 1 \in 0..MaxCalls /\ calls \in [Users -> 0..MaxCalls]
      BY <1>1, Numbers, TypesSay
    <3> QED
      BY <1>1, <3>1
  <2>3. /\ control' \in [1..NControls -> Blocks \cup {NoBlock}] /\ count' \in Int
        /\ managed' \in [Blocks -> BOOLEAN] /\ refs' \in [Blocks -> Nat]
        /\ used' \subseteq Blocks /\ recycled' \in Seq(Blocks) /\ giving' \in [Users -> BOOLEAN]
        /\ rest' = [rest EXCEPT ![t] = <<>>] /\ index' = [index EXCEPT ![t] = index[t]]
    BY <1>1, <1>3, TypesSay
  <2> QED
    BY <1>1, <1>2, <1>3, <1>5, <2>1, <2>2, <2>3, StandsAfter DEF Goes
<1>7. ~Moves(t)' /\ Others(t) /\ rest'[t] = rest[t] /\ hand'[t] = h /\ step'[t] = "recycle"
  BY <1>2, <1>3, <1>6 DEF Stands, Moves, Moving
<1>8. Spots' /\ \A b : Spot(b)' <=> Spot(b)
  BY <1>1, <1>2, <1>7, SpotsStay DEF AllocatorInv
<1>9. HandsFit'
  <2>1. FitsOf(t)'
    BY <1>3, <1>6, Numbers DEF FitsOf, Stands
  <2> QED
    BY <1>6, <2>1, FitsStay DEF AllocatorInv, Stands
<1>10. Counts'
  <2>2. \A b \in Blocks : /\ Clients(live, b) \in Nat /\ Clients(live', b) \in Nat
                          /\ Clients(live', b) = IF b = h THEN Clients(live, b) - 1 ELSE Clients(live, b)
    <3> SUFFICES ASSUME NEW b \in Blocks
                 PROVE  /\ Clients(live, b) \in Nat /\ Clients(live', b) \in Nat
                        /\ Clients(live', b) = IF b = h THEN Clients(live, b) - 1 ELSE Clients(live, b)
      OBVIOUS
    <3>1. i[1] = h
      BY DEF h
    <3>2. Becomes(live, live', i, 0)
      BY <1>3, <1>4, <1>5 DEF Becomes
    <3>3. /\ Clients(live, b) \in Nat /\ Clients(live', b) \in Nat
          /\ i[1] # b => Clients(live', b) = Clients(live, b)
          /\ i[1] = b => Clients(live', b) = Clients(live, b) - live[i] + 0
      BY <3>2, ClientsBecome
    <3> QED
      BY <1>4, <3>1, <3>3
  <2>3. ASSUME NEW b \in Blocks
        PROVE  refs'[b] = refs[b] - One(Spot(b)) + One(Spot(b)') - One(hand[t] = b) + One(hand'[t] = b)
                                        - Clients(live, b) + Clients(live', b)
    <3>1. One(Spot(b)) = One(Spot(b)') /\ One(Spot(b)) \in Nat
      BY <1>8 DEF One
    <3>2. One(hand[t] = b) = 0 /\ One(hand'[t] = b) = IF b = h THEN 1 ELSE 0
      BY <1>3, <1>7, Numbers DEF One
    <3>3. refs[b] \in Nat /\ refs'[b] = refs[b]
      BY <1>1, TypesSay
    <3> QED
      BY <2>2, <3>1, <3>2, <3>3
  <2>4. used' = {b \in Blocks : refs'[b] > 0}
    BY <1>1 DEF AllocatorInv, Counts
  <2>5. AllocatorTypeOK'
    BY <1>6 DEF Stands
  <2> QED
    BY <1>7, <2>3, <2>4, <2>5, Balance
<1>11. BitsMean'
  <2>1. /\ \A u \in Users : step'[u] = "refer" <=> step[u] = "refer"
        /\ \A u \in Users : step[u] = "refer" => u # t /\ hand'[u] = hand[u] /\ index'[u] = index[u]
    BY <1>1, <1>6 DEF Stands, Others
  <2>2. /\ \A j \in Items : live[j] \in {0, 1}
        /\ \A b \in Blocks, x \in Bits :
             x \in bits[b] <=> \/ live[<<b, x>>] = 1
                               \/ \E u \in Users : step[u] = "refer" /\ hand[u] = b /\ index[u] = x
        /\ \A u \in Users : step[u] = "refer" => live[<<hand[u], index[u]>>] = 0
        /\ \A u, v \in Users : /\ u # v /\ step[u] = "refer" /\ step[v] = "refer"
                               => hand[u] # hand[v] \/ index[u] # index[v]
    BY DEF AllocatorInv, BitsMean
  <2>3. \A j \in Items : live'[j] = IF j = i THEN 0 ELSE live[j]
    BY <1>4, <1>5
  <2>4. ASSUME NEW b \in Blocks, NEW x \in Bits
        PROVE  x \in bits'[b] <=> \/ live'[<<b, x>>] = 1
                                  \/ \E u \in Users : step'[u] = "refer" /\ hand'[u] = b /\ index'[u] = x
    <3>1. x \in bits'[b] <=> x \in bits[b] /\ ~(b = h /\ x = k)
      BY <1>3, <1>4, <1>5
    <3>2. (\E u \in Users : step[u] = "refer" /\ hand[u] = b /\ index[u] = x)
            <=> \E u \in Users : step'[u] = "refer" /\ hand'[u] = b /\ index'[u] = x
      BY <2>1
    <3>3. live'[<<b, x>>] = 1 <=> ~(b = h /\ x = k) /\ live[<<b, x>>] = 1
      <4>1. <<b, x>> \in Items /\ (<<b, x>> = i <=> b = h /\ x = k)
        BY <1>3 DEF Items
      <4> QED
        BY <2>3, <4>1
    <3>4. x \in bits[b] <=> \/ live[<<b, x>>] = 1
                            \/ \E u \in Users : step[u] = "refer" /\ hand[u] = b /\ index[u] = x
      BY <2>2
    <3>5. ASSUME NEW u \in Users, step[u] = "refer", hand[u] = h, index[u] = k PROVE FALSE
      BY <1>3, <1>4, <2>2, <3>5
    <3> QED
      BY <3>1, <3>2, <3>3, <3>4, <3>5
  <2>5. \A j \in Items : live'[j] \in {0, 1}
    BY <2>2, <2>3
  <2>6. ASSUME NEW u \in Users, step'[u] = "refer" PROVE live'[<<hand'[u], index'[u]>>] = 0
    <3>1. step[u] = "refer" /\ hand'[u] = hand[u] /\ index'[u] = index[u]
      BY <2>1, <2>6
    <3>2. <<hand[u], index[u]>> \in Items
      BY <3>1, TypesSay DEF FitsOf, Items
    <3> QED
      BY <2>2, <2>3, <3>1, <3>2
  <2>7. \A u, v \in Users : /\ u # v /\ step'[u] = "refer" /\ step'[v] = "refer"
                             => hand'[u] # hand'[v] \/ index'[u] # index'[v]
    BY <2>1, <2>2
  <2> QED
    BY <2>4, <2>5, <2>6, <2>7 DEF BitsMean
<1> QED
  BY <1>6, <1>8, <1>9, <1>10, <1>11 DEF AllocatorInv, Stands

\* A block comes from the root allocator.
LEMMA RootStep ==
  ASSUME AllocatorInv, NEW t \in Users, TakeRoot(t)
  PROVE  AllocatorInv'
<1> DEFINE h == CHOOSE x \in Blocks \ used : TRUE
<1>1. /\ step[t] = "root" /\ refs' = [refs EXCEPT ![h] = 1] /\ managed' = [managed EXCEPT ![h] = FALSE]
      /\ bits' = [bits EXCEPT ![h] = {}] /\ used' = used \cup {h}
      /\ step' = [step EXCEPT ![t] = "word"] /\ hand' = [hand EXCEPT ![t] = h]
      /\ recycled' = recycled /\ control' = control /\ count' = count /\ rest' = rest
      /\ index' = index /\ UNCHANGED <<live, giving, calls>>
  BY DEF TakeRoot, At, Goto, Set, listVars
<1>2. h \in Blocks /\ h \notin used
  <2>1. Blocks \ used # {}
    BY TypesSay DEF TakeRoot
  <2> QED
    BY <2>1
<1> HIDE DEF h
<1>3. ~Moves(t) /\ "word" \notin Moving /\ "word" \in StepNames
  BY <1>1 DEF Moves, Moving, StepNames
<1>4. rest[t] = <<>> /\ hand[t] = NoBlock /\ index[t] \in Nat
  BY <1>1, TypesSay DEF FitsOf
<1>5. /\ refs[h] = 0 /\ ~Spot(h) /\ (\A u \in Users : hand[u] # h) /\ \A x \in Bits : live[<<h, x>>] = 0
  <2> DEFINE r == refs[h]
             s == One(Spot(h))
             c == Cardinality(Holders(h))
             n == Clients(live, h)
  <2>1. r = s + c + n /\ r \in Nat /\ s \in Nat /\ c \in Nat /\ n \in Nat /\ ~(r > 0)
    BY <1>2, RefsAre
  <2>2. r = 0 /\ s = 0 /\ n = 0
    <3> HIDE DEF r, s, c, n
    <3> QED
      BY <2>1
  <2>3. ~Spot(h)
    BY <2>2 DEF One
  <2>4. \A u \in Users : hand[u] # h
    BY <1>2, <2>2, RefsAre
  <2>5. live \in [Items -> Nat] /\ \A x \in Bits : live[<<h, x>>] <= n /\ <<h, x>> \in Items
    BY <1>2, TypesSay, SomeClient DEF Items
  <2> HIDE DEF n
  <2> QED
    BY <2>2, <2>3, <2>4, <2>5
<1>6. managed' = managed /\ bits' = bits
  <2>1. managed \in [Blocks -> BOOLEAN] /\ bits \in [Blocks -> SUBSET Bits]
    BY TypesSay
  <2>2. ~managed[h]
    <3>1. \A u \in Users : h \notin Lot(u)
      BY <1>5 DEF Lot, Spot
    <3> QED
      BY <1>2, <1>5, <3>1 DEF AllocatorInv, Spots, Managed, Spot
  <2>3. bits[h] = {}
    <3>1. \A x \in Bits : x \notin bits[h]
      <4>1. \A x \in Bits :
              x \in bits[h] <=> \/ live[<<h, x>>] = 1
                                \/ \E u \in Users : step[u] = "refer" /\ hand[u] = h /\ index[u] = x
        BY <1>2 DEF AllocatorInv, BitsMean
      <4>2. ASSUME NEW x \in Bits PROVE x \notin bits[h]
        <5>1. live[<<h, x>>] = 0 /\ ~ \E u \in Users : step[u] = "refer" /\ hand[u] = h /\ index[u] = x
          BY <1>5
        <5>2. live[<<h, x>>] # 1
          BY <5>1
        <5> QED
          BY <4>1, <5>1, <5>2
      <4> QED
        BY <4>2
    <3> QED
      BY <1>2, <2>1, <3>1
  <2>4. managed[h] = FALSE
    BY <1>2, <2>1, <2>2
  <2> QED
    BY <1>1, <2>1, <2>3, <2>4
<1>7. Stands(t, "word", index[t], h, <<>>)
  <2>1. <<>> \in Seq(Blocks)
    BY ListOfNone
  <2>2. refs' \in [Blocks -> Nat] /\ used' \subseteq Blocks
    <3>1. refs \in [Blocks -> Nat] /\ used \subseteq Blocks /\ 1 \in Nat
      BY TypesSay
    <3> QED
      BY <1>1, <1>2, <3>1
  <2>3. /\ control' \in [1..NControls -> Blocks \cup {NoBlock}] /\ count' \in Int
        /\ managed' \in [Blocks -> BOOLEAN] /\ bits' \in [Blocks -> SUBSET Bits] /\ live' \in [Items -> Nat]
        /\ recycled' \in Seq(Blocks) /\ giving' \in [Users -> BOOLEAN] /\ calls' \in [Users -> 0..MaxCalls]
        /\ rest' = [rest EXCEPT ![t] = <<>>] /\ index' = [index EXCEPT ![t] = index[t]]
    BY <1>1, <1>4, <1>6, TypesSay
  <2> QED
    BY <1>1, <1>2, <1>3, <1>4, <2>1, <2>2, <2>3, StandsAfter DEF Goes
<1>8. ~Moves(t)' /\ Others(t) /\ rest'[t] = rest[t] /\ hand'[t] = h /\ step'[t] = "word"
  BY <1>3, <1>4, <1>7 DEF Stands, Moves, Moving
<1>9. Spots' /\ \A b : Spot(b)' <=> Spot(b)
  BY <1>1, <1>3, <1>6, <1>8, SpotsStay DEF AllocatorInv
<1>10. HandsFit'
  <2>1. FitsOf(t)'
    BY <1>2, <1>4, <1>7, Numbers DEF FitsOf, Stands
  <2> QED
    BY <1>7, <2>1, FitsStay DEF AllocatorInv, Stands
<1>11. BitsMean'
  BY <1>1, <1>6, <1>8, BitsStay DEF AllocatorInv
<1>12. Counts'
  <2>1. refs \in [Blocks -> Nat] /\ \A b \in Blocks : refs'[b] = IF b = h THEN 1 ELSE refs[b]
    BY <1>1, <1>2, TypesSay
  <2>2. ASSUME NEW b \in Blocks
        PROVE  refs'[b] = refs[b] - One(Spot(b)) + One(Spot(b)') - One(hand[t] = b) + One(hand'[t] = b)
                                        - Clients(live, b) + Clients(live', b)
    <3>1. One(Spot(b)) = One(Spot(b)') /\ One(Spot(b)) \in Nat
      BY <1>9 DEF One
    <3>2. One(hand[t] = b) = 0 /\ One(hand'[t] = b) = IF b = h THEN 1 ELSE 0
      BY <1>4, <1>8, Numbers DEF One
    <3>3. Clients(live, b) \in Nat /\ Clients(live', b) = Clients(live, b)
      BY <1>1, RefsAre
    <3> QED
      BY <1>5, <2>1, <3>1, <3>2, <3>3
  <2>3. used' = {b \in Blocks : refs'[b] > 0}
    <3>1. used = {b \in Blocks : refs[b] > 0}
      BY DEF AllocatorInv, Counts
    <3> QED
      BY <1>1, <1>2, <2>1, <3>1
  <2>4. AllocatorTypeOK'
    BY <1>7 DEF Stands
  <2> QED
    BY <1>8, <2>2, <2>3, <2>4, Balance
<1> QED
  BY <1>7, <1>9, <1>10, <1>11, <1>12 DEF AllocatorInv, Stands

\* A reference to a block is dropped.
LEMMA DropStep ==
  ASSUME AllocatorInv, NEW t \in Users, DropBlock(t)
  PROVE  AllocatorInv'
<1> DEFINE h == hand[t]
           l == IF giving[t] THEN "slot" ELSE "idle"
           k == IF giving[t] THEN 1 ELSE index[t]
<1>1. /\ step[t] = "drop" /\ refs' = [refs EXCEPT ![h] = @ - 1]
      /\ used' = IF refs[h] = 1 THEN used \ {h} ELSE used
      /\ step' = [step EXCEPT ![t] = l] /\ hand' = [hand EXCEPT ![t] = NoBlock]
      /\ recycled' = recycled /\ control' = control /\ count' = count /\ rest' = rest
      /\ UNCHANGED <<managed, bits, live, giving, calls>>
  BY DEF DropBlock, At, Goto, Set, Done, Scan, listVars
<1>2. index' = [index EXCEPT ![t] = k] /\ k \in Nat /\ (l = "slot" => k \in 1..NControls)
  <2>1. index \in [Users -> Nat] /\ giving[t] \in BOOLEAN
    BY TypesSay
  <2>2. CASE giving[t]
    BY <2>2, Numbers DEF DropBlock, Scan, Set
  <2>3. CASE ~giving[t]
    BY <2>1, <2>3 DEF DropBlock
  <2> QED
    BY <2>2, <2>3
<1>3. l \in {"slot", "idle"} /\ l \notin Moving /\ l \in StepNames /\ ~Moves(t)
  BY <1>1 DEF Moves, Moving, StepNames
<1>4. h \in Blocks /\ rest[t] = <<>>
  BY <1>1, TypesSay DEF FitsOf
<1>5. refs \in [Blocks -> Nat] /\ refs[h] \in Nat /\ refs[h] >= 1
  BY <1>4, RefsAre, TypesSay
<1> HIDE DEF h, k, l
<1>6. \A b \in Blocks : refs'[b] = IF b = h THEN refs[b] - 1 ELSE refs[b]
  BY <1>1, <1>4, <1>5
<1>7. Stands(t, l, k, NoBlock, <<>>)
  <2>1. <<>> \in Seq(Blocks)
    BY ListOfNone
  <2>2. refs' \in [Blocks -> Nat]
    <3>1. refs[h] - 1 \in Nat
      BY <1>5
    <3> QED
      BY <1>1, <1>5, <3>1
  <2>3. /\ control' \in [1..NControls -> Blocks \cup {NoBlock}] /\ count' \in Int
        /\ managed' \in [Blocks -> BOOLEAN] /\ bits' \in [Blocks -> SUBSET Bits] /\ live' \in [Items -> Nat]
        /\ used' \subseteq Blocks
        /\ recycled' \in Seq(Blocks) /\ giving' \in [Users -> BOOLEAN] /\ calls' \in [Users -> 0..MaxCalls]
        /\ rest' = [rest EXCEPT ![t] = <<>>]
    BY <1>1, <1>4, TypesSay
  <2> QED
    BY <1>1, <1>2, <1>3, <2>1, <2>2, <2>3, StandsAfter DEF Goes
<1>8. ~Moves(t)' /\ Others(t) /\ rest'[t] = rest[t] /\ hand'[t] = NoBlock /\ step'[t] = l
  BY <1>3, <1>4, <1>7 DEF Stands, Moves, Moving
<1>9. Spots' /\ \A b : Spot(b)' <=> Spot(b)
  BY <1>1, <1>3, <1>8, SpotsStay DEF AllocatorInv
<1>10. HandsFit'
  <2>1. FitsOf(t)'
    BY <1>2, <1>3, <1>7 DEF FitsOf, Stands
  <2> QED
    BY <1>7, <2>1, FitsStay DEF AllocatorInv, Stands
<1>11. BitsMean'
  BY <1>1, <1>3, <1>8, BitsStay DEF AllocatorInv
<1>12. Counts'
  <2>1. ASSUME NEW b \in Blocks
        PROVE  refs'[b] = refs[b] - One(Spot(b)) + One(Spot(b)') - One(hand[t] = b) + One(hand'[t] = b)
                                        - Clients(live, b) + Clients(live', b)
    <3>1. One(Spot(b)) = One(Spot(b)') /\ One(Spot(b)) \in Nat
      BY <1>9 DEF One
    <3>2. One(hand'[t] = b) = 0 /\ One(hand[t] = b) = IF b = h THEN 1 ELSE 0
      BY <1>8, Numbers DEF One, h
    <3>3. Clients(live, b) \in Nat /\ Clients(live', b) = Clients(live, b) /\ refs[b] \in Nat
      BY <1>1, RefsAre
    <3> QED
      BY <1>6, <3>1, <3>2, <3>3
  <2>2. used' = {b \in Blocks : refs'[b] > 0}
    <3>1. used = {b \in Blocks : refs[b] > 0}
      BY DEF AllocatorInv, Counts
    <3> QED
      BY <1>1, <1>4, <1>5, <1>6, <3>1
  <2>3. AllocatorTypeOK'
    BY <1>7 DEF Stands
  <2> QED
    BY <1>8, <2>1, <2>2, <2>3, Balance
<1> QED
  BY <1>7, <1>9, <1>10, <1>11, <1>12 DEF AllocatorInv, Stands

\* Every step keeps the invariant.
LEMMA AllocatorStepKeeps == ASSUME AllocatorInv, AllocatorNext PROVE AllocatorInv'
<1>1. PICK t \in Users : AllocateItem(t) \/ Deallocate(t) \/ AllocatorStep(t)
  BY DEF AllocatorNext
<1>2. CASE QuietStep(t)
  BY <1>2, QuietSteps
<1>3. CASE TakeSlot(t)
  BY <1>2, <1>3, SlotStep DEF QuietStep
<1>4. CASE TakeList(t)
  BY <1>2, <1>4, ListStep DEF QuietStep
<1>5. CASE PutBack(t)
  BY <1>2, <1>5, RestStep DEF QuietStep
<1>6. CASE PutSlot(t)
  BY <1>2, <1>6, FillStep DEF QuietStep
<1>7. CASE PushBack(t)
  BY <1>7, PushBackStep
<1>8. CASE Unmanage(t)
  BY <1>8, UnmanageStep
<1>9. CASE TakeRoot(t)
  BY <1>9, RootStep
<1>10. CASE SetBit(t)
  BY <1>10, SetStep
<1>11. CASE Refer(t)
  BY <1>11, ReferStep
<1>12. CASE Manage(t)
  BY <1>12, ManageStep
<1>13. CASE PushList(t)
  BY <1>13, PushStep
<1>14. CASE DropBlock(t)
  BY <1>14, DropStep
<1>15. CASE Deallocate(t)
  BY <1>15, DeallocateStep
<1> QED
  BY <1>1, <1>2, <1>3, <1>4, <1>5, <1>6, <1>7, <1>8, <1>9, <1>10, <1>11, <1>12, <1>13, <1>14, <1>15
     DEF AllocatorStep, QuietStep

\* A step that changes nothing here keeps the invariant.
LEMMA AllocatorStutters == ASSUME AllocatorInv, UNCHANGED allocatorVars PROVE AllocatorInv'
<1> USE DEF allocatorVars
<1>1. AllocatorTypeOK' /\ HandsFit'
  BY DEF AllocatorInv, AllocatorTypeOK, HandsFit, FitsOf
<1>2. \A b : InSlot(b)' <=> InSlot(b)
  BY DEF InSlot
<1>3. \A t : Lot(t)' = Lot(t) /\ (Moves(t)' <=> Moves(t))
  BY DEF Lot, Moves
<1>4. Spots'
  BY <1>2, <1>3 DEF AllocatorInv, Spots, LotOnce, LotApart, LotsApart, SlotsOnce, ListApart, Managed, Once
<1>5. BitsMean'
  BY DEF AllocatorInv, BitsMean
<1>6. Counts'
  <2>1. \A b \in Blocks : Holders(b)' = Holders(b) /\ InClients(b)' = InClients(b) /\ (Spot(b)' <=> Spot(b))
    BY <1>2, ClientsAre DEF Holders, Spot
  <2> QED
    BY <2>1 DEF AllocatorInv, Counts, One
<1> QED
  BY <1>1, <1>4, <1>5, <1>6 DEF AllocatorInv

(***************************************************************************)
(* The start                                                               *)
(***************************************************************************)
\* Threads at rest.
LEMMA RestHolds ==
  ASSUME NEW taken \in SUBSET Blocks, NEW first, NEW listed \in Seq(Blocks), NEW made \in 0..MaxCalls,
         AtRest(taken, first, listed, made), Once(listed), Range(listed) \subseteq taken,
         first = NoBlock \/ first \in taken, first \notin Range(listed)
  PROVE  AllocatorInv
<1> USE DEF AtRest
<1>0. 1 \in 1..NControls /\ 1 \in Nat /\ 0 \in Nat /\ NoBlock \notin Blocks
  BY Numbers
<1>1. managed \in [Blocks -> BOOLEAN] /\ bits \in [Blocks -> SUBSET Bits]
      /\ \A b \in Blocks : /\ managed[b] <=> b = first \/ b \in Range(listed)
                           /\ bits[b] = IF b \in taken \ Range(listed) THEN Bits ELSE {}
  OBVIOUS
<1>2. /\ live \in [Items -> Nat]
      /\ \A b \in Blocks, x \in Bits :
           <<b, x>> \in Items /\ live[<<b, x>>] = IF x \in bits[b] THEN 1 ELSE 0
  BY DEF Items
<1>3. Cardinality(Bits) \in Nat /\ Cardinality(Bits) > 0
  <2>1. IsFiniteSet(Bits) /\ Bits # {}
    BY AllocatorAssumption
  <2> QED
    BY <2>1, FS_CardinalityType, FS_EmptySet
<1>4. \A b \in Blocks : refs[b] = Cardinality(bits[b]) + One(managed[b]) /\ Cardinality(bits[b]) \in Nat
  <2>1. Cardinality({}) = 0
    BY FS_EmptySet
  <2>2. \A b \in Blocks : Cardinality(bits[b]) \in Nat
    BY <1>1, <1>3, <2>1
  <2> QED
    BY <2>2 DEF One
<1>5. refs \in [Blocks -> Nat]
  <2>1. \A b \in Blocks : One(managed[b]) \in Nat
    BY DEF One
  <2>2. \A b \in Blocks : refs[b] \in Nat
    BY <1>4, <2>1
  <2> QED
    BY <2>2
<1>6. /\ \A t \in Users : step[t] = "idle" /\ hand[t] = NoBlock /\ index[t] = 0 /\ rest[t] = <<>>
      /\ step \in [Users -> StepNames] /\ hand \in [Users -> Blocks \cup {NoBlock}]
      /\ index \in [Users -> Nat] /\ rest \in [Users -> Seq(Blocks)] /\ giving \in [Users -> BOOLEAN]
      /\ calls \in [Users -> 0..MaxCalls]
  <2>1. <<>> \in Seq(Blocks)
    BY ListOfNone
  <2> QED
    BY <2>1 DEF StepNames
<1>7. control \in [1..NControls -> Blocks \cup {NoBlock}] /\ count \in Int
      /\ \A n \in 1..NControls : control[n] = IF n = 1 THEN first ELSE NoBlock
  <2>1. Len(listed) \in Int
    OBVIOUS
  <2> QED
    BY <2>1
<1>8. AllocatorTypeOK
  BY <1>1, <1>2, <1>5, <1>6, <1>7 DEF AllocatorTypeOK, StepNames
<1>9. HandsFit
  <2>1. \A t \in Users : FitsOf(t)
    BY <1>6 DEF FitsOf
  <2> QED
    BY <1>6, <2>1 DEF HandsFit
<1>10. \A b \in Blocks : InSlot(b) <=> b = first
  BY <1>0, <1>7 DEF InSlot
<1>11. \A t \in Users : Lot(t) = {} /\ ~Moves(t) /\ Range(rest[t]) = {}
  <2>1. \A t \in Users : ~Moves(t)
    BY <1>6 DEF Moves
  <2> QED
    BY <1>6, <2>1, ListOfNone DEF Lot
<1>12. \A b \in Blocks : managed[b] <=> Managed(b)
  BY <1>1, <1>10, <1>11 DEF Managed
<1>13. Spots
  <2>1. SlotsOnce
    BY <1>7 DEF SlotsOnce
  <2>2. ListApart
    BY <1>10 DEF ListApart
  <2>3. \A t \in Users : LotOnce(t) /\ LotApart(t)
    BY <1>6, <1>11, ListOfNone DEF LotOnce, LotApart
  <2>4. LotsApart
    BY <1>11 DEF LotsApart
  <2> QED
    BY <1>12, <2>1, <2>2, <2>3, <2>4 DEF Spots
<1>14. BitsMean
  <2>1. \A i \in Items : live[i] \in {0, 1}
    BY DEF Items
  <2>2. \A t \in Users : step[t] # "refer"
    BY <1>6
  <2>3. ASSUME NEW b \in Blocks, NEW x \in Bits PROVE x \in bits[b] <=> live[<<b, x>>] = 1
    <3>1. live[<<b, x>>] = IF x \in bits[b] THEN 1 ELSE 0
      BY <1>2
    <3> QED
      BY <3>1
  <2>4. \A b \in Blocks, x \in Bits :
          x \in bits[b] <=> \/ live[<<b, x>>] = 1
                            \/ \E t \in Users : step[t] = "refer" /\ hand[t] = b /\ index[t] = x
    BY <2>2, <2>3
  <2> QED
    BY <2>1, <2>2, <2>4 DEF BitsMean
<1>15. ASSUME NEW b \in Blocks PROVE Clients(live, b) = Cardinality(bits[b])
  <2> DEFINE B == {b} \X Bits
  <2>1. IsFiniteSet(B) /\ Cardinality(B) = Cardinality(Bits)
    BY ItemsFinite
  <2>2. \A i \in B : live[i] = IF i[2] \in bits[b] THEN 1 ELSE 0
    BY DEF Items
  <2>3. CASE bits[b] = Bits
    <3>1. \A i \in B : live[i] = 1
      BY <2>2, <2>3
    <3> HIDE DEF B
    <3>2. SumFunctionOnSet(live, B) = Cardinality(B)
      BY <2>1, <3>1, SumOnes
    <3> QED
      BY <2>1, <2>3, <3>2 DEF Clients, B
  <2>4. CASE bits[b] = {}
    <3>1. \A i \in B : live[i] = 0
      BY <2>2, <2>4
    <3> HIDE DEF B
    <3>2. SumFunctionOnSet(live, B) = 0
      BY <2>1, <3>1, SumZero
    <3> QED
      BY <2>4, <3>2, FS_EmptySet DEF Clients, B
  <2> QED
    BY <1>1, <2>3, <2>4
<1>16. Counts
  <2>1. \A b \in Blocks : Spot(b) <=> managed[b]
    BY <1>1, <1>10, <1>11 DEF Spot
  <2>2. \A b \in Blocks : Cardinality(Holders(b)) = 0
    <3>1. \A b \in Blocks : Holders(b) = {}
      BY <1>0, <1>6 DEF Holders
    <3> QED
      BY <3>1, FS_EmptySet
  <2>3. ASSUME NEW b \in Blocks
        PROVE  refs[b] = One(Spot(b)) + Cardinality(Holders(b)) + InClients(b)
    <3>1. refs[b] = Cardinality(bits[b]) + One(managed[b]) /\ Cardinality(bits[b]) \in Nat
      BY <1>4
    <3>2. One(managed[b]) = One(Spot(b)) /\ One(Spot(b)) \in Nat
      BY <2>1 DEF One
    <3>3. InClients(b) = Cardinality(bits[b])
      BY <1>15, ClientsAre
    <3> QED
      BY <2>2, <3>1, <3>2, <3>3
  <2>4. ASSUME NEW b \in Blocks PROVE b \in taken <=> refs[b] > 0
    <3>1. Cardinality({}) = 0
      BY FS_EmptySet
    <3>2. b \in taken \ Range(listed) => Cardinality(bits[b]) = Cardinality(Bits)
      BY <1>1
    <3>3. b \notin taken \ Range(listed) => Cardinality(bits[b]) = 0
      BY <1>1, <3>1
    <3>4. b \in Range(listed) => One(managed[b]) = 1
      BY <1>1 DEF One
    <3>5. b \notin taken => One(managed[b]) = 0
      BY <1>0, <1>1 DEF One
    <3>6. One(managed[b]) \in Nat
      BY DEF One
    <3> QED
      BY <1>3, <1>4, <3>2, <3>3, <3>4, <3>5, <3>6
  <2>5. used = {b \in Blocks : refs[b] > 0}
    BY <2>4
  <2> QED
    BY <2>3, <2>5 DEF Counts
<1> QED
  BY <1>8, <1>9, <1>13, <1>14, <1>16 DEF AllocatorInv

\* The invariant holds at the start, and where blocks are in every place.
LEMMA AllocatorStarts == AllocatorInit => AllocatorInv
<1>1. ASSUME AtRest({}, NoBlock, <<>>, 0) PROVE AllocatorInv
  <2>1. /\ {} \in SUBSET Blocks /\ 0 \in 0..MaxCalls /\ <<>> \in Seq(Blocks) /\ Once(<<>>) /\ Range(<<>>) \subseteq {}
        /\ NoBlock \notin Range(<<>>)
    BY Numbers, ListOfNone
  <2> QED
    BY <1>1, <2>1, RestHolds
<1>2. ASSUME NEW order, order = CHOOSE f \in [1..Cardinality(Blocks) -> Blocks] : IsInjective(f),
             AtRest(Blocks, order[1], Tail(Tail(order)), Late)
      PROVE  AllocatorInv
  <2> DEFINE n == Cardinality(Blocks)
  <2>1. n \in Nat /\ n > 1 /\ \E f \in [1..n -> Blocks] : IsInjective(f)
    <3>1. n \in Nat /\ ExistsBijection(1..n, Blocks) /\ n > 1
      BY AllocatorAssumption, FS_CardinalityType
    <3> HIDE DEF n
    <3> QED
      BY <3>1 DEF ExistsBijection, Bijection, Injection
  <2>2. order \in [1..n -> Blocks] /\ IsInjective(order)
    BY <1>2, <2>1
  <2> HIDE DEF n
  <2>3. order \in Seq(Blocks) /\ Once(order) /\ Len(order) = n /\ order # <<>>
    BY <2>1, <2>2 DEF IsInjective, Once
  <2>4. /\ Head(order) = order[1] /\ order[1] \in Blocks /\ Tail(order) \in Seq(Blocks) /\ Once(Tail(order))
        /\ order[1] \notin Range(Tail(order)) /\ Len(Tail(order)) = n - 1
    <3>1. Head(order) = order[1] /\ Len(Tail(order)) = n - 1
      BY <2>1, <2>3
    <3>2. Head(order) \in Blocks /\ Tail(order) \in Seq(Blocks) /\ Once(Tail(order)) /\ Head(order) \notin Range(Tail(order))
      BY <2>3, ListOnce
    <3> QED
      BY <3>1, <3>2
  <2> DEFINE T == Tail(order)
             L == Tail(T)
  <2>5. T # <<>> /\ T \in Seq(Blocks) /\ Once(T)
    <3>1. T \in Seq(Blocks) /\ Once(T) /\ Len(T) = n - 1
      BY <2>4
    <3>2. Len(<<>>) = 0 /\ n - 1 # 0
      BY <2>1
    <3> HIDE DEF T
    <3> QED
      BY <3>1, <3>2
  <2>6. L \in Seq(Blocks) /\ Once(L) /\ Range(L) \subseteq Blocks /\ order[1] \notin Range(L)
    <3>1. L \in Seq(Blocks) /\ Once(L) /\ Range(T) = {Head(T)} \cup Range(L) /\ Range(T) \subseteq Blocks
      <4> HIDE DEF T
      <4> QED
        BY <2>5, ListOnce
    <3> QED
      BY <2>4, <3>1
  <2>7. Late \in 0..MaxCalls /\ Blocks \in SUBSET Blocks
    BY AllocatorAssumption
  <2>8. AtRest(Blocks, order[1], L, Late)
    BY <1>2
  <2> HIDE DEF L
  <2> QED
    BY <2>4, <2>6, <2>7, <2>8, RestHolds
<1> QED
  BY <1>1, <1>2 DEF AllocatorInit

(***************************************************************************)
(* What follows                                                            *)
(***************************************************************************)
\* The invariant holds of every state.
THEOREM AllocatorSound == AllocatorSpec => []AllocatorInv
<1>1. AllocatorInit => AllocatorInv
  BY AllocatorStarts
<1>2. AllocatorInv /\ [AllocatorNext]_allocatorVars => AllocatorInv'
  BY AllocatorStepKeeps, AllocatorStutters
<1> QED
  BY <1>1, <1>2, PTL DEF AllocatorSpec

\* Two sets that have one element together.
LEMMA OneOfTwo ==
  ASSUME NEW A, NEW B,
         \A x, y \in A : x = y, \A x, y \in B : x = y, A = {} \/ B = {}
  PROVE  /\ Cardinality(A) \in Nat /\ Cardinality(B) \in Nat
         /\ Cardinality(A) + Cardinality(B) = One(A # {} \/ B # {})
<1>1. ASSUME NEW C, \A x, y \in C : x = y PROVE Cardinality(C) = One(C # {})
  <2>1. CASE C = {}
    BY <2>1, FS_EmptySet DEF One
  <2>2. CASE C # {}
    <3>1. PICK x \in C : TRUE
      BY <2>2
    <3>2. C = {x}
      BY <1>1, <3>1
    <3> QED
      BY <3>2, FS_Singleton DEF One
  <2> QED
    BY <2>1, <2>2
<1>2. Cardinality(A) = One(A # {}) /\ Cardinality(B) = One(B # {})
  BY <1>1
<1> QED
  BY <1>2 DEF One

\* The places that a block has, and the threads that have taken it, are one if it is counted for that.
LEMMA PlacesAre ==
  ASSUME AllocatorInv, NEW b \in Blocks
  PROVE  Cardinality(Places(b)) + Cardinality(TakenBy(b)) = One(Spot(b))
         /\ Cardinality(Places(b)) \in Nat /\ Cardinality(TakenBy(b)) \in Nat
         /\ (Places(b) # {} <=> b \in Range(recycled) \/ InSlot(b))
<1> DEFINE P == {"slot"} \X {n \in 1..NControls : control[n] = b}
           L == {"list"} \X {i \in DOMAIN recycled : recycled[i] = b}
<1>1. /\ \A x \in P : x[1] = "slot" /\ x = <<x[1], x[2]>> /\ x[2] \in 1..NControls /\ control[x[2]] = b
      /\ \A x \in L : x[1] = "list" /\ x = <<x[1], x[2]>> /\ x[2] \in DOMAIN recycled /\ recycled[x[2]] = b
  OBVIOUS
<1>2. P # {} <=> InSlot(b)
  <2>1. \A n \in 1..NControls : control[n] = b => <<"slot", n>> \in P
    OBVIOUS
  <2> HIDE DEF P
  <2> QED
    BY <1>1, <2>1 DEF InSlot
<1>3. L # {} <=> b \in Range(recycled)
  <2>1. \A i \in DOMAIN recycled : recycled[i] = b => <<"list", i>> \in L
    OBVIOUS
  <2>2. b \in Range(recycled) <=> \E i \in DOMAIN recycled : recycled[i] = b
    BY DEF Range
  <2>3. \A x \in L : x[2] \in DOMAIN recycled /\ recycled[x[2]] = b
    BY <1>1
  <2> HIDE DEF L
  <2> QED
    BY <2>1, <2>2, <2>3
<1>4. b # NoBlock
  BY Numbers
<1>5. \A x, y \in P : x = y
  <2>1. \A x, y \in P : x[2] = y[2]
    BY <1>1, <1>4 DEF AllocatorInv, Spots, SlotsOnce
  <2> HIDE DEF P
  <2> QED
    BY <1>1, <2>1
<1>6. \A x, y \in L : x = y
  <2>1. \A x, y \in L : x[2] = y[2]
    BY <1>1 DEF AllocatorInv, Spots, ListApart, Once
  <2> HIDE DEF L
  <2> QED
    BY <1>1, <2>1
<1>7. P = {} \/ L = {}
  <2>1. b \in Range(recycled) => ~InSlot(b)
    BY DEF AllocatorInv, Spots, ListApart
  <2> QED
    BY <1>2, <1>3, <2>1
<1>8. Places(b) = P \cup L
  BY DEF Places
<1>9. TakenBy(b) = {t \in Users : b \in Range(rest[t])}
  BY DEF TakenBy, Range
<1> HIDE DEF P, L
<1>10. \A t \in TakenBy(b) : t \in Users /\ b \in Lot(t)
  BY <1>9 DEF Lot
<1>11. \A t, u \in TakenBy(b) : t = u
  BY <1>10 DEF AllocatorInv, Spots, LotsApart
<1>12. \A x, y \in Places(b) : x = y
  BY <1>5, <1>6, <1>7, <1>8
<1>13. TakenBy(b) = {} \/ Places(b) = {}
  <2>1. ASSUME NEW t \in TakenBy(b) PROVE P = {} /\ L = {}
    <3>1. b \notin Range(recycled) /\ ~InSlot(b)
      BY <1>10 DEF AllocatorInv, Spots, LotApart
    <3> QED
      BY <1>2, <1>3, <3>1
  <2> QED
    BY <1>8, <2>1
<1>14. Spot(b) <=> Places(b) # {} \/ TakenBy(b) # {}
  BY <1>2, <1>3, <1>8, <1>9 DEF Spot
<1>15. /\ Cardinality(Places(b)) \in Nat /\ Cardinality(TakenBy(b)) \in Nat
       /\ Cardinality(Places(b)) + Cardinality(TakenBy(b)) = One(Places(b) # {} \/ TakenBy(b) # {})
  BY <1>11, <1>12, <1>13, OneOfTwo
<1>16. Places(b) # {} <=> b \in Range(recycled) \/ InSlot(b)
  BY <1>2, <1>3, <1>8
<1> QED
  BY <1>14, <1>15, <1>16 DEF One

\* Whoever may touch a block is counted, no block is in two places, and none is lost.
THEOREM BlocksStayKept == AllocatorSpec => []BlocksKept
<1>1. ASSUME AllocatorInv PROVE BlocksKept
  <2>1. ASSUME NEW b \in used
        PROVE  refs[b] = Cardinality(Places(b)) + Cardinality(TakenBy(b)) + Cardinality(Holders(b)) + InClients(b)
    <3>1. b \in Blocks
      BY <1>1, TypesSay
    <3>2. refs[b] = One(Spot(b)) + Cardinality(Holders(b)) + InClients(b)
      BY <1>1, <3>1 DEF AllocatorInv, Counts
    <3>3. Cardinality(Places(b)) + Cardinality(TakenBy(b)) = One(Spot(b))
      BY <1>1, <3>1, PlacesAre
    <3> QED
      BY <3>2, <3>3
  <2>2. ASSUME NEW b \in Blocks
        PROVE  Cardinality(Places(b)) + Cardinality(TakenBy(b)) <= IF b \in used THEN 1 ELSE 0
    <3>1. Cardinality(Places(b)) + Cardinality(TakenBy(b)) = One(Spot(b))
      BY <1>1, PlacesAre
    <3>2. Spot(b) => b \in used
      <4> DEFINE r == refs[b]
                 c == Cardinality(Holders(b))
                 n == Clients(live, b)
      <4>1. r = One(Spot(b)) + c + n /\ c \in Nat /\ n \in Nat /\ (b \in used <=> r > 0)
        BY <1>1, RefsAre
      <4> HIDE DEF r, c, n
      <4> QED
        BY <4>1 DEF One
    <3> QED
      BY <3>1, <3>2 DEF One
  <2>3. ASSUME \A t \in Users : At(t, "idle"), NEW b \in used
        PROVE  Places(b) # {} \/ InClients(b) > 0
    <3>1. b \in Blocks
      BY <1>1, TypesSay
    <3>2. \A t \in Users : hand[t] = NoBlock /\ rest[t] = <<>>
      BY <1>1, <2>3, TypesSay DEF FitsOf, At
    <3>3. Holders(b) = {}
      BY <3>1, <3>2, Numbers DEF Holders
    <3>4. Spot(b) <=> Places(b) # {}
      <4>1. \A t \in Users : Range(rest[t]) = {}
        BY <3>2, ListOfNone
      <4>2. Places(b) # {} <=> b \in Range(recycled) \/ InSlot(b)
        BY <1>1, <3>1, PlacesAre
      <4> QED
        BY <4>1, <4>2 DEF Spot
    <3>5. /\ refs[b] = One(Spot(b)) + Cardinality(Holders(b)) + Clients(live, b)
          /\ refs[b] \in Nat /\ refs[b] > 0 /\ Clients(live, b) \in Nat
      BY <1>1, <3>1, RefsAre
    <3>6. Cardinality(Holders(b)) = 0
      BY <3>3, FS_EmptySet
    <3>7. InClients(b) = Clients(live, b)
      BY ClientsAre
    <3> QED
      BY <3>4, <3>5, <3>6, <3>7 DEF One
  <2> QED
    BY <2>1, <2>2, <2>3 DEF BlocksKept
<1> QED
  BY <1>1, AllocatorSound, PTL

\* An item that is given is nobody's, and what a client gives back it has: the allocator is a heap.
THEOREM ItemsGivenOnce == AllocatorSpec => RefinesHeap
<1>1. ASSUME AllocatorInv PROVE live \in [Items -> 0..1]
  <2>1. live \in [Items -> Nat] /\ \A i \in Items : live[i] \in {0, 1}
    BY <1>1, TypesSay DEF AllocatorInv, BitsMean
  <2>2. \A i \in Items : live[i] \in 0..1
    BY <2>1
  <2> QED
    BY <2>1, <2>2
<1>2. AllocatorInit => TheHeap!Init
  BY <1>1, AllocatorStarts DEF TheHeap!Init
<1>3. ASSUME AllocatorInv, [AllocatorNext]_allocatorVars PROVE [TheHeap!Next]_live
  <2>1. CASE UNCHANGED allocatorVars
    BY <2>1 DEF allocatorVars
  <2>2. CASE AllocatorNext
    <3>1. PICK t \in Users : AllocateItem(t) \/ Deallocate(t) \/ AllocatorStep(t)
      BY <2>2 DEF AllocatorNext
    <3>2. CASE Refer(t)
      <4> DEFINE i == <<hand[t], index[t]>>
      <4>1. step[t] = "refer" /\ live' = [live EXCEPT ![i] = @ + 1]
        BY <3>2 DEF Refer, At
      <4>2. i \in Items /\ live[i] = 0
        <5>1. hand[t] \in Blocks /\ index[t] \in Bits
          BY <1>3, <4>1, TypesSay DEF FitsOf
        <5>2. live[<<hand[t], index[t]>>] = 0
          BY <1>3, <4>1 DEF AllocatorInv, BitsMean
        <5> QED
          BY <5>1, <5>2 DEF Items
      <4>3. live' = [live EXCEPT ![i] = 1]
        <5> HIDE DEF i
        <5> QED
          BY <4>1, <4>2
      <4> QED
        BY <4>2, <4>3 DEF TheHeap!Next, TheHeap!Give
    <3>3. CASE Deallocate(t)
      <4>1. PICK i \in Items : live[i] > 0 /\ live' = [live EXCEPT ![i] = @ - 1]
        BY <3>3 DEF Deallocate
      <4>2. live[i] = 1
        BY <1>1, <1>3, <4>1
      <4>3. live' = [live EXCEPT ![i] = 0]
        BY <4>1, <4>2
      <4> QED
        BY <4>2, <4>3 DEF TheHeap!Next, TheHeap!Take
    <3>4. CASE AllocateItem(t) \/ (AllocatorStep(t) /\ ~Refer(t))
      <4>1. live' = live
        BY <3>4 DEF AllocateItem, AllocatorStep, TakeSlot, TakeList, PutBack, PushBack, Popped, Unmanage,
                    TakeRoot, LoadWord, SetBit, Recycle, Manage, PutSlot, CountSlots, PushList, DropBlock
      <4> QED
        BY <4>1
    <3> QED
      BY <3>1, <3>2, <3>3, <3>4
  <2> QED
    BY <1>3, <2>1, <2>2
<1> QED
  BY <1>2, <1>3, AllocatorSound, PTL DEF AllocatorSpec, RefinesHeap, TheHeap!Spec

(***************************************************************************)
(* Quick lists: node k of a list has the indices between two multiples of  *)
(* the number of slots, and the next node those that follow.               *)
(***************************************************************************)
Mark(n, j) == n * j

LEMMA Marks ==
  ASSUME NEW n \in Nat \ {0}, NEW j \in Nat
  PROVE  Mark(n, j) \in Nat /\ Mark(n, j + 1) = Mark(n, j) + n
BY DEF Mark

LEMMA Between ==
  ASSUME NEW n \in Nat \ {0}, NEW j \in Nat, NEW i \in Nat, Mark(n, j) <= i,
         i < Mark(n, j) + n
  PROVE  i \div n = j /\ (i % n) = i - Mark(n, j)
<1> DEFINE d == i - Mark(n, j)
<1>1. d \in 0..(n - 1) /\ i = n * j + d
  BY Marks DEF Mark
<1> HIDE DEF d
<1>2. (n * j + d) \div n = j /\ (n * j + d) % n = d
  BY <1>1
<1> QED
  BY <1>1, <1>2 DEF d

LEMMA MarkOf ==
  ASSUME NEW n \in Nat \ {0}, NEW i \in Nat
  PROVE  /\ i \div n \in Nat /\ (i % n) \in 0..(n - 1) /\ Mark(n, i \div n) \in Nat
         /\ Mark(n, i \div n) <= i /\ i < Mark(n, i \div n) + n
         /\ (i % n) = i - Mark(n, i \div n)
<1>1. i \div n \in Nat /\ (i % n) \in 0..(n - 1) /\ i = n * (i \div n) + (i % n)
  OBVIOUS
<1>2. Mark(n, i \div n) \in Nat
  BY <1>1, Marks
<1>3. i = Mark(n, i \div n) + (i % n)
  BY <1>1 DEF Mark
<1> QED
  BY <1>1, <1>2, <1>3

LEMMA MarksAdd ==
  ASSUME NEW n \in Nat \ {0}, NEW j \in Nat, NEW k \in Nat
  PROVE  /\ Mark(n, j + k) = Mark(n, j) + Mark(n, k)
         /\ Mark(n, j) \in Nat /\ Mark(n, k) \in Nat /\ Mark(n, 0) = 0 /\ Mark(n, 1) = n
BY DEF Mark

LEMMA MarksGrow ==
  ASSUME NEW n \in Nat \ {0}, NEW j \in Nat, NEW k \in Nat, j <= k
  PROVE  Mark(n, j) <= Mark(n, k)
<1>1. PICK d \in Nat : j + d = k
  <2>1. k - j \in Nat /\ j + (k - j) = k
    OBVIOUS
  <2> QED
    BY <2>1
<1>2. Mark(n, j + d) = Mark(n, j) + Mark(n, d) /\ Mark(n, j) \in Nat /\ Mark(n, d) \in Nat
  BY MarksAdd
<1> QED
  BY <1>1, <1>2

\* The quotient by which get() finds the node.
LEMMA Quotients ==
  ASSUME NEW n \in Nat \ {0}, NEW i \in Nat, NEW b \in Nat
  PROVE  (i - (b - (b % n))) \div n = (i \div n) - (b \div n)
<1> DEFINE x == i \div n
           y == b \div n
           r == i % n
<1>1. x \in Nat /\ y \in Nat /\ r \in 0..(n - 1) /\ i = n * x + r /\ b - (b % n) = n * y
  OBVIOUS
<1> HIDE DEF x, y, r
<1>2. i - (b - (b % n)) = n * (x - y) + r
  BY <1>1
<1>3. x - y \in Int
  BY <1>1
<1>4. \A z \in Int : (n * z + r) \div n = z
  BY <1>1
<1>5. (i - (b - (b % n))) \div n = x - y
  BY <1>2, <1>3, <1>4
<1> QED
  BY <1>5 DEF x, y

---------------------------------------------------------------------------
Rooms(n, V) == [pop : Nat, push : Nat, ring : [0..(n - 1) -> V \cup {Nothing}]]
QuickLists(n, V) == [size : {n}, counter : Nat, nodes : Seq(Rooms(n, V))]

\* The first index of node k, when the first node starts at the multiple q.
From(n, q, k) == Mark(n, (q + k) - 1)

\* Only the start of the first node and the end of the last one may lie between two
\* multiples, and a node that is not alone has an element.
NodeLaid(d, f, n) == f <= d.pop /\ d.pop <= d.push /\ d.push <= f + n
Laid(l, n, q) ==
  /\ Len(l.nodes) >= 1 /\ l.counter = From(n, q, Len(l.nodes)) + n
  /\ \A k \in 1..Len(l.nodes) :
       /\ NodeLaid(l.nodes[k], From(n, q, k), n)
       /\ k > 1 => l.nodes[k].pop = From(n, q, k)
       /\ k < Len(l.nodes) => l.nodes[k].push = From(n, q, k) + n
       /\ Len(l.nodes) > 1 => l.nodes[k].pop < l.nodes[k].push

LEMMA Firsts ==
  ASSUME NEW n \in Nat \ {0}, NEW q \in Nat, NEW k \in Nat \ {0}
  PROVE  /\ From(n, q, k) \in Nat /\ From(n, q, k + 1) = From(n, q, k) + n
         /\ From(n, q + 1, k) = From(n, q, k + 1) /\ From(n, q, 1) = Mark(n, q)
<1>1. PICK j \in Nat : j = (q + k) - 1
  OBVIOUS
<1>2. (q + (k + 1)) - 1 = j + 1 /\ ((q + 1) + k) - 1 = j + 1 /\ (q + 1) - 1 = q
  BY <1>1
<1>3. From(n, q, k) = Mark(n, j) /\ From(n, q, k + 1) = Mark(n, j + 1)
      /\ From(n, q + 1, k) = Mark(n, j + 1) /\ From(n, q, 1) = Mark(n, q)
  BY <1>1, <1>2 DEF From
<1>4. Mark(n, j) \in Nat /\ Mark(n, j + 1) = Mark(n, j) + n
  BY Marks
<1> QED
  BY ONLY <1>3, <1>4

LEMMA Within ==
  ASSUME NEW n \in Nat \ {0}, NEW q \in Nat, NEW k \in Nat \ {0}, NEW i \in Nat,
         From(n, q, k) <= i, i < From(n, q, k) + n
  PROVE  i \div n = (q + k) - 1 /\ (i % n) = i - From(n, q, k)
<1>1. PICK j \in Nat : j = (q + k) - 1
  OBVIOUS
<1>2. From(n, q, k) = Mark(n, j)
  BY <1>1 DEF From
<1>3. i \div n = j /\ (i % n) = i - Mark(n, j)
  BY <1>2, Between
<1> QED
  BY ONLY <1>1, <1>2, <1>3

LEMMA FirstsGrow ==
  ASSUME NEW n \in Nat \ {0}, NEW q \in Nat, NEW j \in Nat \ {0}, NEW k \in Nat \ {0}, j < k
  PROVE  From(n, q, j) + n <= From(n, q, k)
<1>1. PICK x \in Nat, y \in Nat : x = (q + j) - 1 /\ y = (q + k) - 1
  OBVIOUS
<1>2. x + 1 \in Nat /\ x + 1 <= y
  BY <1>1
<1>3. Mark(n, x + 1) <= Mark(n, y) /\ Mark(n, x + 1) = Mark(n, x) + n
  BY <1>2, MarksGrow, Marks
<1> QED
  BY <1>1, <1>3 DEF From

LEMMA ListIs ==
  ASSUME NEW n \in Nat \ {0}, NEW V, NEW l \in QuickLists(n, V), NEW q \in Nat, Laid(l, n, q)
  PROVE  /\ l.size = n /\ l.counter \in Nat /\ l.nodes \in Seq(Rooms(n, V))
         /\ Len(l.nodes) \in Nat /\ Len(l.nodes) >= 1
         /\ 1 \in 1..Len(l.nodes) /\ Len(l.nodes) \in 1..Len(l.nodes)
<1>1. /\ l.size = n /\ l.counter \in Nat /\ l.nodes \in Seq(Rooms(n, V))
      /\ Len(l.nodes) \in Nat /\ Len(l.nodes) >= 1
  BY DEF QuickLists, Laid
<1>2. 1 \in 1..Len(l.nodes) /\ Len(l.nodes) \in 1..Len(l.nodes)
  BY <1>1
<1> QED
  BY <1>1, <1>2

LEMMA NodeIs ==
  ASSUME NEW n \in Nat \ {0}, NEW V, NEW l \in QuickLists(n, V), NEW q \in Nat, Laid(l, n, q),
         NEW k \in 1..Len(l.nodes)
  PROVE  /\ l.nodes[k] \in Rooms(n, V) /\ l.nodes[k].pop \in Nat /\ l.nodes[k].push \in Nat
         /\ l.nodes[k].ring \in [0..(n - 1) -> V \cup {Nothing}]
         /\ k \in Nat \ {0} /\ k <= Len(l.nodes) /\ From(n, q, k) \in Nat
         /\ From(n, q, k) <= l.nodes[k].pop /\ l.nodes[k].pop <= l.nodes[k].push
         /\ l.nodes[k].push <= From(n, q, k) + n
         /\ k > 1 => l.nodes[k].pop = From(n, q, k)
         /\ k < Len(l.nodes) => l.nodes[k].push = From(n, q, k) + n
         /\ Len(l.nodes) > 1 => l.nodes[k].pop < l.nodes[k].push
<1>1. l.nodes[k] \in Rooms(n, V)
  BY ListIs
<1>2. l.nodes[k].pop \in Nat /\ l.nodes[k].push \in Nat
      /\ l.nodes[k].ring \in [0..(n - 1) -> V \cup {Nothing}]
  BY <1>1 DEF Rooms
<1>3. k \in Nat \ {0} /\ k <= Len(l.nodes)
  BY ListIs
<1>4. From(n, q, k) \in Nat
  BY <1>3, Firsts
<1>5. /\ From(n, q, k) <= l.nodes[k].pop /\ l.nodes[k].pop <= l.nodes[k].push
      /\ l.nodes[k].push <= From(n, q, k) + n
      /\ k > 1 => l.nodes[k].pop = From(n, q, k)
      /\ k < Len(l.nodes) => l.nodes[k].push = From(n, q, k) + n
      /\ Len(l.nodes) > 1 => l.nodes[k].pop < l.nodes[k].push
  BY DEF Laid, NodeLaid
<1> QED
  BY <1>1, <1>2, <1>3, <1>4, <1>5

LEMMA LaterNode ==
  ASSUME NEW n \in Nat \ {0}, NEW V, NEW l \in QuickLists(n, V), NEW q \in Nat, Laid(l, n, q),
         NEW k \in 1..Len(l.nodes), k > 1
  PROVE  l.nodes[k].pop = From(n, q, k)
BY NodeIs

LEMMA NodeSpan ==
  ASSUME NEW n \in Nat \ {0}, NEW V, NEW l \in QuickLists(n, V), NEW q \in Nat, Laid(l, n, q),
         NEW k \in 1..Len(l.nodes)
  PROVE  l.nodes[k].pop \in Nat /\ l.nodes[k].push \in Nat /\ l.nodes[k].pop <= l.nodes[k].push
BY NodeIs

LEMMA Ends ==
  ASSUME NEW n \in Nat \ {0}, NEW V, NEW l \in QuickLists(n, V), NEW q \in Nat, Laid(l, n, q)
  PROVE  /\ Q!BeginIndex(l) = l.nodes[1].pop /\ Q!EndIndex(l) = l.nodes[Len(l.nodes)].push
         /\ Q!BeginIndex(l) \in Nat /\ Q!EndIndex(l) \in Nat /\ Q!BeginIndex(l) <= Q!EndIndex(l)
<1>1. /\ Q!BeginIndex(l) = l.nodes[1].pop /\ Q!EndIndex(l) = l.nodes[Len(l.nodes)].push
  BY DEF Q!BeginIndex, Q!EndIndex, Q!PopHead, Q!PushHead
<1>2. PICK m \in 1..Len(l.nodes) : m = Len(l.nodes)
  BY ListIs
<1>3. PICK a \in 1..Len(l.nodes) : a = 1
  BY ListIs
<1>4. l.nodes[a].pop \in Nat /\ l.nodes[a].push \in Nat /\ l.nodes[a].pop <= l.nodes[a].push
      /\ l.nodes[a].push <= From(n, q, a) + n /\ From(n, q, a) \in Nat
  BY NodeIs
<1>5. l.nodes[m].pop \in Nat /\ l.nodes[m].push \in Nat /\ l.nodes[m].pop <= l.nodes[m].push
      /\ (m > 1 => l.nodes[m].pop = From(n, q, m)) /\ m \in Nat \ {0}
  BY NodeIs
<1>6. l.nodes[a].pop <= l.nodes[m].push
  <2>1. CASE m = a
    BY <1>4, <1>5, <2>1
  <2>2. CASE m # a
    <3>1. m > 1 /\ m \in Nat \ {0} /\ a \in Nat \ {0} /\ a < m
      <4>1. m \in Nat \ {0}
        BY ONLY <1>5
      <4> QED
        BY ONLY <1>3, <2>2, <4>1
    <3>2. From(n, q, a) + n <= From(n, q, m) /\ From(n, q, m) \in Nat
      BY <3>1, FirstsGrow, Firsts
    <3>3. l.nodes[m].pop = From(n, q, m)
      BY ONLY <1>5, <3>1
    <3> QED
      BY ONLY n \in Nat \ {0}, <1>4, <1>5, <3>2, <3>3
  <2> QED
    BY <2>1, <2>2
<1> QED
  BY <1>1, <1>2, <1>3, <1>4, <1>5, <1>6

\* get() finds a node by a quotient.
LEMMA Located ==
  ASSUME NEW n \in Nat \ {0}, NEW V, NEW l \in QuickLists(n, V), NEW q \in Nat, Laid(l, n, q),
         NEW k \in 1..Len(l.nodes), NEW i \in Nat, l.nodes[k].pop <= i, i < l.nodes[k].push
  PROVE  /\ Q!NodeAt(l, i) = k /\ Q!Get(l, i) = l.nodes[k].ring[i % n]
         /\ Q!BeginIndex(l) <= i /\ i < Q!EndIndex(l) /\ (i % n) \in 0..(n - 1)
         /\ (i % n) = i - From(n, q, k)
<1>1. PICK m \in 1..Len(l.nodes) : m = Len(l.nodes)
  BY ListIs
<1>2. PICK a \in 1..Len(l.nodes) : a = 1
  BY ListIs
<1>3. PICK b \in Nat : b = Q!BeginIndex(l) /\ b = l.nodes[a].pop
  BY <1>2, Ends
<1>4. PICK x \in Nat : x = i \div n
  BY MarkOf
<1>5. PICK y \in Nat : y = b \div n
  BY MarkOf
<1>6. /\ k \in Nat \ {0} /\ k <= m /\ From(n, q, k) \in Nat
      /\ From(n, q, k) <= i /\ i < From(n, q, k) + n
      /\ (k > 1 => l.nodes[k].pop = From(n, q, k))
      /\ (k < m => l.nodes[k].push = From(n, q, k) + n)
  <2>1. /\ k \in Nat \ {0} /\ k <= m /\ From(n, q, k) \in Nat /\ l.nodes[k].pop \in Nat
        /\ l.nodes[k].push \in Nat
        /\ From(n, q, k) <= l.nodes[k].pop /\ l.nodes[k].push <= From(n, q, k) + n
        /\ (k > 1 => l.nodes[k].pop = From(n, q, k))
        /\ (k < m => l.nodes[k].push = From(n, q, k) + n)
    BY <1>1, NodeIs
  <2> QED
    BY <2>1
<1>7. x = (q + k) - 1 /\ (i % n) = i - From(n, q, k)
  <2>1. i \div n = (q + k) - 1 /\ (i % n) = i - From(n, q, k)
    <3>1. k \in Nat \ {0} /\ From(n, q, k) <= i /\ i < From(n, q, k) + n
      BY ONLY <1>6
    <3>2. i \div n = (q + k) - 1
      BY ONLY n \in Nat \ {0}, q \in Nat, i \in Nat, <3>1, Within
    <3>3. (i % n) = i - From(n, q, k)
      BY ONLY n \in Nat \ {0}, q \in Nat, i \in Nat, <3>1, Within
    <3> QED
      BY ONLY <3>2, <3>3
  <2> QED
    BY <1>4, <2>1
<1>8. From(n, q, a) <= b /\ b < From(n, q, a) + n /\ b <= i
  <2>1. /\ From(n, q, a) \in Nat /\ From(n, q, a) <= b /\ l.nodes[a].push \in Nat
        /\ l.nodes[a].push <= From(n, q, a) + n /\ (m > 1 => b < l.nodes[a].push)
    <3>1. /\ l.nodes[a].push \in Nat /\ From(n, q, a) \in Nat
          /\ From(n, q, a) <= l.nodes[a].pop /\ l.nodes[a].push <= From(n, q, a) + n
          /\ (Len(l.nodes) > 1 => l.nodes[a].pop < l.nodes[a].push)
      BY NodeIs
    <3> QED
      BY ONLY <1>1, <1>3, <3>1
  <2>2. CASE k = a
    BY <1>3, <1>6, <2>1, <2>2
  <2>3. CASE k # a
    <3>1. m > 1 /\ k > 1 /\ a \in Nat \ {0} /\ a < k
      BY <1>1, <1>2, <1>6, <2>3
    <3>2. From(n, q, a) + n <= From(n, q, k)
      BY <1>6, <3>1, FirstsGrow
    <3> QED
      BY <1>6, <2>1, <3>1, <3>2
  <2> QED
    BY <2>2, <2>3
<1>9. y = q
  <2>1. a \in Nat \ {0} /\ (q + a) - 1 = q
    BY <1>2
  <2> QED
    <3>0. From(n, q, a) <= b /\ b < From(n, q, a) + n /\ a \in Nat \ {0}
      BY <1>8, <2>1
    <3>1. b \div n = q
      <4>1. From(n, q, a) = Mark(n, q)
        BY <1>2, Firsts
      <4>2. b \div n = q /\ (b % n) = b - Mark(n, q)
        BY ONLY n \in Nat \ {0}, q \in Nat, b \in Nat, <3>0, <4>1, Between
      <4> QED
        BY <4>2
    <3> QED
      BY <1>5, <2>1, <3>1
<1>10. i < Q!EndIndex(l)
  <2>1. Q!EndIndex(l) = l.nodes[m].push
    BY <1>1, Ends
  <2>2. CASE k = m
    BY <2>1, <2>2
  <2>3. CASE k # m
    <3>1. k < m /\ m > 1 /\ m \in Nat \ {0}
      BY <1>1, <1>6, <2>3
    <3>2. l.nodes[m].pop = From(n, q, m) /\ l.nodes[m].pop <= l.nodes[m].push
          /\ l.nodes[m].push \in Nat /\ From(n, q, m) \in Nat
      <4>1. l.nodes[m].pop = From(n, q, m)
        BY <3>1, LaterNode
      <4>2. l.nodes[m].pop \in Nat /\ l.nodes[m].push \in Nat /\ l.nodes[m].pop <= l.nodes[m].push
        BY NodeSpan
      <4> QED
        BY ONLY <4>1, <4>2
    <3>3. From(n, q, k) + n <= From(n, q, m)
      BY <1>6, <3>1, FirstsGrow
    <3> QED
      BY <1>6, <2>1, <3>2, <3>3
  <2> QED
    BY <2>2, <2>3
<1>11. Q!NodeAt(l, i) = k
  <2>1. Q!NodeAt(l, i) = 1 + ((i - (b - (b % n))) \div n)
    BY <1>3, ListIs DEF Q!NodeAt
  <2>2. (i - (b - (b % n))) \div n = x - y
    BY <1>4, <1>5, Quotients
  <2> QED
    BY <1>6, <1>7, <1>9, <2>1, <2>2
<1>12. (i % n) \in 0..(n - 1)
  BY MarkOf
<1>13. Q!Get(l, i) = l.nodes[k].ring[i % n]
  BY <1>11, ListIs DEF Q!Get
<1> QED
  BY <1>3, <1>7, <1>8, <1>10, <1>11, <1>12, <1>13

LEMMA GetIs ==
  ASSUME NEW n \in Nat \ {0}, NEW V, NEW l \in QuickLists(n, V), NEW q \in Nat, Laid(l, n, q),
         NEW k \in 1..Len(l.nodes), NEW i \in Nat, l.nodes[k].pop <= i, i < l.nodes[k].push
  PROVE  Q!Get(l, i) = l.nodes[k].ring[i % n]
BY Located

LEMMA Spotted ==
  ASSUME NEW n \in Nat \ {0}, NEW V, NEW l \in QuickLists(n, V), NEW q \in Nat, Laid(l, n, q),
         NEW i \in Nat, Q!BeginIndex(l) <= i, i < Q!EndIndex(l)
  PROVE  \E k \in 1..Len(l.nodes) : l.nodes[k].pop <= i /\ i < l.nodes[k].push
<1>1. PICK m \in 1..Len(l.nodes) : m = Len(l.nodes)
  BY ListIs
<1>2. PICK a \in 1..Len(l.nodes) : a = 1
  BY ListIs
<1>3. l.nodes[a].pop <= i /\ i < l.nodes[m].push
  BY <1>1, <1>2, Ends
<1>4. m \in Nat \ {0} /\ a \in Nat \ {0}
  BY <1>1, <1>2, ListIs
<1> DEFINE T == {j \in Nat : \E k \in 1..m : k = m - j /\ l.nodes[k].pop <= i}
<1>5. T \subseteq Nat /\ T # {}
  <2>1. m - 1 \in Nat /\ a = m - (m - 1) /\ a \in 1..m
    BY <1>2, <1>4
  <2>2. m - 1 \in T
    BY <1>3, <2>1
  <2> QED
    BY <2>2
<1>6. PICK j \in T : \A t \in T : j <= t
  <2> HIDE DEF T
  <2> QED
    BY <1>5, SmallestNumber
<1>7. PICK k \in 1..m : k = m - j /\ l.nodes[k].pop <= i
  OBVIOUS
<1>8. i < l.nodes[k].push
  <2>1. CASE k = m
    BY <1>3, <2>1
  <2>2. CASE k # m
    <3>1. PICK u \in 1..Len(l.nodes) : u = k + 1 /\ k < m /\ u > 1 /\ k \in Nat \ {0}
      BY <1>1, <1>4, <2>2
    <3>2. l.nodes[k].push = From(n, q, k) + n
      <4>1. k \in 1..Len(l.nodes) /\ k < Len(l.nodes)
        BY <1>1, <3>1
      <4> QED
        BY <4>1, NodeIs
    <3>3. l.nodes[u].pop = From(n, q, u) /\ l.nodes[u].pop \in Nat
      <4>1. l.nodes[u].pop = From(n, q, u)
        BY <3>1, LaterNode
      <4>2. l.nodes[u].pop \in Nat
        BY NodeSpan
      <4> QED
        BY ONLY <4>1, <4>2
    <3>4. From(n, q, u) = From(n, q, k) + n
      BY <3>1, Firsts
    <3>5. ~ (l.nodes[u].pop <= i)
      <4>1. SUFFICES ASSUME l.nodes[u].pop <= i PROVE FALSE
        OBVIOUS
      <4>2. j - 1 \in Nat /\ u = m - (j - 1) /\ u \in 1..m
        BY <1>1, <1>4, <1>7, <3>1
      <4>3. j - 1 \in T
        BY <4>1, <4>2
      <4> QED
        <5>1. j \in Nat /\ j <= j - 1
          <6> HIDE DEF T
          <6> QED
            BY <1>5, <1>6, <4>3
        <5> QED
          BY ONLY <5>1
    <3> QED
      BY <3>2, <3>3, <3>4, <3>5
  <2> QED
    BY <2>1, <2>2
<1> QED
  BY <1>1, <1>7, <1>8

Dense(l, n, V) == l \in QuickLists(n, V) /\ \E q \in Nat : Laid(l, n, q)

InSomeNode(l, i) == \E k \in 1..Len(l.nodes) : l.nodes[k].pop <= i /\ i < l.nodes[k].push

LEMMA SomeNode ==
  ASSUME NEW n \in Nat \ {0}, NEW V, NEW l \in QuickLists(n, V), NEW q \in Nat, Laid(l, n, q),
         NEW i \in Nat, Q!BeginIndex(l) <= i, i < Q!EndIndex(l)
  PROVE  InSomeNode(l, i)
BY Spotted DEF InSomeNode

\* Another node in the place of one of the list.
LEMMA Replaced ==
  ASSUME NEW n \in Nat \ {0}, NEW V, NEW l \in QuickLists(n, V), NEW q \in Nat, Laid(l, n, q),
         NEW k \in 1..Len(l.nodes), NEW d \in Rooms(n, V), NodeLaid(d, From(n, q, k), n),
         k > 1 => d.pop = From(n, q, k), k < Len(l.nodes) => d.push = From(n, q, k) + n,
         Len(l.nodes) > 1 => d.pop < d.push, NEW u, u = [l EXCEPT !.nodes[k] = d]
  PROVE  /\ u \in QuickLists(n, V) /\ Laid(u, n, q) /\ Len(u.nodes) = Len(l.nodes)
         /\ u.nodes[k] = d /\ \A j \in 1..Len(l.nodes) : j # k => u.nodes[j] = l.nodes[j]
<1>1. /\ u.nodes = [l.nodes EXCEPT ![k] = d] /\ u.size = l.size /\ u.counter = l.counter
      /\ u = [size |-> u.size, counter |-> u.counter, nodes |-> u.nodes]
  BY DEF QuickLists
<1>2. l.nodes \in Seq(Rooms(n, V)) /\ l.size = n /\ l.counter \in Nat /\ Len(l.nodes) >= 1
  BY ListIs
<1>3. /\ u.nodes \in Seq(Rooms(n, V)) /\ Len(u.nodes) = Len(l.nodes) /\ u.nodes[k] = d
      /\ \A j \in 1..Len(l.nodes) : j # k => u.nodes[j] = l.nodes[j]
  BY <1>1, <1>2
<1>4. u \in QuickLists(n, V)
  BY <1>1, <1>2, <1>3 DEF QuickLists
<1>5. u.counter = From(n, q, Len(u.nodes)) + n
  BY <1>1, <1>3 DEF Laid
<1>6. ASSUME NEW j \in 1..Len(u.nodes)
      PROVE  /\ NodeLaid(u.nodes[j], From(n, q, j), n)
             /\ j > 1 => u.nodes[j].pop = From(n, q, j)
             /\ j < Len(u.nodes) => u.nodes[j].push = From(n, q, j) + n
             /\ Len(u.nodes) > 1 => u.nodes[j].pop < u.nodes[j].push
  BY <1>3 DEF Laid
<1>7. Laid(u, n, q)
  BY <1>2, <1>3, <1>5, <1>6 DEF Laid
<1> QED
  BY <1>3, <1>4, <1>7

\* An element stays where it is when some node has it in its slot.
LEMMA StaysThere ==
  ASSUME NEW n \in Nat \ {0}, NEW V, NEW l \in QuickLists(n, V), NEW q \in Nat, Laid(l, n, q),
         NEW u \in QuickLists(n, V), NEW p \in Nat, Laid(u, n, p),
         NEW i \in Nat, NEW k \in 1..Len(l.nodes), l.nodes[k].pop <= i, i < l.nodes[k].push,
         NEW j \in 1..Len(u.nodes), u.nodes[j].pop <= i, i < u.nodes[j].push,
         u.nodes[j].ring[i % n] = l.nodes[k].ring[i % n]
  PROVE  Q!Get(u, i) = Q!Get(l, i)
<1>1. Q!Get(u, i) = u.nodes[j].ring[i % n]
  BY ONLY n \in Nat \ {0}, u \in QuickLists(n, V), p \in Nat, Laid(u, n, p), i \in Nat,
     j \in 1..Len(u.nodes), u.nodes[j].pop <= i, i < u.nodes[j].push, GetIs
<1>2. Q!Get(l, i) = l.nodes[k].ring[i % n]
  BY ONLY n \in Nat \ {0}, l \in QuickLists(n, V), q \in Nat, Laid(l, n, q), i \in Nat,
     k \in 1..Len(l.nodes), l.nodes[k].pop <= i, i < l.nodes[k].push, GetIs
<1> QED
  BY <1>1, <1>2

\* The indices of a node have a slot each.
LEMMA SlotsApart ==
  ASSUME NEW n \in Nat \ {0}, NEW q \in Nat, NEW k \in Nat \ {0}, NEW i \in Nat, NEW j \in Nat,
         From(n, q, k) <= i, i < From(n, q, k) + n, From(n, q, k) <= j, j < From(n, q, k) + n,
         i # j
  PROVE  (i % n) # (j % n)
<1>1. (i % n) = i - From(n, q, k)
  BY Within
<1>2. (j % n) = j - From(n, q, k)
  BY Within
<1>3. From(n, q, k) \in Nat
  BY Firsts
<1> QED
  BY <1>1, <1>2, <1>3

LEMMA PutIs ==
  ASSUME NEW n \in Nat \ {0}, NEW V, NEW l, Dense(l, n, V), NEW i \in Nat,
         Q!BeginIndex(l) <= i, i < Q!EndIndex(l), NEW v \in V
  PROVE  /\ Dense(Q!Put(l, i, v), n, V) /\ Q!BeginIndex(Q!Put(l, i, v)) = Q!BeginIndex(l)
         /\ Q!EndIndex(Q!Put(l, i, v)) = Q!EndIndex(l) /\ Q!Get(Q!Put(l, i, v), i) = v
         /\ \A j \in Nat : Q!BeginIndex(l) <= j /\ j < Q!EndIndex(l) /\ j # i =>
              Q!Get(Q!Put(l, i, v), j) = Q!Get(l, j)
<1>1. l \in QuickLists(n, V)
  BY DEF Dense
<1>2. PICK q \in Nat : Laid(l, n, q)
  BY DEF Dense
<1>3. PICK k \in 1..Len(l.nodes) : l.nodes[k].pop <= i /\ i < l.nodes[k].push
  BY <1>1, <1>2, Spotted
<1>4. Q!NodeAt(l, i) = k /\ (i % n) \in 0..(n - 1)
  BY <1>1, <1>2, <1>3, Located
<1> DEFINE e == l.nodes[k]
           d == [e EXCEPT !.ring = [e.ring EXCEPT ![i % n] = v]]
           u == Q!Put(l, i, v)
<1>5. /\ e \in Rooms(n, V) /\ e.pop \in Nat /\ e.push \in Nat
      /\ e.ring \in [0..(n - 1) -> V \cup {Nothing}]
      /\ k \in Nat \ {0} /\ From(n, q, k) \in Nat
      /\ From(n, q, k) <= e.pop /\ e.pop <= e.push /\ e.push <= From(n, q, k) + n
      /\ k > 1 => e.pop = From(n, q, k)
      /\ k < Len(l.nodes) => e.push = From(n, q, k) + n
      /\ Len(l.nodes) > 1 => e.pop < e.push
  <2>1. /\ e \in Rooms(n, V) /\ e.pop \in Nat /\ e.push \in Nat
        /\ e.ring \in [0..(n - 1) -> V \cup {Nothing}]
        /\ k \in Nat \ {0} /\ From(n, q, k) \in Nat
    BY ONLY <1>1, <1>2, n \in Nat \ {0}, k \in 1..Len(l.nodes), q \in Nat, NodeIs
  <2>2. /\ From(n, q, k) <= e.pop /\ e.pop <= e.push /\ e.push <= From(n, q, k) + n
        /\ k > 1 => e.pop = From(n, q, k)
        /\ k < Len(l.nodes) => e.push = From(n, q, k) + n
        /\ Len(l.nodes) > 1 => e.pop < e.push
    BY ONLY <1>1, <1>2, n \in Nat \ {0}, k \in 1..Len(l.nodes), q \in Nat, NodeIs
  <2> QED
    BY ONLY <2>1, <2>2
<1>6. /\ l.size = n /\ l.nodes \in Seq(Rooms(n, V)) /\ 1 \in 1..Len(l.nodes)
      /\ Len(l.nodes) \in 1..Len(l.nodes)
  BY <1>1, <1>2, ListIs
<1>7. u = [l EXCEPT !.nodes[k] = d]
  BY <1>4, <1>6 DEF Q!Put
<1>8. /\ d \in Rooms(n, V) /\ d.pop = e.pop /\ d.push = e.push /\ d.ring[i % n] = v
      /\ \A x \in 0..(n - 1) : x # i % n => d.ring[x] = e.ring[x]
  BY <1>4, <1>5 DEF Rooms
<1> HIDE DEF d
<1>9. NodeLaid(d, From(n, q, k), n)
  BY <1>5, <1>8 DEF NodeLaid
<1>10. /\ u \in QuickLists(n, V) /\ Laid(u, n, q) /\ Len(u.nodes) = Len(l.nodes)
       /\ u.nodes[k] = d /\ \A j \in 1..Len(l.nodes) : j # k => u.nodes[j] = l.nodes[j]
  <2> HIDE DEF u, e
  <2>1. /\ k > 1 => d.pop = From(n, q, k)
        /\ k < Len(l.nodes) => d.push = From(n, q, k) + n
        /\ Len(l.nodes) > 1 => d.pop < d.push
    BY <1>5, <1>8
  <2> QED
    BY <1>1, <1>2, <1>7, <1>8, <1>9, <2>1, Replaced
<1> HIDE DEF u
<1>11. Dense(u, n, V)
  BY <1>10 DEF Dense
<1>12. \A x \in 1..Len(l.nodes) : u.nodes[x].pop = l.nodes[x].pop /\ u.nodes[x].push = l.nodes[x].push
  BY <1>8, <1>10
<1>13. Q!BeginIndex(u) = Q!BeginIndex(l) /\ Q!EndIndex(u) = Q!EndIndex(l)
  BY <1>6, <1>10, <1>12 DEF Q!BeginIndex, Q!EndIndex, Q!PopHead, Q!PushHead
<1>14. Q!Get(u, i) = v
  <2>1. k \in 1..Len(u.nodes) /\ u.nodes[k].pop <= i /\ i < u.nodes[k].push
    BY <1>3, <1>10, <1>12
  <2>2. Q!Get(u, i) = u.nodes[k].ring[i % n]
    BY <1>10, <2>1, Located
  <2> QED
    BY <1>8, <1>10, <2>2
<1>15. ASSUME NEW j \in Nat, Q!BeginIndex(l) <= j, j < Q!EndIndex(l), j # i
       PROVE  Q!Get(u, j) = Q!Get(l, j)
  <2>1. PICK x \in 1..Len(l.nodes) : l.nodes[x].pop <= j /\ j < l.nodes[x].push
    BY <1>1, <1>2, <1>15, Spotted
  <2>2. x \in 1..Len(u.nodes) /\ u.nodes[x].pop <= j /\ j < u.nodes[x].push
    BY <1>10, <1>12, <2>1
  <2>3. u.nodes[x].ring[j % n] = l.nodes[x].ring[j % n]
    <3>1. CASE x # k
      BY <1>10, <3>1
    <3>2. CASE x = k
      <4>1. /\ From(n, q, k) <= i /\ i < From(n, q, k) + n
            /\ From(n, q, k) <= j /\ j < From(n, q, k) + n
        BY <1>3, <1>5, <2>1, <3>2
      <4>2. (j % n) # (i % n)
        <5>1. k \in Nat \ {0} /\ j # i
          BY <1>5, <1>15
        <5> QED
          BY ONLY n \in Nat \ {0}, q \in Nat, i \in Nat, j \in Nat, <4>1, <5>1, SlotsApart
      <4>3. (j % n) \in 0..(n - 1)
        BY MarkOf
      <4> QED
        BY <1>8, <1>10, <3>2, <4>2, <4>3
    <3> QED
      BY <3>1, <3>2
  <2> QED
    BY <1>1, <1>2, <1>10, <2>1, <2>2, <2>3, StaysThere
<1> QED
  BY <1>11, <1>13, <1>14, <1>15 DEF u

\* What a push does to a list.
PushedOnto(l, n, V, v, u) ==
  /\ Dense(u, n, V) /\ Q!BeginIndex(u) = Q!BeginIndex(l)
  /\ Q!EndIndex(u) = Q!EndIndex(l) + 1 /\ Q!Get(u, Q!EndIndex(l)) = v
  /\ \A j \in Nat : Q!BeginIndex(l) <= j /\ j < Q!EndIndex(l) => Q!Get(u, j) = Q!Get(l, j)

\* A push into the last node.
LEMMA PushInside ==
  ASSUME NEW n \in Nat \ {0}, NEW V, NEW l \in QuickLists(n, V), NEW q \in Nat, Laid(l, n, q),
         NEW v \in V, NEW k \in 1..Len(l.nodes), k = Len(l.nodes),
         l.nodes[k].push - l.nodes[k].pop < n, l.nodes[k].push < l.counter,
         NEW u, u = Q!PushBack(l, v)
  PROVE  PushedOnto(l, n, V, v, u)
<1> DEFINE e == l.nodes[k]
           i == e.push
           d == [e EXCEPT !.push = @ + 1, !.ring = [e.ring EXCEPT ![i % n] = v]]
<1>1. /\ e \in Rooms(n, V) /\ e.pop \in Nat /\ i \in Nat
      /\ e.ring \in [0..(n - 1) -> V \cup {Nothing}]
      /\ k \in Nat \ {0} /\ From(n, q, k) \in Nat
  BY NodeIs
<1>2. /\ From(n, q, k) <= e.pop /\ e.pop <= i /\ i <= From(n, q, k) + n
      /\ k > 1 => e.pop = From(n, q, k)
  BY NodeIs
<1>3. /\ l.size = n /\ l.nodes \in Seq(Rooms(n, V)) /\ 1 \in 1..Len(l.nodes)
      /\ Len(l.nodes) \in 1..Len(l.nodes)
  BY ListIs
<1>4. l.counter = From(n, q, k) + n
  BY DEF Laid
<1>5. (i % n) \in 0..(n - 1)
  BY <1>1, MarkOf
<1>6. u = [l EXCEPT !.nodes[k] = d]
  BY <1>3 DEF Q!PushBack, Q!PushHead
<1>7. /\ d \in Rooms(n, V) /\ d.pop = e.pop /\ d.push = i + 1 /\ d.ring[i % n] = v
      /\ \A x \in 0..(n - 1) : x # i % n => d.ring[x] = e.ring[x]
  <2>1. i + 1 \in Nat
    BY <1>1
  <2>2. PICK r \in [0..(n - 1) -> V \cup {Nothing}] : r = [e.ring EXCEPT ![i % n] = v]
    BY <1>1, <1>5
  <2>3. PICK g \in Nat : g = i + 1
    BY <2>1
  <2>4. d = [e EXCEPT !.push = g, !.ring = r]
    BY <2>2, <2>3
  <2>5. e \in [pop : Nat, push : Nat, ring : [0..(n - 1) -> V \cup {Nothing}]]
    BY <1>1 DEF Rooms
  <2> HIDE DEF e, i, d
  <2>6. d \in Rooms(n, V) /\ d.pop = e.pop /\ d.push = g /\ d.ring = r
    BY <2>4, <2>5 DEF Rooms
  <2> QED
    BY <1>1, <1>5, <2>2, <2>3, <2>6
<1> HIDE DEF d
<1>8. i < From(n, q, k) + n
  BY <1>4
<1>9. /\ NodeLaid(d, From(n, q, k), n) /\ (k > 1 => d.pop = From(n, q, k))
      /\ (k < Len(l.nodes) => d.push = From(n, q, k) + n)
      /\ (Len(l.nodes) > 1 => d.pop < d.push)
  BY <1>1, <1>2, <1>7, <1>8 DEF NodeLaid
<1> HIDE DEF e, i
<1>10. /\ u \in QuickLists(n, V) /\ Laid(u, n, q) /\ Len(u.nodes) = Len(l.nodes)
       /\ u.nodes[k] = d /\ \A j \in 1..Len(l.nodes) : j # k => u.nodes[j] = l.nodes[j]
  BY <1>6, <1>7, <1>9, Replaced
<1>11. Dense(u, n, V)
  BY <1>10 DEF Dense
<1>12. Q!EndIndex(l) = i /\ Q!EndIndex(u) = i + 1
  BY <1>3, <1>7, <1>10 DEF Q!EndIndex, Q!PushHead, e, i
<1>13. Q!BeginIndex(u) = Q!BeginIndex(l)
  BY <1>3, <1>7, <1>10 DEF Q!BeginIndex, Q!PopHead, e
<1>14. Q!Get(u, i) = v
  <2>1. k \in 1..Len(u.nodes) /\ u.nodes[k].pop <= i /\ i < u.nodes[k].push /\ i \in Nat
    BY <1>1, <1>2, <1>7, <1>10
  <2>2. Q!Get(u, i) = u.nodes[k].ring[i % n]
    <3>1. PICK z \in Nat : z = i
      BY <2>1
    <3>2. u.nodes[k].pop <= z /\ z < u.nodes[k].push
      BY <2>1, <3>1
    <3>3. Q!Get(u, z) = u.nodes[k].ring[z % n]
      <4>1. u \in QuickLists(n, V) /\ Laid(u, n, q) /\ k \in 1..Len(u.nodes)
        BY ONLY <1>10, <2>1
      <4> QED
        BY ONLY n \in Nat \ {0}, q \in Nat, <4>1, z \in Nat, <3>2, GetIs
    <3> QED
      BY <3>1, <3>3
  <2> QED
    BY <1>7, <1>10, <2>2
<1>15. ASSUME NEW j \in Nat, Q!BeginIndex(l) <= j, j < Q!EndIndex(l)
       PROVE  Q!Get(u, j) = Q!Get(l, j)
  <2>1. PICK x \in 1..Len(l.nodes) : l.nodes[x].pop <= j /\ j < l.nodes[x].push
    BY <1>15, Spotted
  <2>2. /\ x \in 1..Len(u.nodes) /\ u.nodes[x].pop <= j /\ j < u.nodes[x].push
        /\ u.nodes[x].ring[j % n] = l.nodes[x].ring[j % n]
    <3>1. CASE x # k
      BY <1>10, <2>1, <3>1
    <3>2. CASE x = k
      <4>1. e.pop <= j /\ j < i
        BY <2>1, <3>2 DEF e, i
      <4>2. /\ From(n, q, k) <= i /\ i < From(n, q, k) + n /\ i \in Nat /\ k \in Nat \ {0}
            /\ From(n, q, k) <= j /\ j < From(n, q, k) + n /\ j # i
        BY <1>1, <1>2, <1>8, <4>1
      <4>3. (j % n) # (i % n)
        BY ONLY n \in Nat \ {0}, q \in Nat, j \in Nat, <4>2, SlotsApart
      <4>4. (j % n) \in 0..(n - 1)
        BY MarkOf
      <4>5. d.ring[j % n] = e.ring[j % n]
        BY <1>7, <4>3, <4>4
      <4>6. e.pop <= j /\ j < i + 1
        BY <1>1, <4>1
      <4> QED
        BY <1>7, <1>10, <3>2, <4>5, <4>6 DEF e
    <3> QED
      BY <3>1, <3>2
  <2>3. Q!Get(l, j) = l.nodes[x].ring[j % n]
    BY ONLY n \in Nat \ {0}, l \in QuickLists(n, V), q \in Nat, Laid(l, n, q),
       j \in Nat, x \in 1..Len(l.nodes), <2>1, GetIs
  <2>4. u \in QuickLists(n, V) /\ Laid(u, n, q)
    BY <1>10
  <2>5. Q!Get(u, j) = u.nodes[x].ring[j % n]
    BY ONLY n \in Nat \ {0}, q \in Nat, <2>4, j \in Nat, <2>2, GetIs
  <2> QED
    BY ONLY <2>2, <2>3, <2>5
<1> QED
  BY <1>11, <1>12, <1>13, <1>14, <1>15 DEF PushedOnto

\* A push into a new node.
LEMMA PushAfter ==
  ASSUME NEW n \in Nat \ {0}, NEW V, NEW l \in QuickLists(n, V), NEW q \in Nat, Laid(l, n, q),
         NEW v \in V, NEW k \in 1..Len(l.nodes), k = Len(l.nodes),
         ~ (l.nodes[k].push - l.nodes[k].pop < n),
         NEW u, u = Q!PushBack(l, v)
  PROVE  PushedOnto(l, n, V, v, u)
<1> DEFINE e == l.nodes[k]
           i == l.counter
           d == [pop |-> i, push |-> i + 1,
                 ring |-> [x \in 0..(n - 1) |-> IF x = i % n THEN v ELSE Nothing]]
<1>1. /\ e \in Rooms(n, V) /\ e.pop \in Nat /\ e.push \in Nat
      /\ k \in Nat \ {0} /\ From(n, q, k) \in Nat
  BY NodeIs
<1>2. /\ From(n, q, k) <= e.pop /\ e.pop <= e.push /\ e.push <= From(n, q, k) + n
  BY NodeIs
<1>3. /\ l.size = n /\ l.nodes \in Seq(Rooms(n, V)) /\ 1 \in 1..Len(l.nodes) /\ i \in Nat
      /\ Len(l.nodes) \in 1..Len(l.nodes)
  BY ListIs
<1>4. i = From(n, q, k) + n /\ From(n, q, k + 1) = i
  <2>1. i = From(n, q, k) + n
    BY DEF Laid
  <2> QED
    BY <1>1, <2>1, Firsts
<1>5. (i % n) \in 0..(n - 1)
  BY <1>3, MarkOf
<1>6. /\ d \in Rooms(n, V) /\ d.pop = i /\ d.push = i + 1 /\ d.ring[i % n] = v
  BY <1>3, <1>5 DEF Rooms
<1>7. u = [size |-> n, counter |-> i + n, nodes |-> Append(l.nodes, d)]
  BY <1>3 DEF Q!PushBack, Q!PushHead, QuickLists
<1> HIDE DEF d, e, i
<1>8. /\ u.size = n /\ u.counter = i + n /\ u.nodes \in Seq(Rooms(n, V))
      /\ Len(u.nodes) = k + 1 /\ u.nodes[k + 1] = d
      /\ \A j \in 1..Len(l.nodes) : u.nodes[j] = l.nodes[j]
  BY <1>3, <1>6, <1>7
<1>9. u \in QuickLists(n, V)
  <2>1. i + n \in Nat
    BY <1>3
  <2> QED
    BY <1>7, <1>8, <2>1 DEF QuickLists
<1>10. e.pop = From(n, q, k) /\ e.push = i
  <2>1. ~ (e.push - e.pop < n)
    BY DEF e
  <2> QED
    BY <1>1, <1>2, <1>4, <2>1
<1>11. Laid(u, n, q)
  <2>1. u.counter = From(n, q, Len(u.nodes)) + n /\ Len(u.nodes) >= 1
    BY <1>1, <1>4, <1>8
  <2>2. ASSUME NEW j \in 1..Len(u.nodes)
        PROVE  /\ NodeLaid(u.nodes[j], From(n, q, j), n)
               /\ j > 1 => u.nodes[j].pop = From(n, q, j)
               /\ j < Len(u.nodes) => u.nodes[j].push = From(n, q, j) + n
               /\ Len(u.nodes) > 1 => u.nodes[j].pop < u.nodes[j].push
    <3>1. CASE j = k + 1
      <4>1. i <= i /\ i <= i + 1 /\ i + 1 <= i + n /\ i < i + 1
        BY <1>3
      <4> QED
        BY <1>4, <1>6, <1>8, <3>1, <4>1 DEF NodeLaid
    <3>2. CASE j # k + 1
      <4>1. j \in 1..Len(l.nodes) /\ j \in Nat
        BY <1>1, <1>8, <3>2
      <4>2. /\ NodeLaid(l.nodes[j], From(n, q, j), n)
            /\ j > 1 => l.nodes[j].pop = From(n, q, j)
            /\ j < Len(l.nodes) => l.nodes[j].push = From(n, q, j) + n
            /\ Len(l.nodes) > 1 => l.nodes[j].pop < l.nodes[j].push
        BY <4>1 DEF Laid
      <4>3. CASE j = k
        <5>1. l.nodes[j].push = From(n, q, j) + n /\ l.nodes[j].pop < l.nodes[j].push
          BY <1>1, <1>4, <1>10, <4>3 DEF e
        <5> QED
          BY <1>8, <4>1, <4>2, <5>1
      <4>4. CASE j # k
        <5>1. j < Len(l.nodes) /\ Len(l.nodes) > 1
          BY <1>3, <4>1, <4>4
        <5> QED
          BY <1>8, <4>1, <4>2, <5>1
      <4> QED
        BY <4>3, <4>4
    <3> QED
      BY <3>1, <3>2
  <2> QED
    BY <2>1, <2>2 DEF Laid
<1>12. Q!EndIndex(l) = i /\ Q!EndIndex(u) = i + 1
  BY <1>6, <1>8, <1>10 DEF Q!EndIndex, Q!PushHead, e
<1>13. Q!BeginIndex(u) = Q!BeginIndex(l)
  BY <1>3, <1>8 DEF Q!BeginIndex, Q!PopHead
<1>14. Q!Get(u, i) = v
  <2>1. PICK t \in 1..Len(u.nodes) : t = k + 1
    BY <1>1, <1>8
  <2>2. u.nodes[t].pop <= i /\ i < u.nodes[t].push /\ i \in Nat
    BY <1>3, <1>6, <1>8, <2>1
  <2>3. Q!Get(u, i) = u.nodes[t].ring[i % n]
    <3>1. PICK z \in Nat : z = i
      BY <2>2
    <3>2. u.nodes[t].pop <= z /\ z < u.nodes[t].push
      BY <2>2, <3>1
    <3>3. Q!Get(u, z) = u.nodes[t].ring[z % n]
      BY ONLY n \in Nat \ {0}, q \in Nat, <1>9, <1>11, t \in 1..Len(u.nodes), z \in Nat,
         <3>2, GetIs
    <3> QED
      BY <3>1, <3>3
  <2> QED
    BY <1>6, <1>8, <2>1, <2>3
<1>15. ASSUME NEW j \in Nat, Q!BeginIndex(l) <= j, j < Q!EndIndex(l)
       PROVE  Q!Get(u, j) = Q!Get(l, j)
  <2>1. PICK x \in 1..Len(l.nodes) : l.nodes[x].pop <= j /\ j < l.nodes[x].push
    <3>1. InSomeNode(l, j)
      BY ONLY n \in Nat \ {0}, l \in QuickLists(n, V), q \in Nat, Laid(l, n, q), j \in Nat,
         <1>15, SomeNode
    <3> QED
      BY ONLY <3>1 DEF InSomeNode
  <2>2. x \in 1..Len(u.nodes) /\ u.nodes[x] = l.nodes[x]
    BY <1>1, <1>8
  <2>3. u.nodes[x].pop <= j /\ j < u.nodes[x].push
    BY ONLY <2>1, <2>2
  <2>4. Q!Get(u, j) = u.nodes[x].ring[j % n]
    BY ONLY n \in Nat \ {0}, q \in Nat, <1>9, <1>11, j \in Nat,
       <2>2, <2>3, GetIs
  <2>5. Q!Get(l, j) = l.nodes[x].ring[j % n]
    BY ONLY n \in Nat \ {0}, l \in QuickLists(n, V), q \in Nat, Laid(l, n, q),
       x \in 1..Len(l.nodes), j \in Nat, <2>1, GetIs
  <2> QED
    BY ONLY <2>2, <2>4, <2>5
<1>16. Dense(u, n, V)
  BY <1>9, <1>11 DEF Dense
<1> QED
  BY <1>12, <1>13, <1>14, <1>15, <1>16 DEF PushedOnto

LEMMA PushIs ==
  ASSUME NEW n \in Nat \ {0}, NEW V, NEW l, Dense(l, n, V), NEW v \in V, ~ Q!Wraps(l),
         NEW u, u = Q!PushBack(l, v)
  PROVE  /\ Dense(u, n, V) /\ Q!BeginIndex(u) = Q!BeginIndex(l)
         /\ Q!EndIndex(u) = Q!EndIndex(l) + 1 /\ Q!Get(u, Q!EndIndex(l)) = v
         /\ \A j \in Nat : Q!BeginIndex(l) <= j /\ j < Q!EndIndex(l) => Q!Get(u, j) = Q!Get(l, j)
<1>1. l \in QuickLists(n, V)
  BY DEF Dense
<1>2. PICK q \in Nat : Laid(l, n, q)
  BY DEF Dense
<1>3. PICK k \in 1..Len(l.nodes) : k = Len(l.nodes)
  BY <1>1, <1>2, ListIs
<1>4. l.size = n /\ l.counter \in Nat
  BY <1>1, <1>2, ListIs
<1>5. l.nodes[k].push \in Nat /\ l.nodes[k].pop \in Nat
  BY <1>1, <1>2, NodeIs
<1>6. ASSUME l.nodes[k].push - l.nodes[k].pop < n PROVE PushedOnto(l, n, V, v, u)
  <2>1. l.nodes[k].push < l.counter
    BY <1>3, <1>4, <1>5, <1>6 DEF Q!Wraps, Q!PushHead
  <2> QED
    BY ONLY n \in Nat \ {0}, v \in V, <1>1, <1>2, <1>3, <1>6, <2>1, u = Q!PushBack(l, v),
       q \in Nat, k \in 1..Len(l.nodes), k = Len(l.nodes), PushInside
<1>7. ASSUME ~ (l.nodes[k].push - l.nodes[k].pop < n) PROVE PushedOnto(l, n, V, v, u)
  BY ONLY n \in Nat \ {0}, v \in V, <1>1, <1>2, <1>3, <1>7, u = Q!PushBack(l, v),
     q \in Nat, k \in 1..Len(l.nodes), PushAfter
<1>8. PushedOnto(l, n, V, v, u)
  BY ONLY <1>6, <1>7
<1> QED
  BY ONLY <1>8 DEF PushedOnto

\* A pop that leaves the first node and takes it.
LEMMA PopNode ==
  ASSUME NEW n \in Nat \ {0}, NEW V, NEW l \in QuickLists(n, V), NEW q \in Nat, Laid(l, n, q),
         Len(l.nodes) > 1, l.nodes[1].pop + 1 = l.nodes[1].push,
         NEW u, u = Q!PopFront(l)
  PROVE  /\ Dense(u, n, V) /\ Q!BeginIndex(u) = Q!BeginIndex(l) + 1
         /\ Q!EndIndex(u) = Q!EndIndex(l)
         /\ \A j \in Nat : Q!BeginIndex(u) <= j /\ j < Q!EndIndex(u) => Q!Get(u, j) = Q!Get(l, j)
<1>1. /\ l.size = n /\ l.counter \in Nat /\ l.nodes \in Seq(Rooms(n, V))
      /\ Len(l.nodes) \in Nat /\ 1 \in 1..Len(l.nodes)
  BY ListIs
<1>2. u = [l EXCEPT !.nodes = Tail(@)]
  <2>1. PICK a \in Nat : a = l.nodes[1].pop /\ a + 1 = l.nodes[1].push
    <3>1. l.nodes[1].pop \in Nat
      BY <1>1, NodeIs
    <3> QED
      BY <3>1
  <2>2. l.nodes[1] \in Rooms(n, V)
    BY <1>1
  <2>3. PICK nd : nd = [l.nodes[1] EXCEPT !.pop = @ + 1, !.ring[a % l.size] = Nothing]
    OBVIOUS
  <2>4. nd.pop = nd.push
    BY <2>1, <2>2, <2>3 DEF Rooms
  <2> QED
    BY <2>1, <2>3, <2>4 DEF Q!PopFront, Q!PopHead, Q!NodeEmpty
<1>3. PICK m \in Nat : m + 1 = Len(l.nodes) /\ m >= 1
  <2>1. Len(l.nodes) - 1 \in Nat /\ (Len(l.nodes) - 1) + 1 = Len(l.nodes) /\ Len(l.nodes) - 1 >= 1
    BY <1>1
  <2> QED
    BY <2>1
<1>4. /\ u.nodes = Tail(l.nodes) /\ u.size = n /\ u.counter = l.counter
      /\ u = [size |-> u.size, counter |-> u.counter, nodes |-> u.nodes]
  BY <1>1, <1>2 DEF QuickLists
<1>5. /\ u.nodes \in Seq(Rooms(n, V)) /\ Len(u.nodes) = m
      /\ \A k \in 1..m : u.nodes[k] = l.nodes[k + 1]
  BY <1>1, <1>3, <1>4
<1>6. u \in QuickLists(n, V)
  BY <1>1, <1>4, <1>5 DEF QuickLists
<1>7. Laid(u, n, q + 1)
  <2>1. u.counter = From(n, q + 1, Len(u.nodes)) + n
    <3>1. l.counter = From(n, q, m + 1) + n
      BY <1>3 DEF Laid
    <3>2. From(n, q + 1, m) = From(n, q, m + 1)
      BY <1>3, Firsts
    <3> QED
      BY <1>4, <1>5, <3>1, <3>2
  <2>2. ASSUME NEW k \in 1..Len(u.nodes)
        PROVE  /\ NodeLaid(u.nodes[k], From(n, q + 1, k), n)
               /\ k > 1 => u.nodes[k].pop = From(n, q + 1, k)
               /\ k < Len(u.nodes) => u.nodes[k].push = From(n, q + 1, k) + n
               /\ Len(u.nodes) > 1 => u.nodes[k].pop < u.nodes[k].push
    <3>1. k \in Nat \ {0} /\ k \in 1..m /\ k + 1 > 1
      BY <1>3, <1>5
    <3>2. From(n, q + 1, k) = From(n, q, k + 1)
      BY <3>1, Firsts
    <3>3. PICK x \in 1..Len(l.nodes) : x = k + 1
      BY <1>3, <3>1
    <3>4. /\ NodeLaid(l.nodes[x], From(n, q, x), n)
          /\ x > 1 => l.nodes[x].pop = From(n, q, x)
          /\ x < Len(l.nodes) => l.nodes[x].push = From(n, q, x) + n
          /\ Len(l.nodes) > 1 => l.nodes[x].pop < l.nodes[x].push
      BY DEF Laid
    <3>5. u.nodes[k] = l.nodes[x] /\ (k < Len(u.nodes) => x < Len(l.nodes)) /\ x > 1
      BY <1>3, <1>5, <3>1, <3>3
    <3> QED
      BY <3>2, <3>3, <3>4, <3>5
  <2> QED
    BY <1>3, <1>5, <2>1, <2>2 DEF Laid
<1>8. Dense(u, n, V)
  <2>1. q + 1 \in Nat
    OBVIOUS
  <2> QED
    BY <1>6, <1>7, <2>1 DEF Dense
<1>9. PICK two \in 1..Len(l.nodes) : two = 2
  BY <1>1
<1>10. Q!BeginIndex(u) = Q!BeginIndex(l) + 1
  <2>1. l.nodes[two].pop = From(n, q, two)
    BY <1>9, NodeIs
  <2>2. l.nodes[1].push = From(n, q, 1) + n
    BY <1>1, NodeIs
  <2>3. From(n, q, 1 + 1) = From(n, q, 1) + n
    BY Firsts
  <2>4. u.nodes[1] = l.nodes[two]
    BY <1>3, <1>5, <1>9
  <2> QED
    BY <1>9, <2>1, <2>2, <2>3, <2>4 DEF Q!BeginIndex, Q!PopHead
<1>11. Q!EndIndex(u) = Q!EndIndex(l)
  <2>1. m \in 1..m
    BY <1>3
  <2> QED
    BY <1>3, <1>5, <2>1 DEF Q!EndIndex, Q!PushHead
<1>12. ASSUME NEW j \in Nat, Q!BeginIndex(u) <= j, j < Q!EndIndex(u)
       PROVE  Q!Get(u, j) = Q!Get(l, j)
  <2>0. q + 1 \in Nat
    OBVIOUS
  <2>1. PICK x \in 1..Len(u.nodes) : u.nodes[x].pop <= j /\ j < u.nodes[x].push
    BY ONLY n \in Nat \ {0}, <1>6, <1>7, <1>12, <2>0, j \in Nat, Spotted
  <2>2. PICK y \in 1..Len(l.nodes) : y = x + 1
    BY <1>3, <1>5
  <2>3. u.nodes[x] = l.nodes[y]
    BY <1>5, <2>2
  <2>4. l.nodes[y].pop <= j /\ j < l.nodes[y].push
    BY <2>1, <2>3
  <2>5. Q!Get(u, j) = u.nodes[x].ring[j % n]
    BY ONLY n \in Nat \ {0}, <1>6, <1>7, <2>0, j \in Nat, x \in 1..Len(u.nodes), <2>1, GetIs
  <2>6. Q!Get(l, j) = l.nodes[y].ring[j % n]
    BY ONLY n \in Nat \ {0}, l \in QuickLists(n, V), q \in Nat, Laid(l, n, q), j \in Nat,
       y \in 1..Len(l.nodes), <2>4, GetIs
  <2> QED
    BY <2>3, <2>5, <2>6
<1> QED
  BY <1>8, <1>10, <1>11, <1>12

\* A pop inside the first node.
LEMMA PopInside ==
  ASSUME NEW n \in Nat \ {0}, NEW V, NEW l \in QuickLists(n, V), NEW q \in Nat, Laid(l, n, q),
         ~ (Len(l.nodes) > 1 /\ l.nodes[1].pop + 1 = l.nodes[1].push),
         l.nodes[1].pop < l.nodes[1].push,
         NEW u, u = Q!PopFront(l)
  PROVE  /\ Dense(u, n, V) /\ Q!BeginIndex(u) = Q!BeginIndex(l) + 1
         /\ Q!EndIndex(u) = Q!EndIndex(l)
         /\ \A j \in Nat : Q!BeginIndex(u) <= j /\ j < Q!EndIndex(u) => Q!Get(u, j) = Q!Get(l, j)
<1>1. /\ l.size = n /\ l.nodes \in Seq(Rooms(n, V)) /\ Len(l.nodes) \in Nat
      /\ Len(l.nodes) >= 1 /\ Len(l.nodes) \in 1..Len(l.nodes)
  BY ListIs
<1>2. PICK k \in 1..Len(l.nodes) : k = 1
  BY <1>1
<1>3. PICK e \in Rooms(n, V) : e = l.nodes[k]
  BY <1>1
<1>4. e.pop \in Nat /\ e.push \in Nat /\ e.ring \in [0..(n - 1) -> V \cup {Nothing}]
  BY DEF Rooms
<1>5. PICK i \in Nat : i = e.pop
  BY <1>4
<1>6. /\ From(n, q, k) \in Nat /\ From(n, q, k) <= i /\ i < e.push
      /\ e.push <= From(n, q, k) + n /\ (k < Len(l.nodes) => e.push = From(n, q, k) + n)
      /\ (Len(l.nodes) > 1 => i + 1 # e.push)
  <2>1. /\ From(n, q, k) \in Nat /\ From(n, q, k) <= l.nodes[k].pop
        /\ l.nodes[k].push <= From(n, q, k) + n
        /\ (k < Len(l.nodes) => l.nodes[k].push = From(n, q, k) + n)
    BY NodeIs
  <2> QED
    BY <1>2, <1>3, <1>5, <2>1
<1>7. (i % n) \in 0..(n - 1)
  BY MarkOf
<1>8. PICK r \in [0..(n - 1) -> V \cup {Nothing}] : r = [e.ring EXCEPT ![i % n] = Nothing]
  BY <1>4, <1>7
<1>9. PICK g \in Nat : g = i + 1
  OBVIOUS
<1>10. PICK d : d = [e EXCEPT !.pop = g, !.ring = r]
  OBVIOUS
<1>11. d \in Rooms(n, V) /\ d.pop = i + 1 /\ d.push = e.push /\ d.ring = r
  BY <1>4, <1>9, <1>10 DEF Rooms
<1>12. u = [l EXCEPT !.nodes[k] = d]
  <2>1. PICK nd : nd = [l.nodes[1] EXCEPT !.pop = @ + 1, !.ring[l.nodes[1].pop % l.size] = Nothing]
    OBVIOUS
  <2>2. nd = d
    BY <1>1, <1>2, <1>3, <1>5, <1>8, <1>9, <1>10, <2>1
  <2>3. ~ (Len(l.nodes) > 1 /\ nd.pop = nd.push)
    BY <1>6, <1>11, <2>2
  <2> QED
    BY <1>2, <2>1, <2>2, <2>3 DEF Q!PopFront, Q!PopHead, Q!NodeEmpty
<1>13. NodeLaid(d, From(n, q, k), n)
  BY <1>4, <1>6, <1>11 DEF NodeLaid
<1>14. /\ k > 1 => d.pop = From(n, q, k)
       /\ k < Len(l.nodes) => d.push = From(n, q, k) + n
       /\ Len(l.nodes) > 1 => d.pop < d.push
  BY <1>2, <1>4, <1>6, <1>11
<1>15. /\ u \in QuickLists(n, V) /\ Laid(u, n, q) /\ Len(u.nodes) = Len(l.nodes)
       /\ u.nodes[k] = d /\ \A j \in 1..Len(l.nodes) : j # k => u.nodes[j] = l.nodes[j]
  BY <1>11, <1>12, <1>13, <1>14, Replaced
<1>16. Dense(u, n, V)
  BY <1>15 DEF Dense
<1>17. Q!BeginIndex(l) = i /\ Q!BeginIndex(u) = i + 1
  BY <1>2, <1>3, <1>5, <1>11, <1>15 DEF Q!BeginIndex, Q!PopHead
<1>18. Q!EndIndex(u) = Q!EndIndex(l)
  BY <1>1, <1>3, <1>11, <1>15 DEF Q!EndIndex, Q!PushHead
<1>19. ASSUME NEW j \in Nat, Q!BeginIndex(u) <= j, j < Q!EndIndex(u)
       PROVE  Q!Get(u, j) = Q!Get(l, j)
  <2>1. PICK x \in 1..Len(u.nodes) : u.nodes[x].pop <= j /\ j < u.nodes[x].push
    BY ONLY n \in Nat \ {0}, q \in Nat, <1>15, <1>19, j \in Nat, Spotted
  <2>2. /\ x \in 1..Len(l.nodes) /\ l.nodes[x].pop <= j /\ j < l.nodes[x].push
        /\ u.nodes[x].ring[j % n] = l.nodes[x].ring[j % n]
    <3>1. CASE x # k
      BY <1>15, <2>1, <3>1
    <3>2. CASE x = k
      <4>1. i + 1 <= j /\ j < e.push
        BY <1>11, <1>15, <2>1, <3>2
      <4>2. /\ From(n, q, k) <= i /\ i < From(n, q, k) + n /\ i \in Nat /\ k \in Nat \ {0}
            /\ From(n, q, k) <= j /\ j < From(n, q, k) + n /\ j # i /\ i <= j
        BY <1>2, <1>4, <1>6, <4>1
      <4>3. (j % n) # (i % n)
        BY ONLY n \in Nat \ {0}, q \in Nat, j \in Nat, <4>2, SlotsApart
      <4>4. (j % n) \in 0..(n - 1)
        BY MarkOf
      <4>5. r[j % n] = e.ring[j % n]
        BY <1>4, <1>8, <4>3, <4>4
      <4> QED
        BY <1>3, <1>5, <1>11, <1>15, <2>1, <3>2, <4>1, <4>2, <4>5
    <3> QED
      BY <3>1, <3>2
  <2>3. Q!Get(l, j) = l.nodes[x].ring[j % n]
    <3>1. x \in 1..Len(l.nodes)
      BY <2>2
    <3>2. l.nodes[x].pop <= j /\ j < l.nodes[x].push
      BY <2>2
    <3> QED
      BY ONLY n \in Nat \ {0}, l \in QuickLists(n, V), q \in Nat, Laid(l, n, q),
         j \in Nat, <3>1, <3>2, GetIs
  <2>4. u \in QuickLists(n, V) /\ Laid(u, n, q)
    BY <1>15
  <2>5. Q!Get(u, j) = u.nodes[x].ring[j % n]
    BY ONLY n \in Nat \ {0}, q \in Nat, <2>4, j \in Nat, x \in 1..Len(u.nodes), <2>1, GetIs
  <2> QED
    BY ONLY <2>2, <2>3, <2>5
<1> QED
  BY <1>16, <1>17, <1>18, <1>19

LEMMA PopIs ==
  ASSUME NEW n \in Nat \ {0}, NEW V, NEW l, Dense(l, n, V), Q!BeginIndex(l) < Q!EndIndex(l),
         NEW u, u = Q!PopFront(l)
  PROVE  /\ Dense(u, n, V) /\ Q!BeginIndex(u) = Q!BeginIndex(l) + 1
         /\ Q!EndIndex(u) = Q!EndIndex(l)
         /\ \A j \in Nat : Q!BeginIndex(u) <= j /\ j < Q!EndIndex(u) => Q!Get(u, j) = Q!Get(l, j)
<1>1. l \in QuickLists(n, V)
  BY DEF Dense
<1>2. PICK q \in Nat : Laid(l, n, q)
  BY DEF Dense
<1>3. /\ Q!BeginIndex(l) = l.nodes[1].pop /\ Q!EndIndex(l) = l.nodes[Len(l.nodes)].push
  BY <1>1, <1>2, Ends
<1>4. /\ Len(l.nodes) \in Nat /\ Len(l.nodes) >= 1 /\ 1 \in 1..Len(l.nodes)
  BY <1>1, <1>2, ListIs
<1>5. l.nodes[1].pop < l.nodes[1].push
  <2>1. Len(l.nodes) > 1 => l.nodes[1].pop < l.nodes[1].push
    BY <1>1, <1>2, <1>4, NodeIs
  <2>2. Len(l.nodes) = 1 => l.nodes[1].pop < l.nodes[1].push
    BY <1>3
  <2>3. Len(l.nodes) = 1 \/ Len(l.nodes) > 1
    <3>1. PICK m \in Nat : m = Len(l.nodes)
      BY <1>4
    <3>2. m >= 1
      BY <1>4, <3>1
    <3>3. m = 1 \/ m > 1
      BY ONLY m \in Nat, <3>2
    <3> QED
      BY <3>1, <3>3
  <2> QED
    BY <2>1, <2>2, <2>3
<1>6. CASE Len(l.nodes) > 1 /\ l.nodes[1].pop + 1 = l.nodes[1].push
  BY ONLY n \in Nat \ {0}, <1>1, <1>2, q \in Nat, <1>6, u = Q!PopFront(l), PopNode
<1>7. CASE ~ (Len(l.nodes) > 1 /\ l.nodes[1].pop + 1 = l.nodes[1].push)
  BY ONLY n \in Nat \ {0}, <1>1, <1>2, q \in Nat, <1>5, <1>7, u = Q!PopFront(l), PopInside
<1> QED
  BY <1>6, <1>7

LEMMA PopEnds ==
  ASSUME NEW n \in Nat \ {0}, NEW V, NEW l, Dense(l, n, V), Q!BeginIndex(l) < Q!EndIndex(l)
  PROVE  /\ Dense(Q!PopFront(l), n, V) /\ Q!BeginIndex(Q!PopFront(l)) = Q!BeginIndex(l) + 1
         /\ Q!EndIndex(Q!PopFront(l)) = Q!EndIndex(l)
<1>1. PICK u : u = Q!PopFront(l)
  OBVIOUS
<1>2. /\ Dense(u, n, V) /\ Q!BeginIndex(u) = Q!BeginIndex(l) + 1
      /\ Q!EndIndex(u) = Q!EndIndex(l)
  BY <1>1, PopIs
<1> QED
  BY <1>1, <1>2

LEMMA PopGets ==
  ASSUME NEW n \in Nat \ {0}, NEW V, NEW l, Dense(l, n, V), Q!BeginIndex(l) < Q!EndIndex(l),
         NEW j \in Nat, Q!BeginIndex(l) + 1 <= j, j < Q!EndIndex(l)
  PROVE  Q!Get(Q!PopFront(l), j) = Q!Get(l, j)
<1>1. PICK u : u = Q!PopFront(l)
  OBVIOUS
<1>2. /\ Q!BeginIndex(u) = Q!BeginIndex(l) + 1 /\ Q!EndIndex(u) = Q!EndIndex(l)
  BY <1>1, PopEnds
<1>3. Q!BeginIndex(u) <= j /\ j < Q!EndIndex(u)
  BY <1>2
<1>4. /\ Dense(u, n, V) /\ Q!BeginIndex(u) = Q!BeginIndex(l) + 1
      /\ Q!EndIndex(u) = Q!EndIndex(l)
      /\ \A i \in Nat : Q!BeginIndex(u) <= i /\ i < Q!EndIndex(u) => Q!Get(u, i) = Q!Get(l, i)
  BY ONLY n \in Nat \ {0}, Dense(l, n, V), Q!BeginIndex(l) < Q!EndIndex(l), <1>1, PopIs
<1> QED
  BY <1>1, <1>3, <1>4

\* A list as it is made, and one that is emptied.
LEMMA NewIs ==
  ASSUME NEW n \in Nat \ {0}, NEW V
  PROVE  /\ Dense(Q!NewList(n), n, V) /\ Q!BeginIndex(Q!NewList(n)) = 0
         /\ Q!EndIndex(Q!NewList(n)) = 0
<1>1. PICK d : d = [pop |-> 0, push |-> 0, ring |-> [i \in 0..(n - 1) |-> Nothing]]
  OBVIOUS
<1>2. d \in Rooms(n, V) /\ d.pop = 0 /\ d.push = 0
  BY <1>1 DEF Rooms
<1>3. PICK l : l = Q!NewList(n)
  OBVIOUS
<1>4. l = [size |-> n, counter |-> n, nodes |-> <<d>>]
  BY <1>1, <1>3 DEF Q!NewList
<1>5. <<d>> \in Seq(Rooms(n, V)) /\ Len(<<d>>) = 1 /\ <<d>>[1] = d
  BY <1>2
<1>6. l \in QuickLists(n, V) /\ l.nodes = <<d>> /\ l.counter = n /\ l.size = n
  BY <1>4, <1>5 DEF QuickLists
<1>7. From(n, 0, 1) = 0
  <2>1. From(n, 0, 1) = Mark(n, 0)
    BY Firsts
  <2> QED
    BY <2>1, MarksAdd
<1>8. Laid(l, n, 0)
  <2>1. NodeLaid(d, 0, n)
    BY <1>2 DEF NodeLaid
  <2> QED
    BY <1>2, <1>5, <1>6, <1>7, <2>1 DEF Laid
<1>9. Dense(l, n, V)
  BY <1>6, <1>8 DEF Dense
<1> QED
  BY <1>2, <1>3, <1>5, <1>6, <1>9 DEF Q!BeginIndex, Q!EndIndex, Q!PopHead, Q!PushHead

LEMMA TopIs ==
  ASSUME NEW n \in Nat \ {0}, NEW V, NEW l, Dense(l, n, V)
  PROVE  /\ l.size = n /\ Q!BeginIndex(l) \in Nat /\ Q!EndIndex(l) \in Nat
         /\ Q!BeginIndex(l) <= Q!EndIndex(l)
         /\ Q!ListEmpty(l) <=> Q!BeginIndex(l) = Q!EndIndex(l)
         /\ Q!BeginIndex(l) < Q!EndIndex(l) => Q!Top(l) = Q!Get(l, Q!BeginIndex(l))
<1>1. l \in QuickLists(n, V)
  BY DEF Dense
<1>2. PICK q \in Nat : Laid(l, n, q)
  BY DEF Dense
<1>3. /\ Q!BeginIndex(l) = l.nodes[1].pop /\ Q!EndIndex(l) = l.nodes[Len(l.nodes)].push
      /\ Q!BeginIndex(l) \in Nat /\ Q!EndIndex(l) \in Nat /\ Q!BeginIndex(l) <= Q!EndIndex(l)
  BY <1>1, <1>2, Ends
<1>4. /\ Len(l.nodes) \in Nat /\ Len(l.nodes) >= 1 /\ 1 \in 1..Len(l.nodes) /\ l.size = n
      /\ Len(l.nodes) \in 1..Len(l.nodes)
  BY <1>1, <1>2, ListIs
<1>5. CASE Len(l.nodes) = 1
  <2>1. Q!ListEmpty(l) <=> Q!BeginIndex(l) = Q!EndIndex(l)
    BY <1>3, <1>5 DEF Q!ListEmpty, Q!NodeEmpty, Q!PopHead, Q!PushHead
  <2>2. ASSUME Q!BeginIndex(l) < Q!EndIndex(l) PROVE Q!Top(l) = Q!Get(l, Q!BeginIndex(l))
    <3>1. l.nodes[1].pop <= Q!BeginIndex(l) /\ Q!BeginIndex(l) < l.nodes[1].push
      BY <1>3, <1>5, <2>2
    <3>2. Q!Get(l, Q!BeginIndex(l)) = l.nodes[1].ring[Q!BeginIndex(l) % n]
      BY ONLY n \in Nat \ {0}, <1>1, <1>2, q \in Nat, <1>3, <1>4, <3>1, GetIs
    <3> QED
      BY <1>3, <1>4, <3>2 DEF Q!Top, Q!PopHead
  <2> QED
    BY <1>3, <1>4, <2>1, <2>2
<1>6. CASE Len(l.nodes) # 1
  <2>0. Len(l.nodes) > 1
    <3>1. PICK m \in Nat : m = Len(l.nodes)
      BY <1>4
    <3>2. m >= 1 /\ m # 1
      BY <1>4, <1>6, <3>1
    <3>3. m > 1
      BY ONLY m \in Nat, <3>2
    <3> QED
      BY <3>1, <3>3
  <2>1. l.nodes[1].pop < l.nodes[1].push /\ l.nodes[1].push = From(n, q, 1) + n /\ From(n, q, 1) \in Nat
    BY <1>1, <1>2, <1>4, <2>0, NodeIs
  <2>2. ~ Q!ListEmpty(l)
    BY <1>3, <2>1 DEF Q!ListEmpty, Q!NodeEmpty, Q!PopHead
  <2>3. Q!BeginIndex(l) < Q!EndIndex(l)
    <3>1. PICK m \in 1..Len(l.nodes) : m = Len(l.nodes)
      BY <1>4
    <3>2. m \in Nat \ {0} /\ From(n, q, m) <= l.nodes[m].pop /\ l.nodes[m].pop < l.nodes[m].push
          /\ From(n, q, m) \in Nat /\ l.nodes[m].pop \in Nat /\ l.nodes[m].push \in Nat
      BY <1>1, <1>2, <2>0, NodeIs
    <3>3. From(n, q, 1) + n <= From(n, q, m)
      BY <2>0, <3>1, <3>2, FirstsGrow
    <3> QED
      BY <1>3, <2>1, <3>1, <3>2, <3>3
  <2>4. Q!Top(l) = Q!Get(l, Q!BeginIndex(l))
    <3>1. l.nodes[1].pop <= Q!BeginIndex(l) /\ Q!BeginIndex(l) < l.nodes[1].push
      BY <1>3, <2>1
    <3>2. Q!Get(l, Q!BeginIndex(l)) = l.nodes[1].ring[Q!BeginIndex(l) % n]
      BY ONLY n \in Nat \ {0}, <1>1, <1>2, q \in Nat, <1>3, <1>4, <3>1, GetIs
    <3> QED
      BY <1>3, <1>4, <3>2 DEF Q!Top, Q!PopHead
  <2> QED
    BY <1>3, <1>4, <2>2, <2>3, <2>4
<1> QED
  BY <1>5, <1>6

---------------------------------------------------------------------------
(* Walking a list.  The iterator goes from index to index.                 *)
Steps(l, m, f) ==
  [k \in 0..m |-> IF k = 0 THEN [node |-> 1, it |-> Q!BeginIndex(l)] ELSE Q!Step(l, f[k - 1])]
Stations(l, i) == [node |-> IF i < Q!EndIndex(l) THEN Q!NodeAt(l, i) ELSE Len(l.nodes), it |-> i]
Path(l, m) == [k \in 0..m |-> Stations(l, Q!BeginIndex(l) + k)]

LEMMA StepsOnce ==
  ASSUME NEW m \in Nat, NEW l, NEW f, NEW g, f = Steps(l, m, f), g = Steps(l, m, g)
  PROVE  f = g
<1> DEFINE z == [node |-> 1, it |-> Q!BeginIndex(l)]
<1>1. \A i \in 0..m : f[i] = IF i = 0 THEN z ELSE Q!Step(l, f[i - 1])
  BY DEF Steps
<1>2. \A i \in 0..m : g[i] = IF i = 0 THEN z ELSE Q!Step(l, g[i - 1])
  BY DEF Steps
<1> HIDE DEF z
<1> DEFINE G == {i \in Nat : i <= m => f[i] = g[i]}
<1>3. 0 \in G
  BY <1>1, <1>2
<1>4. ASSUME NEW i \in Nat, i \in G PROVE i + 1 \in G
  <2> SUFFICES ASSUME i + 1 <= m PROVE f[i + 1] = g[i + 1]
    OBVIOUS
  <2>1. i + 1 \in 0..m /\ i + 1 # 0 /\ (i + 1) - 1 = i
    OBVIOUS
  <2>2. f[i] = g[i]
    BY <1>4
  <2>3. f[i + 1] = Q!Step(l, f[i])
    BY <1>1, <2>1
  <2>4. g[i + 1] = Q!Step(l, g[i])
    BY <1>2, <2>1
  <2> QED
    BY <2>2, <2>3, <2>4
<1>5. \A i \in Nat : i \in G
  <2> HIDE DEF G
  <2> QED
    BY <1>3, <1>4, NatSetInduction
<1>6. \A i \in 0..m : i \in Nat /\ i <= m
  OBVIOUS
<1>7. \A i \in 0..m : f[i] = g[i]
  BY <1>5, <1>6
<1>8. f = [i \in 0..m |-> f[i]] /\ g = [i \in 0..m |-> g[i]]
  BY DEF Steps
<1> QED
  BY <1>7, <1>8

\* One step of the iterator.
LEMMA StepIs ==
  ASSUME NEW n \in Nat \ {0}, NEW V, NEW l, Dense(l, n, V), NEW i \in Nat, Q!BeginIndex(l) <= i
  PROVE  Q!Step(l, Stations(l, i)) = Stations(l, i + 1)
<1>1. l \in QuickLists(n, V)
  BY DEF Dense
<1>2. PICK q \in Nat : Laid(l, n, q)
  BY DEF Dense
<1>3. PICK m \in 1..Len(l.nodes) : m = Len(l.nodes)
  BY <1>1, <1>2, ListIs
<1>4. Q!EndIndex(l) = l.nodes[m].push /\ l.nodes[m].push \in Nat /\ m \in Nat
  <2>1. Q!EndIndex(l) = l.nodes[m].push
    BY <1>1, <1>2, <1>3, Ends
  <2>2. l.nodes[m].push \in Nat /\ m \in Nat \ {0}
    BY ONLY n \in Nat \ {0}, <1>1, <1>2, q \in Nat, m \in 1..Len(l.nodes), NodeIs
  <2> QED
    BY <2>1, <2>2
<1>5. CASE i < Q!EndIndex(l)
  <2>1. PICK x \in 1..Len(l.nodes) : l.nodes[x].pop <= i /\ i < l.nodes[x].push
    BY <1>1, <1>2, <1>5, Spotted
  <2>2. Q!NodeAt(l, i) = x
    BY ONLY n \in Nat \ {0}, <1>1, <1>2, q \in Nat, i \in Nat, x \in 1..Len(l.nodes), <2>1, Located
  <2>3. PICK s : s = [node |-> x, it |-> i]
    OBVIOUS
  <2>4. Stations(l, i) = s /\ s.node = x /\ s.it = i
    BY <1>5, <2>2, <2>3 DEF Stations
  <2>5. x \in Nat \ {0} /\ x <= m /\ l.nodes[x].push \in Nat
    <3>1. x \in Nat \ {0} /\ x <= Len(l.nodes) /\ l.nodes[x].push \in Nat
      BY ONLY n \in Nat \ {0}, <1>1, <1>2, q \in Nat, x \in 1..Len(l.nodes), NodeIs
    <3> QED
      BY <1>3, <3>1
  <2>6. CASE i + 1 = l.nodes[x].push /\ x < m
    <3>1. PICK y \in 1..Len(l.nodes) : y = x + 1
      BY <1>3, <1>4, <2>5, <2>6
    <3>2. Len(l.nodes) > 1 /\ x < Len(l.nodes) /\ y > 1
      BY <1>3, <1>4, <2>5, <2>6, <3>1
    <3>3. l.nodes[x].push = From(n, q, x) + n
      BY ONLY n \in Nat \ {0}, <1>1, <1>2, q \in Nat, x \in 1..Len(l.nodes), <3>2, NodeIs
    <3>4. l.nodes[y].pop = From(n, q, y) /\ l.nodes[y].pop < l.nodes[y].push
      BY ONLY n \in Nat \ {0}, <1>1, <1>2, q \in Nat, y \in 1..Len(l.nodes), <3>2, NodeIs
    <3>5. From(n, q, x + 1) = From(n, q, x) + n
      BY <2>5, Firsts
    <3>6. PICK j \in Nat : j = i + 1
      OBVIOUS
    <3>7. l.nodes[y].pop = j /\ j < l.nodes[y].push /\ l.nodes[y].pop <= j
      BY <2>6, <3>1, <3>3, <3>4, <3>5, <3>6
    <3>8. Q!NodeAt(l, j) = y /\ j < Q!EndIndex(l)
      BY ONLY n \in Nat \ {0}, <1>1, <1>2, q \in Nat, j \in Nat, y \in 1..Len(l.nodes), <3>7, Located
    <3>9. Stations(l, j) = [node |-> y, it |-> j]
      BY <3>8 DEF Stations
    <3>10. Q!Step(l, s) = [node |-> y, it |-> j]
      BY <1>3, <2>4, <2>6, <3>1, <3>7 DEF Q!Step
    <3> QED
      BY <2>4, <3>6, <3>9, <3>10
  <2>7. CASE ~ (i + 1 = l.nodes[x].push /\ x < m)
    <3>1. PICK j \in Nat : j = i + 1
      OBVIOUS
    <3>2. Q!Step(l, s) = [s EXCEPT !.it = @ + 1]
      BY <1>3, <2>4, <2>7 DEF Q!Step
    <3>3. Q!Step(l, s) = [node |-> x, it |-> j]
      BY <2>3, <3>1, <3>2
    <3>4. CASE j < l.nodes[x].push
      <4>1. l.nodes[x].pop <= j
        <5>1. l.nodes[x].pop \in Nat
          BY ONLY n \in Nat \ {0}, <1>1, <1>2, q \in Nat, x \in 1..Len(l.nodes), NodeIs
        <5> QED
          BY <2>1, <3>1, <5>1
      <4>2. Q!NodeAt(l, j) = x /\ j < Q!EndIndex(l)
        BY ONLY n \in Nat \ {0}, <1>1, <1>2, q \in Nat, j \in Nat, x \in 1..Len(l.nodes),
           <3>4, <4>1, Located
      <4>3. Stations(l, j) = [node |-> x, it |-> j]
        BY <4>2 DEF Stations
      <4> QED
        BY <2>4, <3>1, <3>3, <4>3
    <3>5. CASE ~ (j < l.nodes[x].push)
      <4>1. j = l.nodes[x].push /\ x = m
        BY <1>4, <2>1, <2>5, <2>7, <3>1, <3>5
      <4>2. ~ (j < Q!EndIndex(l))
        BY <1>4, <4>1
      <4>3. Stations(l, j) = [node |-> x, it |-> j]
        BY <1>3, <4>1, <4>2 DEF Stations
      <4> QED
        BY <2>4, <3>1, <3>3, <4>3
    <3> QED
      BY <3>4, <3>5
  <2> QED
    BY <2>6, <2>7
<1>6. CASE ~ (i < Q!EndIndex(l))
  <2>1. PICK s : s = [node |-> m, it |-> i]
    OBVIOUS
  <2>2. Stations(l, i) = s /\ s.node = m /\ ~ (s.node < Len(l.nodes))
    BY <1>3, <1>4, <1>6, <2>1 DEF Stations
  <2>3. Q!Step(l, s) = [s EXCEPT !.it = @ + 1]
    BY <2>2 DEF Q!Step
  <2>4. Q!Step(l, s) = [node |-> m, it |-> i + 1]
    BY <2>1, <2>3
  <2>5. ~ (i + 1 < Q!EndIndex(l))
    BY <1>4, <1>6
  <2>6. Stations(l, i + 1) = [node |-> m, it |-> i + 1]
    BY <1>3, <2>5 DEF Stations
  <2> QED
    BY <2>2, <2>4, <2>6
<1> QED
  BY <1>5, <1>6

LEMMA PathIs ==
  ASSUME NEW n \in Nat \ {0}, NEW V, NEW l, Dense(l, n, V), NEW m \in Nat
  PROVE  Path(l, m) = Steps(l, m, Path(l, m))
<1>1. l \in QuickLists(n, V)
  BY DEF Dense
<1>2. PICK q \in Nat : Laid(l, n, q)
  BY DEF Dense
<1>3. PICK b \in Nat : b = Q!BeginIndex(l)
  BY TopIs
<1> DEFINE w == Path(l, m)
<1>4. \A k \in 0..m : w[k] = Stations(l, b + k)
  BY <1>3 DEF Path
<1>5. ASSUME NEW k \in 0..m
      PROVE  w[k] = IF k = 0 THEN [node |-> 1, it |-> Q!BeginIndex(l)] ELSE Q!Step(l, w[k - 1])
  <2>1. CASE k = 0
    <3>1. w[k] = Stations(l, b)
      BY <1>4, <2>1
    <3>2. CASE b < Q!EndIndex(l)
      <4>3. Q!NodeAt(l, b) = 1
        <5>1. Q!NodeAt(l, b) = 1 + ((b - (b - (b % n))) \div n)
          BY <1>1, <1>2, <1>3, ListIs DEF Q!NodeAt
        <5>2. PICK y \in Nat : y = b \div n
          BY MarkOf
        <5>3. (b - (b - (b % n))) \div n = (b \div n) - (b \div n)
          BY Quotients
        <5> QED
          BY <5>1, <5>2, <5>3
      <4> QED
        BY <1>3, <2>1, <3>1, <3>2, <4>3 DEF Stations
    <3>3. CASE ~ (b < Q!EndIndex(l))
      <4>1. Len(l.nodes) = 1
        <5>0. Q!EndIndex(l) = b
          <6>1. Q!EndIndex(l) \in Nat /\ b <= Q!EndIndex(l)
            BY <1>3, TopIs
          <6> QED
            BY <3>3, <6>1
        <5>1. PICK z \in 1..Len(l.nodes) : z = Len(l.nodes)
          BY <1>1, <1>2, ListIs
        <5>2. PICK a \in 1..Len(l.nodes) : a = 1
          BY <1>1, <1>2, ListIs
        <5>3. l.nodes[a].pop = b /\ l.nodes[z].push = b
          BY <1>1, <1>2, <1>3, <5>0, <5>1, <5>2, Ends
        <5>4. /\ z \in Nat \ {0} /\ From(n, q, z) <= l.nodes[z].pop
              /\ l.nodes[z].pop <= l.nodes[z].push
              /\ From(n, q, z) \in Nat /\ l.nodes[z].pop \in Nat
          BY ONLY n \in Nat \ {0}, <1>1, <1>2, q \in Nat, z \in 1..Len(l.nodes), NodeIs
        <5>5. SUFFICES ASSUME z > a PROVE FALSE
          <6>1. z \in Nat \ {0} /\ a = 1
            BY <5>2, <5>4
          <6>2. ~ (z > a) => z = 1
            BY ONLY <6>1
          <6> QED
            BY <5>1, <6>2
        <5>6. l.nodes[a].push <= From(n, q, a) + n /\ From(n, q, a) \in Nat
              /\ l.nodes[a].pop < l.nodes[a].push /\ l.nodes[a].push \in Nat
          <6>1. Len(l.nodes) > 1
            BY <5>1, <5>2, <5>5
          <6> QED
            BY ONLY n \in Nat \ {0}, <1>1, <1>2, q \in Nat, a \in 1..Len(l.nodes), <6>1, NodeIs
        <5>7. From(n, q, a) + n <= From(n, q, z)
          <6>1. a \in Nat \ {0} /\ a < z
            BY <5>2, <5>4, <5>5
          <6> QED
            BY ONLY n \in Nat \ {0}, q \in Nat, <5>4, <6>1, FirstsGrow
        <5>8. From(n, q, a) + n <= l.nodes[z].pop /\ l.nodes[z].pop <= b
          BY <5>3, <5>4, <5>6, <5>7
        <5>9. b < l.nodes[a].push /\ l.nodes[a].push <= b
          BY <5>3, <5>4, <5>6, <5>8
        <5> QED
          BY <5>6, <5>9
      <4> QED
        BY <1>3, <2>1, <3>1, <3>3, <4>1 DEF Stations
    <3> QED
      BY <3>2, <3>3
  <2>2. CASE k # 0
    <3>1. PICK j \in 0..m : j = k - 1
      BY <2>2
    <3>2. j \in Nat /\ k = j + 1
      BY <3>1
    <3>3. PICK i \in Nat : i = b + j
      BY <3>2
    <3>4. b <= i /\ b + k = i + 1
      BY <3>2, <3>3
    <3>5. Q!Step(l, Stations(l, i)) = Stations(l, i + 1)
      BY ONLY n \in Nat \ {0}, Dense(l, n, V), i \in Nat, <1>3, <3>4, StepIs
    <3>6. w[j] = Stations(l, i)
      BY <1>4, <3>3
    <3>7. w[k] = Stations(l, i + 1)
      BY <1>4, <3>4
    <3> HIDE DEF w
    <3> QED
      BY <2>2, <3>1, <3>5, <3>6, <3>7
  <2> QED
    BY <2>1, <2>2
<1>6. w = [k \in 0..m |-> w[k]]
  BY DEF Path
<1> HIDE DEF w
<1>7. w = Steps(l, m, w)
  BY <1>5, <1>6 DEF Steps
<1> QED
  BY <1>7 DEF w

\* There are no more elements than slots.
LEMMA Roomy ==
  ASSUME NEW n \in Nat \ {0}, NEW V, NEW l, Dense(l, n, V)
  PROVE  /\ l.size * Len(l.nodes) \in Nat
         /\ Q!EndIndex(l) - Q!BeginIndex(l) <= l.size * Len(l.nodes)
<1>1. l \in QuickLists(n, V)
  BY DEF Dense
<1>2. PICK q \in Nat : Laid(l, n, q)
  BY DEF Dense
<1>3. PICK z \in 1..Len(l.nodes) : z = Len(l.nodes)
  BY <1>1, <1>2, ListIs
<1>4. PICK a \in 1..Len(l.nodes) : a = 1
  BY <1>1, <1>2, ListIs
<1>5. /\ z \in Nat \ {0} /\ l.nodes[z].push <= From(n, q, z) + n
      /\ From(n, q, z) \in Nat /\ l.nodes[z].push \in Nat
  BY ONLY n \in Nat \ {0}, <1>1, <1>2, q \in Nat, z \in 1..Len(l.nodes), NodeIs
<1>6. From(n, q, a) <= l.nodes[a].pop /\ From(n, q, a) \in Nat /\ l.nodes[a].pop \in Nat
  BY ONLY n \in Nat \ {0}, <1>1, <1>2, q \in Nat, a \in 1..Len(l.nodes), NodeIs
<1>7. Q!BeginIndex(l) = l.nodes[a].pop /\ Q!EndIndex(l) = l.nodes[z].push
  BY <1>1, <1>2, <1>3, <1>4, Ends
<1>8. From(n, q, z) + n = Mark(n, q) + Mark(n, z) /\ From(n, q, a) = Mark(n, q)
      /\ Mark(n, q) \in Nat /\ Mark(n, z) \in Nat
  <2>1. PICK j \in Nat : j = (q + z) - 1
    BY <1>5
  <2>2. From(n, q, z) = Mark(n, j)
    BY <2>1 DEF From
  <2>3. Mark(n, j + 1) = Mark(n, j) + n
    BY Marks
  <2>4. q + z = j + 1
    BY <1>5, <2>1
  <2>5. Mark(n, q + z) = Mark(n, q) + Mark(n, z) /\ Mark(n, q) \in Nat /\ Mark(n, z) \in Nat
    BY <1>5, MarksAdd
  <2>6. From(n, q, a) = Mark(n, q)
    BY <1>4, Firsts
  <2> QED
    BY <2>2, <2>3, <2>4, <2>5, <2>6
<1>9. l.size * Len(l.nodes) = Mark(n, z)
  <2>1. l.size = n
    BY TopIs
  <2> QED
    BY <1>3, <2>1 DEF Mark
<1> QED
  BY <1>5, <1>6, <1>7, <1>8, <1>9

LEMMA WalkedIs ==
  ASSUME NEW n \in Nat \ {0}, NEW V, NEW l, Dense(l, n, V), NEW z \in Nat,
         z = Q!EndIndex(l) - Q!BeginIndex(l)
  PROVE  Q!Walked(l) = [k \in 1..z |-> Q!Get(l, (Q!BeginIndex(l) + k) - 1)]
<1>1. l \in QuickLists(n, V)
  BY DEF Dense
<1>2. PICK q \in Nat : Laid(l, n, q)
  BY DEF Dense
<1>3. PICK b \in Nat : b = Q!BeginIndex(l)
  BY TopIs
<1>4. PICK m \in Nat : m = l.size * Len(l.nodes) /\ z <= m
  BY Roomy
<1>5. PICK e \in Nat : e = Q!EndIndex(l) /\ e = b + z
  <2>1. Q!EndIndex(l) \in Nat
    BY TopIs
  <2> QED
    BY <1>3, <2>1
<1> DEFINE at == CHOOSE at : at = Steps(l, m, at)
           w == Path(l, m)
<1>6. at = w
  <2>1. w = Steps(l, m, w)
    BY PathIs
  <2>2. at = Steps(l, m, at)
    BY <2>1
  <2> HIDE DEF at, w
  <2> QED
    BY <2>1, <2>2, StepsOnce
<1>7. \A k \in 0..m : w[k] = Stations(l, b + k) /\ w[k].it = b + k
  BY <1>3 DEF Path, Stations
<1> DEFINE P(k) == /\ at[k].it = Q!EndIndex(l) \/ k = m
                   /\ \A j \in 0..(k - 1) : at[j].it # Q!EndIndex(l)
           stop == CHOOSE k \in 0..m : P(k)
<1>8. stop = z
  <2> HIDE DEF w, at
  <2>1. z \in 0..m /\ P(z)
    <3>1. z \in 0..m
      BY <1>4
    <3>2. at[z].it = e
      BY <1>5, <1>6, <1>7, <3>1
    <3>3. ASSUME NEW j \in 0..(z - 1) PROVE at[j].it # e
      <4>1. j \in 0..m /\ j < z
        BY <1>4
      <4> QED
        BY <1>5, <1>6, <1>7, <4>1
    <3> QED
      BY <1>5, <3>1, <3>2, <3>3
  <2>2. ASSUME NEW k \in 0..m, P(k) PROVE k = z
    <3>1. CASE k < z
      BY <1>4, <1>5, <1>6, <1>7, <2>2, <3>1
    <3>2. CASE k > z
      <4>1. z \in 0..(k - 1)
        BY <3>2
      <4>2. at[z].it # Q!EndIndex(l)
        BY <2>2, <4>1
      <4> QED
        BY <1>5, <1>6, <1>7, <2>1, <4>2
    <3> QED
      BY <3>1, <3>2
  <2> HIDE DEF P
  <2> QED
    BY <2>1, <2>2
<1>9. Q!Walked(l) = [k \in 1..stop |-> l.nodes[at[k - 1].node].ring[at[k - 1].it % l.size]]
  BY <1>4 DEF Q!Walked, Steps
<1>10. ASSUME NEW k \in 1..z
       PROVE  l.nodes[at[k - 1].node].ring[at[k - 1].it % l.size] = Q!Get(l, (b + k) - 1)
  <2>1. PICK j \in 0..m : j = k - 1
    BY <1>4
  <2>2. PICK i \in Nat : i = b + j
    OBVIOUS
  <2>3. (b + k) - 1 = i /\ i < e /\ b <= i
    BY <1>5, <2>1, <2>2
  <2>4. at[j] = Stations(l, i)
    BY <1>6, <1>7, <2>2
  <2>5. PICK x \in 1..Len(l.nodes) : l.nodes[x].pop <= i /\ i < l.nodes[x].push
    BY ONLY n \in Nat \ {0}, <1>1, <1>2, q \in Nat, <1>3, <1>5, <2>3, i \in Nat, Spotted
  <2>6. Q!NodeAt(l, i) = x
    BY ONLY n \in Nat \ {0}, <1>1, <1>2, q \in Nat, i \in Nat, x \in 1..Len(l.nodes), <2>5, Located
  <2>7. at[j].node = x /\ at[j].it = i
    BY <1>5, <2>3, <2>4, <2>6 DEF Stations
  <2>8. Q!Get(l, i) = l.nodes[x].ring[i % l.size]
    BY <2>6 DEF Q!Get
  <2> HIDE DEF at
  <2> QED
    BY <2>1, <2>3, <2>7, <2>8
<1> HIDE DEF at, stop
<1> QED
  BY <1>3, <1>8, <1>9, <1>10

---------------------------------------------------------------------------
(* The vector of a system.                                                 *)
Entry == [key : Ids, at : Nat \cup {Tombstone}]
Sorted(ix) == \A j, k \in 1..Len(ix) : j < k => ix[j].key < ix[k].key
Vector(ix) == ix \in Seq(Entry) /\ Sorted(ix)

LEMMA EntryIs ==
  ASSUME NEW ix, Vector(ix), NEW k \in 1..Len(ix)
  PROVE  /\ ix[k] \in Entry /\ ix[k].key \in Ids /\ ix[k].key \in Nat /\ k \in Nat \ {0}
         /\ ix[k].at \in Nat \cup {Tombstone} /\ Len(ix) \in Nat /\ k <= Len(ix)
<1>1. ix[k] \in Entry /\ Len(ix) \in Nat
  BY DEF Vector
<1>2. ix[k].key \in Ids /\ ix[k].at \in Nat \cup {Tombstone}
  BY <1>1 DEF Entry
<1>3. ix[k].key \in Nat
  BY <1>2, EntityAssumption DEF Ids
<1> QED
  BY <1>1, <1>2, <1>3

\* An entity has one entry.
LEMMA OneEntry ==
  ASSUME NEW ix, Vector(ix), NEW j \in 1..Len(ix), NEW k \in 1..Len(ix), ix[j].key = ix[k].key
  PROVE  j = k
<1>1. j \in Nat /\ k \in Nat /\ ix[j].key \in Nat
  BY EntryIs
<1>2. ~ (j < k) /\ ~ (k < j)
  BY <1>1 DEF Vector, Sorted
<1> QED
  BY ONLY <1>1, <1>2

LEMMA FindIs ==
  ASSUME NEW ix, Vector(ix), NEW lo \in Nat \ {0}, NEW hi \in Nat, hi <= Past(ix),
         NEW e
  PROVE  /\ \A k \in lo..(hi - 1) : ix[k].key = e => Find(ix, lo, hi, e) = k
         /\ (\A k \in lo..(hi - 1) : ix[k].key # e) => Find(ix, lo, hi, e) = hi
<1>1. \A k \in lo..(hi - 1) : k \in 1..Len(ix)
  <2>1. Len(ix) \in Nat
    BY DEF Vector
  <2> QED
    BY <2>1 DEF Past
<1>2. \A j, k \in lo..(hi - 1) : ix[j].key = e /\ ix[k].key = e => j = k
  BY <1>1, OneEntry
<1>3. ASSUME NEW k \in lo..(hi - 1), ix[k].key = e PROVE Find(ix, lo, hi, e) = k
  <2>1. \E j \in lo..(hi - 1) : ix[j].key = e
    BY <1>3
  <2>2. Find(ix, lo, hi, e) = CHOOSE j \in lo..(hi - 1) : ix[j].key = e
    BY <2>1 DEF Find
  <2>3. (CHOOSE j \in lo..(hi - 1) : ix[j].key = e) = k
    BY <1>2, <1>3
  <2> QED
    BY <2>2, <2>3
<1>4. ASSUME \A k \in lo..(hi - 1) : ix[k].key # e PROVE Find(ix, lo, hi, e) = hi
  BY <1>4 DEF Find
<1> QED
  BY <1>3, <1>4

LEMMA PlaceIs ==
  ASSUME NEW ix, Vector(ix), NEW e
  PROVE  /\ Past(ix) \in Nat /\ Past(ix) = Len(ix) + 1
         /\ \A k \in 1..Len(ix) : ix[k].key = e => Place(ix, e) = k /\ k # Past(ix)
         /\ (\A k \in 1..Len(ix) : ix[k].key # e) => Place(ix, e) = Past(ix)
<1>1. Len(ix) \in Nat
  BY DEF Vector
<1>2. Past(ix) \in Nat /\ Past(ix) = Len(ix) + 1 /\ Past(ix) <= Past(ix) /\ 1 \in Nat \ {0}
      /\ 1..(Past(ix) - 1) = 1..Len(ix)
  BY <1>1 DEF Past
<1>3. /\ \A k \in 1..(Past(ix) - 1) : ix[k].key = e => Find(ix, 1, Past(ix), e) = k
      /\ (\A k \in 1..(Past(ix) - 1) : ix[k].key # e) => Find(ix, 1, Past(ix), e) = Past(ix)
  BY <1>2, FindIs
<1>4. \A k \in 1..Len(ix) : k # Past(ix)
  BY <1>1, <1>2
<1> QED
  BY <1>2, <1>3, <1>4 DEF Place

Alive(ix, e) == \E k \in 1..Len(ix) : ix[k].key = e /\ ix[k].at # Tombstone

LEMMA ValidIs ==
  ASSUME NEW ix, Vector(ix), NEW e
  PROVE  Valid(ix, e) <=> Alive(ix, e)
<1>1. CASE \E k \in 1..Len(ix) : ix[k].key = e
  <2>1. PICK k \in 1..Len(ix) : ix[k].key = e
    BY <1>1
  <2>2. Place(ix, e) = k /\ k # Past(ix)
    BY <2>1, PlaceIs
  <2>3. \A j \in 1..Len(ix) : ix[j].key = e => j = k
    BY <2>1, OneEntry
  <2> QED
    BY <2>1, <2>2, <2>3 DEF Valid, Alive
<1>2. CASE ~ \E k \in 1..Len(ix) : ix[k].key = e
  <2>1. Place(ix, e) = Past(ix)
    BY <1>2, PlaceIs
  <2> QED
    BY <1>2, <2>1 DEF Valid, Alive
<1> QED
  BY <1>1, <1>2

\* Another index in an entry.
Redirect(ix, k, i) == [ix EXCEPT ![k].at = i]

LEMMA Redirected ==
  ASSUME NEW ix, Vector(ix), NEW k \in 1..Len(ix), NEW i \in Nat \cup {Tombstone},
         NEW u, u = Redirect(ix, k, i)
  PROVE  /\ Vector(u) /\ Len(u) = Len(ix) /\ u[k].at = i
         /\ \A j \in 1..Len(ix) : u[j].key = ix[j].key
         /\ \A j \in 1..Len(ix) : j # k => u[j] = ix[j]
<1>1. ix \in Seq(Entry) /\ Len(ix) \in Nat
  BY DEF Vector
<1>2. PICK d : d = [ix[k] EXCEPT !.at = i]
  OBVIOUS
<1>3. d \in Entry /\ d.key = ix[k].key /\ d.at = i
  <2>1. ix[k] \in Entry
    BY <1>1
  <2> QED
    BY <1>2, <2>1 DEF Entry
<1>4. u = [ix EXCEPT ![k] = d]
  BY <1>2 DEF Redirect
<1>5. /\ u \in Seq(Entry) /\ Len(u) = Len(ix) /\ u[k] = d
      /\ \A j \in 1..Len(ix) : j # k => u[j] = ix[j]
  BY <1>1, <1>3, <1>4
<1>6. \A j \in 1..Len(ix) : u[j].key = ix[j].key
  BY <1>3, <1>5
<1>7. Vector(u)
  BY <1>5, <1>6 DEF Vector, Sorted
<1> QED
  BY <1>3, <1>5, <1>6, <1>7

Entries(ix) == {ix[k] : k \in 1..Len(ix)}

LEMMA EntriesAre ==
  ASSUME NEW ix, Vector(ix)
  PROVE  /\ Entries(ix) \subseteq Entry
         /\ \A x, y \in Entries(ix) : x.key = y.key => x = y
         /\ \A e : Alive(ix, e) <=> \E x \in Entries(ix) : x.key = e /\ x.at # Tombstone
         /\ \A x \in Entries(ix) : /\ Place(ix, x.key) \in 1..Len(ix)
                                   /\ ix[Place(ix, x.key)] = x
                                   /\ Place(ix, x.key) # Past(ix)
<1>1. Entries(ix) \subseteq Entry
  BY EntryIs DEF Entries
<1>2. \A x, y \in Entries(ix) : x.key = y.key => x = y
  BY OneEntry DEF Entries
<1>3. \A e : Alive(ix, e) <=> \E x \in Entries(ix) : x.key = e /\ x.at # Tombstone
  BY DEF Alive, Entries
<1>4. ASSUME NEW x \in Entries(ix)
      PROVE  /\ Place(ix, x.key) \in 1..Len(ix) /\ ix[Place(ix, x.key)] = x
             /\ Place(ix, x.key) # Past(ix)
  <2>1. PICK k \in 1..Len(ix) : ix[k] = x
    BY DEF Entries
  <2>2. Place(ix, x.key) = k /\ k # Past(ix)
    BY <2>1, PlaceIs
  <2> QED
    BY <2>1, <2>2
<1> QED
  BY <1>1, <1>2, <1>3, <1>4

LEMMA SameLength ==
  ASSUME NEW ix, Vector(ix), NEW k \in 1..Len(ix), NEW i \in Nat \cup {Tombstone}
  PROVE  Len(Redirect(ix, k, i)) = Len(ix)
<1>1. PICK u : u = Redirect(ix, k, i)
  OBVIOUS
<1>2. Len(u) = Len(ix)
  BY <1>1, Redirected
<1> QED
  BY <1>1, <1>2

\* Another index in an entry leaves the other entries.
LEMMA EntryRedirected ==
  ASSUME NEW ix, Vector(ix), NEW k \in 1..Len(ix), NEW i \in Nat \cup {Tombstone},
         NEW u, u = Redirect(ix, k, i)
  PROVE  Entries(u) = (Entries(ix) \ {ix[k]}) \cup {[key |-> ix[k].key, at |-> i]}
<1>a. Vector(u) /\ Len(u) = Len(ix) /\ u[k].at = i
  BY ONLY Vector(ix), k \in 1..Len(ix), i \in Nat \cup {Tombstone}, u = Redirect(ix, k, i),
     Redirected
<1>b. \A j \in 1..Len(ix) : u[j].key = ix[j].key
  BY Redirected
<1>c. \A j \in 1..Len(ix) : j # k => u[j] = ix[j]
  BY Redirected
<1>1. /\ Vector(u) /\ Len(u) = Len(ix) /\ u[k].at = i /\ u[k].key = ix[k].key
      /\ \A j \in 1..Len(ix) : j # k => u[j] = ix[j]
  BY <1>a, <1>b, <1>c
<1>2. u[k] = [key |-> ix[k].key, at |-> i]
  <2>1. u[k] \in Entry
    BY <1>1, EntryIs
  <2> QED
    BY <1>1, <2>1 DEF Entry
<1>3. \A j \in 1..Len(ix) : j # k => ix[j] # ix[k]
  BY OneEntry
<1> QED
  BY <1>1, <1>2, <1>3 DEF Entries

LEMMA InsertedIs ==
  ASSUME NEW ix, Vector(ix), NEW e \in Ids, NEW i \in Nat,
         \A k \in 1..Len(ix) : ix[k].key # e, NEW u, u = Inserted(ix, e, i)
  PROVE  Vector(u) /\ Entries(u) = Entries(ix) \cup {[key |-> e, at |-> i]}
<1>1. ix \in Seq(Entry) /\ Past(ix) = Len(ix) + 1
  BY DEF Vector, Past
<1>2. PICK m \in Nat : m = Len(ix)
  BY <1>1
<1>3. e \in Nat
  BY EntityAssumption DEF Ids
<1>4. \A k \in 1..m : ix[k].key \in Nat /\ ix[k] \in Entry
  BY <1>2, EntryIs
<1> DEFINE P(k) == \A j \in 1..Len(ix) : j < k <=> ix[j].key <= e
<1>5. \E k \in 1..(m + 1) : P(k)
  <2> DEFINE T == {k \in 1..(m + 1) : k = m + 1 \/ ix[k].key > e}
  <2>1. T \subseteq Nat /\ m + 1 \in T
    OBVIOUS
  <2>2. PICK k \in T : \A t \in T : k <= t
    <3> HIDE DEF T
    <3> QED
      BY <2>1, SmallestNumber
  <2>3. ASSUME NEW j \in 1..m PROVE j < k <=> ix[j].key <= e
    <3>1. j \in Nat /\ k \in Nat /\ ix[j].key \in Nat
      BY <1>4, <2>1
    <3>2. ASSUME j < k PROVE ix[j].key <= e
      <4>1. j \notin T
        <5> HIDE DEF T
        <5> QED
          BY <2>2, <3>1, <3>2
      <4>2. j \in 1..(m + 1)
        OBVIOUS
      <4> QED
        BY <1>3, <3>1, <4>1, <4>2
    <3>3. ASSUME ~ (j < k) PROVE ~ (ix[j].key <= e)
      <4>1. k \in 1..m /\ ix[k].key > e
        BY <3>1, <3>3
      <4>2. ix[k].key <= ix[j].key
        <5>1. CASE k = j
          BY <3>1, <5>1
        <5>2. CASE k # j
          <6>1. k < j
            BY <3>1, <3>3, <5>2
          <6>2. ix[k].key < ix[j].key
            BY <1>2, <4>1, <6>1 DEF Vector, Sorted
          <6> QED
            BY <1>4, <3>1, <4>1, <6>2
        <5> QED
          BY <5>1, <5>2
      <4> QED
        BY <1>3, <1>4, <3>1, <4>1, <4>2
    <3> QED
      BY <3>2, <3>3
  <2> QED
    BY <1>2, <2>2, <2>3
<1>6. PICK p \in 1..(m + 1) : P(p) /\ p = CHOOSE k \in 1..Past(ix) : P(k)
  <2> HIDE DEF P
  <2> QED
    BY <1>1, <1>2, <1>5
<1>7. PICK d \in Entry : d = [key |-> e, at |-> i] /\ d.key = e /\ d.at = i
  <2>1. PICK d : d = [key |-> e, at |-> i]
    OBVIOUS
  <2>2. d \in Entry /\ d.key = e /\ d.at = i
    BY <2>1 DEF Entry
  <2> QED
    BY <2>1, <2>2
<1>8. u = [k \in 1..(m + 1) |-> IF k < p THEN ix[k] ELSE IF k = p THEN d ELSE ix[k - 1]]
  BY <1>1, <1>2, <1>6, <1>7 DEF Inserted
<1>9. \A k \in 1..(m + 1) : /\ k < p => k \in 1..m /\ u[k] = ix[k]
                            /\ k = p => u[k] = d
                            /\ k > p => k - 1 \in 1..m /\ u[k] = ix[k - 1]
  BY <1>8
<1>10. \A k \in 1..(m + 1) : u[k] \in Entry
  BY <1>4, <1>9
<1>11. u \in [1..(m + 1) -> Entry]
  BY <1>8, <1>10
<1>12. u \in Seq(Entry) /\ Len(u) = m + 1
  <2>1. m + 1 \in Nat
    OBVIOUS
  <2> QED
    BY <1>11, <2>1
<1>13. \A j \in 1..m : j < p => ix[j].key < e
  BY <1>2, <1>3, <1>4, <1>6
<1>14. ASSUME NEW j \in 1..m, j >= p PROVE ix[j].key > e
  <2>1. ~ (j < p)
    BY <1>14
  <2>2. ~ (ix[j].key <= e)
    BY <1>2, <1>6, <2>1
  <2> QED
    BY <1>3, <1>4, <2>2
<1>15. ASSUME NEW j \in 1..(m + 1), NEW k \in 1..(m + 1), j < k
       PROVE  u[j].key < u[k].key
  <2>1. \A x, y \in 1..m : x < y => ix[x].key < ix[y].key
    BY <1>2 DEF Vector, Sorted
  <2>2. CASE k < p
    <3>1. j < p /\ j \in 1..m /\ k \in 1..m
      BY <1>15, <2>2
    <3> QED
      BY <1>9, <1>15, <2>1, <2>2, <3>1
  <2>3. CASE k = p
    <3>1. j < p /\ j \in 1..m
      BY <1>15, <2>3
    <3> QED
      BY <1>7, <1>9, <1>13, <2>3, <3>1
  <2>4. CASE k > p
    <3>1. PICK y \in 1..m : y = k - 1 /\ u[k] = ix[y] /\ y >= p
      BY <1>9, <2>4
    <3>2. CASE j < p
      <4>1. j \in 1..m /\ j < y /\ u[j] = ix[j]
        BY <1>9, <3>1, <3>2
      <4> QED
        BY <2>1, <3>1, <4>1
    <3>3. CASE j = p
      BY <1>7, <1>9, <1>14, <3>1, <3>3
    <3>4. CASE j > p
      <4>1. PICK x \in 1..m : x = j - 1 /\ u[j] = ix[x] /\ x < y
        BY <1>9, <1>15, <3>1, <3>4
      <4> QED
        BY <2>1, <3>1, <4>1
    <3> QED
      BY <3>2, <3>3, <3>4
  <2> QED
    BY <2>2, <2>3, <2>4
<1>16. Vector(u)
  BY <1>12, <1>15 DEF Vector, Sorted
<1>17. \A j \in 1..m : \E k \in 1..(m + 1) : u[k] = ix[j]
  <2> SUFFICES ASSUME NEW j \in 1..m PROVE \E k \in 1..(m + 1) : u[k] = ix[j]
    OBVIOUS
  <2>1. CASE j < p
    BY <1>9, <2>1
  <2>2. CASE ~ (j < p)
    <3>1. PICK k \in 1..(m + 1) : k = j + 1
      OBVIOUS
    <3>2. k > p /\ k - 1 = j
      BY <2>2, <3>1
    <3> QED
      BY <1>9, <3>1, <3>2
  <2> QED
    BY <2>1, <2>2
<1>18. ASSUME NEW k \in 1..(m + 1) PROVE u[k] = d \/ \E j \in 1..m : u[k] = ix[j]
  <2>1. k < p \/ k = p \/ k > p
    OBVIOUS
  <2>2. CASE k < p
    BY <1>9, <2>2
  <2>3. CASE k = p
    BY <1>9, <2>3
  <2>4. CASE k > p
    <3>1. PICK j \in 1..m : j = k - 1
      BY <1>9, <2>4
    <3>2. u[k] = ix[j]
      BY <1>9, <2>4, <3>1
    <3> QED
      BY <3>2
  <2> QED
    BY <2>1, <2>2, <2>3, <2>4
<1>19. u[p] = d
  BY <1>9
<1>20. Entries(u) = Entries(ix) \cup {d}
  <2>1. ASSUME NEW x \in Entries(u) PROVE x \in Entries(ix) \cup {d}
    BY <1>2, <1>12, <1>18 DEF Entries
  <2>2. ASSUME NEW x \in Entries(ix) \cup {d} PROVE x \in Entries(u)
    BY <1>2, <1>12, <1>17, <1>19 DEF Entries
  <2> QED
    BY <2>1, <2>2
<1> QED
  BY <1>7, <1>16, <1>20

LEMMA Longer ==
  ASSUME NEW s, Vector(s), NEW x \in Entry, \A y \in Entries(s) : y.key < x.key,
         NEW u, u = Append(s, x)
  PROVE  Vector(u) /\ Entries(u) = Entries(s) \cup {x}
<1>1. PICK m \in Nat : m = Len(s)
  BY DEF Vector
<1>2. /\ u \in Seq(Entry) /\ Len(u) = m + 1 /\ u[m + 1] = x
      /\ \A j \in 1..m : u[j] = s[j]
  <2>1. s \in Seq(Entry)
    BY DEF Vector
  <2> QED
    BY <1>1, <2>1
<1>3. ASSUME NEW j \in 1..(m + 1), NEW k \in 1..(m + 1), j < k
      PROVE  u[j].key < u[k].key
  <2>1. j \in 1..m
    BY <1>3
  <2>2. u[j] = s[j]
    BY <1>2, <2>1
  <2>3. CASE k = m + 1
    <3>1. s[j] \in Entries(s)
      BY <1>1, <2>1 DEF Entries
    <3> QED
      BY <1>2, <2>2, <2>3, <3>1
  <2>4. CASE k # m + 1
    <3>1. k \in 1..m /\ u[k] = s[k]
      BY <1>2, <2>4
    <3> QED
      BY <1>1, <1>3, <2>1, <2>2, <3>1 DEF Vector, Sorted
  <2> QED
    BY <2>3, <2>4
<1>4. Vector(u)
  BY <1>2, <1>3 DEF Vector, Sorted
<1>5. ASSUME NEW y \in Entries(u) PROVE y \in Entries(s) \cup {x}
  <2>1. PICK k \in 1..(m + 1) : y = u[k]
    BY <1>2 DEF Entries
  <2>2. CASE k = m + 1
    BY <1>2, <2>1, <2>2
  <2>3. CASE k # m + 1
    <3>1. k \in 1..m /\ u[k] = s[k]
      BY <1>2, <2>3
    <3> QED
      BY <1>1, <2>1, <3>1 DEF Entries
  <2> QED
    BY <2>2, <2>3
<1>6. ASSUME NEW y \in Entries(s) \cup {x} PROVE y \in Entries(u)
  <2>1. CASE y = x
    <3>1. m + 1 \in 1..(m + 1)
      OBVIOUS
    <3> QED
      BY <1>2, <2>1, <3>1 DEF Entries
  <2>2. CASE y \in Entries(s)
    <3>1. PICK k \in 1..m : y = s[k]
      BY <1>1, <2>2 DEF Entries
    <3>2. k \in 1..(m + 1) /\ u[k] = y
      BY <1>2, <3>1
    <3> QED
      BY <1>2, <3>2 DEF Entries
  <2> QED
    BY <2>1, <2>2
<1> QED
  BY <1>4, <1>5, <1>6

\* What compress() keeps of the first entries.
Kept(ix, m, f) ==
  [i \in 0..m |-> IF i = 0 THEN << >>
                  ELSE IF ix[i].at = Tombstone THEN f[i - 1] ELSE Append(f[i - 1], ix[i])]

LEMMA KeptExists ==
  ASSUME NEW ix
  PROVE  \A m \in Nat : \E f : f = Kept(ix, m, f)
<1> DEFINE G == {m \in Nat : \E f : f = Kept(ix, m, f)}
<1>1. 0 \in G
  <2>1. PICK f : f = [i \in 0..0 |-> << >>]
    OBVIOUS
  <2>2. f = Kept(ix, 0, f)
    <3>1. \A i \in 0..0 : i = 0
      OBVIOUS
    <3> QED
      BY <2>1, <3>1 DEF Kept
  <2> QED
    BY <2>2
<1>2. ASSUME NEW m \in Nat, m \in G PROVE m + 1 \in G
  <2>1. PICK f : f = Kept(ix, m, f)
    BY <1>2
  <2>2. PICK last : last = IF ix[m + 1].at = Tombstone THEN f[m] ELSE Append(f[m], ix[m + 1])
    OBVIOUS
  <2>3. PICK g : g = [i \in 0..(m + 1) |-> IF i <= m THEN f[i] ELSE last]
    OBVIOUS
  <2>4. ASSUME NEW i \in 0..(m + 1)
        PROVE  g[i] = IF i = 0 THEN << >>
                      ELSE IF ix[i].at = Tombstone THEN g[i - 1] ELSE Append(g[i - 1], ix[i])
    <3>1. CASE i = m + 1
      <4>1. g[i] = last /\ i # 0 /\ i - 1 = m /\ g[m] = f[m]
        BY <2>3, <3>1
      <4> QED
        BY <2>2, <3>1, <4>1
    <3>2. CASE i # m + 1
      <4>1. i \in 0..m /\ g[i] = f[i]
        BY <2>3, <3>2
      <4>2. i # 0 => i - 1 \in 0..m /\ g[i - 1] = f[i - 1]
        BY <2>3, <3>2
      <4>3. f[i] = IF i = 0 THEN << >>
                   ELSE IF ix[i].at = Tombstone THEN f[i - 1] ELSE Append(f[i - 1], ix[i])
        BY <2>1, <4>1 DEF Kept
      <4> QED
        BY <4>1, <4>2, <4>3
    <3> QED
      BY <3>1, <3>2
  <2>5. g = Kept(ix, m + 1, g)
    <3>1. g = [i \in 0..(m + 1) |-> g[i]]
      BY <2>3
    <3> QED
      BY <2>4, <3>1 DEF Kept
  <2> QED
    BY <2>5
<1> HIDE DEF G
<1>3. \A m \in Nat : m \in G
  BY <1>1, <1>2, NatSetInduction
<1> QED
  BY <1>3 DEF G

LEMMA WithoutIs ==
  ASSUME NEW ix, Vector(ix), NEW u, u = WithoutTombstones(ix)
  PROVE  Vector(u) /\ Entries(u) = {x \in Entries(ix) : x.at # Tombstone}
<1>1. PICK m \in Nat : m = Len(ix)
  BY DEF Vector
<1>2. PICK f : f = Kept(ix, m, f) /\ u = f[m]
  <2> DEFINE k == CHOOSE k : k = Kept(ix, m, k)
  <2>1. \E k1 : k1 = Kept(ix, m, k1)
    BY KeptExists
  <2>2. k = Kept(ix, m, k)
    BY <2>1
  <2>3. u = k[m]
    BY <1>1 DEF WithoutTombstones, Kept
  <2> HIDE DEF k
  <2> QED
    BY <2>2, <2>3
<1> DEFINE Alives(i) == {x \in Entry : \E j \in 1..i : x = ix[j] /\ x.at # Tombstone}
           G == {i \in Nat : i <= m => Vector(f[i]) /\ Entries(f[i]) = Alives(i)}
<1>3. 0 \in G
  <2>1. f[0] = << >>
    BY <1>2 DEF Kept
  <2>2. Vector(<< >>) /\ Entries(<< >>) = {}
    BY DEF Vector, Sorted, Entries
  <2> QED
    BY <2>1, <2>2
<1>4. ASSUME NEW i \in Nat, i \in G PROVE i + 1 \in G
  <2> SUFFICES ASSUME i + 1 <= m PROVE Vector(f[i + 1]) /\ Entries(f[i + 1]) = Alives(i + 1)
    OBVIOUS
  <2>1. PICK k \in 1..m : k = i + 1 /\ k - 1 = i /\ k # 0 /\ k \in 0..m
    OBVIOUS
  <2>2. Vector(f[i]) /\ Entries(f[i]) = Alives(i)
    BY <1>4
  <2>3. f[k] = IF ix[k].at = Tombstone THEN f[i] ELSE Append(f[i], ix[k])
    <3>1. f[k] = IF k = 0 THEN << >>
                 ELSE IF ix[k].at = Tombstone THEN f[k - 1] ELSE Append(f[k - 1], ix[k])
      BY <1>2, <2>1 DEF Kept
    <3> QED
      BY <2>1, <3>1
  <2>4. \A j \in 1..k : j = k \/ j \in 1..i
    BY <2>1
  <2>5. \A j \in 1..i : j \in 1..k /\ j < k /\ j \in 1..m
    BY <2>1
  <2>6. ix[k] \in Entry /\ k \in 1..k
    BY <1>1, <2>1, EntryIs
  <2>7. CASE ix[k].at = Tombstone
    <3>1. Alives(k) = Alives(i)
      BY <2>4, <2>5, <2>7
    <3> QED
      BY <2>1, <2>2, <2>3, <2>7, <3>1
  <2>8. CASE ix[k].at # Tombstone
    <3>1. Alives(k) = Alives(i) \cup {ix[k]}
      BY <2>4, <2>5, <2>6, <2>8
    <3>2. \A y \in Entries(f[i]) : y.key < ix[k].key
      BY <1>1, <2>2, <2>5 DEF Vector, Sorted
    <3>3. f[k] = Append(f[i], ix[k])
      BY <2>3, <2>8
    <3>4. Vector(f[k]) /\ Entries(f[k]) = Entries(f[i]) \cup {ix[k]}
      BY <2>2, <2>6, <3>2, <3>3, Longer
    <3> QED
      BY <2>1, <2>2, <3>1, <3>4
  <2> QED
    BY <2>7, <2>8
<1>5. \A i \in Nat : i \in G
  <2> HIDE DEF G
  <2> QED
    BY <1>3, <1>4, NatSetInduction
<1>6. Vector(f[m]) /\ Entries(f[m]) = Alives(m)
  BY <1>5
<1>7. Alives(m) = {x \in Entries(ix) : x.at # Tombstone}
  BY <1>1, EntryIs DEF Entries
<1> QED
  BY <1>2, <1>6, <1>7

---------------------------------------------------------------------------
(* The vector and the lists of a system.                                   *)
Inside(l, i) == Q!BeginIndex(l) <= i /\ i < Q!EndIndex(l)

Agree(ix, es, cs) ==
  /\ Vector(ix) /\ Dense(es, EntitySlots, Ids) /\ Dense(cs, ComponentSlots, Values)
  /\ Q!BeginIndex(es) = Q!BeginIndex(cs) /\ Q!EndIndex(es) = Q!EndIndex(cs)
  /\ \A x \in Entries(ix) : x.at # Tombstone =>
       x.at \in Nat /\ Inside(es, x.at) /\ Q!Get(es, x.at) = x.key
  /\ \A i \in Nat : Inside(es, i) =>
       (\E x \in Entries(ix) : x.at = i) /\ Q!Get(cs, i) \in Values

\* The entities that are left keep their components.
Left(ix, cs, jx, ds) ==
  \A x \in Entries(jx) : x.at # Tombstone =>
     \E y \in Entries(ix) : y.key = x.key /\ y.at # Tombstone /\ Q!Get(ds, x.at) = Q!Get(cs, y.at)

LEMMA AgreeIs ==
  ASSUME NEW ix, NEW es, NEW cs, Agree(ix, es, cs)
  PROVE  /\ Vector(ix) /\ Dense(es, EntitySlots, Ids) /\ Dense(cs, ComponentSlots, Values)
         /\ EntitySlots \in Nat \ {0} /\ ComponentSlots \in Nat \ {0}
         /\ Q!BeginIndex(es) \in Nat /\ Q!EndIndex(es) \in Nat
         /\ Q!BeginIndex(cs) = Q!BeginIndex(es) /\ Q!EndIndex(cs) = Q!EndIndex(es)
         /\ Q!BeginIndex(es) <= Q!EndIndex(es) /\ Tombstone \notin Nat
<1>1. /\ Vector(ix) /\ Dense(es, EntitySlots, Ids) /\ Dense(cs, ComponentSlots, Values)
      /\ Q!BeginIndex(cs) = Q!BeginIndex(es) /\ Q!EndIndex(cs) = Q!EndIndex(es)
  BY DEF Agree
<1>2. EntitySlots \in Nat \ {0} /\ ComponentSlots \in Nat \ {0}
  BY EntityAssumption
<1>3. /\ Q!BeginIndex(es) \in Nat /\ Q!EndIndex(es) \in Nat
      /\ Q!BeginIndex(es) <= Q!EndIndex(es)
  BY <1>1, <1>2, TopIs
<1>4. Tombstone \notin Nat
  BY DEF Tombstone
<1> QED
  BY <1>1, <1>2, <1>3, <1>4

\* The first entity goes.
LEMMA FirstGoes ==
  ASSUME NEW ix, NEW es, NEW cs, Agree(ix, es, cs), Q!BeginIndex(es) < Q!EndIndex(es),
         NEW p \in 1..Len(ix), ix[p].at = Q!BeginIndex(es),
         NEW jx, jx = Redirect(ix, p, Tombstone), NEW fs, fs = Q!PopFront(es),
         NEW ds, ds = Q!PopFront(cs)
  PROVE  Agree(jx, fs, ds) /\ Left(ix, cs, jx, ds) /\ ~ Alive(jx, ix[p].key)
<1>1. PICK b \in Nat : b = Q!BeginIndex(es) /\ b = Q!BeginIndex(cs)
  BY AgreeIs
<1>2. PICK t \in Nat : t = Q!EndIndex(es) /\ t = Q!EndIndex(cs)
  BY AgreeIs
<1>3. /\ Dense(fs, EntitySlots, Ids) /\ Q!BeginIndex(fs) = b + 1 /\ Q!EndIndex(fs) = t
      /\ \A j \in Nat : b + 1 <= j /\ j < t => Q!Get(fs, j) = Q!Get(es, j)
  <2>d. Dense(es, EntitySlots, Ids) /\ EntitySlots \in Nat \ {0}
    BY AgreeIs
  <2>1. /\ Dense(fs, EntitySlots, Ids) /\ Q!BeginIndex(fs) = Q!BeginIndex(es) + 1
        /\ Q!EndIndex(fs) = Q!EndIndex(es)
    BY ONLY <2>d, Q!BeginIndex(es) < Q!EndIndex(es), fs = Q!PopFront(es), PopEnds
  <2>2. ASSUME NEW j \in Nat, Q!BeginIndex(es) + 1 <= j, j < Q!EndIndex(es)
        PROVE  Q!Get(fs, j) = Q!Get(es, j)
    BY ONLY <2>d, Q!BeginIndex(es) < Q!EndIndex(es), fs = Q!PopFront(es), j \in Nat, <2>2, PopGets
  <2> QED
    BY <1>1, <1>2, <2>1, <2>2
<1>4. /\ Dense(ds, ComponentSlots, Values) /\ Q!BeginIndex(ds) = b + 1 /\ Q!EndIndex(ds) = t
      /\ \A j \in Nat : b + 1 <= j /\ j < t => Q!Get(ds, j) = Q!Get(cs, j)
  <2>0. Q!BeginIndex(cs) < Q!EndIndex(cs)
    BY <1>1, <1>2
  <2>d. Dense(cs, ComponentSlots, Values) /\ ComponentSlots \in Nat \ {0}
    BY AgreeIs
  <2>1. /\ Dense(ds, ComponentSlots, Values) /\ Q!BeginIndex(ds) = Q!BeginIndex(cs) + 1
        /\ Q!EndIndex(ds) = Q!EndIndex(cs)
    BY ONLY <2>d, <2>0, ds = Q!PopFront(cs), PopEnds
  <2>2. ASSUME NEW j \in Nat, Q!BeginIndex(cs) + 1 <= j, j < Q!EndIndex(cs)
        PROVE  Q!Get(ds, j) = Q!Get(cs, j)
    BY ONLY <2>d, <2>0, ds = Q!PopFront(cs), j \in Nat, <2>2, PopGets
  <2> QED
    BY <1>1, <1>2, <2>1, <2>2
<1>5. Vector(ix) /\ Tombstone \in Nat \cup {Tombstone} /\ Tombstone \notin Nat
  BY AgreeIs
<1>6. Vector(jx)
  BY <1>5, Redirected
<1>7. PICK z \in Entries(ix) : z = ix[p]
  BY DEF Entries
<1>8. PICK g : g = [key |-> z.key, at |-> Tombstone]
  OBVIOUS
<1>9. Entries(jx) = (Entries(ix) \ {z}) \cup {g} /\ g.key = z.key /\ g.at = Tombstone
  <2>1. Entries(jx) = (Entries(ix) \ {ix[p]}) \cup {[key |-> ix[p].key, at |-> Tombstone]}
    BY <1>5, EntryRedirected
  <2> QED
    BY <1>7, <1>8, <2>1
<1>10. \A x, y \in Entries(ix) : x.key = y.key => x = y
  BY <1>5, EntriesAre
<1>11. \A x \in Entries(ix) : x.at # Tombstone =>
         x.at \in Nat /\ b <= x.at /\ x.at < t /\ Q!Get(es, x.at) = x.key
  BY <1>1, <1>2 DEF Agree, Inside
<1>12. \A i \in Nat : b <= i /\ i < t => (\E x \in Entries(ix) : x.at = i) /\ Q!Get(cs, i) \in Values
  BY <1>1, <1>2 DEF Agree, Inside
<1>13. z.at = b /\ z.at # Tombstone
  BY <1>1, <1>5, <1>7
<1>14. ASSUME NEW x \in Entries(jx), x.at # Tombstone
       PROVE  /\ x \in Entries(ix) /\ x.at \in Nat /\ b + 1 <= x.at /\ x.at < t
              /\ Q!Get(fs, x.at) = x.key /\ Q!Get(ds, x.at) = Q!Get(cs, x.at)
              /\ x.key # z.key
  <2>1. x \in Entries(ix) /\ x # z /\ x.key # z.key
    BY <1>9, <1>10, <1>14
  <2>2. x.at \in Nat /\ b <= x.at /\ x.at < t /\ Q!Get(es, x.at) = x.key
    BY <1>11, <1>14, <2>1
  <2>3. x.at # b
    BY <1>11, <1>13, <2>1, <2>2
  <2>4. b + 1 <= x.at
    BY <2>2, <2>3
  <2> QED
    BY <1>3, <1>4, <2>1, <2>2, <2>4
<1>15. ASSUME NEW i \in Nat, b + 1 <= i, i < t
       PROVE  (\E x \in Entries(jx) : x.at = i) /\ Q!Get(ds, i) \in Values
  <2>1. b <= i /\ i # b
    BY <1>15
  <2>2. PICK x \in Entries(ix) : x.at = i
    BY <1>12, <1>15, <2>1
  <2>3. x \in Entries(jx)
    BY <1>9, <1>13, <2>1, <2>2
  <2> QED
    BY <1>4, <1>12, <1>15, <2>1, <2>2, <2>3
<1>16. Agree(jx, fs, ds)
  BY <1>3, <1>4, <1>6, <1>14, <1>15 DEF Agree, Inside
<1>17. Left(ix, cs, jx, ds)
  BY <1>14 DEF Left
<1>18. ~ Alive(jx, z.key)
  BY <1>6, <1>14, EntriesAre
<1> QED
  BY <1>7, <1>16, <1>17, <1>18

\* The first entity takes the place of another one, which goes.
LEMMA FirstMoves ==
  ASSUME NEW ix, NEW es, NEW cs, Agree(ix, es, cs), Q!BeginIndex(es) < Q!EndIndex(es),
         NEW p \in 1..Len(ix), NEW i \in Nat, ix[p].at = i,
         NEW q \in 1..Len(ix), ix[q].at = Q!BeginIndex(es), p # q,
         NEW top, top = ix[q].key,
         NEW hx, hx = Redirect(ix, q, i), NEW jx, jx = Redirect(hx, p, Tombstone),
         NEW gs, gs = Q!Put(es, i, top), NEW fs, fs = Q!PopFront(gs),
         NEW as, as = Q!Put(cs, i, Q!Top(cs)), NEW ds, ds = Q!PopFront(as)
  PROVE  Agree(jx, fs, ds) /\ Left(ix, cs, jx, ds) /\ ~ Alive(jx, ix[p].key)
<1>1. PICK b \in Nat : b = Q!BeginIndex(es) /\ b = Q!BeginIndex(cs)
  BY AgreeIs
<1>2. PICK t \in Nat : t = Q!EndIndex(es) /\ t = Q!EndIndex(cs)
  BY AgreeIs
<1>3. Vector(ix) /\ Tombstone \in Nat \cup {Tombstone} /\ Tombstone \notin Nat
  BY AgreeIs
<1>4. PICK z \in Entries(ix) : z = ix[p]
  BY DEF Entries
<1>5. PICK a \in Entries(ix) : a = ix[q]
  BY DEF Entries
<1>6. \A x, y \in Entries(ix) : x.key = y.key => x = y
  BY <1>3, EntriesAre
<1>7. a.key # z.key /\ a # z /\ a.at = b /\ z.at = i /\ a.key = top
  <2>1. a.key # z.key
    BY <1>3, <1>4, <1>5, OneEntry
  <2> QED
    BY <1>1, <1>4, <1>5, <2>1
<1>8. \A x \in Entries(ix) : x.at # Tombstone =>
         x.at \in Nat /\ b <= x.at /\ x.at < t /\ Q!Get(es, x.at) = x.key
  BY <1>1, <1>2 DEF Agree, Inside
<1>9. \A k \in Nat : b <= k /\ k < t => (\E x \in Entries(ix) : x.at = k) /\ Q!Get(cs, k) \in Values
  BY <1>1, <1>2 DEF Agree, Inside
<1>10. b <= i /\ i < t /\ Q!Get(es, i) = z.key /\ Q!Get(es, b) = top /\ i # b /\ b < t
  <2>1. z.at # Tombstone /\ a.at # Tombstone
    BY <1>3, <1>7
  <2>2. b <= i /\ i < t /\ Q!Get(es, i) = z.key /\ Q!Get(es, b) = a.key
    BY <1>7, <1>8, <2>1
  <2> QED
    BY <1>1, <1>2, <1>7, <2>2
<1>11. top \in Ids /\ Q!Top(cs) \in Values /\ Q!Top(cs) = Q!Get(cs, b)
  <2>1. top \in Ids
    BY <1>3, EntryIs
  <2>2. Q!Top(cs) = Q!Get(cs, b)
    <3>1. Q!BeginIndex(cs) < Q!EndIndex(cs)
      BY <1>1, <1>2
    <3> QED
      BY <1>1, <3>1, AgreeIs, TopIs
  <2> QED
    BY <1>9, <1>10, <2>1, <2>2
<1>12. /\ Dense(gs, EntitySlots, Ids) /\ Q!BeginIndex(gs) = b /\ Q!EndIndex(gs) = t
       /\ Q!Get(gs, i) = top
       /\ \A j \in Nat : b <= j /\ j < t /\ j # i => Q!Get(gs, j) = Q!Get(es, j)
  <2>0. Q!BeginIndex(es) <= i /\ i < Q!EndIndex(es)
    BY <1>1, <1>2, <1>10
  <2>1. /\ Dense(gs, EntitySlots, Ids) /\ Q!BeginIndex(gs) = Q!BeginIndex(es)
        /\ Q!EndIndex(gs) = Q!EndIndex(es) /\ Q!Get(gs, i) = top
    BY <1>11, <2>0, AgreeIs, PutIs
  <2>2. \A j \in Nat : Q!BeginIndex(es) <= j /\ j < Q!EndIndex(es) /\ j # i =>
           Q!Get(gs, j) = Q!Get(es, j)
    BY <1>11, <2>0, AgreeIs, PutIs
  <2> QED
    BY <1>1, <1>2, <2>1, <2>2
<1>13. /\ Dense(as, ComponentSlots, Values) /\ Q!BeginIndex(as) = b /\ Q!EndIndex(as) = t
       /\ Q!Get(as, i) = Q!Get(cs, b)
       /\ \A j \in Nat : b <= j /\ j < t /\ j # i => Q!Get(as, j) = Q!Get(cs, j)
  <2>0. Q!BeginIndex(cs) <= i /\ i < Q!EndIndex(cs)
    BY <1>1, <1>2, <1>10
  <2>1. /\ Dense(as, ComponentSlots, Values) /\ Q!BeginIndex(as) = Q!BeginIndex(cs)
        /\ Q!EndIndex(as) = Q!EndIndex(cs) /\ Q!Get(as, i) = Q!Top(cs)
    BY <1>11, <2>0, AgreeIs, PutIs
  <2>2. \A j \in Nat : Q!BeginIndex(cs) <= j /\ j < Q!EndIndex(cs) /\ j # i =>
           Q!Get(as, j) = Q!Get(cs, j)
    BY <1>11, <2>0, AgreeIs, PutIs
  <2> QED
    BY <1>1, <1>2, <1>11, <2>1, <2>2
<1>14. /\ Dense(fs, EntitySlots, Ids) /\ Q!BeginIndex(fs) = b + 1 /\ Q!EndIndex(fs) = t
       /\ \A j \in Nat : b + 1 <= j /\ j < t => Q!Get(fs, j) = Q!Get(gs, j)
  <2>0. Q!BeginIndex(gs) < Q!EndIndex(gs)
    BY <1>10, <1>12
  <2>d. Dense(gs, EntitySlots, Ids) /\ EntitySlots \in Nat \ {0}
    BY <1>12, AgreeIs
  <2>1. /\ Dense(fs, EntitySlots, Ids) /\ Q!BeginIndex(fs) = Q!BeginIndex(gs) + 1
        /\ Q!EndIndex(fs) = Q!EndIndex(gs)
    BY ONLY <2>d, <2>0, fs = Q!PopFront(gs), PopEnds
  <2>2. ASSUME NEW j \in Nat, Q!BeginIndex(gs) + 1 <= j, j < Q!EndIndex(gs)
        PROVE  Q!Get(fs, j) = Q!Get(gs, j)
    BY ONLY <2>d, <2>0, fs = Q!PopFront(gs), j \in Nat, <2>2, PopGets
  <2> QED
    BY <1>12, <2>1, <2>2
<1>15. /\ Dense(ds, ComponentSlots, Values) /\ Q!BeginIndex(ds) = b + 1 /\ Q!EndIndex(ds) = t
       /\ \A j \in Nat : b + 1 <= j /\ j < t => Q!Get(ds, j) = Q!Get(as, j)
  <2>0. Q!BeginIndex(as) < Q!EndIndex(as)
    BY <1>10, <1>13
  <2>d. Dense(as, ComponentSlots, Values) /\ ComponentSlots \in Nat \ {0}
    BY <1>13, AgreeIs
  <2>1. /\ Dense(ds, ComponentSlots, Values) /\ Q!BeginIndex(ds) = Q!BeginIndex(as) + 1
        /\ Q!EndIndex(ds) = Q!EndIndex(as)
    BY ONLY <2>d, <2>0, ds = Q!PopFront(as), PopEnds
  <2>2. ASSUME NEW j \in Nat, Q!BeginIndex(as) + 1 <= j, j < Q!EndIndex(as)
        PROVE  Q!Get(ds, j) = Q!Get(as, j)
    BY ONLY <2>d, <2>0, ds = Q!PopFront(as), j \in Nat, <2>2, PopGets
  <2> QED
    BY <1>13, <2>1, <2>2
<1>16. PICK c : c = [key |-> top, at |-> i]
  OBVIOUS
<1>17. PICK g : g = [key |-> z.key, at |-> Tombstone]
  OBVIOUS
<1>18. Vector(hx) /\ Entries(hx) = (Entries(ix) \ {a}) \cup {c} /\ hx[p] = z /\ Len(hx) = Len(ix)
  <2>0. i \in Nat \cup {Tombstone}
    OBVIOUS
  <2>1. Entries(hx) = (Entries(ix) \ {ix[q]}) \cup {[key |-> ix[q].key, at |-> i]}
    BY <1>3, <2>0, EntryRedirected
  <2>a. Vector(ix) /\ hx = Redirect(ix, q, i)
    BY <1>3
  <2>b. Len(Redirect(ix, q, i)) = Len(ix)
    BY ONLY <2>a, <2>0, q \in 1..Len(ix), SameLength
  <2>c. Vector(hx)
    BY ONLY <2>a, <2>0, q \in 1..Len(ix), Redirected
  <2>2. Vector(hx) /\ Len(hx) = Len(ix)
    BY ONLY <2>a, <2>b, <2>c
  <2>3. \A j \in 1..Len(ix) : j # q => hx[j] = ix[j]
    BY <1>3, <2>0, Redirected
  <2> QED
    BY <1>4, <1>5, <1>16, <2>1, <2>2, <2>3
<1>19. Vector(jx) /\ Entries(jx) = (((Entries(ix) \ {a}) \cup {c}) \ {z}) \cup {g}
  <2>0. p \in 1..Len(hx)
    BY <1>18
  <2>1. Entries(jx) = (Entries(hx) \ {hx[p]}) \cup {[key |-> hx[p].key, at |-> Tombstone]}
    BY ONLY <1>3, <1>18, <2>0, jx = Redirect(hx, p, Tombstone), EntryRedirected
  <2>2. Vector(jx)
    BY <1>3, <1>18, <2>0, Redirected
  <2> QED
    BY <1>17, <1>18, <2>1, <2>2
<1>20. c.key = top /\ c.at = i /\ g.key = z.key /\ g.at = Tombstone /\ c # z
  BY <1>7, <1>16, <1>17
<1>21. ASSUME NEW x \in Entries(jx), x.at # Tombstone
       PROVE  /\ x.at \in Nat /\ b + 1 <= x.at /\ x.at < t /\ Q!Get(fs, x.at) = x.key
              /\ x.key # z.key
              /\ \E y \in Entries(ix) : y.key = x.key /\ y.at # Tombstone
                                        /\ Q!Get(ds, x.at) = Q!Get(cs, y.at)
  <2>1. CASE x = c
    <3>1. b + 1 <= i
      BY <1>10
    <3>2. Q!Get(fs, i) = top /\ Q!Get(ds, i) = Q!Get(cs, b)
      BY <1>10, <1>12, <1>13, <1>14, <1>15, <3>1
    <3>3. a.key = x.key /\ a.at # Tombstone /\ Q!Get(ds, x.at) = Q!Get(cs, a.at)
      BY <1>3, <1>7, <1>20, <2>1, <3>2
    <3> QED
      BY <1>7, <1>10, <1>20, <2>1, <3>1, <3>2, <3>3
  <2>2. CASE x # c
    <3>1. x \in Entries(ix) /\ x # a /\ x # z
      BY <1>19, <1>20, <1>21, <2>2
    <3>2. x.at \in Nat /\ b <= x.at /\ x.at < t /\ Q!Get(es, x.at) = x.key
      BY <1>8, <1>21, <3>1
    <3>3. x.key # z.key /\ x.key # top
      BY <1>6, <1>7, <3>1
    <3>4. x.at # b /\ x.at # i
      BY <1>10, <3>2, <3>3
    <3>5. b + 1 <= x.at
      BY <3>2, <3>4
    <3>6. Q!Get(fs, x.at) = x.key /\ Q!Get(ds, x.at) = Q!Get(cs, x.at)
      BY <1>12, <1>13, <1>14, <1>15, <3>2, <3>4, <3>5
    <3> QED
      BY <1>21, <3>1, <3>2, <3>3, <3>5, <3>6
  <2> QED
    BY <2>1, <2>2
<1>22. ASSUME NEW k \in Nat, b + 1 <= k, k < t
       PROVE  (\E x \in Entries(jx) : x.at = k) /\ Q!Get(ds, k) \in Values
  <2>1. b <= k /\ k # b
    BY <1>22
  <2>2. CASE k = i
    <3>1. c \in Entries(jx) /\ c.at = k
      BY <1>19, <1>20, <2>2
    <3>2. Q!Get(ds, k) = Q!Get(cs, b)
      BY <1>13, <1>15, <1>22, <2>2
    <3> QED
      BY <1>9, <1>10, <3>1, <3>2
  <2>3. CASE k # i
    <3>1. PICK x \in Entries(ix) : x.at = k
      BY <1>9, <1>22, <2>1
    <3>2. x # a /\ x # z
      BY <1>7, <2>1, <2>3, <3>1
    <3>3. x \in Entries(jx)
      BY <1>19, <3>1, <3>2
    <3>4. Q!Get(ds, k) = Q!Get(cs, k) /\ Q!Get(cs, k) \in Values
      BY <1>9, <1>13, <1>15, <1>22, <2>1, <2>3
    <3> QED
      BY <3>1, <3>3, <3>4
  <2> QED
    BY <2>2, <2>3
<1>23. Agree(jx, fs, ds)
  BY <1>14, <1>15, <1>19, <1>21, <1>22 DEF Agree, Inside
<1>24. Left(ix, cs, jx, ds)
  BY <1>21 DEF Left
<1>25. ~ Alive(jx, z.key)
  BY <1>19, <1>21, EntriesAre
<1> QED
  BY <1>4, <1>23, <1>24, <1>25

LEMMA LeftAgain ==
  ASSUME NEW ix, NEW cs
  PROVE  /\ Left(ix, cs, ix, cs)
         /\ \A jx, ds, kx, fs : Left(ix, cs, jx, ds) /\ Left(jx, ds, kx, fs) => Left(ix, cs, kx, fs)
<1>1. Left(ix, cs, ix, cs)
  BY DEF Left
<1>2. ASSUME NEW jx, NEW ds, NEW kx, NEW fs, Left(ix, cs, jx, ds), Left(jx, ds, kx, fs)
      PROVE  Left(ix, cs, kx, fs)
  <2> SUFFICES ASSUME NEW x \in Entries(kx), x.at # Tombstone
               PROVE  \E y \in Entries(ix) : /\ y.key = x.key /\ y.at # Tombstone
                                             /\ Q!Get(fs, x.at) = Q!Get(cs, y.at)
    BY DEF Left
  <2>1. PICK y \in Entries(jx) : /\ y.key = x.key /\ y.at # Tombstone
                                 /\ Q!Get(fs, x.at) = Q!Get(ds, y.at)
    BY <1>2 DEF Left
  <2>2. PICK z \in Entries(ix) : /\ z.key = y.key /\ z.at # Tombstone
                                 /\ Q!Get(ds, y.at) = Q!Get(cs, z.at)
    BY <1>2, <2>1 DEF Left
  <2> QED
    BY <2>1, <2>2
<1> QED
  BY <1>1, <1>2

LEMMA LeftThen ==
  ASSUME NEW ix, NEW cs, NEW jx, NEW ds, NEW kx, NEW fs,
         Left(ix, cs, jx, ds), Left(jx, ds, kx, fs)
  PROVE  Left(ix, cs, kx, fs)
BY LeftAgain

\* Between two rounds of remove().
Round(r) ==
  /\ r = [ix |-> r.ix, ents |-> r.ents, cs |-> r.cs, ip |-> r.ip, stop |-> r.stop]
  /\ Agree(r.ix, r.ents, r.cs) /\ r.ip \in 1..Past(r.ix)

LEMMA RoundStops ==
  ASSUME NEW r, Round(r), NEW s, s = [r EXCEPT !.stop = TRUE]
  PROVE  Round(s) /\ Left(r.ix, r.cs, s.ix, s.cs) /\ s.ix = r.ix
<1>1. s = [ix |-> r.ix, ents |-> r.ents, cs |-> r.cs, ip |-> r.ip, stop |-> TRUE]
  BY DEF Round
<1>2. s.ix = r.ix /\ s.ents = r.ents /\ s.cs = r.cs /\ s.ip = r.ip /\ s.stop = TRUE
  BY <1>1
<1> QED
  BY <1>1, <1>2, LeftAgain DEF Round

LEMMA RoundIs ==
  ASSUME NEW r, Round(r), NEW e \in Ids, NEW s, s = RemoveOne(r, e)
  PROVE  /\ Round(s) /\ Left(r.ix, r.cs, s.ix, s.cs)
         /\ r.ip = 1 => ~ Alive(s.ix, e)
<1>1. PICK ix, es, cs : ix = r.ix /\ es = r.ents /\ cs = r.cs
  OBVIOUS
<1>2. PICK ip : ip = Find(r.ix, r.ip, Past(r.ix), e)
  OBVIOUS
<1>3. Agree(ix, es, cs) /\ Vector(ix) /\ r.ip \in 1..Past(ix)
  BY <1>1, AgreeIs DEF Round
<1>4. PICK m \in Nat : m = Len(ix) /\ Past(ix) = m + 1 /\ r.ip \in Nat \ {0} /\ r.ip <= m + 1
  <2>1. Past(ix) \in Nat /\ Past(ix) = Len(ix) + 1 /\ Len(ix) \in Nat
    BY <1>3, PlaceIs DEF Vector
  <2> QED
    BY <1>3, <2>1
<1>5. /\ \A k \in r.ip..m : ix[k].key = e => ip = k
      /\ (\A k \in r.ip..m : ix[k].key # e) => ip = Past(ix)
  <2>1. Past(ix) \in Nat /\ Past(ix) <= Past(ix) /\ r.ip..(Past(ix) - 1) = r.ip..m
    BY <1>4
  <2>2. /\ \A k \in r.ip..(Past(ix) - 1) : ix[k].key = e => Find(ix, r.ip, Past(ix), e) = k
        /\ (\A k \in r.ip..(Past(ix) - 1) : ix[k].key # e) => Find(ix, r.ip, Past(ix), e) = Past(ix)
    BY <1>3, <1>4, <2>1, FindIs
  <2> QED
    BY <1>1, <1>2, <2>1, <2>2
<1>6. CASE Q!ListEmpty(es)
  <2>1. s = [r EXCEPT !.stop = TRUE]
    BY <1>1, <1>6 DEF RemoveOne
  <2>2. ~ Alive(ix, e)
    <3>1. Q!BeginIndex(es) = Q!EndIndex(es)
      BY <1>3, <1>6, AgreeIs, TopIs
    <3>2. SUFFICES ASSUME NEW x \in Entries(ix), x.at # Tombstone PROVE FALSE
      BY <1>3, EntriesAre
    <3>3. x.at \in Nat /\ Q!BeginIndex(es) <= x.at /\ x.at < Q!EndIndex(es)
      BY <1>3, <3>2 DEF Agree, Inside
    <3>4. Q!BeginIndex(es) \in Nat
      BY <1>3, AgreeIs
    <3> QED
      BY <3>1, <3>3, <3>4
  <2> QED
    BY <1>1, <2>1, <2>2, RoundStops
<1>7. CASE ~ Q!ListEmpty(es) /\ (ip = Past(ix) \/ ix[ip].at = Tombstone)
  <2>1. s = [r EXCEPT !.stop = TRUE]
    BY <1>1, <1>2, <1>7 DEF RemoveOne
  <2>2. ASSUME r.ip = 1 PROVE ~ Alive(ix, e)
    <3>1. SUFFICES ASSUME NEW k \in 1..m, ix[k].key = e, ix[k].at # Tombstone PROVE FALSE
      BY <1>4 DEF Alive
    <3>2. ip = k
      BY <1>5, <2>2, <3>1
    <3>3. k # Past(ix)
      BY <1>4
    <3> QED
      BY <1>7, <3>1, <3>2, <3>3
  <2> QED
    BY <1>1, <2>1, <2>2, RoundStops
<1>8. CASE ~ Q!ListEmpty(es) /\ ip # Past(ix) /\ ix[ip].at # Tombstone
  <2>1. PICK p \in 1..Len(ix) : p = ip /\ ix[p].key = e
    <3>1. PICK k \in r.ip..m : ix[k].key = e
      BY <1>5, <1>8
    <3>2. k \in 1..Len(ix)
      BY <1>4
    <3> QED
      BY <1>5, <3>1, <3>2
  <2>2. PICK i \in Nat : i = ix[p].at
    BY <1>3, <1>8, <2>1, EntryIs
  <2>3. PICK b \in Nat : b = Q!BeginIndex(es) /\ b < Q!EndIndex(es) /\ Q!Top(es) = Q!Get(es, b)
    <3>1. /\ Q!BeginIndex(es) \in Nat /\ Q!EndIndex(es) \in Nat
          /\ Q!BeginIndex(es) <= Q!EndIndex(es)
          /\ Q!ListEmpty(es) <=> Q!BeginIndex(es) = Q!EndIndex(es)
          /\ Q!BeginIndex(es) < Q!EndIndex(es) => Q!Top(es) = Q!Get(es, Q!BeginIndex(es))
      BY <1>3, AgreeIs, TopIs
    <3>2. Q!BeginIndex(es) < Q!EndIndex(es)
      BY <1>8, <3>1
    <3> QED
      BY <3>1, <3>2
  <2>4. PICK q \in 1..Len(ix) : ix[q].at = b
    <3>1. \E x \in Entries(ix) : x.at = b
      BY <1>3, <2>3 DEF Agree, Inside
    <3> QED
      BY <3>1 DEF Entries
  <2>5. PICK top : top = Q!Top(es) /\ top = ix[q].key
    <3>1. ix[q] \in Entries(ix)
      BY DEF Entries
    <3>2. b # Tombstone
      BY <1>3, AgreeIs
    <3> QED
      BY <1>3, <2>3, <2>4, <3>1, <3>2 DEF Agree
  <2>6. top \in Nat /\ e \in Nat /\ p \in Nat /\ q \in Nat
    BY <1>3, <2>1, <2>5, EntryIs
  <2>7. PICK it : it = Find(r.ix, IF e < top THEN ip ELSE 1,
                            IF e > top THEN ip ELSE Past(r.ix), top)
    OBVIOUS
  <2>8. PICK moved : moved = IF e = top THEN r
                             ELSE [r EXCEPT !.ix[it].at = i, !.ents = Q!Put(@, i, top),
                                            !.cs = Q!Put(@, i, Q!Top(r.cs))]
    OBVIOUS
  <2>9. s = [moved EXCEPT !.ix[ip].at = Tombstone, !.ip = ip,
                          !.ents = Q!PopFront(@), !.cs = Q!PopFront(@)]
    BY <1>1, <1>2, <1>8, <2>1, <2>2, <2>5, <2>7, <2>8 DEF RemoveOne
  <2>10. ip \in 1..Past(ix)
    BY <1>4, <2>1
  <2>11. CASE e = top
    <3>1. p = q
      BY <1>3, <2>1, <2>5, <2>11, OneEntry
    <3>2. PICK jx, fs, ds : /\ jx = Redirect(ix, p, Tombstone) /\ fs = Q!PopFront(es)
                            /\ ds = Q!PopFront(cs)
      OBVIOUS
    <3>3. Agree(jx, fs, ds) /\ Left(ix, cs, jx, ds) /\ ~ Alive(jx, ix[p].key)
      BY ONLY <1>3, <2>3, <2>4, <3>1, <3>2, p \in 1..Len(ix), FirstGoes
    <3>4. s = [ix |-> jx, ents |-> fs, cs |-> ds, ip |-> ip, stop |-> r.stop]
      <4>1. moved = [ix |-> ix, ents |-> es, cs |-> cs, ip |-> r.ip, stop |-> r.stop]
        BY <1>1, <2>8, <2>11 DEF Round
      <4> QED
        BY <2>1, <2>9, <3>2, <4>1 DEF Redirect
    <3>5. Len(jx) = Len(ix)
      <4>1. Vector(ix) /\ Tombstone \in Nat \cup {Tombstone}
        BY <1>3
      <4>2. Len(Redirect(ix, p, Tombstone)) = Len(ix)
        BY ONLY <4>1, p \in 1..Len(ix), SameLength
      <4> QED
        BY ONLY <3>2, <4>2
    <3> QED
      BY <1>1, <2>1, <2>10, <3>3, <3>4, <3>5 DEF Round, Past
  <2>12. CASE e # top
    <3>1. p # q
      BY <2>1, <2>5, <2>12
    <3>2. it = q
      <4>1. p \in 1..m /\ q \in 1..m /\ m + 1 \in Nat /\ m + 1 <= Past(ix)
        BY <1>4
      <4>2. CASE e < top
        <5>1. p < q
          <6>1. ~ (q < p)
            BY <1>3, <2>1, <2>5, <2>6, <4>2 DEF Vector, Sorted
          <6> QED
            BY <2>6, <3>1, <6>1
        <5>2. q \in p..((m + 1) - 1) /\ p \in Nat \ {0}
          BY <4>1, <5>1
        <5>3. Find(ix, p, m + 1, top) = q
          BY <1>3, <2>5, <4>1, <5>2, FindIs
        <5>4. ~ (e > top)
          BY <2>6, <4>2
        <5> QED
          BY <1>1, <1>4, <2>1, <2>7, <4>2, <5>3, <5>4
      <4>3. CASE ~ (e < top)
        <5>0. e > top
          BY <2>6, <2>12, <4>3
        <5>1. q < p
          <6>1. ~ (p < q)
            BY <1>3, <2>1, <2>5, <2>6, <5>0 DEF Vector, Sorted
          <6> QED
            BY <2>6, <3>1, <6>1
        <5>2. q \in 1..(p - 1) /\ p \in Nat /\ p <= Past(ix) /\ 1 \in Nat \ {0}
          BY <1>4, <4>1, <5>1
        <5>3. Find(ix, 1, p, top) = q
          BY <1>3, <2>5, <5>2, FindIs
        <5> QED
          BY <1>1, <2>1, <2>7, <4>3, <5>0, <5>3
      <4> QED
        BY <4>2, <4>3
    <3>3. PICK hx, jx : hx = Redirect(ix, q, i) /\ jx = Redirect(hx, p, Tombstone)
      OBVIOUS
    <3>4. PICK gs, fs : gs = Q!Put(es, i, top) /\ fs = Q!PopFront(gs)
      OBVIOUS
    <3>5. PICK as, ds : as = Q!Put(cs, i, Q!Top(cs)) /\ ds = Q!PopFront(as)
      OBVIOUS
    <3>6. Agree(jx, fs, ds) /\ Left(ix, cs, jx, ds) /\ ~ Alive(jx, ix[p].key)
      BY ONLY <1>3, <2>2, <2>3, <2>4, <2>5, <3>1, <3>3, <3>4, <3>5, p \in 1..Len(ix),
         q \in 1..Len(ix), i \in Nat, FirstMoves
    <3>7. s = [ix |-> jx, ents |-> fs, cs |-> ds, ip |-> ip, stop |-> r.stop]
      <4>1. r = [ix |-> ix, ents |-> es, cs |-> cs, ip |-> r.ip, stop |-> r.stop]
        BY <1>1 DEF Round
      <4>2. moved = [ix |-> hx, ents |-> gs, cs |-> as, ip |-> r.ip, stop |-> r.stop]
        <5>1. moved = [r EXCEPT !.ix[q].at = i, !.ents = Q!Put(@, i, top),
                                !.cs = Q!Put(@, i, Q!Top(cs))]
          BY <1>1, <2>8, <2>12, <3>2
        <5>2. moved.ix = hx
          BY <1>1, <3>3, <4>1, <5>1 DEF Redirect
        <5>3. moved.ents = gs /\ moved.cs = as
          BY <1>1, <3>4, <3>5, <4>1, <5>1
        <5>4. moved.ip = r.ip /\ moved.stop = r.stop
          BY <4>1, <5>1
        <5>5. moved = [ix |-> moved.ix, ents |-> moved.ents, cs |-> moved.cs,
                       ip |-> moved.ip, stop |-> moved.stop]
          BY <4>1, <5>1
        <5> QED
          BY ONLY <5>2, <5>3, <5>4, <5>5
      <4>3. s.ix = jx
        BY <2>1, <2>9, <3>3, <4>2 DEF Redirect
      <4>4. s.ents = fs /\ s.cs = ds
        BY <2>9, <3>4, <3>5, <4>2
      <4>5. s.ip = ip /\ s.stop = r.stop
        BY <2>9, <4>2
      <4>6. s = [ix |-> s.ix, ents |-> s.ents, cs |-> s.cs, ip |-> s.ip, stop |-> s.stop]
        BY <2>9, <4>2
      <4> QED
        BY ONLY <4>3, <4>4, <4>5, <4>6
    <3>8. Len(jx) = Len(ix)
      <4>1. Vector(hx) /\ Len(hx) = Len(ix)
        BY <1>3, <3>3, Redirected
      <4>2. p \in 1..Len(hx) /\ Tombstone \in Nat \cup {Tombstone}
        BY <4>1
      <4>3. Len(Redirect(hx, p, Tombstone)) = Len(hx)
        BY ONLY <4>1, <4>2, SameLength
      <4> QED
        BY ONLY <3>3, <4>1, <4>3
    <3> QED
      BY <1>1, <2>1, <2>10, <3>6, <3>7, <3>8 DEF Round, Past
  <2> QED
    BY <2>11, <2>12
<1> QED
  BY <1>6, <1>7, <1>8

\* The rounds of a call.
RoundsOf(z, es, m, f) ==
  [k \in 0..m |-> IF k = 0 THEN z
                  ELSE IF f[k - 1].stop THEN f[k - 1] ELSE RemoveOne(f[k - 1], es[k])]

LEMMA RoundsExist ==
  ASSUME NEW z, NEW es
  PROVE  \A m \in Nat : \E f : f = RoundsOf(z, es, m, f)
<1> DEFINE G == {m \in Nat : \E f : f = RoundsOf(z, es, m, f)}
<1>1. 0 \in G
  <2>1. PICK f : f = [i \in 0..0 |-> z]
    OBVIOUS
  <2>2. f = RoundsOf(z, es, 0, f)
    <3>1. \A i \in 0..0 : i = 0
      OBVIOUS
    <3> QED
      BY <2>1, <3>1 DEF RoundsOf
  <2> QED
    BY <2>2
<1>2. ASSUME NEW m \in Nat, m \in G PROVE m + 1 \in G
  <2>1. PICK f : f = RoundsOf(z, es, m, f)
    BY <1>2
  <2>2. PICK last : last = IF f[m].stop THEN f[m] ELSE RemoveOne(f[m], es[m + 1])
    OBVIOUS
  <2>3. PICK g : g = [i \in 0..(m + 1) |-> IF i <= m THEN f[i] ELSE last]
    OBVIOUS
  <2>4. ASSUME NEW i \in 0..(m + 1)
        PROVE  g[i] = IF i = 0 THEN z
                      ELSE IF g[i - 1].stop THEN g[i - 1] ELSE RemoveOne(g[i - 1], es[i])
    <3>1. CASE i = m + 1
      <4>1. g[i] = last /\ i # 0 /\ i - 1 = m /\ g[m] = f[m]
        BY <2>3, <3>1
      <4> QED
        BY <2>2, <3>1, <4>1
    <3>2. CASE i # m + 1
      <4>1. i \in 0..m /\ g[i] = f[i]
        BY <2>3, <3>2
      <4>2. i # 0 => i - 1 \in 0..m /\ g[i - 1] = f[i - 1]
        BY <2>3, <3>2
      <4>3. f[i] = IF i = 0 THEN z
                   ELSE IF f[i - 1].stop THEN f[i - 1] ELSE RemoveOne(f[i - 1], es[i])
        BY <2>1, <4>1 DEF RoundsOf
      <4> QED
        BY <4>1, <4>2, <4>3
    <3> QED
      BY <3>1, <3>2
  <2>5. g = RoundsOf(z, es, m + 1, g)
    <3>1. g = [i \in 0..(m + 1) |-> g[i]]
      BY <2>3
    <3> QED
      BY <2>4, <3>1 DEF RoundsOf
  <2> QED
    BY <2>5
<1> HIDE DEF G
<1>3. \A m \in Nat : m \in G
  BY <1>1, <1>2, NatSetInduction
<1> QED
  BY <1>3 DEF G

LEMMA RemovedIs ==
  ASSUME NEW s \in Systems, Agree(indices[s], entities[s], comps[s]),
         NEW es \in Seq(Ids), NEW r, r = Removed(s, es)
  PROVE  /\ Agree(r.ix, r.ents, r.cs) /\ Left(indices[s], comps[s], r.ix, r.cs)
         /\ \A e \in Ids : es = <<e>> => ~ Alive(r.ix, e)
<1>1. PICK m \in Nat : m = Len(es)
  OBVIOUS
<1>2. PICK ix, cs : ix = indices[s] /\ cs = comps[s]
  OBVIOUS
<1>3. PICK z : z = [ix |-> indices[s], ents |-> entities[s], cs |-> comps[s], ip |-> 1, stop |-> FALSE]
  OBVIOUS
<1>4. PICK f : f = RoundsOf(z, es, m, f) /\ r = f[m]
  <2> DEFINE k == CHOOSE k : k = RoundsOf(z, es, m, k)
  <2>1. \E k1 : k1 = RoundsOf(z, es, m, k1)
    BY RoundsExist
  <2>2. k = RoundsOf(z, es, m, k)
    BY <2>1
  <2>3. r = k[m]
    BY <1>1, <1>3 DEF Removed, RoundsOf
  <2> HIDE DEF k
  <2> QED
    BY <2>2, <2>3
<1>5. Round(z) /\ z.ix = ix /\ z.cs = cs /\ z.ip = 1 /\ z.stop = FALSE
  <2>1. 1 \in 1..Past(indices[s])
    <3>0. Vector(indices[s])
      BY AgreeIs
    <3>1. Past(indices[s]) = Len(indices[s]) + 1 /\ Len(indices[s]) \in Nat
      BY <3>0 DEF Vector, Past
    <3> QED
      BY <3>1
  <2> QED
    BY <1>2, <1>3, <2>1 DEF Round
<1>6. \A k \in 0..m : f[k] = IF k = 0 THEN z
                            ELSE IF f[k - 1].stop THEN f[k - 1] ELSE RemoveOne(f[k - 1], es[k])
  BY <1>4 DEF RoundsOf
<1> DEFINE G == {k \in Nat : k <= m => Round(f[k]) /\ Left(ix, cs, f[k].ix, f[k].cs)}
<1>7. 0 \in G
  <2>1. f[0] = z
    BY <1>6
  <2> QED
    BY <1>5, <2>1, LeftAgain
<1>8. ASSUME NEW k \in Nat, k \in G PROVE k + 1 \in G
  <2> SUFFICES ASSUME k + 1 <= m
               PROVE  Round(f[k + 1]) /\ Left(ix, cs, f[k + 1].ix, f[k + 1].cs)
    OBVIOUS
  <2>1. Round(f[k]) /\ Left(ix, cs, f[k].ix, f[k].cs)
    BY <1>8
  <2>2. f[k + 1] = IF f[k].stop THEN f[k] ELSE RemoveOne(f[k], es[k + 1])
    <3>1. k + 1 \in 0..m /\ k + 1 # 0 /\ (k + 1) - 1 = k
      OBVIOUS
    <3> QED
      BY <1>6, <3>1
  <2>3. CASE f[k].stop
    BY <2>1, <2>2, <2>3
  <2>4. CASE ~ f[k].stop
    <3>1. es[k + 1] \in Ids
      BY <1>1
    <3>2. f[k + 1] = RemoveOne(f[k], es[k + 1])
      BY <2>2, <2>4
    <3>3. Round(f[k + 1]) /\ Left(f[k].ix, f[k].cs, f[k + 1].ix, f[k + 1].cs)
      BY <2>1, <3>1, <3>2, RoundIs
    <3>4. Left(ix, cs, f[k + 1].ix, f[k + 1].cs)
      BY ONLY <2>1, <3>3, LeftThen
    <3> QED
      BY <3>3, <3>4
  <2> QED
    BY <2>3, <2>4
<1>9. \A k \in Nat : k \in G
  <2> HIDE DEF G
  <2> QED
    BY <1>7, <1>8, NatSetInduction
<1>10. Round(r) /\ Left(ix, cs, r.ix, r.cs)
  BY <1>4, <1>9
<1>11. ASSUME NEW e \in Ids, es = <<e>> PROVE ~ Alive(r.ix, e)
  <2>1. m = 1 /\ es[1] = e
    BY <1>1, <1>11
  <2>2. f[0] = z
    BY <1>6
  <2>3. f[1] = IF f[0].stop THEN f[0] ELSE RemoveOne(f[0], es[1])
    <3>1. 1 \in 0..m /\ 1 # 0 /\ 1 - 1 = 0
      BY <2>1
    <3> QED
      BY <1>6, <3>1
  <2>4. r = RemoveOne(z, e)
    BY <1>4, <1>5, <2>1, <2>2, <2>3
  <2> QED
    BY <1>5, <2>4, RoundIs
<1> QED
  BY <1>2, <1>10, <1>11 DEF Round

---------------------------------------------------------------------------
\* An entity gets components, and the others keep theirs.
Grown(ix, cs, jx, ds, e, v) ==
  /\ \A x \in Entries(jx) : x.at # Tombstone =>
       \/ x.key = e /\ Q!Get(ds, x.at) = v
       \/ x.key # e /\ x \in Entries(ix) /\ Q!Get(ds, x.at) = Q!Get(cs, x.at)
  /\ \A x \in Entries(ix) : x.at # Tombstone /\ x.key # e => x \in Entries(jx)
  /\ Alive(jx, e)

LEMMA Overwritten ==
  ASSUME NEW ix, NEW es, NEW cs, Agree(ix, es, cs), NEW e \in Ids, Valid(ix, e), NEW v \in Values,
         NEW ds, ds = Q!Put(cs, ix[Place(ix, e)].at, v)
  PROVE  Agree(ix, es, ds) /\ Grown(ix, cs, ix, ds, e, v)
<1>1. Vector(ix) /\ Tombstone \notin Nat
  BY AgreeIs
<1>2. PICK a \in Entries(ix) : a.key = e /\ a.at # Tombstone
  BY <1>1, ValidIs, EntriesAre
<1>3. ix[Place(ix, e)] = a
  BY <1>1, <1>2, EntriesAre
<1>4. PICK i \in Nat : i = a.at /\ Inside(es, i) /\ Q!Get(es, i) = e
  BY <1>2 DEF Agree
<1>5. ds = Q!Put(cs, i, v) /\ Q!BeginIndex(cs) <= i /\ i < Q!EndIndex(cs)
  BY <1>3, <1>4, AgreeIs DEF Inside
<1>6. /\ Dense(ds, ComponentSlots, Values) /\ Q!BeginIndex(ds) = Q!BeginIndex(cs)
      /\ Q!EndIndex(ds) = Q!EndIndex(cs) /\ Q!Get(ds, i) = v
  BY <1>5, AgreeIs, PutIs
<1>7. \A j \in Nat : Q!BeginIndex(cs) <= j /\ j < Q!EndIndex(cs) /\ j # i =>
         Q!Get(ds, j) = Q!Get(cs, j)
  BY <1>5, AgreeIs, PutIs
<1>8. \A j \in Nat : Inside(es, j) /\ j # i => Q!Get(ds, j) = Q!Get(cs, j)
  BY <1>7, AgreeIs DEF Inside
<1>9. Agree(ix, es, ds)
  <2>1. \A j \in Nat : Inside(es, j) => (\E x \in Entries(ix) : x.at = j) /\ Q!Get(cs, j) \in Values
    BY DEF Agree
  <2>2. \A j \in Nat : Inside(es, j) => (\E x \in Entries(ix) : x.at = j) /\ Q!Get(ds, j) \in Values
    BY <1>6, <1>8, <2>1
  <2> QED
    BY <1>6, <2>2 DEF Agree
<1>10. ASSUME NEW x \in Entries(ix), x.at # Tombstone, x.key # e
       PROVE  Q!Get(ds, x.at) = Q!Get(cs, x.at)
  <2>1. x.at \in Nat /\ Inside(es, x.at) /\ Q!Get(es, x.at) = x.key
    BY <1>10 DEF Agree
  <2>2. x.at # i
    BY <1>4, <1>10, <2>1
  <2> QED
    BY <1>8, <2>1, <2>2
<1>11. \A x \in Entries(ix) : x.key = e => x = a
  BY <1>1, <1>2, EntriesAre
<1>12. Alive(ix, e)
  BY <1>1, ValidIs
<1> QED
  BY <1>4, <1>6, <1>9, <1>10, <1>11, <1>12 DEF Grown

LEMMA Pushed ==
  ASSUME NEW ix, NEW es, NEW cs, Agree(ix, es, cs), NEW e \in Ids, ~ Valid(ix, e), NEW v \in Values,
         ~ Q!Wraps(es), ~ Q!Wraps(cs),
         NEW i, i = Q!EndIndex(es),
         NEW jx, Vector(jx), NEW d, d.key = e, d.at = i, d \in Entries(jx),
         \A x \in Entries(jx) : x = d \/ (x \in Entries(ix) /\ x.key # e),
         \A x \in Entries(ix) : x.key # e => x \in Entries(jx),
         NEW fs, fs = Q!PushBack(es, e), NEW ds, ds = Q!PushBack(cs, v)
  PROVE  Agree(jx, fs, ds) /\ Grown(ix, cs, jx, ds, e, v)
<1>1. Vector(ix) /\ Tombstone \notin Nat
  BY AgreeIs
<1>2. PICK b \in Nat : b = Q!BeginIndex(es) /\ b = Q!BeginIndex(cs)
  BY AgreeIs
<1>3. i \in Nat /\ i = Q!EndIndex(cs) /\ b <= i
  BY <1>2, AgreeIs
<1>4. /\ Dense(fs, EntitySlots, Ids) /\ Q!BeginIndex(fs) = b /\ Q!EndIndex(fs) = i + 1
      /\ Q!Get(fs, i) = e
      /\ \A j \in Nat : b <= j /\ j < i => Q!Get(fs, j) = Q!Get(es, j)
  <2>1. Dense(es, EntitySlots, Ids) /\ EntitySlots \in Nat \ {0}
    BY AgreeIs
  <2>2. /\ Dense(fs, EntitySlots, Ids) /\ Q!BeginIndex(fs) = Q!BeginIndex(es)
        /\ Q!EndIndex(fs) = Q!EndIndex(es) + 1 /\ Q!Get(fs, Q!EndIndex(es)) = e
        /\ \A j \in Nat : Q!BeginIndex(es) <= j /\ j < Q!EndIndex(es) => Q!Get(fs, j) = Q!Get(es, j)
    BY ONLY <2>1, ~ Q!Wraps(es), e \in Ids, fs = Q!PushBack(es, e), PushIs
  <2> QED
    BY <1>2, <2>2
<1>5. /\ Dense(ds, ComponentSlots, Values) /\ Q!BeginIndex(ds) = b /\ Q!EndIndex(ds) = i + 1
      /\ Q!Get(ds, i) = v
      /\ \A j \in Nat : b <= j /\ j < i => Q!Get(ds, j) = Q!Get(cs, j)
  <2>1. Dense(cs, ComponentSlots, Values) /\ ComponentSlots \in Nat \ {0}
    BY AgreeIs
  <2>2. /\ Dense(ds, ComponentSlots, Values) /\ Q!BeginIndex(ds) = Q!BeginIndex(cs)
        /\ Q!EndIndex(ds) = Q!EndIndex(cs) + 1 /\ Q!Get(ds, Q!EndIndex(cs)) = v
        /\ \A j \in Nat : Q!BeginIndex(cs) <= j /\ j < Q!EndIndex(cs) => Q!Get(ds, j) = Q!Get(cs, j)
    BY ONLY <2>1, ~ Q!Wraps(cs), v \in Values, ds = Q!PushBack(cs, v), PushIs
  <2> QED
    BY <1>2, <1>3, <2>2
<1>6. \A x \in Entries(ix) : x.at # Tombstone =>
         x.at \in Nat /\ b <= x.at /\ x.at < i /\ Q!Get(es, x.at) = x.key /\ x.key # e
  <2>1. \A x \in Entries(ix) : x.at # Tombstone => x.key # e
    BY <1>1, ValidIs, EntriesAre
  <2> QED
    BY <1>2, <2>1 DEF Agree, Inside
<1>7. \A j \in Nat : b <= j /\ j < i => (\E x \in Entries(ix) : x.at = j) /\ Q!Get(cs, j) \in Values
  BY <1>2 DEF Agree, Inside
<1>8. ASSUME NEW x \in Entries(jx), x.at # Tombstone
      PROVE  /\ x.at \in Nat /\ b <= x.at /\ x.at < i + 1 /\ Q!Get(fs, x.at) = x.key
             /\ \/ x.key = e /\ Q!Get(ds, x.at) = v
                \/ x.key # e /\ x \in Entries(ix) /\ Q!Get(ds, x.at) = Q!Get(cs, x.at)
  <2>1. CASE x = d
    <3>1. i < i + 1
      BY <1>3
    <3> QED
      BY <1>3, <1>4, <1>5, <2>1, <3>1
  <2>2. CASE x # d
    <3>1. x \in Entries(ix) /\ x.key # e
      BY <2>2
    <3>2. x.at \in Nat /\ b <= x.at /\ x.at < i /\ Q!Get(es, x.at) = x.key
      BY <1>6, <1>8, <3>1
    <3>3. x.at < i + 1
      BY <1>3, <3>2
    <3> QED
      BY <1>4, <1>5, <3>1, <3>2, <3>3
  <2> QED
    BY <2>1, <2>2
<1>9. ASSUME NEW j \in Nat, b <= j, j < i + 1
      PROVE  (\E x \in Entries(jx) : x.at = j) /\ Q!Get(ds, j) \in Values
  <2>1. CASE j = i
    BY <1>5, <2>1
  <2>2. CASE j # i
    <3>1. j < i
      BY <1>3, <1>9, <2>2
    <3>2. PICK x \in Entries(ix) : x.at = j
      BY <1>7, <1>9, <3>1
    <3>3. x.at # Tombstone
      BY <1>1, <3>2
    <3>4. x \in Entries(jx)
      BY <1>6, <3>3
    <3> QED
      BY <1>5, <1>7, <1>9, <3>1, <3>2, <3>4
  <2> QED
    BY <2>1, <2>2
<1>10. Agree(jx, fs, ds)
  BY <1>4, <1>5, <1>8, <1>9 DEF Agree, Inside
<1>11. Alive(jx, e)
  <2>1. d.at # Tombstone
    BY <1>1, <1>3
  <2> QED
    BY <2>1, EntriesAre
<1>12. Grown(ix, cs, jx, ds, e, v)
  BY <1>8, <1>11 DEF Grown
<1> QED
  BY <1>10, <1>12

LEMMA InsertIs ==
  ASSUME NEW ix, NEW es, NEW cs, Agree(ix, es, cs), NEW e \in Ids, ~ Valid(ix, e), NEW v \in Values,
         ~ Q!Wraps(es), ~ Q!Wraps(cs), NEW i, i = Q!EndIndex(es),
         NEW jx, jx = IF Place(ix, e) # Past(ix) THEN Redirect(ix, Place(ix, e), i)
                      ELSE Inserted(ix, e, i),
         NEW fs, fs = Q!PushBack(es, e), NEW ds, ds = Q!PushBack(cs, v)
  PROVE  Agree(jx, fs, ds) /\ Grown(ix, cs, jx, ds, e, v)
<1>1. Vector(ix) /\ i \in Nat /\ i \in Nat \cup {Tombstone}
  BY AgreeIs
<1>2. PICK d : d = [key |-> e, at |-> i] /\ d.key = e /\ d.at = i
  <2>1. PICK d : d = [key |-> e, at |-> i]
    OBVIOUS
  <2>2. d.key = e /\ d.at = i
    BY <2>1
  <2> QED
    BY <2>1, <2>2
<1>3. CASE Place(ix, e) # Past(ix)
  <2>1. PICK k \in 1..Len(ix) : ix[k].key = e
    BY <1>1, <1>3, PlaceIs
  <2>2. jx = Redirect(ix, k, i)
    BY <1>1, <1>3, <2>1, PlaceIs
  <2>3. Vector(jx)
    BY <1>1, <2>2, Redirected
  <2>4. PICK z \in Entries(ix) : z = ix[k]
    BY DEF Entries
  <2>5. Entries(jx) = (Entries(ix) \ {z}) \cup {d}
    <3>1. Entries(jx) = (Entries(ix) \ {ix[k]}) \cup {[key |-> ix[k].key, at |-> i]}
      BY <1>1, <2>2, EntryRedirected
    <3> QED
      BY <1>2, <2>1, <2>4, <3>1
  <2>6. \A x \in Entries(ix) : x.key = e => x = z
    BY <1>1, <2>1, <2>4, EntriesAre
  <2>7. /\ d \in Entries(jx)
        /\ \A x \in Entries(jx) : x = d \/ (x \in Entries(ix) /\ x.key # e)
        /\ \A x \in Entries(ix) : x.key # e => x \in Entries(jx)
    BY <2>1, <2>4, <2>5, <2>6
  <2> QED
    BY ONLY Agree(ix, es, cs), e \in Ids, ~ Valid(ix, e), v \in Values, ~ Q!Wraps(es),
       ~ Q!Wraps(cs), i = Q!EndIndex(es), <1>2, <2>3, <2>7, fs = Q!PushBack(es, e),
       ds = Q!PushBack(cs, v), Pushed
<1>4. CASE ~ (Place(ix, e) # Past(ix))
  <2>1. \A k \in 1..Len(ix) : ix[k].key # e
    BY <1>1, <1>4, PlaceIs
  <2>2. jx = Inserted(ix, e, i)
    BY <1>4
  <2>3. Vector(jx) /\ Entries(jx) = Entries(ix) \cup {d}
    BY <1>1, <1>2, <2>1, <2>2, InsertedIs
  <2>4. \A x \in Entries(ix) : x.key # e
    BY <2>1 DEF Entries
  <2>5. /\ d \in Entries(jx)
        /\ \A x \in Entries(jx) : x = d \/ (x \in Entries(ix) /\ x.key # e)
        /\ \A x \in Entries(ix) : x.key # e => x \in Entries(jx)
    BY <2>3, <2>4
  <2> QED
    BY ONLY Agree(ix, es, cs), e \in Ids, ~ Valid(ix, e), v \in Values, ~ Q!Wraps(es),
       ~ Q!Wraps(cs), i = Q!EndIndex(es), <1>2, <2>3, <2>5, fs = Q!PushBack(es, e),
       ds = Q!PushBack(cs, v), Pushed
<1> QED
  BY <1>3, <1>4

---------------------------------------------------------------------------
(* The ids, and the invariant.                                             *)
IdsSound(held, free, m) ==
  /\ m \in 0..MaxEntities /\ held \subseteq 0..(m - 1) /\ free \in Seq(0..(m - 1))
  /\ \A j, k \in 1..Len(free) : free[j] = free[k] => j = k
  /\ \A k \in 1..Len(free) : free[k] \notin held

LEMMA IdTaken ==
  ASSUME NEW held, NEW free, NEW m, IdsSound(held, free, m), free # << >>
  PROVE  IdsSound(held \cup {Head(free)}, Tail(free), m)
<1>1. PICK n \in Nat : Len(free) = n + 1
  <2>1. free \in Seq(0..(m - 1))
    BY DEF IdsSound
  <2>2. Len(free) \in Nat /\ Len(free) # 0
    BY <2>1
  <2>3. Len(free) - 1 \in Nat /\ Len(free) = (Len(free) - 1) + 1
    BY <2>2
  <2> QED
    BY <2>3
<1>2. /\ Tail(free) \in Seq(0..(m - 1)) /\ Len(Tail(free)) = n /\ Head(free) = free[1]
      /\ free[1] \in 0..(m - 1)
      /\ \A k \in 1..n : Tail(free)[k] = free[k + 1]
  BY <1>1 DEF IdsSound
<1>3. \A k \in 1..n : k + 1 \in 1..(n + 1) /\ k + 1 # 1 /\ 1 \in 1..(n + 1)
  OBVIOUS
<1>4. \A j, k \in 1..n : free[j + 1] = free[k + 1] => j = k
  <2> TAKE j, k \in 1..n
  <2>1. free[j + 1] = free[k + 1] => j + 1 = k + 1
    BY <1>1, <1>3 DEF IdsSound
  <2> QED
    BY <2>1
<1>5. \A k \in 1..n : free[k + 1] # free[1] /\ free[k + 1] \notin held
  BY <1>1, <1>3 DEF IdsSound
<1> QED
  BY <1>2, <1>4, <1>5 DEF IdsSound

LEMMA IdNew ==
  ASSUME NEW held, NEW free, NEW m, IdsSound(held, free, m), m < MaxEntities
  PROVE  IdsSound(held \cup {m}, free, m + 1)
<1>1. m \in Nat /\ m + 1 \in 0..MaxEntities
  BY EntityAssumption DEF IdsSound
<1>2. 0..(m - 1) \subseteq 0..((m + 1) - 1) /\ m \in 0..((m + 1) - 1) /\ m \notin 0..(m - 1)
  BY <1>1
<1>3. free \in Seq(0..((m + 1) - 1))
  BY <1>2 DEF IdsSound
<1>4. \A k \in 1..Len(free) : free[k] \in 0..(m - 1)
  BY DEF IdsSound
<1> QED
  BY <1>1, <1>2, <1>3, <1>4 DEF IdsSound

LEMMA IdFreed ==
  ASSUME NEW held, NEW free, NEW m, IdsSound(held, free, m), NEW e \in held
  PROVE  IdsSound(held \ {e}, Append(free, e), m)
<1>1. PICK n \in Nat : n = Len(free)
  BY DEF IdsSound
<1>2. PICK u : u = Append(free, e)
  OBVIOUS
<1>3. e \in 0..(m - 1)
  BY DEF IdsSound
<1>4. /\ u \in Seq(0..(m - 1)) /\ Len(u) = n + 1 /\ u[n + 1] = e
      /\ \A k \in 1..n : u[k] = free[k]
  <2>1. free \in Seq(0..(m - 1))
    BY DEF IdsSound
  <2> QED
    BY <1>1, <1>2, <1>3, <2>1
<1>5. \A k \in 1..(n + 1) : k = n + 1 \/ k \in 1..n
  OBVIOUS
<1>6. \A k \in 1..n : u[k] \notin held /\ u[k] # e
  BY <1>1, <1>4 DEF IdsSound
<1>7. \A j, k \in 1..(n + 1) : u[j] = u[k] => j = k
  <2>1. \A j, k \in 1..n : free[j] = free[k] => j = k
    BY <1>1 DEF IdsSound
  <2> QED
    BY <1>4, <1>5, <1>6, <2>1
<1>8. \A k \in 1..(n + 1) : u[k] \notin held \ {e}
  BY <1>4, <1>5, <1>6
<1>9. m \in 0..MaxEntities /\ held \ {e} \subseteq 0..(m - 1)
  BY DEF IdsSound
<1> QED
  BY <1>2, <1>4, <1>7, <1>8, <1>9 DEF IdsSound

Served(ix, es, cs, held) ==
  Agree(ix, es, cs) /\ \A x \in Entries(ix) : x.at # Tombstone => x.key \in held

EntityInv ==
  /\ indices = [s \in Systems |-> indices[s]]
  /\ entities = [s \in Systems |-> entities[s]]
  /\ comps = [s \in Systems |-> comps[s]]
  /\ IdsSound(ids, freeIds, maxId)
  /\ \A s \in Systems : Served(indices[s], entities[s], comps[s], ids)

\* Every step gives components to one entity or takes entities away.
Gives(s, e, v) ==
  /\ s \in Systems /\ e \in Ids /\ v \in Values
  /\ Grown(indices[s], comps[s], indices'[s], comps'[s], e, v)
  /\ \A u \in Systems \ {s} : indices'[u] = indices[u] /\ comps'[u] = comps[u]
Takes == \A s \in Systems : Left(indices[s], comps[s], indices'[s], comps'[s])

LEMMA EmptyAgrees ==
  /\ Agree(<< >>, Q!NewList(EntitySlots), Q!NewList(ComponentSlots))
  /\ Entries(<< >>) = {}
<1>1. Vector(<< >>) /\ Entries(<< >>) = {}
  BY DEF Vector, Sorted, Entries
<1>2. PICK es, cs : es = Q!NewList(EntitySlots) /\ cs = Q!NewList(ComponentSlots)
  OBVIOUS
<1>3. /\ Dense(es, EntitySlots, Ids) /\ Q!BeginIndex(es) = 0 /\ Q!EndIndex(es) = 0
  BY <1>2, EntityAssumption, NewIs
<1>4. /\ Dense(cs, ComponentSlots, Values) /\ Q!BeginIndex(cs) = 0 /\ Q!EndIndex(cs) = 0
  BY <1>2, EntityAssumption, NewIs
<1>5. \A i \in Nat : ~ Inside(es, i)
  BY <1>3 DEF Inside
<1>6. Agree(<< >>, es, cs)
  BY <1>1, <1>3, <1>4, <1>5 DEF Agree
<1> QED
  BY <1>1, <1>2, <1>6

\* No id is held and none is free.
LEMMA NoIds == IdsSound({}, << >>, 0)
<1>1. << >> \in Seq(0..(0 - 1)) /\ Len(<< >>) = 0 /\ 0 \in 0..MaxEntities
  BY EntityAssumption
<1> QED
  BY <1>1 DEF IdsSound

LEMMA EntityStarts ==
  ASSUME EntityInit
  PROVE  EntityInv
<1>1. IdsSound(ids, freeIds, maxId)
  BY NoIds DEF EntityInit
<1>2. ASSUME NEW s \in Systems PROVE Served(indices[s], entities[s], comps[s], ids)
  BY EmptyAgrees DEF EntityInit, Served
<1>3. /\ indices = [s \in Systems |-> indices[s]]
      /\ entities = [s \in Systems |-> entities[s]]
      /\ comps = [s \in Systems |-> comps[s]]
  BY DEF EntityInit
<1> QED
  BY <1>1, <1>2, <1>3 DEF EntityInv

LEMMA InsertGives ==
  ASSUME ~ Reuses, EntityInv, NEW s \in Systems, NEW e \in Ids, NEW v \in Values, Insert(s, e, v)
  PROVE  EntityInv' /\ Gives(s, e, v)
<1>1. /\ indices = [u \in Systems |-> indices[u]]
      /\ entities = [u \in Systems |-> entities[u]]
      /\ comps = [u \in Systems |-> comps[u]]
      /\ IdsSound(ids, freeIds, maxId)
      /\ \A u \in Systems : Served(indices[u], entities[u], comps[u], ids)
  BY DEF EntityInv
<1>2. PICK ix, es, cs : ix = indices[s] /\ es = entities[s] /\ cs = comps[s]
  OBVIOUS
<1>3. Agree(ix, es, cs) /\ (\A x \in Entries(ix) : x.at # Tombstone => x.key \in ids)
  BY <1>1, <1>2 DEF Served
<1>4. /\ ids' = ids /\ freeIds' = freeIds /\ maxId' = maxId /\ e \in ids
  BY DEF Insert
<1>5. PICK jx, fs, ds : /\ indices' = [indices EXCEPT ![s] = jx]
                        /\ entities' = [entities EXCEPT ![s] = fs]
                        /\ comps' = [comps EXCEPT ![s] = ds]
                        /\ Agree(jx, fs, ds) /\ Grown(ix, cs, jx, ds, e, v)
  <2>1. CASE Valid(ix, e)
    <3>1. comps' = [comps EXCEPT ![s] = Q!Put(@, IndexOf(s, e), v)]
          /\ indices' = indices /\ entities' = entities
      BY <1>2, <2>1 DEF Insert
    <3>2. PICK ds : ds = Q!Put(cs, ix[Place(ix, e)].at, v)
      OBVIOUS
    <3>3. comps' = [comps EXCEPT ![s] = ds]
      BY <1>2, <3>1, <3>2 DEF IndexOf
    <3>4. Agree(ix, es, ds) /\ Grown(ix, cs, ix, ds, e, v)
      BY <1>3, <2>1, <3>2, Overwritten
    <3>5. indices' = [indices EXCEPT ![s] = ix] /\ entities' = [entities EXCEPT ![s] = es]
      BY <1>1, <1>2, <3>1
    <3> QED
      BY <3>3, <3>4, <3>5
  <2>2. CASE ~ Valid(ix, e)
    <3>1. /\ ~ Q!Wraps(es) /\ ~ Q!Wraps(cs)
          /\ comps' = [comps EXCEPT ![s] = Q!PushBack(@, v)]
          /\ LET i == Q!EndIndex(entities[s]) IN
               indices' = [indices EXCEPT ![s] =
                   IF Place(@, e) # Past(@) THEN [@ EXCEPT ![Place(indices[s], e)].at = i]
                   ELSE Inserted(@, e, i)]
          /\ entities' = [entities EXCEPT ![s] = Q!PushBack(@, e)]
      BY <1>2, <2>2 DEF Insert
    <3>2. PICK i, jx : /\ i = Q!EndIndex(es)
                       /\ jx = IF Place(ix, e) # Past(ix) THEN Redirect(ix, Place(ix, e), i)
                               ELSE Inserted(ix, e, i)
      OBVIOUS
    <3>3. PICK fs, ds : fs = Q!PushBack(es, e) /\ ds = Q!PushBack(cs, v)
      OBVIOUS
    <3>4. Agree(jx, fs, ds) /\ Grown(ix, cs, jx, ds, e, v)
      BY ONLY <1>3, e \in Ids, <2>2, v \in Values, <3>1, <3>2, <3>3, InsertIs
    <3>5. comps' = [comps EXCEPT ![s] = ds] /\ entities' = [entities EXCEPT ![s] = fs]
      BY <1>2, <3>1, <3>3
    <3>6. indices' = [indices EXCEPT ![s] = jx]
      BY <1>2, <3>1, <3>2 DEF Redirect
    <3> QED
      BY <3>4, <3>5, <3>6
  <2> QED
    BY <2>1, <2>2
<1>6. /\ indices' = [u \in Systems |-> indices'[u]]
      /\ entities' = [u \in Systems |-> entities'[u]]
      /\ comps' = [u \in Systems |-> comps'[u]]
      /\ indices'[s] = jx /\ entities'[s] = fs /\ comps'[s] = ds
      /\ \A u \in Systems \ {s} :
           indices'[u] = indices[u] /\ entities'[u] = entities[u] /\ comps'[u] = comps[u]
  BY <1>1, <1>5
<1>7. Served(jx, fs, ds, ids)
  <2>1. \A x \in Entries(jx) : x.at # Tombstone => x.key \in ids
    BY <1>3, <1>4, <1>5 DEF Grown
  <2> QED
    BY <1>5, <2>1 DEF Served
<1>8. \A u \in Systems : Served(indices'[u], entities'[u], comps'[u], ids')
  BY <1>1, <1>4, <1>6, <1>7
<1>9. EntityInv'
  BY <1>1, <1>4, <1>6, <1>8 DEF EntityInv
<1>10. Gives(s, e, v)
  BY <1>2, <1>5, <1>6 DEF Gives
<1> QED
  BY <1>9, <1>10

\* What is left of the entities that a client holds.
LEMMA LeftServed ==
  ASSUME NEW ix, NEW es, NEW cs, NEW held, Served(ix, es, cs, held),
         NEW jx, NEW fs, NEW ds, Agree(jx, fs, ds), Left(ix, cs, jx, ds)
  PROVE  Served(jx, fs, ds, held)
BY DEF Served, Left

LEMMA RemoveTakes ==
  ASSUME EntityInv, NEW s \in Systems, NEW es \in Seq(Ids), Remove(s, es)
  PROVE  EntityInv' /\ Takes
<1>1. /\ indices = [u \in Systems |-> indices[u]]
      /\ entities = [u \in Systems |-> entities[u]]
      /\ comps = [u \in Systems |-> comps[u]]
      /\ IdsSound(ids, freeIds, maxId)
      /\ \A u \in Systems : Served(indices[u], entities[u], comps[u], ids)
  BY DEF EntityInv
<1>2. PICK r : r = Removed(s, es)
  OBVIOUS
<1>3. /\ indices' = [indices EXCEPT ![s] = r.ix] /\ entities' = [entities EXCEPT ![s] = r.ents]
      /\ comps' = [comps EXCEPT ![s] = r.cs]
      /\ ids' = ids /\ freeIds' = freeIds /\ maxId' = maxId
  BY <1>2 DEF Remove
<1>4. Agree(r.ix, r.ents, r.cs) /\ Left(indices[s], comps[s], r.ix, r.cs)
  <2>1. Agree(indices[s], entities[s], comps[s])
    BY <1>1 DEF Served
  <2> QED
    BY <1>2, <2>1, RemovedIs
<1>5. Served(r.ix, r.ents, r.cs, ids)
  BY <1>1, <1>4, LeftServed
<1>6. /\ indices' = [u \in Systems |-> indices'[u]]
      /\ entities' = [u \in Systems |-> entities'[u]]
      /\ comps' = [u \in Systems |-> comps'[u]]
      /\ indices'[s] = r.ix /\ entities'[s] = r.ents /\ comps'[s] = r.cs
      /\ \A u \in Systems \ {s} :
           indices'[u] = indices[u] /\ entities'[u] = entities[u] /\ comps'[u] = comps[u]
  BY <1>1, <1>3
<1>7. \A u \in Systems : Served(indices'[u], entities'[u], comps'[u], ids')
  BY <1>1, <1>3, <1>5, <1>6
<1>8. EntityInv'
  BY <1>1, <1>3, <1>6, <1>7 DEF EntityInv
<1>9. Takes
  <2> SUFFICES ASSUME NEW u \in Systems
               PROVE  Left(indices[u], comps[u], indices'[u], comps'[u])
    BY DEF Takes
  <2>1. CASE u = s
    BY <1>4, <1>6, <2>1
  <2>2. CASE u # s
    <3>1. indices'[u] = indices[u] /\ comps'[u] = comps[u]
      BY <1>6, <2>2
    <3> QED
      BY <3>1, LeftAgain
  <2> QED
    BY <2>1, <2>2
<1> QED
  BY <1>8, <1>9

LEMMA CompressTakes ==
  ASSUME EntityInv, Compress
  PROVE  EntityInv' /\ Takes
<1>1. /\ entities = [u \in Systems |-> entities[u]]
      /\ comps = [u \in Systems |-> comps[u]]
      /\ IdsSound(ids, freeIds, maxId)
      /\ \A u \in Systems : Served(indices[u], entities[u], comps[u], ids)
  BY DEF EntityInv
<1>2. /\ indices' = [s \in Systems |-> WithoutTombstones(indices[s])]
      /\ entities' = entities /\ comps' = comps
      /\ ids' = ids /\ freeIds' = freeIds /\ maxId' = maxId
  BY DEF Compress
<1>3. ASSUME NEW u \in Systems
      PROVE  /\ Served(indices'[u], entities'[u], comps'[u], ids')
             /\ Left(indices[u], comps[u], indices'[u], comps'[u])
  <2>1. PICK ix, es, cs, jx : /\ ix = indices[u] /\ es = entities[u] /\ cs = comps[u]
                              /\ jx = WithoutTombstones(ix)
    OBVIOUS
  <2>2. Agree(ix, es, cs) /\ Served(ix, es, cs, ids) /\ Vector(ix) /\ Tombstone \notin Nat
    <3>1. Served(ix, es, cs, ids)
      BY <1>1, <2>1
    <3> QED
      BY <3>1, AgreeIs DEF Served
  <2>3. Vector(jx) /\ Entries(jx) = {x \in Entries(ix) : x.at # Tombstone}
    BY <2>1, <2>2, WithoutIs
  <2>4. Left(ix, cs, jx, cs)
    BY <2>3 DEF Left
  <2>5. Agree(jx, es, cs)
    <3>1. \A x \in Entries(jx) : x.at # Tombstone =>
            x.at \in Nat /\ Inside(es, x.at) /\ Q!Get(es, x.at) = x.key
      BY <2>2, <2>3 DEF Agree
    <3>2. \A i \in Nat : Inside(es, i) => (\E x \in Entries(jx) : x.at = i) /\ Q!Get(cs, i) \in Values
      BY <2>2, <2>3 DEF Agree
    <3> QED
      BY <2>2, <2>3, <3>1, <3>2 DEF Agree
  <2>6. Served(jx, es, cs, ids)
    BY <2>2, <2>4, <2>5, LeftServed
  <2>7. indices'[u] = jx /\ entities'[u] = es /\ comps'[u] = cs
    BY <1>2, <2>1
  <2> QED
    BY <1>2, <2>1, <2>4, <2>6, <2>7
<1>4. indices' = [u \in Systems |-> indices'[u]]
  BY <1>2
<1>5. EntityInv'
  BY <1>1, <1>2, <1>3, <1>4 DEF EntityInv
<1> QED
  BY <1>3, <1>5 DEF Takes

LEMMA ClearTakes ==
  ASSUME EntityInv, NEW s \in Systems, Clear(s)
  PROVE  EntityInv' /\ Takes
<1>1. /\ indices = [u \in Systems |-> indices[u]]
      /\ entities = [u \in Systems |-> entities[u]]
      /\ comps = [u \in Systems |-> comps[u]]
      /\ IdsSound(ids, freeIds, maxId)
      /\ \A u \in Systems : Served(indices[u], entities[u], comps[u], ids)
  BY DEF EntityInv
<1>2. Q!Cleared(entities[s]) = Q!NewList(EntitySlots) /\ Q!Cleared(comps[s]) = Q!NewList(ComponentSlots)
  <2>1. Agree(indices[s], entities[s], comps[s])
    BY <1>1 DEF Served
  <2>2. entities[s].size = EntitySlots /\ comps[s].size = ComponentSlots
    BY <2>1, AgreeIs, TopIs
  <2> QED
    BY <2>2 DEF Q!Cleared
<1>3. PICK fs, ds : fs = Q!NewList(EntitySlots) /\ ds = Q!NewList(ComponentSlots)
  OBVIOUS
<1>4. /\ indices' = [indices EXCEPT ![s] = << >>] /\ entities' = [entities EXCEPT ![s] = fs]
      /\ comps' = [comps EXCEPT ![s] = ds]
      /\ ids' = ids /\ freeIds' = freeIds /\ maxId' = maxId
  BY <1>2, <1>3 DEF Clear
<1>5. Agree(<< >>, fs, ds) /\ Entries(<< >>) = {}
  BY <1>3, EmptyAgrees
<1>6. Served(<< >>, fs, ds, ids)
  BY <1>5 DEF Served
<1>7. /\ indices' = [u \in Systems |-> indices'[u]]
      /\ entities' = [u \in Systems |-> entities'[u]]
      /\ comps' = [u \in Systems |-> comps'[u]]
      /\ indices'[s] = << >> /\ entities'[s] = fs /\ comps'[s] = ds
      /\ \A u \in Systems \ {s} :
           indices'[u] = indices[u] /\ entities'[u] = entities[u] /\ comps'[u] = comps[u]
  BY <1>1, <1>4
<1>8. \A u \in Systems : Served(indices'[u], entities'[u], comps'[u], ids')
  BY <1>1, <1>4, <1>6, <1>7
<1>9. EntityInv'
  BY <1>1, <1>4, <1>7, <1>8 DEF EntityInv
<1>10. Takes
  <2> SUFFICES ASSUME NEW u \in Systems
               PROVE  Left(indices[u], comps[u], indices'[u], comps'[u])
    BY DEF Takes
  <2>1. CASE u = s
    BY <1>5, <1>7, <2>1 DEF Left
  <2>2. CASE u # s
    <3>1. indices'[u] = indices[u] /\ comps'[u] = comps[u]
      BY <1>7, <2>2
    <3> QED
      BY <3>1, LeftAgain
  <2> QED
    BY <2>1, <2>2
<1> QED
  BY <1>9, <1>10

LEMMA AllocateTakes ==
  ASSUME EntityInv, AllocateId
  PROVE  EntityInv' /\ Takes
<1>1. /\ indices = [u \in Systems |-> indices[u]]
      /\ entities = [u \in Systems |-> entities[u]]
      /\ comps = [u \in Systems |-> comps[u]]
      /\ IdsSound(ids, freeIds, maxId)
      /\ \A u \in Systems : Served(indices[u], entities[u], comps[u], ids)
  BY DEF EntityInv
<1>2. indices' = indices /\ entities' = entities /\ comps' = comps
  BY DEF AllocateId
<1>3. IdsSound(ids', freeIds', maxId') /\ ids \subseteq ids'
  <2>1. CASE freeIds # << >>
    <3>1. ids' = ids \cup {Head(freeIds)} /\ freeIds' = Tail(freeIds) /\ maxId' = maxId
      BY <2>1 DEF AllocateId
    <3> QED
      BY <1>1, <2>1, <3>1, IdTaken
  <2>2. CASE ~ (freeIds # << >>)
    <3>1. ids' = ids \cup {maxId} /\ freeIds' = freeIds /\ maxId' = maxId + 1 /\ maxId < MaxEntities
      BY <2>2 DEF AllocateId
    <3> QED
      BY <1>1, <3>1, IdNew
  <2> QED
    BY <2>1, <2>2
<1>4. \A u \in Systems : Served(indices'[u], entities'[u], comps'[u], ids')
  BY <1>1, <1>2, <1>3 DEF Served
<1>5. EntityInv'
  BY <1>1, <1>2, <1>3, <1>4 DEF EntityInv
<1>6. Takes
  BY <1>2, LeftAgain DEF Takes
<1> QED
  BY <1>5, <1>6

\* reset() of the allocator: no entry is alive, so nobody has components without an id.
LEMMA ResetTakes ==
  ASSUME EntityInv, ResetIds
  PROVE  EntityInv' /\ Takes
<1>1. /\ indices = [u \in Systems |-> indices[u]]
      /\ entities = [u \in Systems |-> entities[u]]
      /\ comps = [u \in Systems |-> comps[u]]
      /\ \A u \in Systems : Served(indices[u], entities[u], comps[u], ids)
  BY DEF EntityInv
<1>2. /\ indices' = indices /\ entities' = entities /\ comps' = comps
      /\ ids' = {} /\ freeIds' = << >> /\ maxId' = 0
      /\ \A s \in Systems, e \in Ids : ~ Valid(indices[s], e)
  BY DEF ResetIds
<1>3. IdsSound(ids', freeIds', maxId')
  BY <1>2, NoIds
<1>4. ASSUME NEW s \in Systems PROVE Served(indices'[s], entities'[s], comps'[s], ids')
  <2>1. Agree(indices[s], entities[s], comps[s])
    BY <1>1 DEF Served
  <2>2. Vector(indices[s])
    BY <2>1, AgreeIs
  <2>3. ASSUME NEW x \in Entries(indices[s]) PROVE x.at = Tombstone
    <3>1. x \in Entry /\ (x.at # Tombstone => Alive(indices[s], x.key))
      BY <2>2, EntriesAre
    <3>2. x.key \in Ids
      BY <3>1 DEF Entry
    <3>3. ~ Alive(indices[s], x.key)
      BY <1>2, <2>2, <3>2, ValidIs
    <3> QED
      BY <3>1, <3>3
  <2> QED
    BY <1>2, <2>1, <2>3 DEF Served
<1>5. EntityInv'
  BY <1>1, <1>2, <1>3, <1>4 DEF EntityInv
<1>6. Takes
  BY <1>2, LeftAgain DEF Takes
<1> QED
  BY <1>5, <1>6

LEMMA DestroyTakes ==
  ASSUME EntityInv, NEW e \in Ids, Destroy(e)
  PROVE  EntityInv' /\ Takes
<1>1. /\ IdsSound(ids, freeIds, maxId) /\ e \in ids
      /\ \A u \in Systems : Served(indices[u], entities[u], comps[u], ids)
  BY DEF EntityInv, Destroy
<1>2. /\ indices' = [s \in Systems |-> Removed(s, <<e>>).ix]
      /\ entities' = [s \in Systems |-> Removed(s, <<e>>).ents]
      /\ comps' = [s \in Systems |-> Removed(s, <<e>>).cs]
      /\ ids' = ids \ {e} /\ freeIds' = Append(freeIds, e) /\ maxId' = maxId
  BY DEF Destroy
<1>3. IdsSound(ids', freeIds', maxId')
  BY <1>1, <1>2, IdFreed
<1>4. ASSUME NEW s \in Systems
      PROVE  /\ Served(indices'[s], entities'[s], comps'[s], ids')
             /\ Left(indices[s], comps[s], indices'[s], comps'[s])
  <2>1. PICK r : r = Removed(s, <<e>>)
    OBVIOUS
  <2>2. indices'[s] = r.ix /\ entities'[s] = r.ents /\ comps'[s] = r.cs
    BY <1>2, <2>1
  <2>3. Agree(indices[s], entities[s], comps[s]) /\ <<e>> \in Seq(Ids)
    BY <1>1 DEF Served
  <2>4. /\ Agree(r.ix, r.ents, r.cs) /\ Left(indices[s], comps[s], r.ix, r.cs)
        /\ \A f \in Ids : <<e>> = <<f>> => ~ Alive(r.ix, f)
    BY <2>1, <2>3, RemovedIs
  <2>5. ~ Alive(r.ix, e) /\ Vector(r.ix)
    BY <2>4, AgreeIs
  <2>6. Served(r.ix, r.ents, r.cs, ids)
    BY <1>1, <2>4, LeftServed
  <2>7. \A x \in Entries(r.ix) : x.at # Tombstone => x.key # e
    BY <2>5, EntriesAre
  <2>8. Served(r.ix, r.ents, r.cs, ids')
    BY <1>2, <2>6, <2>7 DEF Served
  <2> QED
    BY <2>2, <2>4, <2>8
<1>5. /\ indices' = [u \in Systems |-> indices'[u]]
      /\ entities' = [u \in Systems |-> entities'[u]]
      /\ comps' = [u \in Systems |-> comps'[u]]
  BY <1>2
<1>6. EntityInv'
  BY <1>3, <1>4, <1>5 DEF EntityInv
<1> QED
  BY <1>4, <1>6 DEF Takes

LEMMA EntitySteps ==
  ASSUME ~ Reuses, EntityInv, EntityNext
  PROVE  EntityInv' /\ (Takes \/ \E s \in Systems, e \in Ids, v \in Values : Gives(s, e, v))
<1>1. CASE \E s \in Systems, e \in Ids, v \in Values : Insert(s, e, v)
  BY <1>1, InsertGives
<1>2. CASE \E s \in Systems, es \in Batches : Remove(s, es)
  <2>1. PICK s \in Systems, es \in Batches : Remove(s, es)
    BY <1>2
  <2>2. es \in Seq(Ids)
    <3>1. CASE es \in {<<e>> : e \in Ids}
      <4>1. PICK e \in Ids : es = <<e>>
        BY <3>1
      <4>2. <<e>> \in Seq(Ids)
        OBVIOUS
      <4> QED
        BY <4>1, <4>2
    <3>2. CASE es \in {<<e, f>> : e, f \in Ids}
      <4>1. PICK e \in Ids, f \in Ids : es = <<e, f>>
        BY <3>2
      <4>2. <<e, f>> \in Seq(Ids)
        OBVIOUS
      <4> QED
        BY <4>1, <4>2
    <3> QED
      BY <3>1, <3>2 DEF Batches
  <2> QED
    BY <2>1, <2>2, RemoveTakes
<1>3. CASE Compress
  BY <1>3, CompressTakes
<1>4. CASE \E s \in Systems : Clear(s)
  BY <1>4, ClearTakes
<1>5. CASE AllocateId
  BY <1>5, AllocateTakes
<1>6. CASE \E e \in Ids : Destroy(e)
  BY <1>6, DestroyTakes
<1>7. CASE ResetIds
  BY <1>7, ResetTakes
<1> QED
  BY <1>1, <1>2, <1>3, <1>4, <1>5, <1>6, <1>7 DEF EntityNext

LEMMA EntityStutters ==
  ASSUME EntityInv, UNCHANGED entityVars
  PROVE  EntityInv'
BY DEF EntityInv, entityVars

\* Of a client that lets no list take a new element into a slot that a removal has freed
\* in its last node: in every system the vector, the list of entities and the list of
\* components agree after each operation, and entities that hold components hold ids.
THEOREM EntitiesSound ==
  ASSUME ~ Reuses
  PROVE  EntitySpec => []EntityInv
<1>1. EntityInit => EntityInv
  BY EntityStarts
<1>2. EntityInv /\ [EntityNext]_entityVars => EntityInv'
  BY EntitySteps, EntityStutters
<1> QED
  BY <1>1, <1>2, PTL DEF EntitySpec

---------------------------------------------------------------------------
(* Types.                                                                  *)
LEMMA InsertsCounted ==
  ASSUME inserts \in 0..MaxInserts, [EntityNext]_entityVars
  PROVE  inserts' \in 0..MaxInserts
<1>0. MaxInserts \in Nat
  BY EntityAssumption
<1>1. CASE \E s \in Systems, e \in Ids, v \in Values : Insert(s, e, v)
  <2>1. inserts < MaxInserts /\ inserts' = inserts + 1
    BY <1>1 DEF Insert
  <2> QED
    BY <1>0, <2>1
<1>2. CASE \E s \in Systems, es \in Batches : Remove(s, es)
  BY <1>2 DEF Remove
<1>3. CASE Compress
  BY <1>3 DEF Compress
<1>4. CASE \E s \in Systems : Clear(s)
  BY <1>4 DEF Clear
<1>5. CASE AllocateId
  BY <1>5 DEF AllocateId
<1>6. CASE \E e \in Ids : Destroy(e)
  BY <1>6 DEF Destroy
<1>7. CASE ResetIds
  BY <1>7 DEF ResetIds
<1>8. CASE UNCHANGED entityVars
  BY <1>8 DEF entityVars
<1> QED
  BY <1>1, <1>2, <1>3, <1>4, <1>5, <1>6, <1>7, <1>8 DEF EntityNext

LEMMA EntityTyped ==
  ASSUME EntityInv, inserts \in 0..MaxInserts
  PROVE  EntityTypeOK
<1>1. ASSUME NEW s \in Systems
      PROVE  /\ indices[s] \in Seq([key : Ids, at : Nat \cup {Tombstone}])
             /\ entities[s].size = EntitySlots /\ comps[s].size = ComponentSlots
  <2>1. PICK ix, es, cs : ix = indices[s] /\ es = entities[s] /\ cs = comps[s]
    OBVIOUS
  <2>2. Agree(ix, es, cs)
    BY <2>1 DEF EntityInv, Served
  <2>3. ix \in Seq([key : Ids, at : Nat \cup {Tombstone}])
    BY <2>2, AgreeIs DEF Vector, Entry
  <2>4. es.size = EntitySlots /\ cs.size = ComponentSlots
    BY <2>2 DEF Agree, Dense, QuickLists
  <2> QED
    BY <2>1, <2>3, <2>4
<1>2. maxId \in 0..MaxEntities /\ ids \subseteq 0..(maxId - 1)
  BY DEF EntityInv, IdsSound
<1>3. ids \subseteq Ids
  <2>1. MaxEntities \in Nat
    BY EntityAssumption
  <2>2. 0..(maxId - 1) \subseteq 0..(MaxEntities - 1)
    BY <1>2, <2>1
  <2> QED
    BY <1>2, <2>2 DEF Ids
<1> QED
  BY <1>1, <1>2, <1>3 DEF EntityTypeOK

\* The vector of a system holds entities and places, its lists keep their sizes, and
\* iris_entity_allocator_t hands out ids below max_allocated_entity only.
THEOREM EntityTypes ==
  ASSUME ~ Reuses
  PROVE  EntitySpec => []EntityTypeOK
<1>1. EntityInit => inserts \in 0..MaxInserts
  BY EntityAssumption DEF EntityInit
<1>2. inserts \in 0..MaxInserts /\ [EntityNext]_entityVars => (inserts \in 0..MaxInserts)'
  BY InsertsCounted
<1>3. EntityInv /\ inserts \in 0..MaxInserts => EntityTypeOK
  BY EntityTyped
<1> QED
  BY <1>1, <1>2, <1>3, EntitiesSound, PTL DEF EntitySpec

---------------------------------------------------------------------------
(* What the invariant says of the lists of a system.                       *)
Listed(ix, es, cs, those, ws, wc) ==
  /\ \A j, k \in 1..Len(ix) : j < k => ix[j].key < ix[k].key
  /\ \A e \in those : Q!Get(es, ix[Place(ix, e)].at) = e
  /\ Len(ws) = Cardinality(those) /\ {ws[k] : k \in 1..Len(ws)} = those
  /\ Len(wc) = Len(ws)
  /\ \A k \in 1..Len(ws) : Q!Get(cs, ix[Place(ix, ws[k])].at) = wc[k]

LEMMA ListsOf ==
  ASSUME NEW ix, NEW es, NEW cs, Agree(ix, es, cs)
  PROVE  Listed(ix, es, cs, {e \in Ids : Valid(ix, e)}, Q!Walked(es), Q!Walked(cs))
<1>0. PICK those, ws, wc : /\ those = {e \in Ids : Valid(ix, e)}
                          /\ ws = Q!Walked(es) /\ wc = Q!Walked(cs)
  OBVIOUS
<1>1. Vector(ix) /\ Tombstone \notin Nat
  BY AgreeIs
<1>2. PICK b \in Nat : b = Q!BeginIndex(es) /\ b = Q!BeginIndex(cs)
  BY AgreeIs
<1>3. PICK z \in Nat : /\ z = Q!EndIndex(es) - Q!BeginIndex(es)
                       /\ z = Q!EndIndex(cs) - Q!BeginIndex(cs)
                       /\ b + z = Q!EndIndex(es)
  <2>1. Q!EndIndex(es) \in Nat /\ b <= Q!EndIndex(es) /\ Q!EndIndex(es) = Q!EndIndex(cs)
    BY <1>2, AgreeIs
  <2>2. PICK t \in Nat : t = Q!EndIndex(es)
    BY <2>1
  <2>3. t - b \in Nat /\ b + (t - b) = t
    BY <2>1, <2>2
  <2> QED
    BY <1>2, <2>1, <2>2, <2>3
<1>4. ws = [k \in 1..z |-> Q!Get(es, (b + k) - 1)]
  <2>1. Q!Walked(es) = [k \in 1..z |-> Q!Get(es, (Q!BeginIndex(es) + k) - 1)]
    <3>1. EntitySlots \in Nat \ {0} /\ Dense(es, EntitySlots, Ids)
      BY AgreeIs
    <3> QED
      BY ONLY <1>3, <3>1, WalkedIs
  <2> QED
    BY <1>0, <1>2, <2>1
<1>5. wc = [k \in 1..z |-> Q!Get(cs, (b + k) - 1)]
  <2>1. Q!Walked(cs) = [k \in 1..z |-> Q!Get(cs, (Q!BeginIndex(cs) + k) - 1)]
    <3>1. ComponentSlots \in Nat \ {0} /\ Dense(cs, ComponentSlots, Values)
      BY AgreeIs
    <3> QED
      BY ONLY <1>3, <3>1, WalkedIs
  <2> QED
    BY <1>0, <1>2, <2>1
<1>6. ASSUME NEW k \in 1..z
      PROVE  \E x \in Entries(ix) : /\ x.at = (b + k) - 1 /\ x.at # Tombstone
                                    /\ x.key = ws[k] /\ x.key \in those
  <2>1. PICK i \in Nat : i = (b + k) - 1 /\ Inside(es, i)
    <3>1. (b + k) - 1 \in Nat /\ b <= (b + k) - 1 /\ (b + k) - 1 < b + z
      OBVIOUS
    <3> QED
      BY <1>2, <1>3, <3>1 DEF Inside
  <2>2. PICK x \in Entries(ix) : x.at = i
    BY <2>1 DEF Agree
  <2>3. x.at # Tombstone /\ Q!Get(es, i) = x.key
    BY <1>1, <2>2 DEF Agree
  <2>4. x.key \in Ids
    BY <1>1, EntriesAre DEF Entry
  <2>5. Valid(ix, x.key)
    BY <1>1, <2>3, ValidIs, EntriesAre
  <2> QED
    BY <1>0, <1>4, <2>1, <2>2, <2>3, <2>4, <2>5
<1>7. ASSUME NEW e \in those
      PROVE  \E k \in 1..z : /\ ws[k] = e /\ ix[Place(ix, e)].at = (b + k) - 1
                             /\ Q!Get(es, ix[Place(ix, e)].at) = e
  <2>1. PICK x \in Entries(ix) : x.key = e /\ x.at # Tombstone
    BY <1>0, <1>1, ValidIs, EntriesAre
  <2>2. ix[Place(ix, e)] = x
    BY <1>1, <2>1, EntriesAre
  <2>3. PICK i \in Nat : i = x.at /\ Inside(es, i) /\ Q!Get(es, i) = e
    BY <2>1 DEF Agree
  <2>4. b <= i /\ i < b + z
    BY <1>2, <1>3, <2>3 DEF Inside
  <2>5. PICK k \in 1..z : (b + k) - 1 = i
    <3>1. (i - b) + 1 \in 1..z /\ (b + ((i - b) + 1)) - 1 = i
      BY <2>4
    <3> QED
      BY <3>1
  <2> QED
    BY <1>4, <2>2, <2>3, <2>5
<1>8. ws \in [1..z -> those]
  BY <1>4, <1>6
<1>9. Len(ws) = z /\ Len(wc) = z
  BY <1>4, <1>5
<1>10. ASSUME NEW j \in 1..z, NEW k \in 1..z, ws[j] = ws[k] PROVE j = k
  <2>1. PICK x \in Entries(ix) : x.at = (b + j) - 1 /\ x.key = ws[j]
    BY <1>6
  <2>2. PICK y \in Entries(ix) : y.at = (b + k) - 1 /\ y.key = ws[k]
    BY <1>6
  <2>3. x = y
    BY <1>1, <1>10, <2>1, <2>2, EntriesAre
  <2> QED
    BY <2>1, <2>2, <2>3
<1>11. Cardinality(those) = z
  <2>1. ws \in Surjection(1..z, those)
    BY <1>7, <1>8 DEF Surjection
  <2>2. ws \in Injection(1..z, those)
    BY <1>8, <1>10 DEF Injection, IsInjective
  <2>3. IsFiniteSet(1..z) /\ Cardinality(1..z) = z
    <3>1. IsFiniteSet(1..z) /\ Cardinality(1..z) = IF 1 > z THEN 0 ELSE z - 1 + 1
      BY FS_Interval
    <3> QED
      BY <3>1
  <2>4. Cardinality(those) = Cardinality(1..z)
    BY <2>1, <2>2, <2>3, FS_Surjection
  <2> QED
    BY <2>3, <2>4
<1>12. {ws[k] : k \in 1..z} = those
  BY <1>7, <1>8
<1>13. ASSUME NEW k \in 1..z PROVE Q!Get(cs, ix[Place(ix, ws[k])].at) = wc[k]
  <2>1. ws[k] \in those
    BY <1>8
  <2>2. PICK j \in 1..z : ws[j] = ws[k] /\ ix[Place(ix, ws[k])].at = (b + j) - 1
    BY <1>7, <2>1
  <2>3. j = k
    BY <1>10, <2>2
  <2> QED
    BY <1>5, <2>2, <2>3
<1>14. \A e \in those : Q!Get(es, ix[Place(ix, e)].at) = e
  BY <1>7
<1>15. \A j, k \in 1..Len(ix) : j < k => ix[j].key < ix[k].key
  BY <1>1 DEF Vector, Sorted
<1>16. Listed(ix, es, cs, those, ws, wc)
  BY <1>9, <1>11, <1>12, <1>13, <1>14, <1>15 DEF Listed
<1> QED
  BY ONLY <1>0, <1>16

LEMMA EntitiesAgree ==
  ASSUME EntityInv
  PROVE  ListsAgree
<1>1. ids \cap {freeIds[k] : k \in 1..Len(freeIds)} = {}
  BY DEF EntityInv, IdsSound
<1>2. ASSUME NEW s \in Systems
      PROVE  LET those == {e \in Ids : Valid(indices[s], e)}
                 es == Q!Walked(entities[s])
                 cs == Q!Walked(comps[s])
             IN  /\ \A j, k \in 1..Len(indices[s]) :
                       j < k => indices[s][j].key < indices[s][k].key
                 /\ those \subseteq ids
                 /\ \A e \in those : Q!Get(entities[s], IndexOf(s, e)) = e
                 /\ Len(es) = Cardinality(those) /\ {es[k] : k \in 1..Len(es)} = those
                 /\ Len(cs) = Len(es)
                 /\ \A k \in 1..Len(es) : Q!Get(comps[s], IndexOf(s, es[k])) = cs[k]
  <2>1. PICK ix, es, cs : ix = indices[s] /\ es = entities[s] /\ cs = comps[s]
    OBVIOUS
  <2>2. /\ Agree(ix, es, cs) /\ Vector(ix)
        /\ \A x \in Entries(ix) : x.at # Tombstone => x.key \in ids
    <3>1. Served(ix, es, cs, ids)
      BY <2>1 DEF EntityInv
    <3> QED
      BY <3>1, AgreeIs DEF Served
  <2>3. PICK those, ws, wc : /\ those = {e \in Ids : Valid(ix, e)}
                            /\ ws = Q!Walked(es) /\ wc = Q!Walked(cs)
    OBVIOUS
  <2>4. Listed(ix, es, cs, those, ws, wc)
    BY <2>2, <2>3, ListsOf
  <2>5. those \subseteq ids
    <3>1. SUFFICES ASSUME NEW e \in those PROVE e \in ids
      OBVIOUS
    <3>2. Alive(ix, e)
      BY <2>2, <2>3, ValidIs
    <3> QED
      BY <2>2, <3>2, EntriesAre
  <2> QED
    BY <2>1, <2>3, <2>4, <2>5 DEF IndexOf, Listed
<1> QED
  BY <1>1, <1>2 DEF ListsAgree

\* What an entity has.
LEMMA ComponentOf ==
  ASSUME NEW ix, NEW es, NEW cs, Agree(ix, es, cs), NEW e, Valid(ix, e)
  PROVE  \E x \in Entries(ix) : /\ x.key = e /\ x.at # Tombstone /\ ix[Place(ix, e)] = x
                                /\ Q!Get(cs, ix[Place(ix, e)].at) \in Values
<1>1. Vector(ix)
  BY AgreeIs
<1>2. PICK x \in Entries(ix) : x.key = e /\ x.at # Tombstone
  BY <1>1, ValidIs, EntriesAre
<1>3. ix[Place(ix, e)] = x
  BY <1>1, <1>2, EntriesAre
<1>4. x.at \in Nat /\ Inside(es, x.at)
  BY <1>2 DEF Agree
<1>5. Q!Get(cs, x.at) \in Values
  BY <1>4 DEF Agree
<1> QED
  BY <1>2, <1>3, <1>5

LEMMA EntitiesGet ==
  ASSUME EntityInv
  PROVE  GetsAComponent
<1> SUFFICES ASSUME NEW s \in Systems, NEW e \in Ids, Valid(indices[s], e)
             PROVE  Q!Get(comps[s], IndexOf(s, e)) # Nothing
  BY DEF GetsAComponent
<1>1. Agree(indices[s], entities[s], comps[s])
  BY DEF EntityInv, Served
<1>2. Q!Get(comps[s], indices[s][Place(indices[s], e)].at) \in Values
  BY <1>1, ComponentOf
<1> QED
  BY <1>2, EntityAssumption DEF IndexOf

\* insert(), remove(), compress() and clear() keep the vector sorted, an entity's index
\* leads to that entity, and a walk over both lists meets each entity with its components.
THEOREM EntityListsAgree ==
  ASSUME ~ Reuses
  PROVE  EntitySpec => []ListsAgree
<1>1. EntityInv => ListsAgree
  BY EntitiesAgree
<1> QED
  BY <1>1, EntitiesSound, PTL

\* get() of an entity that valid() accepts reads a component and never a slot without one.
THEOREM EntityGetsComponent ==
  ASSUME ~ Reuses
  PROVE  EntitySpec => []GetsAComponent
<1>1. EntityInv => GetsAComponent
  BY EntitiesGet
<1> QED
  BY <1>1, EntitiesSound, PTL

---------------------------------------------------------------------------
(* The map of a system, and what a step does to it.                        *)
Has(ix, cs) == [e \in {x \in Ids : Valid(ix, x)} |-> Q!Get(cs, ix[Place(ix, e)].at)]

LEMMA HasAt ==
  ASSUME NEW ix, Vector(ix), NEW cs, NEW x \in Entries(ix), x.at # Tombstone,
         NEW h, h = Has(ix, cs)
  PROVE  x.key \in DOMAIN h /\ h[x.key] = Q!Get(cs, x.at)
<1>1. x.key \in Ids /\ Valid(ix, x.key) /\ ix[Place(ix, x.key)] = x
  BY EntriesAre, ValidIs DEF Entry
<1> QED
  BY <1>1 DEF Has

LEMMA HasOf ==
  ASSUME NEW ix, Vector(ix), NEW cs, NEW h, h = Has(ix, cs)
  PROVE  /\ h = [e \in DOMAIN h |-> h[e]] /\ DOMAIN h \subseteq Ids
         /\ \A e \in DOMAIN h : \E x \in Entries(ix) :
              x.key = e /\ x.at # Tombstone /\ h[e] = Q!Get(cs, x.at)
<1>1. h = [e \in DOMAIN h |-> h[e]] /\ DOMAIN h = {e \in Ids : Valid(ix, e)}
  BY DEF Has
<1>2. ASSUME NEW e \in DOMAIN h
      PROVE  \E x \in Entries(ix) : x.key = e /\ x.at # Tombstone /\ h[e] = Q!Get(cs, x.at)
  <2>1. Alive(ix, e)
    BY <1>1, ValidIs
  <2>2. PICK x \in Entries(ix) : x.key = e /\ x.at # Tombstone
    BY <2>1, EntriesAre
  <2>3. h[x.key] = Q!Get(cs, x.at)
    BY <2>2, HasAt
  <2> QED
    BY <2>2, <2>3
<1> QED
  BY <1>1, <1>2

Shrinks(h, g) == \E gone \in SUBSET Ids : g = [e \in DOMAIN h \ gone |-> h[e]]

LEMMA LeftHas ==
  ASSUME NEW ix, Vector(ix), NEW cs, NEW jx, Vector(jx), NEW ds, Left(ix, cs, jx, ds)
  PROVE  Shrinks(Has(ix, cs), Has(jx, ds))
<1>0. PICK h, g : h = Has(ix, cs) /\ g = Has(jx, ds)
  OBVIOUS
<1>1. /\ g = [e \in DOMAIN g |-> g[e]] /\ DOMAIN h \subseteq Ids
      /\ \A e \in DOMAIN g : \E x \in Entries(jx) :
           x.key = e /\ x.at # Tombstone /\ g[e] = Q!Get(ds, x.at)
  <2>1. /\ g = [e \in DOMAIN g |-> g[e]] /\ DOMAIN g \subseteq Ids
        /\ \A e \in DOMAIN g : \E x \in Entries(jx) :
             x.key = e /\ x.at # Tombstone /\ g[e] = Q!Get(ds, x.at)
    BY ONLY Vector(jx), <1>0, HasOf
  <2>2. DOMAIN h \subseteq Ids
    BY <1>0 DEF Has
  <2> QED
    BY <2>1, <2>2
<1>2. ASSUME NEW e \in DOMAIN g PROVE e \in DOMAIN h /\ g[e] = h[e]
  <2>1. PICK x \in Entries(jx) : x.key = e /\ x.at # Tombstone /\ g[e] = Q!Get(ds, x.at)
    BY <1>1
  <2>2. PICK y \in Entries(ix) : /\ y.key = e /\ y.at # Tombstone
                                 /\ Q!Get(ds, x.at) = Q!Get(cs, y.at)
    BY <2>1 DEF Left
  <2>3. y.key \in DOMAIN h /\ h[y.key] = Q!Get(cs, y.at)
    BY ONLY Vector(ix), <1>0, <2>2, HasAt
  <2> QED
    BY <2>1, <2>2, <2>3
<1>3. PICK gone : gone = DOMAIN h \ DOMAIN g
  OBVIOUS
<1>4. DOMAIN h \ gone = DOMAIN g
  BY <1>2, <1>3
<1>5. gone \in SUBSET Ids
  BY <1>1, <1>3
<1>6. g = [e \in DOMAIN h \ gone |-> h[e]]
  BY <1>1, <1>2, <1>4
<1>7. Shrinks(h, g)
  BY <1>5, <1>6 DEF Shrinks
<1> QED
  BY ONLY <1>0, <1>7

LEMMA GrownHas ==
  ASSUME NEW ix, Vector(ix), NEW cs, NEW jx, Vector(jx), NEW ds, NEW e, NEW v,
         Grown(ix, cs, jx, ds, e, v), NEW h, h = Has(ix, cs), NEW g, g = Has(jx, ds)
  PROVE  g = [x \in DOMAIN h \cup {e} |-> IF x = e THEN v ELSE h[x]]
<1>1. /\ g = [x \in DOMAIN g |-> g[x]]
      /\ \A f \in DOMAIN g : \E x \in Entries(jx) :
           x.key = f /\ x.at # Tombstone /\ g[f] = Q!Get(ds, x.at)
  <2>1. /\ g = [x \in DOMAIN g |-> g[x]] /\ DOMAIN g \subseteq Ids
        /\ \A f \in DOMAIN g : \E x \in Entries(jx) :
             x.key = f /\ x.at # Tombstone /\ g[f] = Q!Get(ds, x.at)
    BY ONLY Vector(jx), g = Has(jx, ds), HasOf
  <2> QED
    BY <2>1
<1>2. \A f \in DOMAIN h : \E x \in Entries(ix) :
        x.key = f /\ x.at # Tombstone /\ h[f] = Q!Get(cs, x.at)
  BY ONLY Vector(ix), h = Has(ix, cs), HasOf
<1>3. ASSUME NEW f \in DOMAIN g, f # e PROVE f \in DOMAIN h /\ g[f] = h[f]
  <2>1. PICK x \in Entries(jx) : x.key = f /\ x.at # Tombstone /\ g[f] = Q!Get(ds, x.at)
    BY <1>1
  <2>2. x \in Entries(ix) /\ Q!Get(ds, x.at) = Q!Get(cs, x.at)
    BY <1>3, <2>1 DEF Grown
  <2>3. x.key \in DOMAIN h /\ h[x.key] = Q!Get(cs, x.at)
    BY <2>1, <2>2, HasAt
  <2> QED
    BY <2>1, <2>2, <2>3
<1>4. ASSUME NEW f \in DOMAIN h, f # e PROVE f \in DOMAIN g
  <2>1. PICK x \in Entries(ix) : x.key = f /\ x.at # Tombstone
    BY <1>2
  <2>2. x \in Entries(jx)
    BY <1>4, <2>1 DEF Grown
  <2>3. x.key \in DOMAIN g
    BY ONLY Vector(jx), g = Has(jx, ds), <2>1, <2>2, HasAt
  <2> QED
    BY <2>1, <2>3
<1>5. e \in DOMAIN g /\ g[e] = v
  <2>1. PICK x \in Entries(jx) : x.key = e /\ x.at # Tombstone
    BY EntriesAre DEF Grown
  <2>2. Q!Get(ds, x.at) = v
    BY <2>1 DEF Grown
  <2>3. x.key \in DOMAIN g /\ g[x.key] = Q!Get(ds, x.at)
    BY ONLY Vector(jx), g = Has(jx, ds), <2>1, HasAt
  <2> QED
    BY <2>1, <2>2, <2>3
<1>6. DOMAIN g = DOMAIN h \cup {e}
  BY <1>3, <1>4, <1>5
<1>7. \A x \in DOMAIN g : g[x] = IF x = e THEN v ELSE h[x]
  BY <1>3, <1>5
<1> QED
  BY <1>1, <1>6, <1>7

\* The maps of the systems.
LEMMA MapsStart ==
  ASSUME EntityInit
  PROVE  S!StoreInit
<1>1. ASSUME NEW s \in Systems
      PROVE  [e \in {x \in Ids : Valid(indices[s], x)} |-> Q!Get(comps[s], IndexOf(s, e))] = << >>
  <2>1. indices[s] = << >>
    BY DEF EntityInit
  <2>2. \A x : ~ Valid(<< >>, x)
    <3>1. Vector(<< >>) /\ \A x : ~ Alive(<< >>, x)
      BY EmptyAgrees, AgreeIs DEF Alive
    <3> QED
      BY <3>1, ValidIs
  <2>3. {x \in Ids : Valid(indices[s], x)} = {}
    BY <2>1, <2>2
  <2> QED
    BY <2>3
<1>2. Held = [s \in Systems |-> << >>]
  BY <1>1 DEF Held
<1> QED
  BY ONLY <1>2 DEF S!StoreInit

LEMMA MapsAre ==
  /\ Held = [u \in Systems |-> Has(indices[u], comps[u])]
  /\ Held' = [u \in Systems |-> Has(indices'[u], comps'[u])]
<1>1. Held = [u \in Systems |-> Has(indices[u], comps[u])]
  BY DEF Held, Has, IndexOf
<1>2. Held' = [u \in Systems |-> Has(indices'[u], comps'[u])]
  BY DEF Held, Has, IndexOf
<1> QED
  BY <1>1, <1>2

LEMMA MapsGiven ==
  ASSUME EntityInv, EntityInv', NEW s, NEW e, NEW v, Gives(s, e, v)
  PROVE  S!Insert(s, e, v)
<1>1. \A u \in Systems : Vector(indices[u]) /\ Vector(indices'[u])
  BY AgreeIs DEF EntityInv, Served
<1>2. PICK h, g : /\ h = [u \in Systems |-> Has(indices[u], comps[u])] /\ h = Held
                  /\ g = [u \in Systems |-> Has(indices'[u], comps'[u])] /\ g = Held'
  BY MapsAre
<1>3. g[s] = [x \in DOMAIN h[s] \cup {e} |-> IF x = e THEN v ELSE h[s][x]]
  <2>1. PICK ix, cs, jx, ds : ix = indices[s] /\ cs = comps[s] /\ jx = indices'[s] /\ ds = comps'[s]
    OBVIOUS
  <2>2. Vector(ix) /\ Vector(jx) /\ Grown(ix, cs, jx, ds, e, v) /\ s \in Systems
    BY <1>1, <2>1 DEF Gives
  <2>3. PICK p, q : p = Has(ix, cs) /\ q = Has(jx, ds)
    OBVIOUS
  <2>4. q = [x \in DOMAIN p \cup {e} |-> IF x = e THEN v ELSE p[x]]
    BY ONLY <2>2, <2>3, GrownHas
  <2> QED
    BY <1>2, <2>1, <2>2, <2>3, <2>4
<1>4. \A u \in Systems \ {s} : g[u] = h[u]
  BY <1>2 DEF Gives
<1>5. g = [h EXCEPT ![s] = [x \in DOMAIN h[s] \cup {e} |-> IF x = e THEN v ELSE h[s][x]]]
  BY <1>2, <1>3, <1>4
<1> QED
  BY ONLY <1>2, <1>5 DEF S!Insert

LEMMA MapsTaken ==
  ASSUME EntityInv, EntityInv', Takes
  PROVE  \E gone \in [Systems -> SUBSET Ids] : S!Remove(gone)
<1>1. \A u \in Systems : Vector(indices[u]) /\ Vector(indices'[u])
  BY AgreeIs DEF EntityInv, Served
<1>2. PICK h, g : /\ h = [u \in Systems |-> Has(indices[u], comps[u])] /\ h = Held
                  /\ g = [u \in Systems |-> Has(indices'[u], comps'[u])] /\ g = Held'
  BY MapsAre
<1>3. ASSUME NEW s \in Systems
      PROVE  \E out \in SUBSET Ids : g[s] = [e \in DOMAIN h[s] \ out |-> h[s][e]]
  <2>1. PICK ix, cs, jx, ds : ix = indices[s] /\ cs = comps[s] /\ jx = indices'[s] /\ ds = comps'[s]
    OBVIOUS
  <2>2. Vector(ix) /\ Vector(jx) /\ Left(ix, cs, jx, ds)
    BY <1>1, <2>1 DEF Takes
  <2>3. Shrinks(Has(ix, cs), Has(jx, ds))
    BY ONLY <2>2, LeftHas
  <2>4. g[s] = Has(jx, ds) /\ h[s] = Has(ix, cs)
    BY <1>2, <2>1
  <2> QED
    BY <2>3, <2>4 DEF Shrinks
<1>4. PICK gone \in [Systems -> SUBSET Ids] :
        \A s \in Systems : g[s] = [e \in DOMAIN h[s] \ gone[s] |-> h[s][e]]
  <2> DEFINE Out(s) == CHOOSE out \in SUBSET Ids : g[s] = [e \in DOMAIN h[s] \ out |-> h[s][e]]
  <2>1. \A s \in Systems : /\ Out(s) \in SUBSET Ids
                           /\ g[s] = [e \in DOMAIN h[s] \ Out(s) |-> h[s][e]]
    BY <1>3
  <2> HIDE DEF Out
  <2>2. [s \in Systems |-> Out(s)] \in [Systems -> SUBSET Ids]
    BY <2>1
  <2> QED
    BY <2>1, <2>2
<1>5. g = [s \in Systems |-> [e \in DOMAIN h[s] \ gone[s] |-> h[s][e]]]
  BY <1>2, <1>4
<1>6. S!Remove(gone)
  BY ONLY <1>2, <1>5 DEF S!Remove
<1> QED
  BY <1>6

LEMMA MapsStep ==
  ASSUME ~ Reuses, EntityInv, EntityInv', [EntityNext]_entityVars
  PROVE  [S!StoreNext]_Held
<1>1. CASE EntityNext
  <2>1. CASE Takes
    BY <2>1, MapsTaken DEF S!StoreNext
  <2>2. CASE \E s \in Systems, e \in Ids, v \in Values : Gives(s, e, v)
    BY <2>2, MapsGiven DEF S!StoreNext
  <2> QED
    BY <1>1, <2>1, <2>2, EntitySteps
<1>2. CASE UNCHANGED entityVars
  <2>1. indices' = indices /\ comps' = comps
    BY <1>2 DEF entityVars
  <2>2. Held' = Held
    BY <2>1, MapsAre
  <2> QED
    BY <2>2
<1> QED
  BY <1>1, <1>2

\* Every operation gives components to the one entity that insert() names, or takes
\* entities away from systems, and an entity that a removal moves keeps its components:
\* the systems of an iris_systems_t are maps from entities to components.
THEOREM EntitiesAreAStore ==
  ASSUME ~ Reuses
  PROVE  EntitySpec => RefinesStore
<1>1. EntityInit => S!StoreInit
  BY MapsStart
<1>2. EntityInv /\ EntityInv' /\ [EntityNext]_entityVars =>
        [S!StoreNext]_Held
  BY MapsStep
<1> QED
  BY <1>1, <1>2, EntitiesSound, PTL DEF EntitySpec, RefinesStore, S!StoreSpec
=============================================================================
