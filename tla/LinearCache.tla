---------------------------- MODULE LinearCache ----------------------------
(***************************************************************************)
(* iris_cache_t and iris_cache_allocator_t (iris_common.h): a list of      *)
(* rings used as a bump allocator that is emptied as a whole.  A client    *)
(* asks for count elements of the base type with an alignment; nothing is  *)
(* given back one by one, so the pop counters stay where a node starts.    *)
(***************************************************************************)
EXTENDS Integers, Sequences, FiniteSets

CONSTANTS CacheSlots,      \* element_count of a node
          Alignments,  \* powers of two
          MaxNodes,    \* bound on the nodes of the list
          MaxRegions   \* bound on the allocations between two resets

ASSUME CacheAssumption ==
    /\ CacheSlots \in Nat \ {0} /\ Alignments \subseteq 1..CacheSlots
    /\ MaxNodes \in Nat \ {0} /\ MaxRegions \in Nat

VARIABLES filled,   \* elements taken in each node of the chain
          pushAt,   \* the position of push_head in the chain
          regions   \* what was handed out since the last reset

cacheVars == <<filled, pushAt, regions>>

\* Only even numbers and 1 divide a power of two.
PowerOfTwo(a) == \A d \in 2..a : a % d = 0 => d % 2 = 0

\* iris_get_alignment: the largest power of two that divides n, 0 for 0.
Alignment(n) ==
    LET powers == {a \in 1..n : PowerOfTwo(a) /\ n % a = 0}
    IN  IF n = 0 THEN 0 ELSE CHOOSE a \in powers : \A b \in powers : b <= a

\* What allocate() of a node adds to count to "make alignment".
Padding(at, alignment) == (alignment - Alignment(at)) % alignment

\* Mutant: the padding is not counted.
FitsUnpadded(n, count, alignment) == filled[n] + count <= CacheSlots

\* A node refuses what is not left or would not be contiguous.
Fits(n, count, alignment) ==
    filled[n] < CacheSlots /\ filled[n] + count + Padding(filled[n], alignment) <= CacheSlots

\* Mutant: the address is behind the padding, which is not counted.
GivePadded(n, count, alignment) ==
    /\ filled' = [filled EXCEPT ![n] = @ + count]
    /\ regions' = regions \cup {[node |-> n, first |-> filled[n] + Padding(filled[n], alignment),
                                 count |-> count, alignment |-> alignment]}
    /\ pushAt' = n

\* The address handed out is where the node's elements end, before padding.
Give(n, count, alignment) ==
    /\ filled' = [filled EXCEPT ![n] = @ + count + Padding(@, alignment)]
    /\ regions' = regions \cup {[node |-> n, first |-> filled[n], count |-> count,
                                 alignment |-> alignment]}
    /\ pushAt' = n

\* allocate_linear(): the first node from push_head on that has room, or a
\* new one at the end of the chain.
AllocateLinear(count, alignment) ==
    /\ Cardinality(regions) < MaxRegions
    /\ LET roomy == {n \in pushAt..Len(filled) : Fits(n, count, alignment)}
       IN  IF roomy # {}
           THEN \E n \in roomy : (\A m \in roomy : n <= m) /\ Give(n, count, alignment)
           ELSE /\ Len(filled) < MaxNodes
                /\ filled' = Append(filled, count + Padding(0, alignment))
                /\ regions' = regions \cup {[node |-> Len(filled) + 1, first |-> 0,
                                             count |-> count, alignment |-> alignment]}
                /\ pushAt' = Len(filled) + 1

\* reset() keeps every node, clear() only the first.
ResetCache ==
    /\ filled' = [n \in 1..Len(filled) |-> 0]
    /\ pushAt' = 1 /\ regions' = {}

ClearCache ==
    /\ filled' = <<0>>
    /\ pushAt' = 1 /\ regions' = {}

CacheInit == filled = <<0>> /\ pushAt = 1 /\ regions = {}

\* A type's size is a multiple of its alignment.
Requests == {r \in (1..CacheSlots) \X Alignments : r[1] % r[2] = 0}

CacheNext ==
    \/ \E r \in Requests : AllocateLinear(r[1], r[2])
    \/ ResetCache
    \/ ClearCache

CacheSpec == CacheInit /\ [][CacheNext]_cacheVars

---------------------------------------------------------------------------
CacheTypeOK ==
    /\ filled \in Seq(0..CacheSlots) /\ Len(filled) \in 1..MaxNodes
    /\ pushAt \in 1..Len(filled)

\* Two allocations since the last reset share no element, and each lies in
\* the part of its node that is counted as used.
RegionsApart ==
    /\ \A r \in regions : r.first + r.count <= filled[r.node]
    /\ \A r, q \in regions : r # q /\ r.node = q.node =>
          r.first + r.count <= q.first \/ q.first + q.count <= r.first
============================================================================
