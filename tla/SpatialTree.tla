----------------------------- MODULE SpatialTree -----------------------------
(***************************************************************************)
(* iris_tree_t with iris_overlap_t (iris_tree.h): a kd-tree whose nodes    *)
(* are the objects themselves.  A key is an interval <<low, high>>; a node *)
(* splits on one of the two, its key_index, 1 for low and 2 for high here. *)
(* Every operation runs to its end in one step: a tree has one owner.      *)
(***************************************************************************)
EXTENDS Integers, Sequences, FiniteSets

CONSTANTS TreeNodes,       \* the objects
          NoChild,      \* nullptr
          Coordinates, \* ends an interval can have
          MaxRebuilt,  \* bound on the nodes of a tree that is rebuilt
          MaxAttached  \* bound on the calls of attach()

ASSUME TreeAssumption == NoChild \notin TreeNodes /\ Coordinates \subseteq Int /\ MaxRebuilt \in Nat /\ MaxAttached \in Nat

VARIABLES inside,   \* nodes that are in the tree
          root,     \* the node the client holds as the tree
          key,      \* the interval of each node
          attached, \* calls of attach() so far
          links     \* left, right, parent and key_index of each node

treeVars == <<inside, root, key, attached, links>>

Keys == {k \in Coordinates \X Coordinates : k[1] <= k[2]}
SomeKey == CHOOSE k \in Keys : TRUE
Alone == [left |-> NoChild, right |-> NoChild, parent |-> NoChild, index |-> 1]

\* meta::compare on keys: does b come before a in this dimension?
Compare(a, b, d) == b[d] < a[d]

---------------------------------------------------------------------------
\* merge() walks down from n to the free place of node m, whose key is k.
RECURSIVE Merge(_, _, _, _)
Merge(t, n, m, k) ==
    LET side == IF Compare(key[n], k, t[n].index) THEN "left" ELSE "right"
    IN  IF t[n][side] = NoChild
        THEN [t EXCEPT ![n][side] = m, ![m].parent = n]
        ELSE Merge(t, t[n][side], m, k)

\* find_minimal() and find_maximal() of the subtree of n in dimension d,
\* skipping the side that cannot hold it when n splits on d itself.
RECURSIVE FindMinimal(_, _, _)
FindMinimal(t, n, d) ==
    LET Better(p, side) == IF t[n][side] = NoChild THEN p
                           ELSE LET c == FindMinimal(t, t[n][side], d)
                                IN  IF Compare(key[p], key[c], d) THEN c ELSE p
        first == Better(n, "left")
    IN  IF d # t[n].index THEN Better(first, "right") ELSE first

RECURSIVE FindMaximal(_, _, _)
FindMaximal(t, n, d) ==
    LET Better(p, side) == IF t[n][side] = NoChild THEN p
                           ELSE LET c == FindMaximal(t, t[n][side], d)
                                IN  IF Compare(key[p], key[c], d) THEN p ELSE c
        first == IF d # t[n].index THEN Better(n, "left") ELSE n
    IN  Better(first, "right")

\* The link of n's parent that leads to n now leads to m.
Relink(t, n, m) ==
    LET p == t[n].parent IN
    IF p = NoChild THEN t
    ELSE [t EXCEPT ![p].left = IF @ = n THEN m ELSE @,
                   ![p].right = IF t[p].left # n THEN m ELSE @]

SetParent(t, n, p) == IF n = NoChild THEN t ELSE [t EXCEPT ![n].parent = p]

\* Mutant: the child that moves up keeps its parent.
LightDetachOnly(t, n) ==
    LET child == IF t[n].left # NoChild THEN t[n].left ELSE t[n].right
    IN  [Relink(t, n, child) EXCEPT ![n].left = NoChild, ![n].right = NoChild,
                                    ![n].parent = NoChild]

\* light_detach(): a node with at most one child; the child moves up.
LightDetach(t, n) ==
    LET child == IF t[n].left # NoChild THEN t[n].left ELSE t[n].right
    IN  [Relink(SetParent(t, child, t[n].parent), n, child)
            EXCEPT ![n].left = NoChild, ![n].right = NoChild, ![n].parent = NoChild]

\* Mutant: the node that takes the place keeps its own key_index.
RECURSIVE DetachKeepIndex(_, _, _)
DetachKeepIndex(t, n, fromRight) ==
    IF t[n].left = NoChild \/ t[n].right = NoChild THEN LightDetach(t, n)
    ELSE LET p == IF fromRight THEN FindMinimal(t, t[n].right, t[n].index)
                  ELSE FindMaximal(t, t[n].left, t[n].index)
             u == DetachKeepIndex(t, p, fromRight)
             v == Relink(u, n, p)
             w == SetParent(SetParent(v, v[n].left, p), v[n].right, p)
         IN  [w EXCEPT ![p] = [w[n] EXCEPT !.index = t[p].index], ![n] = Alone]

\* detach(): a node with two children is replaced by the closest node of one
\* side, which is detached first; they swap their links and indices.
RECURSIVE Detach(_, _, _)
Detach(t, n, fromRight) ==
    IF t[n].left = NoChild \/ t[n].right = NoChild THEN LightDetach(t, n)
    ELSE LET p == IF fromRight THEN FindMinimal(t, t[n].right, t[n].index)
                  ELSE FindMaximal(t, t[n].left, t[n].index)
             u == Detach(t, p, fromRight)
             v == Relink(u, n, p)
             w == SetParent(SetParent(v, v[n].left, p), v[n].right, p)
         IN  [w EXCEPT ![p] = w[n], ![n] = w[p]]

\* build(): the median of the sorted nodes is attached first, then each half.
RECURSIVE Build(_, _, _, _)
Build(t, top, order, d) ==
    IF order = << >> THEN t
    ELSE LET mid == 1 + Len(order) \div 2
             n == order[mid]
             u == Merge([t EXCEPT ![n].index = d], top, n, key[n])
             v == Build(u, top, SubSeq(order, 1, mid - 1), 3 - d)
         IN  Build(v, top, SubSeq(order, mid + 1, Len(order)), 3 - d)

---------------------------------------------------------------------------
\* A client puts a node with some key into the tree, or starts one with it.
AttachNode(n, k, d) ==
    /\ n \notin inside
    /\ attached < MaxAttached /\ attached' = attached + 1
    /\ inside' = inside \cup {n}
    /\ key' = [key EXCEPT ![n] = k]
    /\ LET t == [links EXCEPT ![n].index = d]
       IN  IF root = NoChild
           THEN root' = n /\ links' = t
           ELSE root' = root /\ links' = Merge(t, root, n, k)

\* detach() with a selector that prefers one side.  A node that is out is
\* given a new key and index when it comes back.
DetachNode(n, fromRight) ==
    /\ n \in inside
    /\ LET t == Detach(links, n, fromRight)
       IN  /\ root' = IF root # n THEN root
                      ELSE IF \E m \in inside \ {n} : t[m].parent = NoChild
                      THEN CHOOSE m \in inside \ {n} : t[m].parent = NoChild
                      ELSE NoChild
           /\ links' = [t EXCEPT ![n].index = 1]
    /\ inside' = inside \ {n}
    /\ key' = [key EXCEPT ![n] = SomeKey]
    /\ UNCHANGED attached

\* optimize() and rebuild() collect the nodes in an order that is some code
\* of their keys: any order.
Optimize ==
    /\ inside # {} /\ Cardinality(inside) <= MaxRebuilt
    /\ \E order \in {s \in [1..Cardinality(inside) -> inside] :
                        {s[k] : k \in DOMAIN s} = inside} :
        LET mid == 1 + Len(order) \div 2
            cut == [n \in TreeNodes |-> IF n \in inside THEN [Alone EXCEPT !.index = links[n].index]
                                    ELSE links[n]]
            t == [cut EXCEPT ![order[mid]].index = 1]
            low == Build(t, order[mid], SubSeq(order, 1, mid - 1), 2)
        IN  /\ root' = order[mid]
            /\ links' = Build(low, order[mid], SubSeq(order, mid + 1, Len(order)), 2)
    /\ UNCHANGED <<inside, key, attached>>

TreeInit ==
    /\ inside = {} /\ root = NoChild /\ attached = 0
    /\ key = [n \in TreeNodes |-> SomeKey]
    /\ links = [n \in TreeNodes |-> Alone]

\* Objects are alike: which one is put in next makes no difference.
TreeNext ==
    \/ /\ inside # TreeNodes
       /\ \E k \in Keys, d \in 1..2 : AttachNode(CHOOSE n \in TreeNodes \ inside : TRUE, k, d)
    \/ \E n \in TreeNodes, fromRight \in BOOLEAN : DetachNode(n, fromRight)
    \/ Optimize

---------------------------------------------------------------------------
(* The two forms of query()                                                *)

\* Mutant: intervals that touch do not overlap.
OverlapLeftStrictly(k, target, d) == d = 1 \/ ~ (k[2] <= target[1])

OverlapLeft(k, target, d) == d = 1 \/ ~ (k[2] < target[1])
OverlapRight(k, target, d) == d = 2 \/ ~ (target[2] < k[1])

\* The nodes the plain form calls the queryer on: it descends one side in
\* the loop and the other by recursion, pruning both.
RECURSIVE Visited(_, _, _)
Visited(n, target, rightSkew) ==
    IF n = NoChild THEN {}
    ELSE LET k == key[n]
             d == links[n].index
             left == IF OverlapLeft(k, target, d)
                     THEN Visited(links[n].left, target, rightSkew) ELSE {}
             right == IF OverlapRight(k, target, d)
                      THEN Visited(links[n].right, target, rightSkew) ELSE {}
         IN  {n} \cup left \cup right

\* The culled form narrows the box it searches for the side it recurses into
\* (split_push) and goes on with the whole box in the loop.
Overlaps(a, b) == a[1] <= b[2] /\ b[1] <= a[2]

RECURSIVE Culled(_, _, _, _)
Culled(n, box, target, rightSkew) ==
    IF n = NoChild \/ ~ Overlaps(box, target) THEN {}
    ELSE LET k == key[n]
             d == links[n].index
             narrow == IF (d = 1) # rightSkew THEN [box EXCEPT ![d] = k[d]] ELSE box
             loop == IF rightSkew THEN links[n].right ELSE links[n].left
             other == IF rightSkew THEN links[n].left ELSE links[n].right
         IN  {m \in {n} : Overlaps(k, target)}
                \cup Culled(other, narrow, target, rightSkew)
                \cup Culled(loop, box, target, rightSkew)

---------------------------------------------------------------------------
RECURSIVE Below(_)
Below(n) == IF n = NoChild THEN {} ELSE {n} \cup Below(links[n].left) \cup Below(links[n].right)

TreeTypeOK ==
    /\ inside \subseteq TreeNodes /\ root \in TreeNodes \cup {NoChild}
    /\ key \in [TreeNodes -> Keys]
    /\ links \in [TreeNodes -> [left : TreeNodes \cup {NoChild}, right : TreeNodes \cup {NoChild},
                            parent : TreeNodes \cup {NoChild}, index : 1..2]]

\* The tree holds exactly the nodes that were put in, each under one parent, and
\* a node that is out has no links.  In the dimension a node splits on, nothing
\* on its left is beyond it and nothing on its right before it.
SearchTree ==
    /\ \A n \in TreeNodes : LET t == links[n] IN
          /\ t.left # NoChild => links[t.left].parent = n
          /\ t.right # NoChild => links[t.right].parent = n /\ t.left # t.right
          /\ n \notin inside => t = Alone
          /\ n \in inside => (t.parent = NoChild <=> n = root)
    /\ Below(root) = inside
    /\ \A n \in inside : LET d == links[n].index IN
          /\ \A m \in Below(links[n].left) : ~ (key[n][d] < key[m][d])
          /\ \A m \in Below(links[n].right) : ~ (key[m][d] < key[n][d])

Targets == Keys
Wanted(target) == {n \in inside : Overlaps(key[n], target)}

\* No query misses an object that overlaps what it looks for, whatever was
\* attached, detached, given a new key or rebuilt before.
QueriesFind ==
    \A target \in Targets, rightSkew \in BOOLEAN :
        /\ Wanted(target) \subseteq Visited(root, target, rightSkew)
        /\ Culled(root, <<CHOOSE c \in Coordinates : \A x \in Coordinates : c <= x,
                         CHOOSE c \in Coordinates : \A x \in Coordinates : x <= c>>,
                  target, rightSkew) = Wanted(target)
============================================================================
