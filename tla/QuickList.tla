----------------------------- MODULE QuickList -----------------------------
(***************************************************************************)
(* iris_queue_quick_list_t (iris_common.h) used from one thread, as a      *)
(* value: a list of rings whose elements are also reached by their index,  *)
(* the value of the counters when they were pushed.                        *)
(***************************************************************************)
EXTENDS Integers, Sequences

CONSTANT Nothing       \* a slot that holds no element, or no slot at all

\* element_count, the nodes from pop_head to push_head, iterator_counter.
NewList(n) ==
    [size |-> n, counter |-> n,
     nodes |-> << [pop |-> 0, push |-> 0, ring |-> [i \in 0..(n - 1) |-> Nothing]] >>]

PushHead(l) == l.nodes[Len(l.nodes)]
PopHead(l) == l.nodes[1]
BeginIndex(l) == PopHead(l).pop
EndIndex(l) == PushHead(l).push
NodeEmpty(nd) == nd.pop = nd.push
ListEmpty(l) == NodeEmpty(PopHead(l)) /\ NodeEmpty(PushHead(l))
Top(l) == PopHead(l).ring[PopHead(l).pop % l.size]

\* A push goes into the last node while that has a free slot, also one that
\* a pop emptied; else into a new node, whose counters start at the next
\* multiple of element_count.
PushBack(l, v) ==
    LET nd == PushHead(l) IN
    IF nd.push - nd.pop < l.size
    THEN [l EXCEPT !.nodes[Len(l.nodes)] =
             [nd EXCEPT !.push = @ + 1, !.ring[nd.push % l.size] = v]]
    ELSE [l EXCEPT !.counter = @ + l.size,
                   !.nodes = Append(@, [pop |-> l.counter, push |-> l.counter + 1,
                      ring |-> [i \in 0..(l.size - 1) |->
                                  IF i = l.counter % l.size THEN v ELSE Nothing]])]

\* pop() destroys the first element, and cleanup_empty() the first node when
\* that leaves it empty and there is another.
PopFront(l) ==
    LET nd == [PopHead(l) EXCEPT !.pop = @ + 1, !.ring[PopHead(l).pop % l.size] = Nothing]
    IN  IF Len(l.nodes) > 1 /\ NodeEmpty(nd)
        THEN [l EXCEPT !.nodes = Tail(@)]
        ELSE [l EXCEPT !.nodes[1] = nd]

\* reset(0): the first node stays, its counters and the list's start again.
Cleared(l) == NewList(l.size)

\* get(index) finds the node by dividing: nodes[(index - base) / element_count].
NodeAt(l, i) == 1 + (i - (BeginIndex(l) - (BeginIndex(l) % l.size))) \div l.size

Get(l, i) == IF NodeAt(l, i) \in 1..Len(l.nodes)
             THEN l.nodes[NodeAt(l, i)].ring[i % l.size]
             ELSE Nothing

Put(l, i, v) == IF NodeAt(l, i) \in 1..Len(l.nodes)
                THEN [l EXCEPT !.nodes[NodeAt(l, i)].ring[i % l.size] = v]
                ELSE l

\* iterator::step(): past the end of a node comes the next one, if any.
Step(l, p) ==
    IF p.it + 1 = l.nodes[p.node].push /\ p.node < Len(l.nodes)
    THEN [node |-> p.node + 1, it |-> l.nodes[p.node + 1].pop]
    ELSE [p EXCEPT !.it = @ + 1]

\* The elements from begin() on until the iterator's index, whatever its node,
\* is that of end().
Walked(l) ==
    LET most == l.size * Len(l.nodes)
        at[k \in 0..most] == IF k = 0 THEN [node |-> 1, it |-> BeginIndex(l)]
                             ELSE Step(l, at[k - 1])
        stop == CHOOSE k \in 0..most :
                   /\ at[k].it = EndIndex(l) \/ k = most
                   /\ \A j \in 0..(k - 1) : at[j].it # EndIndex(l)
    IN  [k \in 1..stop |-> l.nodes[at[k - 1].node].ring[at[k - 1].it % l.size]]

\* The next push would take a slot of the last node that has been used before.
Wraps(l) == PushHead(l).push - PushHead(l).pop < l.size /\ PushHead(l).push >= l.counter
============================================================================
