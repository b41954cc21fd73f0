------------------------------- MODULE Fifo -------------------------------
(* What a queue promises: the elements are numbered as they are appended,   *)
(* they leave in that order, each once, and only a clear loses any.         *)
EXTENDS Integers, Sequences

CONSTANT MaxBatch      \* the most elements one step appends or removes
VARIABLES sent,        \* how many elements were appended so far
          queue,       \* the elements inside
          got          \* the elements that left, in order

fifoVars == <<sent, queue, got>>

FifoInit == sent = 0 /\ queue = <<>> /\ got = <<>>

Extend(n) ==
    /\ queue' = queue \o [i \in 1..n |-> sent + i]
    /\ sent' = sent + n
    /\ UNCHANGED got

Remove(n) ==
    /\ n <= Len(queue)
    /\ got' = got \o SubSeq(queue, 1, n)
    /\ queue' = SubSeq(queue, n + 1, Len(queue))
    /\ UNCHANGED sent

Clear == queue' = <<>> /\ UNCHANGED <<sent, got>>

FifoNext == Clear \/ \E n \in 1..MaxBatch : Extend(n) \/ Remove(n)

FifoSpec == FifoInit /\ [][FifoNext]_fifoVars
============================================================================
