------------------------------- MODULE Rounds -------------------------------
(***************************************************************************)
(* The promise of iris_barrier_t: nobody goes on to the next round before    *)
(* everybody has arrived at this one, but for those who left the barrier.    *)
(***************************************************************************)
EXTENDS Naturals

CONSTANT Participants

VARIABLES
  arrived,    \* rounds that each participant has arrived at
  passed,     \* rounds that it has gone on from
  gone        \* participants that take no more part

Init ==
  /\ arrived = [c \in Participants |-> 0]
  /\ passed = [c \in Participants |-> 0]
  /\ gone = {}

Arrive(c) ==
  /\ c \notin gone /\ arrived[c] = passed[c]
  /\ arrived' = [arrived EXCEPT ![c] = @ + 1]
  /\ UNCHANGED <<passed, gone>>

Leave(c) ==
  /\ c \notin gone /\ arrived[c] = passed[c]
  /\ gone' = gone \cup {c}
  /\ UNCHANGED <<arrived, passed>>

Pass(c) ==
  /\ passed[c] < arrived[c]
  /\ \A d \in Participants \ gone : arrived[d] > passed[c]
  /\ passed' = [passed EXCEPT ![c] = @ + 1]
  /\ UNCHANGED <<arrived, gone>>

Next == \E c \in Participants : Arrive(c) \/ Leave(c) \/ Pass(c)

Spec == Init /\ [][Next]_<<arrived, passed, gone>>
=============================================================================
