-------------------------------- MODULE Heap --------------------------------
(***************************************************************************)
(* The promise of an allocator of items: nobody is given an item that         *)
(* somebody else still has.                                                *)
(***************************************************************************)
EXTENDS Naturals

CONSTANT Items

VARIABLE live   \* how many clients have each item

Init == live \in [Items -> 0..1]

Give(i) == live[i] = 0 /\ live' = [live EXCEPT ![i] = 1]
Take(i) == live[i] = 1 /\ live' = [live EXCEPT ![i] = 0]

Next == \E i \in Items : Give(i) \/ Take(i)

Spec == Init /\ [][Next]_live
=============================================================================
