------------------------------- MODULE Store -------------------------------
(* What an entity system promises: every system is a map from entities to   *)
(* their components, and a step touches only what it names.                 *)
CONSTANTS Systems, Entities, Values
VARIABLE has       \* the map of each system

StoreInit == has = [s \in Systems |-> << >>]

Insert(s, e, v) ==
    has' = [has EXCEPT ![s] = [x \in DOMAIN has[s] \cup {e} |->
                                  IF x = e THEN v ELSE has[s][x]]]

\* Some of the entities go from some of the systems.
Remove(gone) ==
    has' = [s \in Systems |-> [x \in DOMAIN has[s] \ gone[s] |-> has[s][x]]]

StoreNext ==
    \/ \E s \in Systems, e \in Entities, v \in Values : Insert(s, e, v)
    \/ \E gone \in [Systems -> SUBSET Entities] : Remove(gone)

StoreSpec == StoreInit /\ [][StoreNext]_has
============================================================================
