---------------------------- MODULE EntitySystem ----------------------------
(***************************************************************************)
(* iris_system_t, iris_entity_allocator_t and iris_systems_t               *)
(* (iris_system.h).  Components lie densely in quick lists; a sorted       *)
(* vector says at which index each entity's are.  Removing an entity moves *)
(* the first one's components into its place; the vector keeps a tombstone.*)
(* A write fence serialises the operations: each is one step.              *)
(***************************************************************************)
EXTENDS Integers, Sequences, FiniteSets

CONSTANTS Systems,        \* systems attached to the iris_systems_t
          MaxEntities,    \* bound on the numeric ids
          Values,         \* values of a component
          EntitySlots,    \* element_count of the list of entities
          ComponentSlots, \* element_count of the list of components
          MaxInserts,     \* bound on the insertions
          Reuses,         \* the client lets a list reuse slots of its last node
          Nothing         \* no element

ASSUME EntityAssumption ==
    /\ EntitySlots \in Nat \ {0} /\ ComponentSlots \in Nat \ {0}
    /\ MaxEntities \in Nat /\ MaxInserts \in Nat /\ Reuses \in BOOLEAN
    /\ Nothing \notin Values

VARIABLES indices,     \* entity_components of each system
          entities,  \* the list of entities of each system
          comps,     \* the list of components of each system
          freeIds,   \* free_entities, a first-in first-out list
          maxId,     \* max_allocated_entity
          ids,      \* ids the client holds
          inserts    \* insertions so far

entityVars == <<indices, entities, comps, freeIds, maxId, ids, inserts>>

Q == INSTANCE QuickList

Ids == 0..(MaxEntities - 1)
Tombstone == -1

\* iris_binary_find between two places of a sorted vector: hi when not there.
Find(ix, lo, hi, e) ==
    IF \E k \in lo..(hi - 1) : ix[k].key = e
    THEN CHOOSE k \in lo..(hi - 1) : ix[k].key = e
    ELSE hi

Past(ix) == Len(ix) + 1
Place(ix, e) == Find(ix, 1, Past(ix), e)
Valid(ix, e) == Place(ix, e) # Past(ix) /\ ix[Place(ix, e)].at # Tombstone
IndexOf(s, e) == indices[s][Place(indices[s], e)].at

\* iris_binary_insert of a key that is not there: before the first greater one.
Inserted(ix, e, i) ==
    LET p == CHOOSE k \in 1..Past(ix) : \A j \in 1..Len(ix) : j < k <=> ix[j].key <= e
    IN  [k \in 1..Past(ix) |-> IF k < p THEN ix[k]
                               ELSE IF k = p THEN [key |-> e, at |-> i] ELSE ix[k - 1]]

---------------------------------------------------------------------------
\* insert(): replace the components of an entity that is there, else push
\* them and use the tombstone if the entity left one.
Insert(s, e, v) ==
    /\ e \in ids
    /\ inserts < MaxInserts
    /\ inserts' = inserts + 1
    /\ IF Valid(indices[s], e)
       THEN /\ comps' = [comps EXCEPT ![s] = Q!Put(@, IndexOf(s, e), v)]
            /\ UNCHANGED <<indices, entities>>
       ELSE /\ Reuses \/ ~ (Q!Wraps(entities[s]) \/ Q!Wraps(comps[s]))
            /\ comps' = [comps EXCEPT ![s] = Q!PushBack(@, v)]
            /\ LET i == Q!EndIndex(entities[s]) IN
               indices' = [indices EXCEPT ![s] =
                   IF Place(@, e) # Past(@) THEN [@ EXCEPT ![Place(indices[s], e)].at = i]
                   ELSE Inserted(@, e, i)]
            /\ entities' = [entities EXCEPT ![s] = Q!PushBack(@, e)]
    /\ UNCHANGED <<freeIds, maxId, ids>>

\* Mutant: the list of entities is not told who moved.
RemoveUnrecorded(r, e) ==
    LET ip == Find(r.ix, r.ip, Past(r.ix), e)
        top == Q!Top(r.ents)
        it == Find(r.ix, IF e < top THEN ip ELSE 1, IF e > top THEN ip ELSE Past(r.ix), top)
        i == r.ix[ip].at
        moved == IF e = top THEN r
                 ELSE [r EXCEPT !.ix[it].at = i, !.cs = Q!Put(@, i, Q!Top(r.cs))]
    IN  IF Q!ListEmpty(r.ents) \/ ip = Past(r.ix) THEN [r EXCEPT !.stop = TRUE]
        ELSE IF r.ix[ip].at = Tombstone THEN [r EXCEPT !.stop = TRUE]
        ELSE [moved EXCEPT !.ix[ip].at = Tombstone, !.ip = ip,
                           !.ents = Q!PopFront(@), !.cs = Q!PopFront(@)]

\* Mutant: the entry of the entity stays.
RemoveNoTombstone(r, e) ==
    LET ip == Find(r.ix, r.ip, Past(r.ix), e)
        top == Q!Top(r.ents)
        it == Find(r.ix, IF e < top THEN ip ELSE 1, IF e > top THEN ip ELSE Past(r.ix), top)
        i == r.ix[ip].at
        moved == IF e = top THEN r
                 ELSE [r EXCEPT !.ix[it].at = i, !.ents = Q!Put(@, i, top),
                                !.cs = Q!Put(@, i, Q!Top(r.cs))]
    IN  IF Q!ListEmpty(r.ents) \/ ip = Past(r.ix) THEN [r EXCEPT !.stop = TRUE]
        ELSE IF r.ix[ip].at = Tombstone THEN [r EXCEPT !.stop = TRUE]
        ELSE [moved EXCEPT !.ip = ip,
                           !.ents = Q!PopFront(@), !.cs = Q!PopFront(@)]

\* Mutant: the components of the entity that moves stay behind.
RemoveUnmoved(r, e) ==
    LET ip == Find(r.ix, r.ip, Past(r.ix), e)
        top == Q!Top(r.ents)
        it == Find(r.ix, IF e < top THEN ip ELSE 1, IF e > top THEN ip ELSE Past(r.ix), top)
        i == r.ix[ip].at
        moved == IF e = top THEN r
                 ELSE [r EXCEPT !.ix[it].at = i, !.ents = Q!Put(@, i, top)]
    IN  IF Q!ListEmpty(r.ents) \/ ip = Past(r.ix) THEN [r EXCEPT !.stop = TRUE]
        ELSE IF r.ix[ip].at = Tombstone THEN [r EXCEPT !.stop = TRUE]
        ELSE [moved EXCEPT !.ix[ip].at = Tombstone, !.ip = ip,
                           !.ents = Q!PopFront(@), !.cs = Q!PopFront(@)]

\* One round of the loop of remove(begin, end): the first entity of the list
\* takes the place of the removed one; ip goes only forward.
RemoveOne(r, e) ==
    LET ip == Find(r.ix, r.ip, Past(r.ix), e)
        top == Q!Top(r.ents)
        it == Find(r.ix, IF e < top THEN ip ELSE 1, IF e > top THEN ip ELSE Past(r.ix), top)
        i == r.ix[ip].at
        moved == IF e = top THEN r
                 ELSE [r EXCEPT !.ix[it].at = i, !.ents = Q!Put(@, i, top),
                                !.cs = Q!Put(@, i, Q!Top(r.cs))]
    IN  IF Q!ListEmpty(r.ents) THEN [r EXCEPT !.stop = TRUE]
        ELSE IF ip = Past(r.ix) \/ r.ix[ip].at = Tombstone THEN [r EXCEPT !.stop = TRUE]
        ELSE [moved EXCEPT !.ix[ip].at = Tombstone, !.ip = ip,
                           !.ents = Q!PopFront(@), !.cs = Q!PopFront(@)]

Removed(s, es) ==
    LET r[k \in 0..Len(es)] ==
            IF k = 0 THEN [ix |-> indices[s], ents |-> entities[s], cs |-> comps[s],
                           ip |-> 1, stop |-> FALSE]
            ELSE IF r[k - 1].stop THEN r[k - 1] ELSE RemoveOne(r[k - 1], es[k])
    IN  r[Len(es)]

Remove(s, es) ==
    /\ LET r == Removed(s, es) IN
       /\ indices' = [indices EXCEPT ![s] = r.ix]
       /\ entities' = [entities EXCEPT ![s] = r.ents]
       /\ comps' = [comps EXCEPT ![s] = r.cs]
    /\ UNCHANGED <<freeIds, maxId, ids, inserts>>

\* compress() of every system drops the tombstones.
WithoutTombstones(ix) ==
    LET kept[i \in 0..Len(ix)] ==
            IF i = 0 THEN << >>
            ELSE IF ix[i].at = Tombstone THEN kept[i - 1] ELSE Append(kept[i - 1], ix[i])
    IN  kept[Len(ix)]

Compress ==
    /\ indices' = [s \in Systems |-> WithoutTombstones(indices[s])]
    /\ UNCHANGED <<entities, comps, freeIds, maxId, ids, inserts>>

Clear(s) ==
    /\ indices' = [indices EXCEPT ![s] = << >>]
    /\ entities' = [entities EXCEPT ![s] = Q!Cleared(@)]
    /\ comps' = [comps EXCEPT ![s] = Q!Cleared(@)]
    /\ UNCHANGED <<freeIds, maxId, ids, inserts>>

\* iris_entity_allocator_t::allocate(): the id freed first, else a new one.
AllocateId ==
    /\ IF freeIds # << >>
       THEN /\ ids' = ids \cup {Head(freeIds)}
            /\ freeIds' = Tail(freeIds)
            /\ UNCHANGED maxId
       ELSE /\ maxId < MaxEntities
            /\ ids' = ids \cup {maxId}
            /\ maxId' = maxId + 1
            /\ UNCHANGED freeIds
    /\ UNCHANGED <<indices, entities, comps, inserts>>

\* iris_entity_allocator_t::reset(): every id is new again.  A client does so when no
\* entity is left in a system; the vectors may keep tombstones of the old ones.
ResetIds ==
    /\ \A s \in Systems, e \in Ids : ~ Valid(indices[s], e)
    /\ ids' = {} /\ freeIds' = << >> /\ maxId' = 0
    /\ UNCHANGED <<indices, entities, comps, inserts>>

\* A client destroys an entity: iris_systems_t::remove() takes it from every
\* system, then free() gives its id back.
Destroy(e) ==
    /\ e \in ids
    /\ ids' = ids \ {e}
    /\ indices' = [s \in Systems |-> Removed(s, <<e>>).ix]
    /\ entities' = [s \in Systems |-> Removed(s, <<e>>).ents]
    /\ comps' = [s \in Systems |-> Removed(s, <<e>>).cs]
    /\ freeIds' = Append(freeIds, e)
    /\ UNCHANGED <<maxId, inserts>>

EntityInit ==
    /\ indices = [s \in Systems |-> << >>]
    /\ entities = [s \in Systems |-> Q!NewList(EntitySlots)]
    /\ comps = [s \in Systems |-> Q!NewList(ComponentSlots)]
    /\ freeIds = << >>
    /\ maxId = 0 /\ ids = {} /\ inserts = 0

\* The sequences of entities one call of remove(begin, end) is given.
Batches == {<<e>> : e \in Ids} \cup {<<e, f>> : e, f \in Ids}

EntityNext ==
    \/ \E s \in Systems, e \in Ids, v \in Values : Insert(s, e, v)
    \/ \E s \in Systems, es \in Batches : Remove(s, es)
    \/ Compress
    \/ \E s \in Systems : Clear(s)
    \/ AllocateId \/ ResetIds
    \/ \E e \in Ids : Destroy(e)

EntitySpec == EntityInit /\ [][EntityNext]_entityVars

---------------------------------------------------------------------------
EntityTypeOK ==
    /\ \A s \in Systems :
         /\ indices[s] \in Seq([key : Ids, at : Nat \cup {Tombstone}])
         /\ entities[s].size = EntitySlots /\ comps[s].size = ComponentSlots
    /\ maxId \in 0..MaxEntities /\ ids \subseteq Ids /\ inserts \in 0..MaxInserts

\* The structures agree.  The vector is sorted without duplicates, so that
\* iris_binary_find, which remove() and filter() start in the middle of it,
\* finds the one entry of an entity and never a tombstone beside a live one; the
\* entity recorded at an entity's index is that entity; walking the lists of
\* entities and of components in step meets each entity that has an entry with
\* its components; and only an id that some client holds has components.
ListsAgree ==
    /\ ids \cap {freeIds[k] : k \in 1..Len(freeIds)} = {}
    /\ \A s \in Systems :
        LET live == {e \in Ids : Valid(indices[s], e)}
            es == Q!Walked(entities[s])
            cs == Q!Walked(comps[s])
        IN  /\ \A j, k \in 1..Len(indices[s]) :
                  j < k => indices[s][j].key < indices[s][k].key
            /\ live \subseteq ids
            /\ \A e \in live : Q!Get(entities[s], IndexOf(s, e)) = e
            /\ Len(es) = Cardinality(live) /\ {es[k] : k \in 1..Len(es)} = live
            /\ Len(cs) = Len(es)
            /\ \A k \in 1..Len(es) : Q!Get(comps[s], IndexOf(s, es[k])) = cs[k]

\* get() of an entity that valid() accepts reads a slot that holds a
\* component, inside the list.
GetsAComponent ==
    \A s \in Systems, e \in Ids :
        Valid(indices[s], e) => Q!Get(comps[s], IndexOf(s, e)) # Nothing

\* Every system is a map from entities to components.
Held == [s \in Systems |->
           [e \in {x \in Ids : Valid(indices[s], x)} |-> Q!Get(comps[s], IndexOf(s, e))]]
S == INSTANCE Store WITH Entities <- Ids, has <- Held
RefinesStore == S!StoreSpec
============================================================================
