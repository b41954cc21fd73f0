------------------------------- MODULE MCData -------------------------------
(***************************************************************************)
(* Instances for TLC of the allocators and the containers.  Each behaviour   *)
(* is about one part, chosen in the initial state: the others stay as they    *)
(* were made.                                                               *)
(***************************************************************************)
EXTENDS BlockAllocator, QueueList, EntitySystem, SpatialTree, LinearCache, TLC

CONSTANT Parts    \* the parts that are looked at

VARIABLE part

partVars ==
  <<allocatorVars, queueVars, entityVars, treeVars, cacheVars, part>>

DataInit ==
  /\ part \in Parts
  /\ AllocatorInit /\ (part # "allocator" => used = {})
  /\ QueueInit /\ EntityInit /\ TreeInit /\ CacheInit

DataNext ==
  /\ UNCHANGED part
  /\ \/ /\ part = "allocator" /\ AllocatorNext
        /\ UNCHANGED <<queueVars, entityVars, treeVars, cacheVars>>
     \/ /\ part = "queue" /\ QueueNext
        /\ UNCHANGED <<allocatorVars, entityVars, treeVars, cacheVars>>
     \/ /\ part = "entities" /\ EntityNext
        /\ UNCHANGED <<allocatorVars, queueVars, treeVars, cacheVars>>
     \/ /\ part = "tree" /\ TreeNext
        /\ UNCHANGED <<allocatorVars, queueVars, entityVars, cacheVars>>
     \/ /\ part = "cache" /\ CacheNext
        /\ UNCHANGED <<allocatorVars, queueVars, entityVars, treeVars>>

DataSpec == DataInit /\ [][DataNext]_partVars

\* The producer of a queue ends the call it has begun, and its consumer takes the
\* elements one by one.
DataFairSpec ==
  /\ DataSpec
  /\ WF_queueVars(part = "queue" /\ ProducerStep)
  /\ WF_queueVars(part = "queue" /\ ConsumerStep)
  /\ WF_queueVars(part = "queue" /\ Call("one", 1))

\* The types of the parts.
TypeOK ==
  /\ AllocatorTypeOK /\ QueueTypeOK /\ EntityTypeOK /\ TreeTypeOK /\ CacheTypeOK
==============================================================================
