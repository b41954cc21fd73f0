-------------------------------- MODULE Sync --------------------------------
(***************************************************************************)
(* iris_sync_t (src/src/iris_coroutine.h): what events, pipes, barriers and *)
(* quota queues have in common.  A coroutine that suspends leaves its handle *)
(* with the object; dispatch() posts the handle to the warp the coroutine    *)
(* was on, or to the worker, and some thread resumes it later.               *)
(*                                                                         *)
(* An actor is a coroutine, or a thread that calls the object; pc[a] names   *)
(* its next shared access.  The modules of the objects extend this one.      *)
(***************************************************************************)
EXTENDS Naturals, Sequences, FiniteSets

CONSTANTS
  Actors,
  Nobody

VARIABLES
  pc,       \* of each actor
  posted,   \* coroutines whose resumption waits on a warp or in the worker
  mutex      \* the actor that holds the mutex of the object, Nobody if free

syncVars == <<pc, posted, mutex>>

SyncInit ==
  /\ pc = [a \in Actors |-> "idle"]
  /\ posted = {}
  /\ mutex = Nobody

SyncTypeOK ==
  /\ DOMAIN pc = Actors
  /\ \A c \in posted : pc[c] = "suspended"
  /\ mutex \in Actors \cup {Nobody}

At(a, label) == pc[a] = label
Goto(a, label) == pc' = [pc EXCEPT ![a] = label]

Lock(a) == mutex = Nobody /\ mutex' = a
Unlock(a) == mutex = a /\ mutex' = Nobody

\* iris_sync_t::dispatch: hand the coroutine c to whoever resumes it.
DispatchHandle(c) == posted' = posted \cup {c}

\* Mutant: the handle stays with whoever has resumed it.
ResumedTwice(c, label) ==
  /\ c \in posted /\ At(c, "suspended")
  /\ UNCHANGED posted
  /\ Goto(c, label)

\* The posted closure calls handle.resume().
Resumed(c, label) ==
  /\ c \in posted /\ At(c, "suspended")
  /\ posted' = posted \ {c}
  /\ Goto(c, label)
=============================================================================
