----------------------------- MODULE WarpTasks -----------------------------
(***************************************************************************)
(* What a warp promises about the tasks sent to it, with no threads, queues *)
(* or counters: normal tasks are to each other what writers are, parallel  *)
(* tasks are to normal tasks what readers are to a writer, and each task   *)
(* that is sent runs once.                                                 *)
(***************************************************************************)
CONSTANTS
  Exclusive,  \* normal tasks
  Shared,     \* parallel tasks
  Yielding    \* normal tasks that may call yield()

VARIABLE status

Tasks == Exclusive \cup Shared

Is(s, S) == {j \in S : status[j] = s}

Running(S) == Is("running", S)

Init == status = [j \in Tasks |-> "new"]

Change(j, from, to) ==
  /\ status[j] = from
  /\ status' = [status EXCEPT ![j] = to]

Send(j) == Change(j, "new", "queued")

\* A normal task needs the warp for itself.
StartExclusive(j) ==
  /\ j \in Exclusive
  /\ Running(Tasks) = {}
  /\ Change(j, "queued", "running")

\* A parallel task may run beside other parallel tasks.
StartShared(p) ==
  /\ p \in Shared
  /\ Running(Exclusive) = {}
  /\ Change(p, "queued", "running")

\* A task sent by the running normal task may run as a part of it.
RunInside(j) ==
  /\ j \in Exclusive
  /\ Running(Exclusive) # {}
  /\ Change(j, "new", "done")

\* A normal task may let go of the warp and go on beside the others.
Detach(j) == j \in Exclusive /\ j \in Yielding /\ Change(j, "running", "detached")

Finish(j) == Change(j, "running", "done") \/ Change(j, "detached", "done")

Next ==
  \E j \in Tasks :
    \/ Send(j) \/ StartExclusive(j) \/ StartShared(j) \/ RunInside(j)
    \/ Detach(j) \/ Finish(j)

Spec == Init /\ [][Next]_status
=============================================================================
