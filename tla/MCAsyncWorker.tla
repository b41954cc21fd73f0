--------------------------- MODULE MCAsyncWorker ---------------------------
(***************************************************************************)
(* Instances of AsyncWorker for TLC: how urgent the tasks are.              *)
(***************************************************************************)
EXTENDS AsyncWorker, TLC

CONSTANTS t1, t2, t3

\* Tasks that only a thread without company may run.
AllLast == [j \in Tasks |-> NThreads - 1]

TaskSymmetry == Permutations({t1, t2, t3})
=============================================================================
