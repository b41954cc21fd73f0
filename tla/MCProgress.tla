----------------------------- MODULE MCProgress -----------------------------
(***************************************************************************)
(* What the schedulers do in the end, on three instances that one run       *)
(* checks: `shape' chooses one in the initial state, and the variables of   *)
(* the others never change.                                                 *)
(*   fenced: GridStorage with the constants of the .cfg file: four tasks,   *)
(*           and either the barriers of one worker or bodies that yield     *)
(*   grid:   Warp with a queue for each worker                              *)
(*   steady: AsyncWorker with one queue for each priority, tasks queued by  *)
(*           the main thread                                                *)
(***************************************************************************)
EXTENDS GridStorage

CONSTANTS a, b, p, x, t1, t2, Main

VARIABLES
  shape,
  w_owner, w_suspended, w_queueing, w_storage, w_parallel, w_execs, w_poolPar,
  w_poolExt, w_pc, w_ret, w_after, w_hold, w_job, w_par, w_slot, w_found,
  w_status,
  s_heads, s_terminated, s_running, s_waiting, s_timed, s_stale, s_pc, s_back,
  s_goal, s_size, s_pos, s_slot, s_chain, s_job, s_arg, s_drained, s_polls,
  s_status

Grid == INSTANCE Warp WITH
  NWorkers <- 2, Externals <- {x}, Pollers <- {}, Posted <- {a}, Called <- {b},
  Parallels <- {p}, Raw <- {}, Yielding <- {b}, ParallelAt <- {"run"},
  MaxExecs <- 2, Strand <- FALSE,
  owner <- w_owner, suspended <- w_suspended, queueing <- w_queueing,
  storage <- w_storage, parallel <- w_parallel, execs <- w_execs,
  poolPar <- w_poolPar, poolExt <- w_poolExt, pc <- w_pc, ret <- w_ret,
  after <- w_after, hold <- w_hold, job <- w_job, par <- w_par,
  slot <- w_slot, found <- w_found, status <- w_status

gridVars ==
  <<w_owner, w_suspended, w_queueing, w_storage, w_parallel, w_execs,
    w_poolPar, w_poolExt, w_pc, w_ret, w_after, w_hold, w_job, w_par, w_slot,
    w_found, w_status>>

Steady == INSTANCE AsyncWorker WITH
  NThreads <- 2, Duplicates <- 1, Tasks <- {t1, t2}, Priority <- [j \in {t1, t2} |-> 1],
  Limit <- 0, Queuers <- {Main}, Terminators <- {}, Polled <- {},
  heads <- s_heads, terminated <- s_terminated, running <- s_running,
  waiting <- s_waiting, timed <- s_timed, stale <- s_stale, pc <- s_pc, back <- s_back,
  goal <- s_goal, size <- s_size, pos <- s_pos, slot <- s_slot,
  chain <- s_chain, job <- s_job, arg <- s_arg, drained <- s_drained,
  polls <- s_polls, status <- s_status

steadyVars ==
  <<s_heads, s_terminated, s_running, s_waiting, s_timed, s_stale, s_pc, s_back,
    s_goal, s_size, s_pos, s_slot, s_chain, s_job, s_arg, s_drained, s_polls,
    s_status>>

ShapesInit ==
  /\ shape \in {"fenced", "grid", "steady"}
  /\ Init /\ Grid!Init /\ Steady!Init

ShapesNext ==
  /\ UNCHANGED shape
  /\ \/ shape = "fenced" /\ Next /\ UNCHANGED <<gridVars, steadyVars>>
     \/ shape = "grid" /\ Grid!Next /\ UNCHANGED <<vars, steadyVars>>
     \/ shape = "steady" /\ Steady!Next /\ UNCHANGED <<vars, gridVars>>

\* The fairness of each module, for the instance that moves.
ShapesSpec ==
  /\ ShapesInit /\ [][ShapesNext]_<<shape, vars, gridVars, steadyVars>>
  /\ \A t \in Workers :
       WF_vars(/\ shape = "fenced"
               /\ Execute(t) \/ PostBarrier(t) \/ \E v \in pool : RunExternal(t, v))
  /\ WF_vars(shape = "fenced" /\ Resume)
  /\ \A t \in 1..2 \cup {x} : /\ WF_gridVars(shape = "grid" /\ Grid!Internal(t))
                            /\ WF_gridVars(shape = "grid" /\ Grid!Resumes(t))
  /\ \A t \in 1..2 :
       WF_steadyVars(shape = "steady" /\ (Steady!Work(t) \/ Steady!Inside(t)))
  /\ WF_steadyVars(shape = "steady" /\ Steady!Inside(Main))

\* A warp with a queue for each worker and a worker that nobody terminates run every
\* task that they were sent, in the end.
OthersEventuallyDone == Grid!EventuallyDone /\ Steady!EventuallyDone
=============================================================================
