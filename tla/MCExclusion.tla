---------------------------- MODULE MCExclusion ----------------------------
(***************************************************************************)
(* What warps and barriers never allow, on four instances that one run     *)
(* checks: `shape' chooses one in the initial state, and the variables of   *)
(* the others never change.                                                 *)
(*   strand: Warp with the constants of the .cfg file: one queue, no poll   *)
(*   polled: Warp with a thread that may poll, and an explicit suspend()    *)
(*   mixed:  GridStorage with two workers that queue barriers, and a thread  *)
(*           without a slot that does                                       *)
(*   paused: the same with one barrier less, and a suspend                  *)
(***************************************************************************)
EXTENDS Warp, TLC

CONSTANTS a, b, p, s, x, t1, t2

VARIABLES
  shape,
  p_owner, p_suspended, p_queueing, p_storage, p_parallel, p_execs, p_poolPar,
  p_poolExt, p_pc, p_ret, p_after, p_hold, p_job, p_par, p_slot, p_found,
  p_status,
  g_slots, g_versions, g_current, g_next, g_barrier, g_owner, g_suspended,
  g_queueing, g_execs, g_held, g_pool, g_calls, g_pc, g_pos, g_step, g_found,
  g_job, g_taken, g_status, g_earlier, g_must

Polled == INSTANCE Warp WITH
  NWorkers <- 1, Externals <- {x}, Pollers <- {x}, Posted <- {a}, Called <- {b},
  Parallels <- {p}, Raw <- {s}, Yielding <- {b}, ParallelAt <- {"none", "run"},
  MaxExecs <- 2, Strand <- TRUE,
  owner <- p_owner, suspended <- p_suspended, queueing <- p_queueing,
  storage <- p_storage, parallel <- p_parallel, execs <- p_execs,
  poolPar <- p_poolPar, poolExt <- p_poolExt, pc <- p_pc, ret <- p_ret,
  after <- p_after, hold <- p_hold, job <- p_job, par <- p_par,
  slot <- p_slot, found <- p_found, status <- p_status

polledVars ==
  <<p_owner, p_suspended, p_queueing, p_storage, p_parallel, p_execs,
    p_poolPar, p_poolExt, p_pc, p_ret, p_after, p_hold, p_job, p_par, p_slot,
    p_found, p_status>>

Mixed == INSTANCE GridStorage WITH
  NWorkers <- 2, Bodies <- {t1, t2}, Yielding <- {}, Fencers <- {1, 2}, MaxBarriers <- 2,
  MaxExternal <- 1, MaxSuspends <- 0, Mixing <- TRUE, Modulus <- 8, First <- 7,
  slots <- g_slots, versions <- g_versions, current <- g_current,
  next <- g_next, barrier <- g_barrier, owner <- g_owner,
  suspended <- g_suspended, queueing <- g_queueing, execs <- g_execs,
  held <- g_held, pool <- g_pool, calls <- g_calls, pc <- g_pc,
  pos <- g_pos, step <- g_step, found <- g_found, job <- g_job,
  taken <- g_taken, status <- g_status, earlier <- g_earlier, must <- g_must

Paused == INSTANCE GridStorage WITH
  NWorkers <- 2, Bodies <- {t1, t2}, Yielding <- {}, Fencers <- {1, 2}, MaxBarriers <- 1,
  MaxExternal <- 1, MaxSuspends <- 1, Mixing <- TRUE, Modulus <- 8, First <- 7,
  slots <- g_slots, versions <- g_versions, current <- g_current,
  next <- g_next, barrier <- g_barrier, owner <- g_owner,
  suspended <- g_suspended, queueing <- g_queueing, execs <- g_execs,
  held <- g_held, pool <- g_pool, calls <- g_calls, pc <- g_pc,
  pos <- g_pos, step <- g_step, found <- g_found, job <- g_job,
  taken <- g_taken, status <- g_status, earlier <- g_earlier, must <- g_must

mixedVars ==
  <<g_slots, g_versions, g_current, g_next, g_barrier, g_owner, g_suspended,
    g_queueing, g_execs, g_held, g_pool, g_calls, g_pc, g_pos, g_step, g_found,
    g_job, g_taken, g_status, g_earlier, g_must>>

ShapesInit ==
  /\ shape \in {"strand", "polled", "mixed", "paused"}
  /\ Init /\ Polled!Init /\ Mixed!Init

ShapesNext ==
  /\ UNCHANGED shape
  /\ \/ shape = "strand" /\ Next /\ UNCHANGED <<polledVars, mixedVars>>
     \/ shape = "polled" /\ Polled!Next /\ UNCHANGED <<vars, mixedVars>>
     \/ shape = "mixed" /\ Mixed!Next /\ UNCHANGED <<vars, polledVars>>
     \/ shape = "paused" /\ Paused!Next /\ UNCHANGED <<vars, polledVars>>

ShapesSpec == ShapesInit /\ [][ShapesNext]_<<shape, vars, polledVars, mixedVars>>

\* A warp that a client polls, suspends and resumes loses no task and runs none twice,
\* and barriers order the routines of a warp whose queues two workers fence.
OthersInOrder == Polled!NothingLost /\ Mixed!BarrierOrder

MixedSymmetry == Permutations({t1, t2})
=============================================================================
