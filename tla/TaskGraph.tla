------------------------------ MODULE TaskGraph ------------------------------
(***************************************************************************)
(* What iris_dispatcher_t promises: routines that are ordered from -> to    *)
(* are run in that order, each once, and a routine is held back as long as   *)
(* a handle of it has not been dispatched.                                  *)
(***************************************************************************)
EXTENDS Integers

CONSTANTS Routines

VARIABLES
  status,   \* of each routine
  edges,    \* pairs <<from, to>> that have been ordered
  handles   \* how many handles of a routine are not dispatched

vars == <<status, edges, handles>>

Statuses == {"none", "waiting", "running", "ended", "done"}

Init ==
  /\ status = [r \in Routines |-> "none"]
  /\ edges = {}
  /\ handles = [r \in Routines |-> 0]

Allocate(r) ==
  /\ status[r] = "none"
  /\ status' = [status EXCEPT ![r] = "waiting"]
  /\ handles' = [handles EXCEPT ![r] = 1]
  /\ UNCHANGED edges

\* Both are held by handles that the caller has.
Order(from, to) ==
  /\ handles[from] > 0 /\ handles[to] > 0
  /\ edges' = edges \cup {<<from, to>>}
  /\ UNCHANGED <<status, handles>>

Defer(r) ==
  /\ status[r] \in {"waiting", "running", "ended"}
  /\ handles' = [handles EXCEPT ![r] = @ + 1]
  /\ UNCHANGED <<status, edges>>

Dispatch(r) ==
  /\ handles[r] > 0
  /\ handles' = [handles EXCEPT ![r] = @ - 1]
  /\ UNCHANGED <<status, edges>>

Before(r) == {f \in Routines : <<f, r>> \in edges}

Start(r) ==
  /\ status[r] = "waiting" /\ handles[r] = 0
  /\ \A f \in Before(r) : status[f] = "done"
  /\ status' = [status EXCEPT ![r] = "running"]
  /\ UNCHANGED <<edges, handles>>

End(r) ==
  /\ status[r] = "running"
  /\ status' = [status EXCEPT ![r] = "ended"]
  /\ UNCHANGED <<edges, handles>>

\* The body has ended and no handle holds the routine: its successors may go on.
\* A routine without a body is done as soon as it could have started.
Complete(r) ==
  /\ \/ status[r] = "ended"
     \/ status[r] = "waiting" /\ \A f \in Before(r) : status[f] = "done"
  /\ handles[r] = 0
  /\ status' = [status EXCEPT ![r] = "done"]
  /\ UNCHANGED <<edges, handles>>

Next ==
  \/ \E r \in Routines : \/ Allocate(r) \/ Defer(r) \/ Dispatch(r)
                         \/ Start(r) \/ End(r) \/ Complete(r)
  \/ \E from, to \in Routines : Order(from, to)

Spec == Init /\ [][Next]_vars
==============================================================================
