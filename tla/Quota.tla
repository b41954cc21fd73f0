------------------------------- MODULE Quota -------------------------------
(***************************************************************************)
(* The promise of iris_quota_t and iris_quota_queue_t: amounts of several    *)
(* kinds that users take all at once and give back, never more than there is.*)
(***************************************************************************)
EXTENDS Naturals, Functions

CONSTANTS
  Users,
  Kinds,      \* 1..n, the kinds of amounts
  Total,      \* amounts of each kind
  Request     \* what each user asks for at a time

VARIABLES
  held        \* the kinds of its request that each user has

Asked(u) == {k \in Kinds : Request[u][k] > 0}
Used(k) == SumFunction([u \in Users |-> IF k \in held[u] THEN Request[u][k] ELSE 0])

Init == held = [u \in Users |-> {}]

Grant(u) ==
  /\ held[u] = {}
  /\ \A k \in Asked(u) : Used(k) + Request[u][k] <= Total[k]
  /\ held' = [held EXCEPT ![u] = Asked(u)]

Return(u) == \E K \in SUBSET held[u] : held' = [held EXCEPT ![u] = @ \ K]

Next == \E u \in Users : Grant(u) \/ Return(u)

Spec == Init /\ [][Next]_held
=============================================================================
