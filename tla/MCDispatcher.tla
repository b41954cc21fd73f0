---------------------------- MODULE MCDispatcher ----------------------------
(***************************************************************************)
(* Instances of Dispatcher for TLC: the pairs that clients may order.        *)
(***************************************************************************)
EXTENDS Dispatcher, TLC

CONSTANTS a, b, c, d

\* One routine before three others, more than it has slots, and one of them
\* before another.
Spread == {<<a, b>>, <<a, c>>, <<a, d>>, <<c, d>>}

\* a, b before c.
Chain == {<<a, b>>, <<b, c>>}
=============================================================================
