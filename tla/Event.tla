------------------------------- MODULE Event -------------------------------
(***************************************************************************)
(* iris_event_t (src/src/iris_coroutine.h): coroutines wait until the event *)
(* is signaled.  notify() signals it under the lock and wakes everybody in   *)
(* the list; reset() takes the signal back without the lock.                *)
(***************************************************************************)
EXTENDS Sync

CONSTANTS
  Waiters,      \* coroutines that co_await the event
  Setters,      \* threads that call notify() and reset()
  MaxWaits,     \* bound: waits of each waiter
  MaxSets       \* bound: calls of each setter

ASSUME EventAssumption ==
  /\ Waiters \cup Setters \subseteq Actors /\ Waiters \cap Setters = {}
  /\ Nobody \notin Actors
  /\ MaxWaits \in Nat /\ MaxSets \in Nat

VARIABLES
  signaled,
  sleepers,   \* handles
  woken,      \* set_handles of the notify that runs
  made       \* how often each actor has called

eventVars == <<signaled, sleepers, woken, made>>

EventTypeOK ==
  /\ \A w \in Waiters : pc[w] \in {"idle", "look", "lock", "push", "suspended"}
  /\ \A s \in Setters : pc[s] \in {"idle", "swap", "wake"}
  /\ signaled \in BOOLEAN
  /\ sleepers \subseteq Waiters
  /\ woken \in [Setters -> SUBSET Waiters]
  /\ \A x \in Waiters : made[x] \in 0..MaxWaits
  /\ \A s \in Setters : made[s] \in 0..MaxSets

EventInit ==
  /\ signaled = FALSE
  /\ sleepers = {}
  /\ woken = [s \in Setters |-> {}]
  /\ made = [x \in Waiters \cup Setters |-> 0]

Called(x) == made' = [made EXCEPT ![x] = @ + 1]

(***************************************************************************)
(* co_await                                                                *)
(***************************************************************************)
\* await_ready: a signaled event does not suspend.
AwaitEvent(w) ==
  /\ At(w, "idle") /\ made[w] < MaxWaits /\ Called(w)
  /\ IF signaled THEN UNCHANGED pc ELSE Goto(w, "look")
  /\ UNCHANGED <<posted, mutex, signaled, sleepers, woken>>

\* await_suspend looks again ...
LookAgain(w) ==
  /\ At(w, "look")
  /\ IF signaled
     THEN DispatchHandle(w) /\ Goto(w, "suspended")
     ELSE Goto(w, "lock") /\ UNCHANGED posted
  /\ UNCHANGED <<mutex, eventVars>>

\* ... and once more under the lock, before it joins the list.
LookLocked(w) ==
  /\ At(w, "lock")
  /\ IF signaled
     THEN mutex = Nobody /\ UNCHANGED mutex /\ DispatchHandle(w) /\ Goto(w, "suspended")
     ELSE Lock(w) /\ Goto(w, "push") /\ UNCHANGED posted
  /\ UNCHANGED eventVars

JoinSleepers(w) ==
  /\ At(w, "push") /\ Unlock(w)
  /\ sleepers' = sleepers \cup {w}
  /\ Goto(w, "suspended")
  /\ UNCHANGED <<posted, signaled, woken, made>>

ResumeWaiter(w) == Resumed(w, "idle") /\ UNCHANGED <<mutex, eventVars>>

(***************************************************************************)
(* notify and reset                                                        *)
(***************************************************************************)
Notify(s) ==
  /\ At(s, "idle") /\ made[s] < MaxSets /\ Called(s)
  /\ Lock(s)
  /\ signaled' = TRUE
  /\ Goto(s, "swap")
  /\ UNCHANGED <<posted, sleepers, woken>>

\* Mutant: the list is copied, and not swapped.
CopySleepers(s) ==
  /\ At(s, "swap") /\ Unlock(s)
  /\ woken' = [woken EXCEPT ![s] = sleepers]
  /\ Goto(s, "wake")
  /\ UNCHANGED <<sleepers, posted, signaled, made>>

SwapSleepers(s) ==
  /\ At(s, "swap") /\ Unlock(s)
  /\ woken' = [woken EXCEPT ![s] = sleepers]
  /\ sleepers' = {}
  /\ Goto(s, "wake")
  /\ UNCHANGED <<posted, signaled, made>>

\* Mutant: notify wakes one of those that sleep.
WakeOne(s) ==
  /\ At(s, "wake")
  /\ posted' = posted \cup (IF woken[s] = {} THEN {} ELSE {CHOOSE w \in woken[s] : TRUE})
  /\ woken' = [woken EXCEPT ![s] = {}]
  /\ Goto(s, "idle")
  /\ UNCHANGED <<mutex, signaled, sleepers, made>>

WakeSleepers(s) ==
  /\ At(s, "wake")
  /\ posted' = posted \cup woken[s]
  /\ woken' = [woken EXCEPT ![s] = {}]
  /\ Goto(s, "idle")
  /\ UNCHANGED <<mutex, signaled, sleepers, made>>

Reset(s) ==
  /\ At(s, "idle") /\ made[s] < MaxSets /\ Called(s)
  /\ signaled' = FALSE
  /\ UNCHANGED <<syncVars, sleepers, woken>>

EventInternal(x) ==
  \/ x \in Waiters /\ (LookAgain(x) \/ LookLocked(x) \/ JoinSleepers(x) \/ ResumeWaiter(x))
  \/ x \in Setters /\ (SwapSleepers(x) \/ WakeSleepers(x))

EventNext ==
  \/ \E w \in Waiters : AwaitEvent(w)
  \/ \E s \in Setters : Notify(s) \/ Reset(s)
  \/ \E x \in Waiters \cup Setters : EventInternal(x)

EventSpec == SyncInit /\ EventInit /\ [][EventNext]_<<syncVars, eventVars>>

(***************************************************************************)
(* Properties                                                              *)
(***************************************************************************)
\* Whoever is suspended is either in the list, or about to be woken, and not
\* both: a wait is answered once.
AnsweredOnce ==
  \A w \in Waiters :
    At(w, "suspended") <=>
      (w \in sleepers) # ((w \in posted) # (\E s \in Setters : w \in woken[s]))

\* When the event stays signaled, everybody who waits goes on.
SignalReleases ==
  <>[]signaled => <>[](\A w \in Waiters : At(w, "idle"))
=============================================================================
