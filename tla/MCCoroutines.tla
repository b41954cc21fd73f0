---------------------------- MODULE MCCoroutines ----------------------------
(***************************************************************************)
(* Instances for TLC of the task graph, and of the objects that coroutines   *)
(* wait on.  Each behaviour is about one object, chosen in the initial state: *)
(* the others stay as they were made.                                       *)
(***************************************************************************)
EXTENDS Dispatcher, QuotaQueue, Event, Pipe, RoundBarrier, Awaitables, TLC

CONSTANTS
  a, b, c, d,   \* routines, and clients of the quota
  w1, w2, s1, s2,   \* waiters and setters of the event
  c1, c2, p1, p2,   \* consumers and producers of the pipe
  m1, m2, m3,       \* participants of the barrier
  A, B, k1, k2,     \* warps, and coroutines that await, switch and select
  Objects     \* the objects that are looked at

VARIABLE object

graphVars == vars

objectVars ==
  <<graphVars, syncVars, quotaVars, eventVars, pipeVars, barrierVars, awaitableVars, object>>

ObjectsInit ==
  /\ object \in Objects
  /\ Init /\ SyncInit /\ QuotaInit /\ EventInit /\ PipeInit /\ BarrierInit /\ AwaitablesInit

ObjectsNext ==
  /\ UNCHANGED object
  /\ \/ /\ object = "graph" /\ Next
        /\ UNCHANGED <<syncVars, quotaVars, eventVars, pipeVars, barrierVars, awaitableVars>>
     \/ /\ object = "quota" /\ QuotaNext
        /\ UNCHANGED <<graphVars, eventVars, pipeVars, barrierVars, awaitableVars>>
     \/ /\ object = "event" /\ EventNext
        /\ UNCHANGED <<graphVars, quotaVars, pipeVars, barrierVars, awaitableVars>>
     \/ /\ object = "pipe" /\ PipeNext
        /\ UNCHANGED <<graphVars, quotaVars, eventVars, barrierVars, awaitableVars>>
     \/ /\ object = "barrier" /\ BarrierNext
        /\ UNCHANGED <<graphVars, quotaVars, eventVars, pipeVars, awaitableVars>>
     \/ /\ object = "awaitable" /\ AwaitablesNext
        /\ UNCHANGED <<graphVars, syncVars, quotaVars, eventVars, pipeVars, barrierVars>>

\* Threads run what is queued and what they have begun, clients dispatch the
\* handles they hold; whoever has called an object goes on.
ObjectsFairness ==
  /\ \A r \in Routines :
       /\ WF_graphVars(object = "graph" /\ Execute(r))
       /\ WF_graphVars(object = "graph" /\ EndBody(r))
       /\ WF_graphVars(object = "graph" /\ Dispatch(r))
  /\ \A r \in Nodes, k \in Calls : WF_graphVars(object = "graph" /\ Run(r, k))
  /\ \A x \in Clients :
       WF_<<syncVars, quotaVars>>(object = "quota" /\ QuotaInternal(x))
  /\ \A x \in Waiters \cup Setters :
       WF_<<syncVars, eventVars>>(object = "event" /\ EventInternal(x))
  /\ \A x \in Producers \cup Consumers :
       WF_<<syncVars, pipeVars>>(object = "pipe" /\ PipeInternal(x))
  /\ \A x \in Participants :
       /\ WF_<<syncVars, barrierVars>>(object = "barrier" /\ BarrierInternal(x))
       /\ WF_<<syncVars, barrierVars>>(object = "barrier" /\ Takes(x))
  /\ \A x \in Coroutines :
       /\ WF_awaitableVars(object = "awaitable" /\ StepsOf(x))
       /\ SF_awaitableVars(object = "awaitable" /\ StartsOf(x))

ObjectsSpec == ObjectsInit /\ [][ObjectsNext]_objectVars

ObjectsFairSpec == ObjectsSpec /\ ObjectsFairness

\* The types of the graph, of the objects that coroutines wait on, and of what
\* they share.
ObjectsTypeOK ==
  /\ TypeOK /\ SyncTypeOK
  /\ QuotaTypeOK /\ EventTypeOK /\ PipeTypeOK /\ BarrierTypeOK
  /\ AwaitablesTypeOK

\* Whoever waits for a quota, an event, a pipe or a barrier goes on in the end.
WaitersGoOn == EventuallyGranted /\ SignalReleases /\ PipeServes /\ EverybodyGoesOn

\* One routine before three others, more than it has slots, and one of them
\* before another.
Spread == {<<a, b>>, <<a, c>>, <<a, d>>, <<c, d>>}

\* One unit of each of two kinds: a asks for the first, b for both, c for the
\* second, d for both.
OneOfEach == <<1, 1>>
Requests ==
  [x \in Clients |-> CASE x = a -> <<1, 0>> [] x = c -> <<0, 1>> [] OTHER -> <<1, 1>>]

\* What the two coroutines may await, and the switches they may ask for: to a
\* warp, to none, to two warps at a time, in both orders.
Awaiting(t, early, parallel) == [target |-> t, early |-> early, parallel |-> parallel]
Switching(t, o, pt, po) ==
  [target |-> t, other |-> o, parallelTarget |-> pt, parallelOther |-> po]

SomeAwaits ==
  k1 :> {Awaiting(B, TRUE, FALSE), Awaiting(NoWarp, TRUE, FALSE)}
  @@ k2 :> {Awaiting(A, FALSE, FALSE), Awaiting(A, TRUE, TRUE)}

OnePair ==
  k1 :> {Switching(A, B, FALSE, FALSE), Switching(B, A, TRUE, FALSE),
         Switching(NoWarp, B, FALSE, TRUE)}
  @@ k2 :> {Switching(A, NoWarp, FALSE, FALSE), Switching(B, NoWarp, TRUE, FALSE),
            Switching(NoWarp, NoWarp, FALSE, FALSE)}

Both == <<A, B>>

\* How often each of them awaits.
OnceAndTwice == k1 :> 1 @@ k2 :> 2
=============================================================================
