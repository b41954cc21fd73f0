-------------------------------- MODULE Pipe --------------------------------
(***************************************************************************)
(* iris_pipe_t (src/src/iris_coroutine.h) with a mutex: producers emplace    *)
(* elements, each co_await of a consumer takes one.  Elements and waiting     *)
(* consumers are in two queues; prepared_count and waiting_count are what     *)
(* producers and consumers have left for each other.                        *)
(*                                                                         *)
(* A test-and-decrement of a counter is one step, since its load and its      *)
(* compare-exchange agree on the value.  data_push_lock and data_pop_lock     *)
(* make a push and a pop of the elements one step each.                      *)
(***************************************************************************)
EXTENDS Sync

CONSTANTS
  Producers,
  Consumers,
  MaxEach       \* bound: elements that each producer puts and each consumer takes

ASSUME PipeAssumption ==
  /\ Producers \cup Consumers \subseteq Actors /\ Producers \cap Consumers = {}
  /\ IsFiniteSet(Producers) /\ IsFiniteSet(Consumers)
  /\ Nobody \notin Actors
  /\ MaxEach \in Nat

VARIABLES
  prepared,   \* prepared_count
  waiting,    \* waiting_count
  waiters,    \* handles
  elements,   \* the producers of the elements
  moved       \* elements that each actor has put or taken

pipeVars == <<prepared, waiting, waiters, elements, moved>>

PipeTypeOK ==
  /\ \A c \in Consumers :
       pc[c] \in {"idle", "fast", "lock", "slow", "count", "suspended", "resumed"}
  /\ \A p \in Producers : pc[p] \in {"idle", "fast", "lock", "slow", "pop"}
  /\ prepared \in Nat /\ waiting \in Nat
  /\ waiters \in Seq(Consumers) /\ elements \in Seq(Producers)
  /\ moved \in [Producers \cup Consumers -> 0..MaxEach]

PipeInit ==
  /\ prepared = 0 /\ waiting = 0
  /\ waiters = <<>> /\ elements = <<>>
  /\ moved = [x \in Producers \cup Consumers |-> 0]

Moved(x) == moved' = [moved EXCEPT ![x] = @ + 1]

\* handle_lock, for the look of an actor that was not served at once.
LockHandles(x) ==
  /\ At(x, "lock") /\ Lock(x)
  /\ Goto(x, "slow")
  /\ UNCHANGED <<posted, pipeVars>>

(***************************************************************************)
(* co_await                                                                *)
(***************************************************************************)
AwaitPipe(c) ==
  /\ At(c, "idle") /\ moved[c] < MaxEach
  /\ Goto(c, "fast")
  /\ UNCHANGED <<posted, mutex, pipeVars>>

\* Mutant: the fast path looks at prepared_count and does not lower it.
ConsumerFastKeeps(c) ==
  /\ At(c, "fast")
  /\ IF prepared > 0
     THEN DispatchHandle(c) /\ Goto(c, "suspended")
     ELSE Goto(c, "lock") /\ UNCHANGED posted
  /\ UNCHANGED <<prepared, mutex, waiting, waiters, elements, moved>>

\* flush_prepared, outside of the lock and under it.
ConsumerFast(c) ==
  /\ At(c, "fast")
  /\ IF prepared > 0
     THEN prepared' = prepared - 1 /\ DispatchHandle(c) /\ Goto(c, "suspended")
     ELSE Goto(c, "lock") /\ UNCHANGED <<prepared, posted>>
  /\ UNCHANGED <<mutex, waiting, waiters, elements, moved>>

\* Mutant: the consumer does not look again under the lock.
ConsumerNoLook(c) ==
  /\ At(c, "slow")
  /\ waiters' = Append(waiters, c)
  /\ Goto(c, "count")
  /\ UNCHANGED <<prepared, mutex, posted, waiting, elements, moved>>

ConsumerSlow(c) ==
  /\ At(c, "slow")
  /\ IF prepared > 0
     THEN /\ prepared' = prepared - 1 /\ Unlock(c) /\ DispatchHandle(c)
          /\ Goto(c, "suspended")
          /\ UNCHANGED waiters
     ELSE /\ waiters' = Append(waiters, c)
          /\ Goto(c, "count")
          /\ UNCHANGED <<prepared, mutex, posted>>
  /\ UNCHANGED <<waiting, elements, moved>>

ConsumerCount(c) ==
  /\ At(c, "count") /\ Unlock(c)
  /\ waiting' = waiting + 1
  /\ Goto(c, "suspended")
  /\ UNCHANGED <<posted, prepared, waiters, elements, moved>>

ResumeConsumer(c) == Resumed(c, "resumed") /\ UNCHANGED <<mutex, pipeVars>>

\* await_resume takes the oldest element.
TakeElement(c) ==
  /\ At(c, "resumed") /\ elements # <<>>
  /\ elements' = Tail(elements) /\ Moved(c)
  /\ Goto(c, "idle")
  /\ UNCHANGED <<posted, mutex, prepared, waiting, waiters>>

(***************************************************************************)
(* emplace                                                                 *)
(***************************************************************************)
Emplace(p) ==
  /\ At(p, "idle") /\ moved[p] < MaxEach
  /\ elements' = Append(elements, p) /\ Moved(p)
  /\ Goto(p, "fast")
  /\ UNCHANGED <<posted, mutex, prepared, waiting, waiters>>

\* flush_waiting, outside of the lock and under it.
ProducerFast(p) ==
  /\ At(p, "fast")
  /\ IF waiting > 0
     THEN waiting' = waiting - 1 /\ Goto(p, "pop")
     ELSE Goto(p, "lock") /\ UNCHANGED waiting
  /\ UNCHANGED <<posted, mutex, prepared, waiters, elements, moved>>

\* handles.top(), handles.pop(), dispatch.
PopWaiter(p) ==
  /\ waiters # <<>>
  /\ waiters' = Tail(waiters)
  /\ DispatchHandle(Head(waiters))
  /\ Goto(p, "idle")

ProducerPop(p) ==
  /\ At(p, "pop") /\ mutex = Nobody
  /\ PopWaiter(p)
  /\ UNCHANGED <<mutex, prepared, waiting, elements, moved>>

ProducerSlow(p) ==
  /\ At(p, "slow") /\ Unlock(p)
  /\ IF waiting > 0
     THEN waiting' = waiting - 1 /\ PopWaiter(p) /\ UNCHANGED prepared
     ELSE prepared' = prepared + 1 /\ Goto(p, "idle") /\ UNCHANGED <<waiting, waiters, posted>>
  /\ UNCHANGED <<elements, moved>>

PipeInternal(x) ==
  \/ LockHandles(x)
  \/ x \in Consumers /\ (ConsumerFast(x) \/ ConsumerSlow(x) \/ ConsumerCount(x)
                           \/ ResumeConsumer(x) \/ TakeElement(x))
  \/ x \in Producers /\ (ProducerFast(x) \/ ProducerPop(x) \/ ProducerSlow(x))

PipeNext ==
  \/ \E c \in Consumers : AwaitPipe(c)
  \/ \E p \in Producers : Emplace(p)
  \/ \E x \in Producers \cup Consumers : PipeInternal(x)

PipeSpec == SyncInit /\ PipeInit /\ [][PipeNext]_<<syncVars, pipeVars>>

(***************************************************************************)
(* Properties                                                              *)
(***************************************************************************)
\* What is left for each other adds up: every producer that is to pop a waiter
\* finds one, and every consumer that is resumed finds an element.
NeverPopsEmpty ==
  /\ Len(waiters) = waiting + Cardinality({p \in Producers : At(p, "pop")})
                            + Cardinality({c \in Consumers : At(c, "count")})
  /\ Len(elements) = prepared + Cardinality(posted \cap Consumers)
                      + Cardinality({c \in Consumers : At(c, "resumed")})
                      + Cardinality({p \in Producers : pc[p] \in {"fast", "lock", "slow", "pop"}})

\* Once as many elements are in as all consumers together ask for, nobody who
\* waits is left waiting.
PipeServes ==
  []<>((\A p \in Producers : moved[p] = MaxEach)
         => \A c \in Consumers : ~At(c, "suspended"))
=============================================================================
