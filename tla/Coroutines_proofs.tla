-------------------------- MODULE Coroutines_proofs --------------------------
(***************************************************************************)
(* Proofs about the event, the pipe, the quota queue, the barrier and the     *)
(* awaitables of iris_coroutine.h, for any sets of coroutines and threads.    *)
(*                                                                         *)
(* Each object has an inductive invariant in three parts: the types of its    *)
(* variables, where everybody is (who holds the mutex, who is in the list,     *)
(* who is on the way back), and what the counters of the object must add up   *)
(* to.  The numbers of coroutines at a step of the code are cardinalities,    *)
(* and the amounts of a quota sums over its users: Counting.tla has the facts  *)
(* about both.                                                               *)
(***************************************************************************)
EXTENDS QuotaQueue, Event, Pipe, RoundBarrier, Awaitables, Counting

(***************************************************************************)
(* Sequences                                                               *)
(***************************************************************************)
\* A sequence without its first element.
LEMMA TailFacts ==
  ASSUME NEW S, NEW s \in Seq(S), s # <<>>
  PROVE  /\ Head(s) = s[1] /\ Head(s) \in S /\ 1 \in DOMAIN s
         /\ Tail(s) \in Seq(S) /\ Len(s) \in Nat \ {0} /\ Len(Tail(s)) = Len(s) - 1
         /\ \A i \in DOMAIN Tail(s) : i + 1 \in DOMAIN s /\ Tail(s)[i] = s[i + 1] /\ i + 1 # 1
                                      /\ i \in Nat
<1>1. Len(s) \in Nat \ {0}
  OBVIOUS
<1> QED
  BY <1>1

\* A sequence with one more element.
LEMMA AppendFacts ==
  ASSUME NEW S, NEW s \in Seq(S), NEW e \in S
  PROVE  /\ Append(s, e) \in Seq(S) /\ Len(Append(s, e)) = Len(s) + 1 /\ Len(s) \in Nat
         /\ \A i \in DOMAIN Append(s, e) :
              \/ i \in DOMAIN s /\ Append(s, e)[i] = s[i]
              \/ i = Len(s) + 1 /\ Append(s, e)[i] = e
OBVIOUS

(***************************************************************************)
(* Event                                                                   *)
(***************************************************************************)
\* Everybody who is suspended is in one place: the list, the hands of one setter,
\* or on the way back.
WaitsOnce(w) ==
  /\ w \in sleepers => At(w, "suspended") /\ w \notin posted
  /\ w \in posted => At(w, "suspended")
  /\ \A s \in Setters :
       w \in woken[s] => At(w, "suspended") /\ w \notin sleepers /\ w \notin posted
  /\ \A s, t \in Setters : w \in woken[s] /\ w \in woken[t] => s = t
  /\ At(w, "suspended") => w \in sleepers \/ w \in posted \/ \E s \in Setters : w \in woken[s]

OnePlace ==
  /\ posted \subseteq Waiters
  /\ \A w \in Waiters : WaitsOnce(w)
  /\ \A s \in Setters : woken[s] # {} => At(s, "wake")

\* The types of the variables, and the steps that the code of an event has.
EventTypes ==
  /\ pc \in [Actors -> {"idle", "look", "lock", "push", "suspended", "swap", "wake"}]
  /\ mutex \in Actors \cup {Nobody}
  /\ made \in [Waiters \cup Setters -> Nat]
  /\ EventTypeOK

EventInv == EventTypes /\ OnePlace

\* At first nobody waits for the event.
LEMMA EventInvInit == SyncInit /\ EventInit => EventInv
<1> SUFFICES ASSUME SyncInit, EventInit PROVE EventInv
  OBVIOUS
<1>1. EventTypes
  <2>1. signaled \in BOOLEAN
    BY DEF EventInit
  <2> QED
    BY <2>1, EventAssumption DEF SyncInit, EventInit, EventTypes, EventTypeOK
<1>2. OnePlace
  BY EventAssumption DEF SyncInit, EventInit, OnePlace, WaitsOnce, At
<1> QED
  BY <1>1, <1>2 DEF EventInv

\* A waiter is moved from one place to the next by every step of the event.
LEMMA EventStep == EventInv /\ [EventNext]_<<syncVars, eventVars>> => EventInv'
<1> SUFFICES ASSUME EventInv, [EventNext]_<<syncVars, eventVars>> PROVE EventInv'
  OBVIOUS
<1> USE EventAssumption DEF EventInv, EventTypes, OnePlace, At, Goto
<1>1. ASSUME NEW w \in Waiters, AwaitEvent(w) PROVE EventInv'
  BY <1>1 DEF AwaitEvent, Called, EventTypeOK, WaitsOnce
<1>2. ASSUME NEW w \in Waiters, LookAgain(w) PROVE EventInv'
  BY <1>2 DEF LookAgain, DispatchHandle, eventVars, EventTypeOK, WaitsOnce
<1>3. ASSUME NEW w \in Waiters, LookLocked(w) PROVE EventInv'
  BY <1>3 DEF LookLocked, DispatchHandle, Lock, eventVars, EventTypeOK, WaitsOnce
<1>4. ASSUME NEW w \in Waiters, JoinSleepers(w) PROVE EventInv'
  BY <1>4 DEF JoinSleepers, Unlock, EventTypeOK, WaitsOnce
<1>5. ASSUME NEW w \in Waiters, ResumeWaiter(w) PROVE EventInv'
  BY <1>5 DEF ResumeWaiter, Resumed, eventVars, EventTypeOK, WaitsOnce
<1>6. ASSUME NEW s \in Setters, Notify(s) PROVE EventInv'
  BY <1>6 DEF Notify, Called, Lock, EventTypeOK, WaitsOnce
<1>7. ASSUME NEW s \in Setters, Reset(s) PROVE EventInv'
  <2>1. EventTypes'
    <3>1. signaled' \in BOOLEAN
      BY <1>7 DEF Reset
    <3> QED
      BY <1>7, <3>1 DEF Reset, Called, syncVars, EventTypeOK
  <2>2. OnePlace'
    BY <1>7 DEF Reset, syncVars, WaitsOnce
  <2> QED
    BY <2>1, <2>2
<1>8. ASSUME NEW s \in Setters, SwapSleepers(s) PROVE EventInv'
  <2>1. EventTypes'
    BY <1>8 DEF SwapSleepers, EventTypeOK, Unlock
  <2>2. ASSUME NEW t \in Setters PROVE woken'[t] # {} => At(t, "wake")'
    BY <1>8, <2>1 DEF SwapSleepers, EventTypeOK
  <2>3. ASSUME NEW w \in Waiters PROVE WaitsOnce(w)'
    <3>1. At(w, "suspended")' <=> At(w, "suspended")
      BY <1>8 DEF SwapSleepers, EventTypeOK
    <3>2. \A t \in Setters : t # s => woken'[t] = woken[t]
      BY <1>8 DEF SwapSleepers, EventTypeOK
    <3>3. woken[s] = {} \/ woken'[s] = {}
      BY <1>8 DEF SwapSleepers, EventTypeOK
    <3> QED
      BY <1>8, <3>1, <3>2, <3>3 DEF SwapSleepers, EventTypeOK, WaitsOnce
  <2>4. posted' \subseteq Waiters
    BY <1>8 DEF SwapSleepers, EventTypeOK
  <2> QED
    BY <2>1, <2>2, <2>3, <2>4
<1>9. ASSUME NEW s \in Setters, WakeSleepers(s) PROVE EventInv'
  <2>1. EventTypes'
    BY <1>9 DEF WakeSleepers, EventTypeOK
  <2>2. ASSUME NEW t \in Setters PROVE woken'[t] # {} => At(t, "wake")'
    BY <1>9, <2>1 DEF WakeSleepers, EventTypeOK
  <2>3. ASSUME NEW w \in Waiters PROVE WaitsOnce(w)'
    <3>1. At(w, "suspended")' <=> At(w, "suspended")
      BY <1>9 DEF WakeSleepers, EventTypeOK
    <3>2. \A t \in Setters : t # s => woken'[t] = woken[t]
      BY <1>9 DEF WakeSleepers, EventTypeOK
    <3>3. woken[s] = {} \/ woken'[s] = {}
      BY <1>9 DEF WakeSleepers, EventTypeOK
    <3> QED
      BY <1>9, <3>1, <3>2, <3>3 DEF WakeSleepers, EventTypeOK, WaitsOnce
  <2>4. posted' \subseteq Waiters
    BY <1>9 DEF WakeSleepers, EventTypeOK
  <2> QED
    BY <2>1, <2>2, <2>3, <2>4
<1>10. CASE UNCHANGED <<syncVars, eventVars>>
  BY <1>10 DEF syncVars, eventVars, EventTypeOK, WaitsOnce
<1> QED
  BY <1>1, <1>2, <1>3, <1>4, <1>5, <1>6, <1>7, <1>8, <1>9, <1>10
     DEF EventNext, EventInternal

\* Whoever waits for an event is in the list, or about to be resumed, once
\* (await_suspend and notify of iris_event_t).
THEOREM EventAnswersOnce == EventSpec => []AnsweredOnce
<1>1. EventInv => AnsweredOnce
  <2> SUFFICES ASSUME EventInv, NEW w \in Waiters
               PROVE  At(w, "suspended") <=>
                        (w \in sleepers) # ((w \in posted) # (\E s \in Setters : w \in woken[s]))
    BY DEF AnsweredOnce
  <2> DEFINE wakes == \E s \in Setters : w \in woken[s]
  <2>1. WaitsOnce(w)
    BY DEF EventInv, OnePlace
  <2>2. ~(w \in sleepers /\ w \in posted) /\ ~(w \in sleepers /\ wakes) /\ ~(w \in posted /\ wakes)
    BY <2>1 DEF WaitsOnce
  <2>3. At(w, "suspended") <=> w \in sleepers \/ w \in posted \/ wakes
    BY <2>1 DEF WaitsOnce
  <2>4. wakes \in BOOLEAN /\ At(w, "suspended") \in BOOLEAN
    BY DEF At
  <2> HIDE DEF wakes
  <2>5. At(w, "suspended") <=> (w \in sleepers) # ((w \in posted) # wakes)
    BY <2>2, <2>3, <2>4
  <2> QED
    BY <2>5 DEF wakes
<1> QED
  BY <1>1, EventInvInit, EventStep, PTL DEF EventSpec

(***************************************************************************)
(* Pipe                                                                    *)
(***************************************************************************)
\* The types of the variables, and the steps that the code of a pipe has.
PipeTypes ==
  /\ pc \in [Actors -> {"idle", "fast", "lock", "slow", "count", "suspended", "resumed", "pop"}]
  /\ mutex \in Actors \cup {Nobody}
  /\ posted \subseteq Consumers
  /\ PipeTypeOK

\* Consumers that have joined the list and not raised waiting_count yet, producers
\* that are to pop one, consumers that are back, producers that have an element in.
Joining == Cardinality(In(Consumers, pc, {"count"}))
Popping == Cardinality(In(Producers, pc, {"pop"}))
Returned == Cardinality(In(Consumers, pc, {"resumed"}))
Giving == Cardinality(In(Producers, pc, {"fast", "lock", "slow", "pop"}))
Posted == Cardinality(posted)

\* Who has the mutex; where those on their way back, and those in the list, are;
\* a consumer that has asked may take one more.
Locked == \A x \in Producers \cup Consumers : pc[x] \in {"slow", "count"} => mutex = x
OnTheirWay == \A c \in posted : pc[c] = "suspended"
Listed ==
  \A i \in DOMAIN waiters : pc[waiters[i]] \in {"count", "suspended"} /\ waiters[i] \notin posted
ListedOnce == \A i, j \in DOMAIN waiters : waiters[i] = waiters[j] => i = j
Asking == \A c \in Consumers : pc[c] # "idle" => moved[c] < MaxEach

PipePlaces == Locked /\ OnTheirWay /\ Listed /\ ListedOnce /\ Asking

PipeCounts ==
  /\ Len(waiters) = waiting + Popping + Joining
  /\ Len(elements) = prepared + Posted + Returned + Giving

PipeInv == PipeTypes /\ PipePlaces /\ PipeCounts

\* A step of one actor: how the numbers change.
Moves(x, v) ==
  /\ Joining' = Joining - One(At(x, "count")) + One(v = "count")
  /\ Popping' = Popping - One(At(x, "pop")) + One(v = "pop")
  /\ Returned' = Returned - One(At(x, "resumed")) + One(v = "resumed")
  /\ Giving' = Giving - One(x \in Producers /\ pc[x] \in {"fast", "lock", "slow", "pop"})
                      + One(x \in Producers /\ v \in {"fast", "lock", "slow", "pop"})

\* The numbers of those at a step of the code are natural numbers.
LEMMA PipeNumbers ==
  ASSUME PipeTypes
  PROVE  /\ Joining \in Nat /\ Popping \in Nat /\ Returned \in Nat /\ Giving \in Nat
         /\ IsFiniteSet(posted) /\ Posted \in Nat
<1>1. IsFiniteSet(Producers) /\ IsFiniteSet(Consumers) /\ IsFiniteSet(posted)
  BY PipeAssumption, FS_Subset DEF PipeTypes
<1> QED
  BY <1>1, PlacesMove, FS_CardinalityType DEF Shift, Joining, Popping, Returned, Giving, Posted

\* A step of one actor moves nobody else.
LEMMA PipeMoves ==
  ASSUME PipeTypes, PipeTypes', NEW x \in Producers \cup Consumers, NEW v, Goto(x, v)
  PROVE  Moves(x, v)
<1>1. pc'[x] = v /\ \A y \in Producers \cup Consumers : y # x => pc'[y] = pc[y]
  BY PipeAssumption DEF PipeTypes, Goto
<1>2. /\ x \in Consumers => At(x, "pop") = FALSE /\ v # "pop"
      /\ x \in Producers => /\ At(x, "count") = FALSE /\ v # "count" /\ x \notin Consumers
                            /\ At(x, "resumed") = FALSE /\ v # "resumed"
  BY <1>1, PipeAssumption DEF PipeTypes, PipeTypeOK, At
<1>3. IsFiniteSet(Producers) /\ IsFiniteSet(Consumers)
  BY PipeAssumption
<1>4. \A L : Shift(Consumers, pc, pc', x, L) /\ Shift(Producers, pc, pc', x, L)
  <2> \A y \in Consumers : y # x => pc'[y] = pc[y]
    BY <1>1
  <2> \A y \in Producers : y # x => pc'[y] = pc[y]
    BY <1>1
  <2> QED
    BY <1>3, PlacesMove
<1>5. /\ Joining' = Joining - One(x \in Consumers /\ pc[x] \in {"count"})
                            + One(x \in Consumers /\ pc'[x] \in {"count"})
      /\ Popping' = Popping - One(x \in Producers /\ pc[x] \in {"pop"})
                            + One(x \in Producers /\ pc'[x] \in {"pop"})
      /\ Returned' = Returned - One(x \in Consumers /\ pc[x] \in {"resumed"})
                              + One(x \in Consumers /\ pc'[x] \in {"resumed"})
      /\ Giving' = Giving - One(x \in Producers /\ pc[x] \in {"fast", "lock", "slow", "pop"})
                          + One(x \in Producers /\ pc'[x] \in {"fast", "lock", "slow", "pop"})
  BY <1>4 DEF Shift, Joining, Popping, Returned, Giving
<1> QED
  BY <1>1, <1>2, <1>5 DEF Moves, One, At

\* At first a pipe is empty and nobody waits.
LEMMA PipeInvInit ==
  ASSUME SyncInit, PipeInit
  PROVE  PipeInv
<1>1. PipeTypes
  BY PipeAssumption DEF SyncInit, PipeInit, PipeTypes, PipeTypeOK
<1>2. PipePlaces
  BY PipeAssumption DEF SyncInit, PipeInit, PipePlaces, Locked, OnTheirWay, Listed, ListedOnce, Asking
<1>3. PipeCounts
  <2>1. /\ In(Consumers, pc, {"count"}) = {} /\ In(Producers, pc, {"pop"}) = {}
        /\ In(Consumers, pc, {"resumed"}) = {}
        /\ In(Producers, pc, {"fast", "lock", "slow", "pop"}) = {}
        /\ posted = {}
    BY PipeAssumption DEF SyncInit, In
  <2>2. Joining = 0 /\ Popping = 0 /\ Returned = 0 /\ Giving = 0 /\ Posted = 0
    BY <2>1, FS_EmptySet DEF Joining, Popping, Returned, Giving, Posted
  <2> QED
    BY <2>2 DEF PipeInit, PipeCounts
<1> QED
  BY <1>1, <1>2, <1>3 DEF PipeInv

\* A coroutine is handed back, or taken from those that are on their way.
LEMMA PipePosted ==
  ASSUME PipeTypes, NEW c
  PROVE  /\ c \notin posted /\ posted' = posted \cup {c} => Posted' = Posted + 1
         /\ c \in posted /\ posted' = posted \ {c} => Posted' = Posted - 1
         /\ posted' = posted => Posted' = Posted
BY PipeNumbers, FS_AddElement, FS_RemoveElement DEF Posted

\* The list of waiters and the queue of elements keep the lengths that the counters say.
LEMMA PipeStep == PipeInv /\ [PipeNext]_<<syncVars, pipeVars>> => PipeInv'
<1> SUFFICES ASSUME PipeInv, [PipeNext]_<<syncVars, pipeVars>> PROVE PipeInv'
  OBVIOUS
<1> USE PipeAssumption DEF PipeInv
<1>n. /\ Joining \in Nat /\ Popping \in Nat /\ Returned \in Nat /\ Giving \in Nat /\ Posted \in Nat
      /\ waiting \in Nat /\ prepared \in Nat /\ MaxEach \in Nat
  BY PipeNumbers DEF PipeTypes, PipeTypeOK
<1>t. /\ pc \in [Actors -> {"idle", "fast", "lock", "slow", "count", "suspended", "resumed", "pop"}]
      /\ waiters \in Seq(Consumers) /\ elements \in Seq(Producers)
      /\ Len(waiters) \in Nat /\ Len(elements) \in Nat
      /\ moved \in [Producers \cup Consumers -> 0..MaxEach]
      /\ posted \subseteq Consumers
  BY DEF PipeTypes, PipeTypeOK
<1>w. \A i \in DOMAIN waiters : waiters[i] \in Consumers /\ waiters[i] \in Actors
  BY DEF PipeTypes, PipeTypeOK
<1>1. ASSUME NEW x \in Producers \cup Consumers, LockHandles(x) PROVE PipeInv'
  <2>1. /\ pc[x] = "lock" /\ Goto(x, "slow")
        /\ mutex = Nobody /\ mutex' = x
        /\ UNCHANGED <<posted, prepared, waiting, waiters, elements, moved>>
    BY <1>1 DEF LockHandles, At, Lock, pipeVars
  <2>2. /\ pc'[x] = "slow" /\ x \in Actors /\ pc' \in [Actors -> {"idle", "fast", "lock", "slow", "count", "suspended", "resumed", "pop"}]
        /\ \A y \in Actors : y # x => pc'[y] = pc[y]
    BY <2>1, <1>t DEF Goto
  <2>4. PipeTypes'
    BY <2>1, <2>2, <1>t DEF PipeTypes, PipeTypeOK
  <2>5. PipePlaces'
    <3>1. Locked'
      BY <2>1, <2>2, <1>t DEF Locked, PipePlaces
    <3>2. OnTheirWay'
      BY <2>1, <2>2, <1>t DEF OnTheirWay, PipePlaces, Listed
    <3>3. Listed'
      BY <2>1, <2>2, <1>t, <1>w DEF Listed, PipePlaces
    <3>4. ListedOnce'
      BY <2>1, <2>2, <1>t DEF ListedOnce, PipePlaces, Listed
    <3>5. Asking'
      BY <2>1, <2>2, <1>t DEF Asking, PipePlaces
    <3> QED
      BY <3>1, <3>2, <3>3, <3>4, <3>5 DEF PipePlaces
  <2>6. Posted' = Posted
    BY <2>1, <2>2, PipePosted
  <2>7. Moves(x, "slow")
    BY <2>1, <2>4, PipeMoves
  <2>8. /\ Joining' = Joining /\ Popping' = Popping
        /\ Returned' = Returned /\ Giving' = Giving
    BY <1>n, <2>1, <2>7 DEF Moves, One, At
  <2>9. PipeCounts'
    BY <2>1, <2>2, <1>n, <1>t, <2>6, <2>8 DEF PipeCounts
  <2> QED
    BY <2>4, <2>5, <2>9
<1>2. ASSUME NEW x \in Consumers, AwaitPipe(x) PROVE PipeInv'
  <2>1. /\ pc[x] = "idle" /\ Goto(x, "fast")
        /\ moved[x] < MaxEach
        /\ UNCHANGED <<posted, mutex, prepared, waiting, waiters, elements, moved>>
    BY <1>2 DEF AwaitPipe, At, pipeVars
  <2>2. /\ pc'[x] = "fast" /\ x \in Actors /\ pc' \in [Actors -> {"idle", "fast", "lock", "slow", "count", "suspended", "resumed", "pop"}]
        /\ \A y \in Actors : y # x => pc'[y] = pc[y]
    BY <2>1, <1>t DEF Goto
  <2>4. PipeTypes'
    BY <2>1, <2>2, <1>t DEF PipeTypes, PipeTypeOK
  <2>5. PipePlaces'
    <3>1. Locked'
      BY <2>1, <2>2, <1>t DEF Locked, PipePlaces
    <3>2. OnTheirWay'
      BY <2>1, <2>2, <1>t DEF OnTheirWay, PipePlaces, Listed
    <3>3. Listed'
      BY <2>1, <2>2, <1>t, <1>w DEF Listed, PipePlaces
    <3>4. ListedOnce'
      BY <2>1, <2>2, <1>t DEF ListedOnce, PipePlaces, Listed
    <3>5. Asking'
      BY <2>1, <2>2, <1>t DEF Asking, PipePlaces
    <3> QED
      BY <3>1, <3>2, <3>3, <3>4, <3>5 DEF PipePlaces
  <2>6. Posted' = Posted
    BY <2>1, <2>2, PipePosted
  <2>7. Moves(x, "fast")
    BY <2>1, <2>4, PipeMoves
  <2>8. /\ Joining' = Joining /\ Popping' = Popping
        /\ Returned' = Returned /\ Giving' = Giving
    BY <1>n, <2>1, <2>7 DEF Moves, One, At
  <2>9. PipeCounts'
    BY <2>1, <2>2, <1>n, <1>t, <2>6, <2>8 DEF PipeCounts
  <2> QED
    BY <2>4, <2>5, <2>9
<1>3. ASSUME NEW x \in Consumers, ConsumerFast(x) PROVE PipeInv'
  <2>1. CASE prepared > 0
    <3>1. /\ pc[x] = "fast" /\ Goto(x, "suspended")
          /\ prepared' = prepared - 1
          /\ posted' = posted \cup {x}
          /\ UNCHANGED <<mutex, waiting, waiters, elements, moved>>
      BY <1>3, <2>1 DEF ConsumerFast, At, DispatchHandle
    <3>2. /\ pc'[x] = "suspended" /\ x \in Actors /\ pc' \in [Actors -> {"idle", "fast", "lock", "slow", "count", "suspended", "resumed", "pop"}]
          /\ \A y \in Actors : y # x => pc'[y] = pc[y]
      BY <3>1, <1>t DEF Goto
    <3>c. prepared' \in Nat
      BY <1>3, <2>1, <3>1, <1>n
    <3>4. PipeTypes'
      BY <3>1, <3>2, <3>c, <1>t DEF PipeTypes, PipeTypeOK
    <3>5. PipePlaces'
      <4>1. Locked'
        BY <3>1, <3>2, <1>t DEF Locked, PipePlaces
      <4>2. OnTheirWay'
        BY <3>1, <3>2, <1>t DEF OnTheirWay, PipePlaces, Listed
      <4>3. Listed'
        BY <3>1, <3>2, <1>t, <1>w DEF Listed, PipePlaces
      <4>4. ListedOnce'
        BY <3>1, <3>2, <1>t DEF ListedOnce, PipePlaces, Listed
      <4>5. Asking'
        BY <3>1, <3>2, <1>t DEF Asking, PipePlaces
      <4> QED
        BY <4>1, <4>2, <4>3, <4>4, <4>5 DEF PipePlaces
    <3>6. Posted' = Posted + 1
      BY <3>1, <3>2, PipePosted, <1>t DEF PipePlaces, OnTheirWay
    <3>7. Moves(x, "suspended")
      BY <3>1, <3>4, PipeMoves
    <3>8. /\ Joining' = Joining /\ Popping' = Popping
          /\ Returned' = Returned /\ Giving' = Giving
      BY <1>n, <3>1, <3>7 DEF Moves, One, At
    <3>9. PipeCounts'
      BY <1>3, <2>1, <3>1, <3>2, <1>n, <1>t, <3>6, <3>8 DEF PipeCounts
    <3> QED
      BY <3>4, <3>5, <3>9
  <2>2. CASE ~(prepared > 0)
    <3>1. /\ pc[x] = "fast" /\ Goto(x, "lock")
          /\ UNCHANGED <<posted, mutex, prepared, waiting, waiters, elements, moved>>
      BY <1>3, <2>2 DEF ConsumerFast, At, DispatchHandle, pipeVars
    <3>2. /\ pc'[x] = "lock" /\ x \in Actors /\ pc' \in [Actors -> {"idle", "fast", "lock", "slow", "count", "suspended", "resumed", "pop"}]
          /\ \A y \in Actors : y # x => pc'[y] = pc[y]
      BY <3>1, <1>t DEF Goto
    <3>4. PipeTypes'
      BY <3>1, <3>2, <1>t DEF PipeTypes, PipeTypeOK
    <3>5. PipePlaces'
      <4>1. Locked'
        BY <3>1, <3>2, <1>t DEF Locked, PipePlaces
      <4>2. OnTheirWay'
        BY <3>1, <3>2, <1>t DEF OnTheirWay, PipePlaces, Listed
      <4>3. Listed'
        BY <3>1, <3>2, <1>t, <1>w DEF Listed, PipePlaces
      <4>4. ListedOnce'
        BY <3>1, <3>2, <1>t DEF ListedOnce, PipePlaces, Listed
      <4>5. Asking'
        BY <3>1, <3>2, <1>t DEF Asking, PipePlaces
      <4> QED
        BY <4>1, <4>2, <4>3, <4>4, <4>5 DEF PipePlaces
    <3>6. Posted' = Posted
      BY <3>1, <3>2, PipePosted
    <3>7. Moves(x, "lock")
      BY <3>1, <3>4, PipeMoves
    <3>8. /\ Joining' = Joining /\ Popping' = Popping
          /\ Returned' = Returned /\ Giving' = Giving
      BY <1>n, <3>1, <3>7 DEF Moves, One, At
    <3>9. PipeCounts'
      BY <1>3, <2>2, <3>1, <3>2, <1>n, <1>t, <3>6, <3>8 DEF PipeCounts
    <3> QED
      BY <3>4, <3>5, <3>9
  <2> QED
    BY <2>1, <2>2
<1>4. ASSUME NEW x \in Consumers, ConsumerSlow(x) PROVE PipeInv'
  <2>1. CASE prepared > 0
    <3>1. /\ pc[x] = "slow" /\ Goto(x, "suspended")
          /\ prepared' = prepared - 1
          /\ posted' = posted \cup {x}
          /\ mutex = x /\ mutex' = Nobody
          /\ UNCHANGED <<waiting, waiters, elements, moved>>
      BY <1>4, <2>1 DEF ConsumerSlow, At, DispatchHandle, Unlock
    <3>2. /\ pc'[x] = "suspended" /\ x \in Actors /\ pc' \in [Actors -> {"idle", "fast", "lock", "slow", "count", "suspended", "resumed", "pop"}]
          /\ \A y \in Actors : y # x => pc'[y] = pc[y]
      BY <3>1, <1>t DEF Goto
    <3>c. prepared' \in Nat
      BY <1>4, <2>1, <3>1, <1>n
    <3>4. PipeTypes'
      BY <3>1, <3>2, <3>c, <1>t DEF PipeTypes, PipeTypeOK
    <3>5. PipePlaces'
      <4>1. Locked'
        BY <3>1, <3>2, <1>t DEF Locked, PipePlaces
      <4>2. OnTheirWay'
        BY <3>1, <3>2, <1>t DEF OnTheirWay, PipePlaces, Listed
      <4>3. Listed'
        BY <3>1, <3>2, <1>t, <1>w DEF Listed, PipePlaces
      <4>4. ListedOnce'
        BY <3>1, <3>2, <1>t DEF ListedOnce, PipePlaces, Listed
      <4>5. Asking'
        BY <3>1, <3>2, <1>t DEF Asking, PipePlaces
      <4> QED
        BY <4>1, <4>2, <4>3, <4>4, <4>5 DEF PipePlaces
    <3>6. Posted' = Posted + 1
      BY <3>1, <3>2, PipePosted, <1>t DEF PipePlaces, OnTheirWay
    <3>7. Moves(x, "suspended")
      BY <3>1, <3>4, PipeMoves
    <3>8. /\ Joining' = Joining /\ Popping' = Popping
          /\ Returned' = Returned /\ Giving' = Giving
      BY <1>n, <3>1, <3>7 DEF Moves, One, At
    <3>9. PipeCounts'
      BY SMTT(20), <1>4, <2>1, <3>1, <3>2, <1>n, <1>t, <3>6, <3>8 DEF PipeCounts
    <3> QED
      BY <3>4, <3>5, <3>9
  <2>2. CASE ~(prepared > 0)
    <3>1. /\ pc[x] = "slow" /\ Goto(x, "count")
          /\ waiters' = Append(waiters, x)
          /\ UNCHANGED <<prepared, mutex, posted, waiting, elements, moved>>
      BY <1>4, <2>2 DEF ConsumerSlow, At, DispatchHandle, Unlock
    <3>2. /\ pc'[x] = "count" /\ x \in Actors /\ pc' \in [Actors -> {"idle", "fast", "lock", "slow", "count", "suspended", "resumed", "pop"}]
          /\ \A y \in Actors : y # x => pc'[y] = pc[y]
      BY <3>1, <1>t DEF Goto
    <3>3. /\ waiters' \in Seq(Consumers) /\ Len(waiters') = Len(waiters) + 1
          /\ \A i \in DOMAIN waiters' : \/ i \in DOMAIN waiters /\ waiters'[i] = waiters[i]
                                        \/ i = Len(waiters) + 1 /\ waiters'[i] = x
      BY <3>1, <1>t, AppendFacts
    <3>4. PipeTypes'
      BY <3>1, <3>2, <3>3, <1>t DEF PipeTypes, PipeTypeOK
    <3>5. PipePlaces'
      <4>1. Locked'
        BY <3>1, <3>2, <3>3, <1>t DEF Locked, PipePlaces
      <4>2. OnTheirWay'
        BY <3>1, <3>2, <3>3, <1>t DEF OnTheirWay, PipePlaces, Listed
      <4>3. Listed'
        BY <3>1, <3>2, <3>3, <1>t, <1>w DEF Listed, PipePlaces, OnTheirWay
      <4>4. ListedOnce'
        <5>1. \A i \in DOMAIN waiters : waiters[i] # x
          BY <3>1 DEF Listed, PipePlaces
        <5> QED
          BY <3>3, <5>1 DEF ListedOnce, PipePlaces
      <4>5. Asking'
        BY <3>1, <3>2, <3>3, <1>t DEF Asking, PipePlaces
      <4> QED
        BY <4>1, <4>2, <4>3, <4>4, <4>5 DEF PipePlaces
    <3>6. Posted' = Posted
      BY <3>1, <3>2, <3>3, PipePosted
    <3>7. Moves(x, "count")
      BY <3>1, <3>4, PipeMoves
    <3>8. /\ Joining' = Joining + 1 /\ Popping' = Popping
          /\ Returned' = Returned /\ Giving' = Giving
      BY <1>n, <3>1, <3>7 DEF Moves, One, At
    <3>9. PipeCounts'
      BY <1>4, <2>2, <3>1, <3>2, <3>3, <1>n, <1>t, <3>6, <3>8 DEF PipeCounts
    <3> QED
      BY <3>4, <3>5, <3>9
  <2> QED
    BY <2>1, <2>2
<1>5. ASSUME NEW x \in Consumers, ConsumerCount(x) PROVE PipeInv'
  <2>1. /\ pc[x] = "count" /\ Goto(x, "suspended")
        /\ mutex = x /\ mutex' = Nobody
        /\ waiting' = waiting + 1
        /\ UNCHANGED <<posted, prepared, waiters, elements, moved>>
    BY <1>5 DEF ConsumerCount, At, Unlock
  <2>2. /\ pc'[x] = "suspended" /\ x \in Actors /\ pc' \in [Actors -> {"idle", "fast", "lock", "slow", "count", "suspended", "resumed", "pop"}]
        /\ \A y \in Actors : y # x => pc'[y] = pc[y]
    BY <2>1, <1>t DEF Goto
  <2>c. waiting' \in Nat
    BY <1>5, <2>1, <1>n
  <2>4. PipeTypes'
    BY <2>1, <2>2, <2>c, <1>t DEF PipeTypes, PipeTypeOK
  <2>5. PipePlaces'
    <3>1. Locked'
      BY <2>1, <2>2, <1>t DEF Locked, PipePlaces
    <3>2. OnTheirWay'
      BY <2>1, <2>2, <1>t DEF OnTheirWay, PipePlaces, Listed
    <3>3. Listed'
      BY <2>1, <2>2, <1>t, <1>w DEF Listed, PipePlaces
    <3>4. ListedOnce'
      BY <2>1, <2>2, <1>t DEF ListedOnce, PipePlaces, Listed
    <3>5. Asking'
      BY <2>1, <2>2, <1>t DEF Asking, PipePlaces
    <3> QED
      BY <3>1, <3>2, <3>3, <3>4, <3>5 DEF PipePlaces
  <2>6. Posted' = Posted
    BY <2>1, <2>2, PipePosted
  <2>7. Moves(x, "suspended")
    BY <2>1, <2>4, PipeMoves
  <2>8. /\ Joining' = Joining - 1 /\ Popping' = Popping
        /\ Returned' = Returned /\ Giving' = Giving
    BY <1>n, <2>1, <2>7 DEF Moves, One, At
  <2>9. PipeCounts'
    BY <2>1, <2>2, <1>n, <1>t, <2>6, <2>8 DEF PipeCounts
  <2> QED
    BY <2>4, <2>5, <2>9
<1>6. ASSUME NEW x \in Consumers, ResumeConsumer(x) PROVE PipeInv'
  <2>1. /\ pc[x] = "suspended" /\ Goto(x, "resumed")
        /\ x \in posted /\ posted' = posted \ {x}
        /\ UNCHANGED <<mutex, prepared, waiting, waiters, elements, moved>>
    BY <1>6 DEF ResumeConsumer, At, Resumed, pipeVars
  <2>2. /\ pc'[x] = "resumed" /\ x \in Actors /\ pc' \in [Actors -> {"idle", "fast", "lock", "slow", "count", "suspended", "resumed", "pop"}]
        /\ \A y \in Actors : y # x => pc'[y] = pc[y]
    BY <2>1, <1>t DEF Goto
  <2>4. PipeTypes'
    BY <2>1, <2>2, <1>t DEF PipeTypes, PipeTypeOK
  <2>5. PipePlaces'
    <3>1. Locked'
      BY <2>1, <2>2, <1>t DEF Locked, PipePlaces
    <3>2. OnTheirWay'
      BY <2>1, <2>2, <1>t DEF OnTheirWay, PipePlaces, Listed
    <3>3. Listed'
      BY <2>1, <2>2, <1>t, <1>w DEF Listed, PipePlaces
    <3>4. ListedOnce'
      BY <2>1, <2>2, <1>t DEF ListedOnce, PipePlaces, Listed
    <3>5. Asking'
      BY <2>1, <2>2, <1>t DEF Asking, PipePlaces
    <3> QED
      BY <3>1, <3>2, <3>3, <3>4, <3>5 DEF PipePlaces
  <2>6. Posted' = Posted - 1
    BY <2>1, <2>2, PipePosted
  <2>7. Moves(x, "resumed")
    BY <2>1, <2>4, PipeMoves
  <2>8. /\ Joining' = Joining /\ Popping' = Popping
        /\ Returned' = Returned + 1 /\ Giving' = Giving
    BY <1>n, <2>1, <2>7 DEF Moves, One, At
  <2>9. PipeCounts'
    BY <2>1, <2>2, <1>n, <1>t, <2>6, <2>8 DEF PipeCounts
  <2> QED
    BY <2>4, <2>5, <2>9
<1>7. ASSUME NEW x \in Consumers, TakeElement(x) PROVE PipeInv'
  <2>1. /\ pc[x] = "resumed" /\ Goto(x, "idle")
        /\ elements # <<>> /\ elements' = Tail(elements)
        /\ moved' = [moved EXCEPT ![x] = @ + 1]
        /\ UNCHANGED <<posted, mutex, prepared, waiting, waiters>>
    BY <1>7 DEF TakeElement, At, Moved
  <2>2. /\ pc'[x] = "idle" /\ x \in Actors /\ pc' \in [Actors -> {"idle", "fast", "lock", "slow", "count", "suspended", "resumed", "pop"}]
        /\ \A y \in Actors : y # x => pc'[y] = pc[y]
    BY <2>1, <1>t DEF Goto
  <2>3. /\ elements' \in Seq(Producers) /\ Len(elements') = Len(elements) - 1
    BY <2>1, <1>t, TailFacts
  <2>m. moved' \in [Producers \cup Consumers -> 0..MaxEach]
    BY <2>1, <2>2, <2>3, <1>t, <1>n DEF PipePlaces, Asking
  <2>4. PipeTypes'
    BY <2>1, <2>2, <2>3, <2>m, <1>t DEF PipeTypes, PipeTypeOK
  <2>5. PipePlaces'
    <3>1. Locked'
      BY <2>1, <2>2, <2>3, <2>m, <1>t DEF Locked, PipePlaces
    <3>2. OnTheirWay'
      BY <2>1, <2>2, <2>3, <2>m, <1>t DEF OnTheirWay, PipePlaces, Listed
    <3>3. Listed'
      BY <2>1, <2>2, <2>3, <2>m, <1>t, <1>w DEF Listed, PipePlaces
    <3>4. ListedOnce'
      BY <2>1, <2>2, <2>3, <2>m, <1>t DEF ListedOnce, PipePlaces, Listed
    <3>5. Asking'
      BY <2>1, <2>2, <2>3, <2>m, <1>t DEF Asking, PipePlaces
    <3> QED
      BY <3>1, <3>2, <3>3, <3>4, <3>5 DEF PipePlaces
  <2>6. Posted' = Posted
    BY <2>1, <2>2, <2>3, <2>m, PipePosted
  <2>7. Moves(x, "idle")
    BY <2>1, <2>4, PipeMoves
  <2>8. /\ Joining' = Joining /\ Popping' = Popping
        /\ Returned' = Returned - 1 /\ Giving' = Giving
    BY <1>n, <2>1, <2>7 DEF Moves, One, At
  <2>9. PipeCounts'
    BY <2>1, <2>2, <2>3, <2>m, <1>n, <1>t, <2>6, <2>8 DEF PipeCounts
  <2> QED
    BY <2>4, <2>5, <2>9
<1>8. ASSUME NEW x \in Producers, Emplace(x) PROVE PipeInv'
  <2>1. /\ pc[x] = "idle" /\ Goto(x, "fast")
        /\ moved[x] < MaxEach
        /\ elements' = Append(elements, x)
        /\ moved' = [moved EXCEPT ![x] = @ + 1]
        /\ UNCHANGED <<posted, mutex, prepared, waiting, waiters>>
    BY <1>8 DEF Emplace, At, Moved
  <2>2. /\ pc'[x] = "fast" /\ x \in Actors /\ pc' \in [Actors -> {"idle", "fast", "lock", "slow", "count", "suspended", "resumed", "pop"}]
        /\ \A y \in Actors : y # x => pc'[y] = pc[y]
    BY <2>1, <1>t DEF Goto
  <2>3. /\ elements' \in Seq(Producers) /\ Len(elements') = Len(elements) + 1
    BY <2>1, <1>t, AppendFacts
  <2>m. moved' \in [Producers \cup Consumers -> 0..MaxEach]
    BY <2>1, <2>2, <2>3, <1>t, <1>n DEF PipePlaces, Asking
  <2>4. PipeTypes'
    BY <2>1, <2>2, <2>3, <2>m, <1>t DEF PipeTypes, PipeTypeOK
  <2>5. PipePlaces'
    <3>1. Locked'
      BY <2>1, <2>2, <2>3, <2>m, <1>t DEF Locked, PipePlaces
    <3>2. OnTheirWay'
      BY <2>1, <2>2, <2>3, <2>m, <1>t DEF OnTheirWay, PipePlaces, Listed
    <3>3. Listed'
      BY <2>1, <2>2, <2>3, <2>m, <1>t, <1>w DEF Listed, PipePlaces
    <3>4. ListedOnce'
      BY <2>1, <2>2, <2>3, <2>m, <1>t DEF ListedOnce, PipePlaces, Listed
    <3>5. Asking'
      BY <2>1, <2>2, <2>3, <2>m, <1>t DEF Asking, PipePlaces
    <3> QED
      BY <3>1, <3>2, <3>3, <3>4, <3>5 DEF PipePlaces
  <2>6. Posted' = Posted
    BY <2>1, <2>2, <2>3, <2>m, PipePosted
  <2>7. Moves(x, "fast")
    BY <2>1, <2>4, PipeMoves
  <2>8. /\ Joining' = Joining /\ Popping' = Popping
        /\ Returned' = Returned /\ Giving' = Giving + 1
    BY <1>n, <2>1, <2>7 DEF Moves, One, At
  <2>9. PipeCounts'
    BY <2>1, <2>2, <2>3, <2>m, <1>n, <1>t, <2>6, <2>8 DEF PipeCounts
  <2> QED
    BY <2>4, <2>5, <2>9
<1>9. ASSUME NEW x \in Producers, ProducerFast(x) PROVE PipeInv'
  <2>1. CASE waiting > 0
    <3>1. /\ pc[x] = "fast" /\ Goto(x, "pop")
          /\ waiting' = waiting - 1
          /\ UNCHANGED <<posted, mutex, prepared, waiters, elements, moved>>
      BY <1>9, <2>1 DEF ProducerFast, At
    <3>2. /\ pc'[x] = "pop" /\ x \in Actors /\ pc' \in [Actors -> {"idle", "fast", "lock", "slow", "count", "suspended", "resumed", "pop"}]
          /\ \A y \in Actors : y # x => pc'[y] = pc[y]
      BY <3>1, <1>t DEF Goto
    <3>c. waiting' \in Nat
      BY <1>9, <2>1, <3>1, <1>n
    <3>4. PipeTypes'
      BY <3>1, <3>2, <3>c, <1>t DEF PipeTypes, PipeTypeOK
    <3>5. PipePlaces'
      <4>1. Locked'
        BY <3>1, <3>2, <1>t DEF Locked, PipePlaces
      <4>2. OnTheirWay'
        BY <3>1, <3>2, <1>t DEF OnTheirWay, PipePlaces, Listed
      <4>3. Listed'
        BY <3>1, <3>2, <1>t, <1>w DEF Listed, PipePlaces
      <4>4. ListedOnce'
        BY <3>1, <3>2, <1>t DEF ListedOnce, PipePlaces, Listed
      <4>5. Asking'
        BY <3>1, <3>2, <1>t DEF Asking, PipePlaces
      <4> QED
        BY <4>1, <4>2, <4>3, <4>4, <4>5 DEF PipePlaces
    <3>6. Posted' = Posted
      BY <3>1, <3>2, PipePosted
    <3>7. Moves(x, "pop")
      BY <3>1, <3>4, PipeMoves
    <3>8. /\ Joining' = Joining /\ Popping' = Popping + 1
          /\ Returned' = Returned /\ Giving' = Giving
      BY <1>n, <3>1, <3>7 DEF Moves, One, At
    <3>9. PipeCounts'
      BY <1>9, <2>1, <3>1, <3>2, <1>n, <1>t, <3>6, <3>8 DEF PipeCounts
    <3> QED
      BY <3>4, <3>5, <3>9
  <2>2. CASE ~(waiting > 0)
    <3>1. /\ pc[x] = "fast" /\ Goto(x, "lock")
          /\ UNCHANGED <<posted, mutex, prepared, waiting, waiters, elements, moved>>
      BY <1>9, <2>2 DEF ProducerFast, At, pipeVars
    <3>2. /\ pc'[x] = "lock" /\ x \in Actors /\ pc' \in [Actors -> {"idle", "fast", "lock", "slow", "count", "suspended", "resumed", "pop"}]
          /\ \A y \in Actors : y # x => pc'[y] = pc[y]
      BY <3>1, <1>t DEF Goto
    <3>4. PipeTypes'
      BY <3>1, <3>2, <1>t DEF PipeTypes, PipeTypeOK
    <3>5. PipePlaces'
      <4>1. Locked'
        BY <3>1, <3>2, <1>t DEF Locked, PipePlaces
      <4>2. OnTheirWay'
        BY <3>1, <3>2, <1>t DEF OnTheirWay, PipePlaces, Listed
      <4>3. Listed'
        BY <3>1, <3>2, <1>t, <1>w DEF Listed, PipePlaces
      <4>4. ListedOnce'
        BY <3>1, <3>2, <1>t DEF ListedOnce, PipePlaces, Listed
      <4>5. Asking'
        BY <3>1, <3>2, <1>t DEF Asking, PipePlaces
      <4> QED
        BY <4>1, <4>2, <4>3, <4>4, <4>5 DEF PipePlaces
    <3>6. Posted' = Posted
      BY <3>1, <3>2, PipePosted
    <3>7. Moves(x, "lock")
      BY <3>1, <3>4, PipeMoves
    <3>8. /\ Joining' = Joining /\ Popping' = Popping
          /\ Returned' = Returned /\ Giving' = Giving
      BY <1>n, <3>1, <3>7 DEF Moves, One, At
    <3>9. PipeCounts'
      BY <1>9, <2>2, <3>1, <3>2, <1>n, <1>t, <3>6, <3>8 DEF PipeCounts
    <3> QED
      BY <3>4, <3>5, <3>9
  <2> QED
    BY <2>1, <2>2
<1>10. ASSUME NEW x \in Producers, ProducerPop(x) PROVE PipeInv'
  <2>1. /\ pc[x] = "pop" /\ Goto(x, "idle")
        /\ mutex = Nobody /\ UNCHANGED mutex
        /\ waiters # <<>> /\ waiters' = Tail(waiters)
        /\ posted' = posted \cup {Head(waiters)}
        /\ UNCHANGED <<prepared, waiting, elements, moved>>
    BY <1>10 DEF ProducerPop, At, PopWaiter, DispatchHandle
  <2>2. /\ pc'[x] = "idle" /\ x \in Actors /\ pc' \in [Actors -> {"idle", "fast", "lock", "slow", "count", "suspended", "resumed", "pop"}]
        /\ \A y \in Actors : y # x => pc'[y] = pc[y]
    BY <2>1, <1>t DEF Goto
  <2>3. /\ waiters' \in Seq(Consumers) /\ Len(waiters') = Len(waiters) - 1
        /\ Head(waiters) = waiters[1] /\ Head(waiters) \in Consumers /\ 1 \in DOMAIN waiters
        /\ \A i \in DOMAIN waiters' : i + 1 \in DOMAIN waiters /\ waiters'[i] = waiters[i + 1] /\ i + 1 # 1 /\ i \in Nat
    BY <2>1, <1>t, TailFacts
  <2>h. Head(waiters) \notin posted /\ pc[Head(waiters)] = "suspended" /\ pc'[Head(waiters)] = "suspended"
    BY <2>1, <2>2, <2>3, <1>t DEF PipePlaces, Locked, Listed
  <2>o. \A i \in DOMAIN waiters' : waiters[i + 1] # Head(waiters)
    BY <2>3 DEF PipePlaces, ListedOnce
  <2>4. PipeTypes'
    BY <2>1, <2>2, <2>3, <2>h, <2>o, <1>t DEF PipeTypes, PipeTypeOK
  <2>5. PipePlaces'
    <3>1. Locked'
      BY <2>1, <2>2, <2>3, <2>h, <2>o, <1>t DEF Locked, PipePlaces
    <3>2. OnTheirWay'
      BY <2>1, <2>2, <2>3, <2>h, <2>o, <1>t DEF OnTheirWay, PipePlaces, Listed
    <3>3. Listed'
      BY <2>1, <2>2, <2>3, <2>h, <2>o, <1>t, <1>w DEF Listed, PipePlaces, Locked
    <3>4. ListedOnce'
      BY <2>1, <2>2, <2>3, <2>h, <2>o, <1>t DEF ListedOnce, PipePlaces, Listed
    <3>5. Asking'
      BY <2>1, <2>2, <2>3, <2>h, <2>o, <1>t DEF Asking, PipePlaces
    <3> QED
      BY <3>1, <3>2, <3>3, <3>4, <3>5 DEF PipePlaces
  <2>6. Posted' = Posted + 1
    BY <2>1, <2>2, <2>3, <2>h, <2>o, PipePosted
  <2>7. Moves(x, "idle")
    BY <2>1, <2>4, PipeMoves
  <2>8. /\ Joining' = Joining /\ Popping' = Popping - 1
        /\ Returned' = Returned /\ Giving' = Giving - 1
    BY <1>n, <2>1, <2>7 DEF Moves, One, At
  <2>9. PipeCounts'
    BY <2>1, <2>2, <2>3, <2>h, <2>o, <1>n, <1>t, <2>6, <2>8 DEF PipeCounts
  <2> QED
    BY <2>4, <2>5, <2>9
<1>11. ASSUME NEW x \in Producers, ProducerSlow(x) PROVE PipeInv'
  <2>1. CASE waiting > 0
    <3>1. /\ pc[x] = "slow" /\ Goto(x, "idle")
          /\ mutex = x /\ mutex' = Nobody
          /\ waiting' = waiting - 1
          /\ waiters # <<>> /\ waiters' = Tail(waiters)
          /\ posted' = posted \cup {Head(waiters)}
          /\ UNCHANGED <<prepared, elements, moved>>
      BY <1>11, <2>1 DEF ProducerSlow, At, PopWaiter, DispatchHandle, Unlock
    <3>2. /\ pc'[x] = "idle" /\ x \in Actors /\ pc' \in [Actors -> {"idle", "fast", "lock", "slow", "count", "suspended", "resumed", "pop"}]
          /\ \A y \in Actors : y # x => pc'[y] = pc[y]
      BY <3>1, <1>t DEF Goto
    <3>3. /\ waiters' \in Seq(Consumers) /\ Len(waiters') = Len(waiters) - 1
          /\ Head(waiters) = waiters[1] /\ Head(waiters) \in Consumers /\ 1 \in DOMAIN waiters
          /\ \A i \in DOMAIN waiters' : i + 1 \in DOMAIN waiters /\ waiters'[i] = waiters[i + 1] /\ i + 1 # 1 /\ i \in Nat
      BY <3>1, <1>t, TailFacts
    <3>h. Head(waiters) \notin posted /\ pc[Head(waiters)] = "suspended" /\ pc'[Head(waiters)] = "suspended"
      <4>1. pc[Head(waiters)] \in {"count", "suspended"} /\ Head(waiters) \notin posted
        BY <3>3 DEF PipePlaces, Listed
      <4>2. Head(waiters) # x /\ pc[Head(waiters)] # "count"
        BY <3>1, <3>3, <4>1, <1>t DEF PipePlaces, Locked
      <4> QED
        BY <3>2, <3>3, <4>1, <4>2, <1>t
    <3>o. \A i \in DOMAIN waiters' : waiters[i + 1] # Head(waiters)
      BY <3>3 DEF PipePlaces, ListedOnce
    <3>c. waiting' \in Nat
      BY <1>11, <2>1, <3>1, <1>n
    <3>4. PipeTypes'
      BY <3>1, <3>2, <3>3, <3>h, <3>o, <3>c, <1>t DEF PipeTypes, PipeTypeOK
    <3>5. PipePlaces'
      <4>1. Locked'
        BY <3>1, <3>2, <3>3, <3>h, <3>o, <1>t DEF Locked, PipePlaces
      <4>2. OnTheirWay'
        BY <3>1, <3>2, <3>3, <3>h, <3>o, <1>t DEF OnTheirWay, PipePlaces, Listed
      <4>3. Listed'
        <5>1. \A i \in DOMAIN waiters' : /\ pc[waiters'[i]] \in {"count", "suspended"}
                                          /\ waiters'[i] \notin posted
                                          /\ waiters'[i] # Head(waiters)
          BY <3>3, <3>o DEF Listed, PipePlaces
        <5>2. \A i \in DOMAIN waiters' : waiters'[i] # x /\ waiters'[i] \in Actors
          BY <3>1, <5>1, <3>3, <1>t, <1>w
        <5> QED
          BY <3>1, <3>2, <5>1, <5>2 DEF Listed
      <4>4. ListedOnce'
        BY <3>1, <3>2, <3>3, <3>h, <3>o, <1>t DEF ListedOnce, PipePlaces, Listed
      <4>5. Asking'
        BY <3>1, <3>2, <3>3, <3>h, <3>o, <1>t DEF Asking, PipePlaces
      <4> QED
        BY <4>1, <4>2, <4>3, <4>4, <4>5 DEF PipePlaces
    <3>6. Posted' = Posted + 1
      BY <3>1, <3>2, <3>3, <3>h, <3>o, PipePosted
    <3>7. Moves(x, "idle")
      BY <3>1, <3>4, PipeMoves
    <3>8. /\ Joining' = Joining /\ Popping' = Popping
          /\ Returned' = Returned /\ Giving' = Giving - 1
      BY <1>n, <3>1, <3>7 DEF Moves, One, At
    <3>9. PipeCounts'
      BY <1>11, <2>1, <3>1, <3>2, <3>3, <3>h, <3>o, <1>n, <1>t, <3>6, <3>8 DEF PipeCounts
    <3> QED
      BY <3>4, <3>5, <3>9
  <2>2. CASE ~(waiting > 0)
    <3>1. /\ pc[x] = "slow" /\ Goto(x, "idle")
          /\ mutex = x /\ mutex' = Nobody
          /\ prepared' = prepared + 1
          /\ UNCHANGED <<posted, waiting, waiters, elements, moved>>
      BY <1>11, <2>2 DEF ProducerSlow, At, PopWaiter, DispatchHandle, Unlock
    <3>2. /\ pc'[x] = "idle" /\ x \in Actors /\ pc' \in [Actors -> {"idle", "fast", "lock", "slow", "count", "suspended", "resumed", "pop"}]
          /\ \A y \in Actors : y # x => pc'[y] = pc[y]
      BY <3>1, <1>t DEF Goto
    <3>c. prepared' \in Nat
      BY <1>11, <2>2, <3>1, <1>n
    <3>4. PipeTypes'
      BY <3>1, <3>2, <3>c, <1>t DEF PipeTypes, PipeTypeOK
    <3>5. PipePlaces'
      <4>1. Locked'
        BY <3>1, <3>2, <1>t DEF Locked, PipePlaces
      <4>2. OnTheirWay'
        BY <3>1, <3>2, <1>t DEF OnTheirWay, PipePlaces, Listed
      <4>3. Listed'
        BY <3>1, <3>2, <1>t, <1>w DEF Listed, PipePlaces
      <4>4. ListedOnce'
        BY <3>1, <3>2, <1>t DEF ListedOnce, PipePlaces, Listed
      <4>5. Asking'
        BY <3>1, <3>2, <1>t DEF Asking, PipePlaces
      <4> QED
        BY <4>1, <4>2, <4>3, <4>4, <4>5 DEF PipePlaces
    <3>6. Posted' = Posted
      BY <3>1, <3>2, PipePosted
    <3>7. Moves(x, "idle")
      BY <3>1, <3>4, PipeMoves
    <3>8. /\ Joining' = Joining /\ Popping' = Popping
          /\ Returned' = Returned /\ Giving' = Giving - 1
      BY <1>n, <3>1, <3>7 DEF Moves, One, At
    <3>9. PipeCounts'
      BY <1>11, <2>2, <3>1, <3>2, <1>n, <1>t, <3>6, <3>8 DEF PipeCounts
    <3> QED
      BY <3>4, <3>5, <3>9
  <2> QED
    BY <2>1, <2>2
<1>12. CASE UNCHANGED <<syncVars, pipeVars>>
  <2> USE <1>12 DEF syncVars, pipeVars
  <2>1. PipeTypes'
    BY DEF PipeTypes, PipeTypeOK
  <2>2. PipePlaces'
    BY DEF PipePlaces, Locked, OnTheirWay, Listed, ListedOnce, Asking
  <2>3. PipeCounts'
    BY DEF PipeCounts, Joining, Popping, Returned, Giving, Posted
  <2> QED
    BY <2>1, <2>2, <2>3
<1> QED
  BY <1>1, <1>2, <1>3, <1>4, <1>5, <1>6, <1>7, <1>8, <1>9, <1>10, <1>11, <1>12 DEF PipeNext, PipeInternal

\* Every producer that is to pop a waiter finds one, and every consumer that is
\* resumed finds an element (flush_waiting and flush_prepared of iris_pipe_t).
THEOREM PipeCountsRight == PipeSpec => []NeverPopsEmpty
<1>1. PipeInv => NeverPopsEmpty
  <2> SUFFICES ASSUME PipeInv PROVE NeverPopsEmpty
    OBVIOUS
  <2>1. /\ In(Consumers, pc, {"count"}) = {c \in Consumers : At(c, "count")}
        /\ In(Producers, pc, {"pop"}) = {p \in Producers : At(p, "pop")}
        /\ In(Consumers, pc, {"resumed"}) = {c \in Consumers : At(c, "resumed")}
        /\ In(Producers, pc, {"fast", "lock", "slow", "pop"}) =
             {p \in Producers : pc[p] \in {"fast", "lock", "slow", "pop"}}
        /\ posted \cap Consumers = posted
    BY DEF In, At, PipeInv, PipeTypes
  <2> QED
    BY <2>1 DEF PipeInv, PipeCounts, NeverPopsEmpty, Joining, Popping, Returned, Giving, Posted
<1> QED
  BY <1>1, PipeInvInit, PipeStep, PTL DEF PipeSpec

(***************************************************************************)
(* Quota queue                                                             *)
(***************************************************************************)
\* The types of the variables, and the steps that the code of a quota queue has.
QuotaTypes ==
  /\ pc \in [Actors -> {"idle", "take", "back", "lock", "suspended", "hold", "give", "walk"}]
  /\ mutex \in Actors \cup {Nobody}
  /\ posted \subseteq Users
  /\ QuotaTypeOK

\* c is inside an acquire that is part of one of these calls.
AsksIn(c, M) == pc[c] \in {"take", "back"} /\ mode[c] \in M

\* Who asks under the lock has it, and a waiter to ask for.
Lines == \A c \in Clients : AsksIn(c, {"retry", "wake"}) => mutex = c
Heads == \A c \in Clients : AsksIn(c, {"wake"}) => inLine # <<>>

\* Threads that only try never wait.
Kept ==
  \A c \in Tryers :
    /\ pc[c] \notin {"lock", "suspended"}
    /\ pc[c] \in {"take", "back"} => mode[c] \in {"try", "wake"}

\* Those on their way back are suspended.
OnWay == \A u \in posted : pc[u] = "suspended"

\* Those in line hold nothing, and wait there once.
InLine ==
  /\ \A i \in DOMAIN inLine :
       pc[inLine[i]] = "suspended" /\ inLine[i] \notin posted /\ held[inLine[i]] = {}
  /\ \A i, j \in DOMAIN inLine : inLine[i] = inLine[j] => i = j

\* Who asks for itself has nothing yet, who gives has what it gives.
Holdings ==
  \A c \in Clients :
    /\ pc[c] \in {"idle", "lock"} => held[c] = {}
    /\ AsksIn(c, {"guard", "try", "retry"}) => held[c] = {}
    /\ pc[c] = "give" => got[c] # {} /\ got[c] \subseteq held[c]

QuotaPlaces == Lines /\ Heads /\ Kept /\ OnWay /\ InLine /\ Holdings

QuotaInv == QuotaTypes /\ QuotaPlaces /\ Conserved

\* The smallest kind of a set is in it.
LEMMA MinIsIn ==
  ASSUME NEW K \in SUBSET Kinds, K # {}
  PROVE  Min(K) \in K
<1>1. \E x \in K : \A y \in K : x <= y
  BY QuotaAssumption, SmallestNumber
<1> QED
  BY <1>1 DEF Min

\* What each client has, as a function.
HasOf(k) == [c \in Clients |-> Has(c, k)]

\* What a client has is a natural number, and a request under way is of some client.
LEMMA HasType ==
  ASSUME QuotaTypes, Heads
  PROVE  /\ \A k \in Kinds, c \in Clients : Has(c, k) \in Nat
         /\ \A c \in Clients : AsksIn(c, Modes) => Served(c) \in Clients
<1>1. inLine # <<>> => Head(inLine) \in Users
  BY DEF QuotaTypes, QuotaTypeOK
<1>2. ASSUME NEW c \in Clients, pc[c] \in {"take", "back"} PROVE Served(c) \in Clients
  BY <1>1, <1>2 DEF Heads, AsksIn, Served, Clients
<1>3. \A c \in Clients, k \in Kinds : Request[c][k] \in Nat
  BY QuotaAssumption
<1> QED
  BY <1>2, <1>3 DEF Has, AsksIn

\* One client takes or gives a kind.
LEMMA OneChanges ==
  ASSUME QuotaInv, NEW k \in Kinds, NEW c \in Clients, Has(c, k)' \in Int, quantities'[k] \in Int,
         \A x \in Clients \ {c} : Has(x, k)' = Has(x, k),
         quantities'[k] + Has(c, k)' = quantities[k] + Has(c, k)
  PROVE  quantities'[k] + SumFunction(HasOf(k)') = Total[k]
<1> DEFINE f == HasOf(k)
           g == HasOf(k)'
<1>1. /\ \A x \in Clients : f[x] \in Int /\ g[x] \in Int
      /\ \A x \in Clients \ {c} : f[x] = g[x]
      /\ quantities'[k] + g[c] = quantities[k] + f[c]
      /\ f[c] \in Int /\ g[c] \in Int
  <2>1. \A x \in Clients : Has(x, k) \in Int
    BY HasType DEF QuotaInv, QuotaPlaces
  <2>2. \A x \in Clients : f[x] = Has(x, k) /\ g[x] = Has(x, k)'
    BY DEF HasOf
  <2> QED
    BY <2>1, <2>2
<1>2. quantities[k] + SumFunctionOnSet(f, Clients) = Total[k]
  BY DEF QuotaInv, Conserved, HasOf, SumFunction
<1>3. quantities[k] \in Int /\ quantities'[k] \in Int
  BY DEF QuotaInv, QuotaTypes, QuotaTypeOK
<1>4. DOMAIN g = Clients
  BY DEF HasOf
<1> HIDE DEF f, g
<1>5. SumFunctionOnSet(g, Clients) = SumFunctionOnSet(f, Clients) - f[c] + g[c]
  BY <1>1, QuotaAssumption, SumChange
<1>6. SumFunctionOnSet(f, Clients) \in Int
  BY <1>1, QuotaAssumption, SumType
<1>7. quantities'[k] + SumFunctionOnSet(g, Clients) = Total[k]
  BY <1>1, <1>2, <1>3, <1>5, <1>6
<1>8. quantities'[k] + SumFunction(g) = Total[k]
  BY <1>4, <1>7 DEF SumFunction
<1> QED
  BY <1>8 DEF g

\* Nobody's part changes but that of c.
OthersKeep(c) == \A x \in Clients \ {c} : \A k \in Kinds : Has(x, k)' = Has(x, k)

\* A client that is not at c's step keeps what it has: nobody else changes the line
\* while it asks for the first in it.
LEMMA OthersKept ==
  ASSUME QuotaInv, NEW c \in Clients,
         \A x \in Actors \ {c} : pc'[x] = pc[x],
         \A x \in Clients \ {c} : held'[x] = held[x] /\ got'[x] = got[x] /\ mode'[x] = mode[x],
         \A x \in Clients \ {c} : AsksIn(x, {"wake"}) => Head(inLine') = Head(inLine)
  PROVE  OthersKeep(c)
<1> SUFFICES ASSUME NEW x \in Clients \ {c}, NEW k \in Kinds PROVE Has(x, k)' = Has(x, k)
  BY DEF OthersKeep
<1>1. x \in Actors \ {c} /\ pc'[x] = pc[x]
  BY QuotaAssumption
<1>2. pc[x] \in {"take", "back"} => Served(x)' = Served(x)
  BY DEF Served, AsksIn
<1> QED
  BY <1>1, <1>2 DEF Has

\* At first nobody has any of the quota.
LEMMA QuotaInvInit ==
  ASSUME SyncInit, QuotaInit
  PROVE  QuotaInv
<1>1. QuotaTypes
  BY QuotaAssumption DEF SyncInit, QuotaInit, QuotaTypes, QuotaTypeOK, Modes
<1>2. QuotaPlaces
  BY QuotaAssumption
     DEF SyncInit, QuotaInit, QuotaPlaces, Lines, Heads, Kept, OnWay, InLine, Holdings, AsksIn, Clients
<1>3. Conserved
  <2> SUFFICES ASSUME NEW k \in Kinds
               PROVE  quantities[k] + SumFunction([c \in Clients |-> Has(c, k)]) = Total[k]
    BY DEF Conserved
  <2> DEFINE f == [c \in Clients |-> Has(c, k)]
  <2>1. \A c \in Clients : f[c] = 0
    BY QuotaAssumption DEF QuotaInit, SyncInit, Has
  <2>2. DOMAIN f = Clients
    OBVIOUS
  <2> HIDE DEF f
  <2>3. SumFunction(f) = 0
    BY <2>1, <2>2, QuotaAssumption, SumZero DEF SumFunction
  <2>4. quantities[k] = Total[k] /\ Total[k] \in Nat
    BY QuotaAssumption DEF QuotaInit
  <2>5. quantities[k] + SumFunction(f) = Total[k]
    BY <2>3, <2>4
  <2> QED
    BY <2>5 DEF f
<1> QED
  BY <1>1, <1>2, <1>3 DEF QuotaInv

\* The sums stay right.
LEMMA ConservedByOne ==
  ASSUME QuotaInv, NEW c \in Clients, OthersKeep(c),
         \A k \in Kinds : /\ Has(c, k)' \in Int /\ quantities'[k] \in Int
                          /\ quantities'[k] + Has(c, k)' = quantities[k] + Has(c, k)
  PROVE  Conserved'
<1> SUFFICES ASSUME NEW k \in Kinds PROVE quantities'[k] + SumFunction(HasOf(k)') = Total[k]
  BY DEF Conserved, HasOf
<1> QED
  BY OneChanges DEF OthersKeep

\* What one client has taken goes to another one.
LEMMA ConservedByTwo ==
  ASSUME QuotaInv, NEW c \in Clients, NEW v \in Clients, c # v,
         \A x \in Clients \ {c, v} : \A k \in Kinds : Has(x, k)' = Has(x, k),
         quantities' = quantities,
         \A k \in Kinds : /\ Has(c, k)' \in Int /\ Has(v, k)' \in Int
                          /\ Has(c, k)' + Has(v, k)' = Has(c, k) + Has(v, k)
  PROVE  Conserved'
<1> SUFFICES ASSUME NEW k \in Kinds PROVE quantities'[k] + SumFunction(HasOf(k)') = Total[k]
  BY DEF Conserved, HasOf
<1> DEFINE f == HasOf(k)
           g == HasOf(k)'
           h == [x \in Clients |-> IF x = c THEN g[c] ELSE f[x]]
<1>1. \A x \in Clients : Has(x, k) \in Int
  BY HasType DEF QuotaInv, QuotaPlaces
<1>2. \A x \in Clients : f[x] = Has(x, k) /\ g[x] = Has(x, k)'
  BY DEF HasOf
<1>3. /\ \A x \in Clients : f[x] \in Int /\ g[x] \in Int
      /\ \A x \in Clients \ {c, v} : f[x] = g[x]
      /\ g[c] + g[v] = f[c] + f[v]
  BY <1>1, <1>2
<1>4. quantities[k] + SumFunctionOnSet(f, Clients) = Total[k] /\ DOMAIN g = Clients
  BY DEF QuotaInv, Conserved, HasOf, SumFunction
<1>5. /\ \A x \in Clients : h[x] \in Int
      /\ \A x \in Clients \ {c} : f[x] = h[x]
      /\ \A x \in Clients \ {v} : h[x] = g[x]
      /\ h[c] = g[c] /\ h[v] = f[v]
  BY <1>3
<1> HIDE DEF f, g, h
<1>6. SumFunctionOnSet(h, Clients) = SumFunctionOnSet(f, Clients) - f[c] + h[c]
  BY <1>3, <1>5, QuotaAssumption, SumChange
<1>7. SumFunctionOnSet(g, Clients) = SumFunctionOnSet(h, Clients) - h[v] + g[v]
  BY <1>3, <1>5, QuotaAssumption, SumChange
<1>8. SumFunctionOnSet(f, Clients) \in Int /\ SumFunctionOnSet(h, Clients) \in Int
  BY <1>3, <1>5, QuotaAssumption, SumType
<1>9. SumFunctionOnSet(g, Clients) = SumFunctionOnSet(f, Clients)
  <2> DEFINE F == SumFunctionOnSet(f, Clients)
             H == SumFunctionOnSet(h, Clients)
             G == SumFunctionOnSet(g, Clients)
             fc == f[c]
             fv == f[v]
             gc == g[c]
             gv == g[v]
  <2>1. F \in Int /\ H \in Int /\ fc \in Int /\ fv \in Int /\ gc \in Int /\ gv \in Int
    BY <1>3, <1>8
  <2>2. H = F - fc + gc /\ G = H - fv + gv /\ gc + gv = fc + fv
    BY <1>3, <1>5, <1>6, <1>7
  <2> HIDE DEF F, G, H, fc, fv, gc, gv
  <2>3. G = F
    BY <2>1, <2>2
  <2> QED
    BY <2>3 DEF F, G
<1>10. quantities'[k] + SumFunction(g) = Total[k]
  BY <1>4, <1>9 DEF SumFunction
<1> QED
  BY <1>10 DEF g

\* Every step keeps the order of the queue, and what there is of each kind.
LEMMA QuotaStep == QuotaInv /\ [QuotaNext]_<<syncVars, quotaVars>> => QuotaInv'
<1> SUFFICES ASSUME QuotaInv, [QuotaNext]_<<syncVars, quotaVars>> PROVE QuotaInv'
  OBVIOUS
<1> USE QuotaAssumption DEF QuotaInv
<1>t. /\ pc \in [Actors -> {"idle", "take", "back", "lock", "suspended", "hold", "give", "walk"}]
      /\ quantities \in [Kinds -> Nat]
      /\ inLine \in Seq(Users)
      /\ mode \in [Clients -> Modes]
      /\ got \in [Clients -> SUBSET Kinds] /\ held \in [Clients -> SUBSET Kinds]
      /\ requests \in [Clients -> 0..MaxRequests]
      /\ posted \subseteq Users
      /\ \A c \in Clients : c \in Actors
  BY DEF QuotaTypes, QuotaTypeOK
<1>i. \A i \in DOMAIN inLine : inLine[i] \in Users /\ inLine[i] \in Clients
  BY DEF QuotaTypes, QuotaTypeOK, Clients
<1>h. /\ \A c \in Clients, k \in Kinds : Has(c, k) \in Nat
      /\ \A c \in Clients : AsksIn(c, Modes) => Served(c) \in Clients
  BY HasType DEF QuotaPlaces
<1>r. \A c \in Clients, k \in Kinds : Request[c][k] \in Nat
  OBVIOUS
<1>1. ASSUME NEW c \in Clients, Acquire(c) PROVE QuotaInv'
  <2>1. /\ pc[c] = "idle" /\ pc' = [pc EXCEPT ![c] = "take"]
        /\ requests' = [requests EXCEPT ![c] = @ + 1]
        /\ requests[c] < MaxRequests
        /\ mode' = [mode EXCEPT ![c] = IF c \in Users THEN "guard" ELSE "try"]
        /\ got' = [got EXCEPT ![c] = {}]
        /\ UNCHANGED <<posted, mutex, quantities, inLine, held>>
    BY <1>1 DEF Acquire, At, Goto, Begin
  <2>2. /\ pc'[c] = "take"
        /\ \A x \in Actors : x # c => pc'[x] = pc[x]
        /\ \A x \in Clients : x # c => mode'[x] = mode[x]
        /\ mode'[c] = IF c \in Users THEN "guard" ELSE "try"
        /\ \A x \in Clients : x # c => got'[x] = got[x]
        /\ got'[c] = {}
    BY <2>1, <1>t
  <2>p. pc' \in [Actors -> {"idle", "take", "back", "lock", "suspended", "hold", "give", "walk"}]
    BY <2>1, <1>t
  <2>3. QuotaTypes'
    BY <2>1, <2>2, <2>p, <1>t DEF QuotaTypes, QuotaTypeOK, Modes, Asked, QuotaPlaces, Kept, Clients
  <2>4. QuotaPlaces'
    <3>1. Lines'
      BY <2>1, <2>2, <1>t DEF Lines, QuotaPlaces, AsksIn
    <3>2. Heads'
      BY <2>1, <2>2, <1>t DEF Heads, QuotaPlaces, AsksIn
    <3>3. Kept'
      BY <2>1, <2>2, <1>t DEF Kept, QuotaPlaces, AsksIn, Clients
    <3>4. OnWay'
      BY <2>1, <2>2, <1>t DEF OnWay, QuotaPlaces, AsksIn
    <3>5. InLine'
      BY <2>1, <2>2, <1>t, <1>i DEF InLine, QuotaPlaces, AsksIn, Holdings, AsksIn
    <3>6. Holdings'
      BY <2>1, <2>2, <1>t DEF Holdings, QuotaPlaces, AsksIn
    <3> QED
      BY <3>1, <3>2, <3>3, <3>4, <3>5, <3>6 DEF QuotaPlaces
  <2>x. OthersKeep(c)
    BY <2>1, <2>2, <1>t, OthersKept DEF QuotaPlaces, Heads
  <2>5. Conserved'
    <3>1. ASSUME NEW k \in Kinds
          PROVE  /\ Has(c, k)' \in Int /\ quantities'[k] \in Int
                 /\ quantities'[k] + Has(c, k)' = quantities[k] + Has(c, k)
      BY <2>1, <2>2, <1>t, <1>h, <1>r DEF Has, Served, Missing, Asked, QuotaPlaces, Holdings, AsksIn
    <3> QED
      BY <2>x, <3>1, ConservedByOne
  <2> QED
    BY <2>3, <2>4, <2>5
<1>2. ASSUME NEW c \in Clients, TakeKind(c) PROVE QuotaInv'
  <2>1. CASE quantities[Min(Missing(c))] < Request[Served(c)][Min(Missing(c))]
    <3>1. /\ pc[c] = "take" /\ pc' = [pc EXCEPT ![c] = "back"]
          /\ UNCHANGED <<posted, mutex, quantities, inLine, mode, got, held, requests>>
      BY <1>2, <2>1 DEF TakeKind, At, Goto, Missing
    <3>2. /\ pc'[c] = "back"
          /\ \A x \in Actors : x # c => pc'[x] = pc[x]
      BY <3>1, <1>t
    <3>p. pc' \in [Actors -> {"idle", "take", "back", "lock", "suspended", "hold", "give", "walk"}]
      BY <3>1, <1>t
    <3>3. QuotaTypes'
      BY <3>1, <3>2, <3>p, <1>t DEF QuotaTypes, QuotaTypeOK, Modes, Asked, QuotaPlaces, Kept, Clients
    <3>4. QuotaPlaces'
      <4>1. Lines'
        BY <3>1, <3>2, <1>t DEF Lines, QuotaPlaces, AsksIn
      <4>2. Heads'
        BY <3>1, <3>2, <1>t DEF Heads, QuotaPlaces, AsksIn
      <4>3. Kept'
        BY <3>1, <3>2, <1>t DEF Kept, QuotaPlaces, AsksIn, Clients
      <4>4. OnWay'
        BY <3>1, <3>2, <1>t DEF OnWay, QuotaPlaces, AsksIn
      <4>5. InLine'
        BY <3>1, <3>2, <1>t, <1>i DEF InLine, QuotaPlaces, AsksIn, Holdings, AsksIn
      <4>6. Holdings'
        BY <3>1, <3>2, <1>t DEF Holdings, QuotaPlaces, AsksIn
      <4> QED
        BY <4>1, <4>2, <4>3, <4>4, <4>5, <4>6 DEF QuotaPlaces
    <3>x. OthersKeep(c)
      BY <3>1, <3>2, <1>t, OthersKept DEF QuotaPlaces, Heads
    <3>5. Conserved'
      <4>1. ASSUME NEW k \in Kinds
            PROVE  /\ Has(c, k)' \in Int /\ quantities'[k] \in Int
                   /\ quantities'[k] + Has(c, k)' = quantities[k] + Has(c, k)
        BY <3>1, <3>2, <1>t, <1>h, <1>r DEF Has, Served, Missing, Asked, QuotaPlaces, Holdings, AsksIn
      <4> QED
        BY <3>x, <4>1, ConservedByOne
    <3> QED
      BY <3>3, <3>4, <3>5
  <2>2. CASE ~(quantities[Min(Missing(c))] < Request[Served(c)][Min(Missing(c))])
    <3>1. /\ pc[c] = "take"
          /\ Missing(c) # {}
          /\ quantities' = [quantities EXCEPT ![Min(Missing(c))] = @ - Request[Served(c)][Min(Missing(c))]]
          /\ got' = [got EXCEPT ![c] = @ \cup {Min(Missing(c))}]
          /\ UNCHANGED <<pc, posted, mutex, inLine, mode, held, requests>>
      BY <1>2, <2>2 DEF TakeKind, At, Goto, Missing
    <3>e. AsksIn(c, Modes)
      BY <3>1, <1>t DEF AsksIn
    <3>s. Served(c) \in Clients
      BY <3>e, <1>h
    <3>i. Min(Missing(c)) \in Missing(c) /\ Missing(c) \subseteq Kinds
      BY <3>1, MinIsIn DEF Missing, Asked
    <3>q. Request[Served(c)][Min(Missing(c))] \in Nat
      BY <3>s, <3>i, <1>r
    <3>u. quantities[Min(Missing(c))] \in Nat /\ Min(Missing(c)) \in Kinds
      BY <3>s, <3>i, <1>t
    <3>m. /\ Min(Missing(c)) \in Kinds /\ Min(Missing(c)) \notin got[c] /\ Served(c) \in Clients
          /\ Request[Served(c)][Min(Missing(c))] \in Nat /\ quantities[Min(Missing(c))] \in Nat
          /\ quantities[Min(Missing(c))] - Request[Served(c)][Min(Missing(c))] \in Nat
      BY <2>2, <3>s, <3>i, <3>q, <3>u DEF Missing
    <3>2. /\ pc'[c] = "take"
          /\ \A x \in Actors : x # c => pc'[x] = pc[x]
          /\ \A x \in Clients : x # c => got'[x] = got[x]
          /\ got'[c] = got[c] \cup {Min(Missing(c))}
      BY <3>1, <3>m, <1>t
    <3>p. pc' \in [Actors -> {"idle", "take", "back", "lock", "suspended", "hold", "give", "walk"}]
      BY <3>1, <1>t
    <3>3. QuotaTypes'
      BY <3>1, <3>m, <3>2, <3>p, <1>t DEF QuotaTypes, QuotaTypeOK, Modes, Asked, QuotaPlaces, Kept, Clients
    <3>4. QuotaPlaces'
      <4>1. Lines'
        BY <3>1, <3>m, <3>2, <1>t DEF Lines, QuotaPlaces, AsksIn
      <4>2. Heads'
        BY <3>1, <3>m, <3>2, <1>t DEF Heads, QuotaPlaces, AsksIn
      <4>3. Kept'
        BY <3>1, <3>m, <3>2, <1>t DEF Kept, QuotaPlaces, AsksIn, Clients
      <4>4. OnWay'
        BY <3>1, <3>m, <3>2, <1>t DEF OnWay, QuotaPlaces, AsksIn
      <4>5. InLine'
        BY <3>1, <3>m, <3>2, <1>t, <1>i DEF InLine, QuotaPlaces, AsksIn, Holdings, AsksIn
      <4>6. Holdings'
        BY <3>1, <3>m, <3>2, <1>t DEF Holdings, QuotaPlaces, AsksIn
      <4> QED
        BY <4>1, <4>2, <4>3, <4>4, <4>5, <4>6 DEF QuotaPlaces
    <3>x. OthersKeep(c)
      BY <3>1, <3>m, <3>2, <1>t, OthersKept DEF QuotaPlaces, Heads
    <3>5. Conserved'
      <4>1. ASSUME NEW k \in Kinds
            PROVE  /\ Has(c, k)' \in Int /\ quantities'[k] \in Int
                   /\ quantities'[k] + Has(c, k)' = quantities[k] + Has(c, k)
        <5> DEFINE n == IF k \in held[c] THEN Request[c][k] ELSE 0
        <5>1. n \in Nat /\ quantities[k] \in Nat /\ Has(c, k) \in Nat
          BY <1>t, <1>h, <1>r
        <5>2. CASE k # Min(Missing(c))
          <6>1. quantities'[k] = quantities[k] /\ (k \in got'[c] <=> k \in got[c])
            BY <3>1, <3>m, <3>2, <5>2, <1>t
          <6>2. Has(c, k)' = Has(c, k)
            BY <3>1, <3>m, <3>2, <6>1 DEF Has, Served
          <6> QED
            BY <5>1, <6>1, <6>2
        <5>3. CASE k = Min(Missing(c))
          <6>1. quantities'[k] = quantities[k] - Request[Served(c)][k]
            BY <3>1, <3>m, <3>2, <5>3, <1>t
          <6>2. Has(c, k) = n + 0 /\ Has(c, k)' = n + Request[Served(c)][k]
            BY <3>1, <3>m, <3>2, <5>3 DEF Has, Served
          <6> QED
            BY <3>m, <5>1, <5>3, <6>1, <6>2
        <5> QED
          BY <5>2, <5>3
      <4> QED
        BY <3>x, <4>1, ConservedByOne
    <3> QED
      BY <3>3, <3>4, <3>5
  <2> QED
    BY <2>1, <2>2
<1>3. ASSUME NEW c \in Clients, GiveBack(c) PROVE QuotaInv'
  <2>1. /\ pc[c] = "back"
        /\ got[c] # {}
        /\ quantities' = [quantities EXCEPT ![Min(got[c])] = @ + Request[Served(c)][Min(got[c])]]
        /\ got' = [got EXCEPT ![c] = @ \ {Min(got[c])}]
        /\ UNCHANGED <<pc, posted, mutex, inLine, mode, held, requests>>
    BY <1>3 DEF GiveBack, At, Goto
  <2>e. AsksIn(c, Modes)
    BY <2>1, <1>t DEF AsksIn
  <2>s. Served(c) \in Clients
    BY <2>e, <1>h
  <2>i. Min(got[c]) \in got[c] /\ got[c] \subseteq Kinds
    BY <2>1, <1>t, MinIsIn
  <2>q. Request[Served(c)][Min(got[c])] \in Nat
    BY <2>s, <2>i, <1>r
  <2>u. quantities[Min(got[c])] \in Nat /\ Min(got[c]) \in Kinds
    BY <2>s, <2>i, <1>t
  <2>m. /\ Min(got[c]) \in Kinds /\ Min(got[c]) \in got[c] /\ Served(c) \in Clients
        /\ Request[Served(c)][Min(got[c])] \in Nat /\ quantities[Min(got[c])] \in Nat
        /\ quantities[Min(got[c])] + Request[Served(c)][Min(got[c])] \in Nat
    BY <2>s, <2>i, <2>q, <2>u
  <2>2. /\ pc'[c] = "back"
        /\ \A x \in Actors : x # c => pc'[x] = pc[x]
        /\ \A x \in Clients : x # c => got'[x] = got[x]
        /\ got'[c] = got[c] \ {Min(got[c])}
    BY <2>1, <2>m, <1>t
  <2>p. pc' \in [Actors -> {"idle", "take", "back", "lock", "suspended", "hold", "give", "walk"}]
    BY <2>1, <1>t
  <2>3. QuotaTypes'
    BY <2>1, <2>m, <2>2, <2>p, <1>t DEF QuotaTypes, QuotaTypeOK, Modes, Asked, QuotaPlaces, Kept, Clients
  <2>4. QuotaPlaces'
    <3>1. Lines'
      BY <2>1, <2>m, <2>2, <1>t DEF Lines, QuotaPlaces, AsksIn
    <3>2. Heads'
      BY <2>1, <2>m, <2>2, <1>t DEF Heads, QuotaPlaces, AsksIn
    <3>3. Kept'
      BY <2>1, <2>m, <2>2, <1>t DEF Kept, QuotaPlaces, AsksIn, Clients
    <3>4. OnWay'
      BY <2>1, <2>m, <2>2, <1>t DEF OnWay, QuotaPlaces, AsksIn
    <3>5. InLine'
      BY <2>1, <2>m, <2>2, <1>t, <1>i DEF InLine, QuotaPlaces, AsksIn, Holdings, AsksIn
    <3>6. Holdings'
      BY <2>1, <2>m, <2>2, <1>t DEF Holdings, QuotaPlaces, AsksIn
    <3> QED
      BY <3>1, <3>2, <3>3, <3>4, <3>5, <3>6 DEF QuotaPlaces
  <2>x. OthersKeep(c)
    BY <2>1, <2>m, <2>2, <1>t, OthersKept DEF QuotaPlaces, Heads
  <2>5. Conserved'
    <3>1. ASSUME NEW k \in Kinds
          PROVE  /\ Has(c, k)' \in Int /\ quantities'[k] \in Int
                 /\ quantities'[k] + Has(c, k)' = quantities[k] + Has(c, k)
      <4> DEFINE n == IF k \in held[c] THEN Request[c][k] ELSE 0
      <4>1. n \in Nat /\ quantities[k] \in Nat /\ Has(c, k) \in Nat
        BY <1>t, <1>h, <1>r
      <4>2. CASE k # Min(got[c])
        <5>1. quantities'[k] = quantities[k] /\ (k \in got'[c] <=> k \in got[c])
          BY <2>1, <2>m, <2>2, <4>2, <1>t
        <5>2. Has(c, k)' = Has(c, k)
          BY <2>1, <2>m, <2>2, <5>1 DEF Has, Served
        <5> QED
          BY <4>1, <5>1, <5>2
      <4>3. CASE k = Min(got[c])
        <5>1. quantities'[k] = quantities[k] + Request[Served(c)][k]
          BY <2>1, <2>m, <2>2, <4>3, <1>t
        <5>2. Has(c, k) = n + Request[Served(c)][k] /\ Has(c, k)' = n + 0
          BY <2>1, <2>m, <2>2, <4>3 DEF Has, Served
        <5> QED
          BY <2>m, <4>1, <4>3, <5>1, <5>2
      <4> QED
        BY <4>2, <4>3
    <3> QED
      BY <2>x, <3>1, ConservedByOne
  <2> QED
    BY <2>3, <2>4, <2>5
<1>4. ASSUME NEW c \in Clients, Granted(c) PROVE QuotaInv'
  <2>1. /\ pc[c] = "take" /\ pc' = [pc EXCEPT ![c] = "hold"]
        /\ Missing(c) = {} /\ mode[c] \in {"guard", "try"}
        /\ held' = [held EXCEPT ![c] = Asked(c)]
        /\ got' = [got EXCEPT ![c] = {}]
        /\ UNCHANGED <<posted, mutex, quantities, inLine, mode, requests>>
    BY <1>4 DEF Granted, At, Goto, Taken, Keep
  <2>2. /\ pc'[c] = "hold"
        /\ \A x \in Actors : x # c => pc'[x] = pc[x]
        /\ \A x \in Clients : x # c => got'[x] = got[x]
        /\ got'[c] = {}
        /\ \A x \in Clients : x # c => held'[x] = held[x]
        /\ held'[c] = Asked(c)
    BY <2>1, <1>t
  <2>p. pc' \in [Actors -> {"idle", "take", "back", "lock", "suspended", "hold", "give", "walk"}]
    BY <2>1, <1>t
  <2>3. QuotaTypes'
    BY <2>1, <2>2, <2>p, <1>t DEF QuotaTypes, QuotaTypeOK, Modes, Asked, QuotaPlaces, Kept, Clients
  <2>4. QuotaPlaces'
    <3>1. Lines'
      BY <2>1, <2>2, <1>t DEF Lines, QuotaPlaces, AsksIn
    <3>2. Heads'
      BY <2>1, <2>2, <1>t DEF Heads, QuotaPlaces, AsksIn
    <3>3. Kept'
      BY <2>1, <2>2, <1>t DEF Kept, QuotaPlaces, AsksIn, Clients
    <3>4. OnWay'
      BY <2>1, <2>2, <1>t DEF OnWay, QuotaPlaces, AsksIn
    <3>5. InLine'
      BY <2>1, <2>2, <1>t, <1>i DEF InLine, QuotaPlaces, AsksIn, Holdings, AsksIn
    <3>6. Holdings'
      BY <2>1, <2>2, <1>t DEF Holdings, QuotaPlaces, AsksIn
    <3> QED
      BY <3>1, <3>2, <3>3, <3>4, <3>5, <3>6 DEF QuotaPlaces
  <2>x. OthersKeep(c)
    BY <2>1, <2>2, <1>t, OthersKept DEF QuotaPlaces, Heads
  <2>5. Conserved'
    <3>1. ASSUME NEW k \in Kinds
          PROVE  /\ Has(c, k)' \in Int /\ quantities'[k] \in Int
                 /\ quantities'[k] + Has(c, k)' = quantities[k] + Has(c, k)
      BY <2>1, <2>2, <1>t, <1>h, <1>r DEF Has, Served, Missing, Asked, QuotaPlaces, Holdings, AsksIn
    <3> QED
      BY <2>x, <3>1, ConservedByOne
  <2> QED
    BY <2>3, <2>4, <2>5
<1>5. ASSUME NEW c \in Clients, Refused(c) PROVE QuotaInv'
  <2>1. /\ pc[c] = "back" /\ pc' = [pc EXCEPT ![c] = IF mode[c] = "try" THEN "idle" ELSE "lock"]
        /\ got[c] = {} /\ mode[c] \in {"guard", "try"}
        /\ UNCHANGED <<posted, mutex, quantities, inLine, mode, got, held, requests>>
    BY <1>5 DEF Refused, At, Goto, Failed
  <2>2. /\ pc'[c] = IF mode[c] = "try" THEN "idle" ELSE "lock"
        /\ \A x \in Actors : x # c => pc'[x] = pc[x]
        /\ pc'[c] = "lock" => mode[c] = "guard"
    BY <2>1, <1>t
  <2>p. pc' \in [Actors -> {"idle", "take", "back", "lock", "suspended", "hold", "give", "walk"}]
    BY <2>1, <1>t
  <2>3. QuotaTypes'
    BY <2>1, <2>2, <2>p, <1>t DEF QuotaTypes, QuotaTypeOK, Modes, Asked, QuotaPlaces, Kept, Clients
  <2>4. QuotaPlaces'
    <3>1. Lines'
      BY <2>1, <2>2, <1>t DEF Lines, QuotaPlaces, AsksIn
    <3>2. Heads'
      BY <2>1, <2>2, <1>t DEF Heads, QuotaPlaces, AsksIn
    <3>3. Kept'
      BY <2>1, <2>2, <1>t DEF Kept, QuotaPlaces, AsksIn, Clients
    <3>4. OnWay'
      BY <2>1, <2>2, <1>t DEF OnWay, QuotaPlaces, AsksIn
    <3>5. InLine'
      BY <2>1, <2>2, <1>t, <1>i DEF InLine, QuotaPlaces, AsksIn, Holdings, AsksIn
    <3>6. Holdings'
      BY <2>1, <2>2, <1>t DEF Holdings, QuotaPlaces, AsksIn
    <3> QED
      BY <3>1, <3>2, <3>3, <3>4, <3>5, <3>6 DEF QuotaPlaces
  <2>x. OthersKeep(c)
    BY <2>1, <2>2, <1>t, OthersKept DEF QuotaPlaces, Heads
  <2>5. Conserved'
    <3>1. ASSUME NEW k \in Kinds
          PROVE  /\ Has(c, k)' \in Int /\ quantities'[k] \in Int
                 /\ quantities'[k] + Has(c, k)' = quantities[k] + Has(c, k)
      BY <2>1, <2>2, <1>t, <1>h, <1>r DEF Has, Served, Missing, Asked, QuotaPlaces, Holdings, AsksIn
    <3> QED
      BY <2>x, <3>1, ConservedByOne
  <2> QED
    BY <2>3, <2>4, <2>5
<1>6. ASSUME NEW c \in Clients, AcquireQueued(c) PROVE QuotaInv'
  <2>1. /\ pc[c] = "lock" /\ pc' = [pc EXCEPT ![c] = "take"]
        /\ mutex = Nobody /\ mutex' = c
        /\ mode' = [mode EXCEPT ![c] = "retry"]
        /\ got' = [got EXCEPT ![c] = {}]
        /\ UNCHANGED <<posted, quantities, inLine, held, requests>>
    BY <1>6 DEF AcquireQueued, At, Goto, Lock, Begin
  <2>2. /\ pc'[c] = "take"
        /\ \A x \in Actors : x # c => pc'[x] = pc[x]
        /\ \A x \in Clients : x # c => mode'[x] = mode[x]
        /\ mode'[c] = "retry"
        /\ \A x \in Clients : x # c => got'[x] = got[x]
        /\ got'[c] = {}
    BY <2>1, <1>t
  <2>p. pc' \in [Actors -> {"idle", "take", "back", "lock", "suspended", "hold", "give", "walk"}]
    BY <2>1, <1>t
  <2>3. QuotaTypes'
    BY <2>1, <2>2, <2>p, <1>t DEF QuotaTypes, QuotaTypeOK, Modes, Asked, QuotaPlaces, Kept, Clients
  <2>4. QuotaPlaces'
    <3>1. Lines'
      BY <2>1, <2>2, <1>t DEF Lines, QuotaPlaces, AsksIn
    <3>2. Heads'
      BY <2>1, <2>2, <1>t DEF Heads, QuotaPlaces, AsksIn
    <3>3. Kept'
      BY <2>1, <2>2, <1>t DEF Kept, QuotaPlaces, AsksIn, Clients
    <3>4. OnWay'
      BY <2>1, <2>2, <1>t DEF OnWay, QuotaPlaces, AsksIn
    <3>5. InLine'
      BY <2>1, <2>2, <1>t, <1>i DEF InLine, QuotaPlaces, AsksIn, Holdings, AsksIn
    <3>6. Holdings'
      BY <2>1, <2>2, <1>t DEF Holdings, QuotaPlaces, AsksIn
    <3> QED
      BY <3>1, <3>2, <3>3, <3>4, <3>5, <3>6 DEF QuotaPlaces
  <2>x. OthersKeep(c)
    BY <2>1, <2>2, <1>t, OthersKept DEF QuotaPlaces, Heads
  <2>5. Conserved'
    <3>1. ASSUME NEW k \in Kinds
          PROVE  /\ Has(c, k)' \in Int /\ quantities'[k] \in Int
                 /\ quantities'[k] + Has(c, k)' = quantities[k] + Has(c, k)
      BY <2>1, <2>2, <1>t, <1>h, <1>r DEF Has, Served, Missing, Asked, QuotaPlaces, Holdings, AsksIn
    <3> QED
      BY <2>x, <3>1, ConservedByOne
  <2> QED
    BY <2>3, <2>4, <2>5
<1>7. ASSUME NEW c \in Clients, RetryGranted(c) PROVE QuotaInv'
  <2>1. /\ pc[c] = "take" /\ pc' = [pc EXCEPT ![c] = "suspended"]
        /\ Missing(c) = {} /\ mode[c] = "retry"
        /\ held' = [held EXCEPT ![c] = Asked(c)]
        /\ got' = [got EXCEPT ![c] = {}]
        /\ mutex = c /\ mutex' = Nobody
        /\ posted' = posted \cup {c}
        /\ UNCHANGED <<quantities, inLine, mode, requests>>
    BY <1>7 DEF RetryGranted, At, Goto, Taken, Keep, Unlock, DispatchHandle
  <2>2. /\ pc'[c] = "suspended"
        /\ \A x \in Actors : x # c => pc'[x] = pc[x]
        /\ \A x \in Clients : x # c => got'[x] = got[x]
        /\ got'[c] = {}
        /\ \A x \in Clients : x # c => held'[x] = held[x]
        /\ held'[c] = Asked(c)
    BY <2>1, <1>t
  <2>p. pc' \in [Actors -> {"idle", "take", "back", "lock", "suspended", "hold", "give", "walk"}]
    BY <2>1, <1>t
  <2>3. QuotaTypes'
    BY <2>1, <2>2, <2>p, <1>t DEF QuotaTypes, QuotaTypeOK, Modes, Asked, QuotaPlaces, Kept, Clients
  <2>4. QuotaPlaces'
    <3>1. Lines'
      BY <2>1, <2>2, <1>t DEF Lines, QuotaPlaces, AsksIn
    <3>2. Heads'
      BY <2>1, <2>2, <1>t DEF Heads, QuotaPlaces, AsksIn
    <3>3. Kept'
      BY <2>1, <2>2, <1>t DEF Kept, QuotaPlaces, AsksIn, Clients
    <3>4. OnWay'
      BY <2>1, <2>2, <1>t DEF OnWay, QuotaPlaces, AsksIn
    <3>5. InLine'
      BY <2>1, <2>2, <1>t, <1>i DEF InLine, QuotaPlaces, AsksIn, Holdings, AsksIn
    <3>6. Holdings'
      BY <2>1, <2>2, <1>t DEF Holdings, QuotaPlaces, AsksIn
    <3> QED
      BY <3>1, <3>2, <3>3, <3>4, <3>5, <3>6 DEF QuotaPlaces
  <2>x. OthersKeep(c)
    BY <2>1, <2>2, <1>t, OthersKept DEF QuotaPlaces, Heads
  <2>5. Conserved'
    <3>1. ASSUME NEW k \in Kinds
          PROVE  /\ Has(c, k)' \in Int /\ quantities'[k] \in Int
                 /\ quantities'[k] + Has(c, k)' = quantities[k] + Has(c, k)
      BY <2>1, <2>2, <1>t, <1>h, <1>r DEF Has, Served, Missing, Asked, QuotaPlaces, Holdings, AsksIn
    <3> QED
      BY <2>x, <3>1, ConservedByOne
  <2> QED
    BY <2>3, <2>4, <2>5
<1>8. ASSUME NEW c \in Clients, RetryRefused(c) PROVE QuotaInv'
  <2>1. /\ pc[c] = "back" /\ pc' = [pc EXCEPT ![c] = "suspended"]
        /\ got[c] = {} /\ mode[c] = "retry"
        /\ inLine' = Append(inLine, c)
        /\ mutex = c /\ mutex' = Nobody
        /\ UNCHANGED <<posted, quantities, mode, got, held, requests>>
    BY <1>8 DEF RetryRefused, At, Goto, Failed, Unlock
  <2>u. c \in Users
    BY <2>1 DEF QuotaPlaces, Kept, Clients
  <2>a. /\ c \in Users /\ inLine' \in Seq(Users) /\ inLine' # <<>>
        /\ \A i \in DOMAIN inLine' : \/ i \in DOMAIN inLine /\ inLine'[i] = inLine[i]
                                     \/ i = Len(inLine) + 1 /\ inLine'[i] = c
        /\ Len(inLine) \in Nat
    <3>1. c \in Users /\ Len(inLine) \in Nat
      BY <2>u, <1>t
    <3>2. inLine' = Append(inLine, c) /\ inLine \in Seq(Users)
      BY <2>1, <1>t
    <3> QED
      BY <3>1, <3>2, AppendFacts
  <2>2. /\ pc'[c] = "suspended"
        /\ \A x \in Actors : x # c => pc'[x] = pc[x]
    BY <2>1, <2>a, <1>t
  <2>p. pc' \in [Actors -> {"idle", "take", "back", "lock", "suspended", "hold", "give", "walk"}]
    BY <2>1, <1>t
  <2>3. QuotaTypes'
    BY <2>1, <2>a, <2>2, <2>p, <1>t DEF QuotaTypes, QuotaTypeOK, Modes, Asked, QuotaPlaces, Kept, Clients
  <2>4. QuotaPlaces'
    <3>1. Lines'
      BY <2>1, <2>a, <2>2, <1>t DEF Lines, QuotaPlaces, AsksIn
    <3>2. Heads'
      BY <2>1, <2>a, <2>2, <1>t DEF Heads, QuotaPlaces, AsksIn
    <3>3. Kept'
      BY <2>1, <2>a, <2>2, <1>t DEF Kept, QuotaPlaces, AsksIn, Clients
    <3>4. OnWay'
      BY <2>1, <2>a, <2>2, <1>t DEF OnWay, QuotaPlaces, AsksIn
    <3>5. InLine'
      <4>1. /\ held[c] = {} /\ c \notin posted
            /\ \A i \in DOMAIN inLine : inLine[i] # c
        BY <2>1, <2>a, <1>t DEF QuotaPlaces, Holdings, InLine, OnWay, AsksIn
      <4>2. \A i \in DOMAIN inLine :
              /\ pc[inLine[i]] = "suspended" /\ inLine[i] \notin posted /\ held[inLine[i]] = {}
              /\ inLine[i] \in Actors
        BY <1>i, <1>t DEF QuotaPlaces, InLine
      <4>3. \A i \in DOMAIN inLine' :
              pc'[inLine'[i]] = "suspended" /\ inLine'[i] \notin posted' /\ held'[inLine'[i]] = {}
        BY <2>1, <2>2, <2>a, <4>1, <4>2
      <4>4. \A i, j \in DOMAIN inLine' : inLine'[i] = inLine'[j] => i = j
        BY <2>a, <4>1 DEF QuotaPlaces, InLine
      <4> QED
        BY <4>3, <4>4 DEF InLine
    <3>6. Holdings'
      BY <2>1, <2>a, <2>2, <1>t DEF Holdings, QuotaPlaces, AsksIn
    <3> QED
      BY <3>1, <3>2, <3>3, <3>4, <3>5, <3>6 DEF QuotaPlaces
  <2>x. OthersKeep(c)
    BY <2>1, <2>a, <2>2, <1>t, OthersKept DEF QuotaPlaces, Heads, Lines
  <2>5. Conserved'
    <3>1. ASSUME NEW k \in Kinds
          PROVE  /\ Has(c, k)' \in Int /\ quantities'[k] \in Int
                 /\ quantities'[k] + Has(c, k)' = quantities[k] + Has(c, k)
      BY <2>1, <2>a, <2>2, <1>t, <1>h, <1>r DEF Has, Served, Missing, Asked, QuotaPlaces, Holdings, AsksIn
    <3> QED
      BY <2>x, <3>1, ConservedByOne
  <2> QED
    BY <2>3, <2>4, <2>5
<1>9. ASSUME NEW c \in Clients, Resume(c) PROVE QuotaInv'
  <2>1. /\ pc[c] = "suspended" /\ pc' = [pc EXCEPT ![c] = "hold"]
        /\ c \in posted /\ posted' = posted \ {c}
        /\ UNCHANGED <<mutex, quantities, inLine, mode, got, held, requests>>
    BY <1>9 DEF Resume, At, Goto, Resumed, quotaVars
  <2>2. /\ pc'[c] = "hold"
        /\ \A x \in Actors : x # c => pc'[x] = pc[x]
    BY <2>1, <1>t
  <2>p. pc' \in [Actors -> {"idle", "take", "back", "lock", "suspended", "hold", "give", "walk"}]
    BY <2>1, <1>t
  <2>3. QuotaTypes'
    BY <2>1, <2>2, <2>p, <1>t DEF QuotaTypes, QuotaTypeOK, Modes, Asked, QuotaPlaces, Kept, Clients
  <2>4. QuotaPlaces'
    <3>1. Lines'
      BY <2>1, <2>2, <1>t DEF Lines, QuotaPlaces, AsksIn
    <3>2. Heads'
      BY <2>1, <2>2, <1>t DEF Heads, QuotaPlaces, AsksIn
    <3>3. Kept'
      BY <2>1, <2>2, <1>t DEF Kept, QuotaPlaces, AsksIn, Clients
    <3>4. OnWay'
      BY <2>1, <2>2, <1>t DEF OnWay, QuotaPlaces, AsksIn
    <3>5. InLine'
      BY <2>1, <2>2, <1>t, <1>i DEF InLine, QuotaPlaces, AsksIn, Holdings, AsksIn
    <3>6. Holdings'
      BY <2>1, <2>2, <1>t DEF Holdings, QuotaPlaces, AsksIn
    <3> QED
      BY <3>1, <3>2, <3>3, <3>4, <3>5, <3>6 DEF QuotaPlaces
  <2>x. OthersKeep(c)
    BY <2>1, <2>2, <1>t, OthersKept DEF QuotaPlaces, Heads
  <2>5. Conserved'
    <3>1. ASSUME NEW k \in Kinds
          PROVE  /\ Has(c, k)' \in Int /\ quantities'[k] \in Int
                 /\ quantities'[k] + Has(c, k)' = quantities[k] + Has(c, k)
      BY <2>1, <2>2, <1>t, <1>h, <1>r DEF Has, Served, Missing, Asked, QuotaPlaces, Holdings, AsksIn
    <3> QED
      BY <2>x, <3>1, ConservedByOne
  <2> QED
    BY <2>3, <2>4, <2>5
<1>10. ASSUME NEW c \in Clients, Release(c) PROVE QuotaInv'
  <2>1. /\ pc[c] = "hold" /\ pc' = [pc EXCEPT ![c] = "give"]
        /\ \E K \in (SUBSET held[c]) \ {{}} : got' = [got EXCEPT ![c] = K]
        /\ UNCHANGED <<posted, mutex, quantities, inLine, mode, held, requests>>
    BY <1>10 DEF Release, At, Goto
  <2>2. /\ pc'[c] = "give"
        /\ \A x \in Actors : x # c => pc'[x] = pc[x]
        /\ \A x \in Clients : x # c => got'[x] = got[x]
        /\ got'[c] # {} /\ got'[c] \subseteq held[c]
    BY <2>1, <1>t
  <2>p. pc' \in [Actors -> {"idle", "take", "back", "lock", "suspended", "hold", "give", "walk"}]
    BY <2>1, <1>t
  <2>3. QuotaTypes'
    BY <2>1, <2>2, <2>p, <1>t DEF QuotaTypes, QuotaTypeOK, Modes, Asked, QuotaPlaces, Kept, Clients
  <2>4. QuotaPlaces'
    <3>1. Lines'
      BY <2>1, <2>2, <1>t DEF Lines, QuotaPlaces, AsksIn
    <3>2. Heads'
      BY <2>1, <2>2, <1>t DEF Heads, QuotaPlaces, AsksIn
    <3>3. Kept'
      BY <2>1, <2>2, <1>t DEF Kept, QuotaPlaces, AsksIn, Clients
    <3>4. OnWay'
      BY <2>1, <2>2, <1>t DEF OnWay, QuotaPlaces, AsksIn
    <3>5. InLine'
      BY <2>1, <2>2, <1>t, <1>i DEF InLine, QuotaPlaces, AsksIn, Holdings, AsksIn
    <3>6. Holdings'
      BY <2>1, <2>2, <1>t DEF Holdings, QuotaPlaces, AsksIn
    <3> QED
      BY <3>1, <3>2, <3>3, <3>4, <3>5, <3>6 DEF QuotaPlaces
  <2>x. OthersKeep(c)
    BY <2>1, <2>2, <1>t, OthersKept DEF QuotaPlaces, Heads
  <2>5. Conserved'
    <3>1. ASSUME NEW k \in Kinds
          PROVE  /\ Has(c, k)' \in Int /\ quantities'[k] \in Int
                 /\ quantities'[k] + Has(c, k)' = quantities[k] + Has(c, k)
      BY <2>1, <2>2, <1>t, <1>h, <1>r DEF Has, Served, Missing, Asked, QuotaPlaces, Holdings, AsksIn
    <3> QED
      BY <2>x, <3>1, ConservedByOne
  <2> QED
    BY <2>3, <2>4, <2>5
<1>11. ASSUME NEW c \in Clients, ReleaseKind(c) PROVE QuotaInv'
  <2>1. /\ pc[c] = "give" /\ pc' = [pc EXCEPT ![c] = IF got[c] = {Min(got[c])} THEN "walk" ELSE "give"]
        /\ quantities' = [quantities EXCEPT ![Min(got[c])] = @ + Request[c][Min(got[c])]]
        /\ held' = [held EXCEPT ![c] = @ \ {Min(got[c])}]
        /\ got' = [got EXCEPT ![c] = @ \ {Min(got[c])}]
        /\ UNCHANGED <<posted, mutex, inLine, mode, requests>>
    BY <1>11 DEF ReleaseKind, At, Goto
  <2>s. got[c] # {} /\ got[c] \subseteq held[c] /\ got[c] \subseteq Kinds
    BY <2>1, <1>t DEF QuotaPlaces, Holdings
  <2>i. Min(got[c]) \in got[c]
    BY <2>s, MinIsIn
  <2>q. Request[c][Min(got[c])] \in Nat
    BY <2>s, <2>i, <1>r
  <2>u. quantities[Min(got[c])] \in Nat /\ Min(got[c]) \in Kinds
    BY <2>s, <2>i, <1>t
  <2>m. /\ Min(got[c]) \in Kinds /\ Min(got[c]) \in got[c] /\ got[c] # {} /\ got[c] \subseteq held[c]
        /\ Request[c][Min(got[c])] \in Nat /\ quantities[Min(got[c])] \in Nat
        /\ quantities[Min(got[c])] + Request[c][Min(got[c])] \in Nat
    BY <2>s, <2>i, <2>q, <2>u
  <2>2. /\ pc'[c] = IF got[c] = {Min(got[c])} THEN "walk" ELSE "give"
        /\ \A x \in Actors : x # c => pc'[x] = pc[x]
        /\ \A x \in Clients : x # c => got'[x] = got[x]
        /\ got'[c] = got[c] \ {Min(got[c])}
        /\ \A x \in Clients : x # c => held'[x] = held[x]
        /\ held'[c] = held[c] \ {Min(got[c])}
        /\ pc'[c] = "give" => got[c] # {Min(got[c])}
    BY <2>1, <2>m, <1>t
  <2>p. pc' \in [Actors -> {"idle", "take", "back", "lock", "suspended", "hold", "give", "walk"}]
    BY <2>1, <1>t
  <2>3. QuotaTypes'
    BY <2>1, <2>m, <2>2, <2>p, <1>t DEF QuotaTypes, QuotaTypeOK, Modes, Asked, QuotaPlaces, Kept, Clients
  <2>4. QuotaPlaces'
    <3>1. Lines'
      BY <2>1, <2>m, <2>2, <1>t DEF Lines, QuotaPlaces, AsksIn
    <3>2. Heads'
      BY <2>1, <2>m, <2>2, <1>t DEF Heads, QuotaPlaces, AsksIn
    <3>3. Kept'
      BY <2>1, <2>m, <2>2, <1>t DEF Kept, QuotaPlaces, AsksIn, Clients
    <3>4. OnWay'
      BY <2>1, <2>m, <2>2, <1>t DEF OnWay, QuotaPlaces, AsksIn
    <3>5. InLine'
      BY <2>1, <2>m, <2>2, <1>t, <1>i DEF InLine, QuotaPlaces, AsksIn, Holdings, AsksIn
    <3>6. Holdings'
      BY <2>1, <2>m, <2>2, <1>t DEF Holdings, QuotaPlaces, AsksIn
    <3> QED
      BY <3>1, <3>2, <3>3, <3>4, <3>5, <3>6 DEF QuotaPlaces
  <2>x. OthersKeep(c)
    BY <2>1, <2>m, <2>2, <1>t, OthersKept DEF QuotaPlaces, Heads
  <2>5. Conserved'
    <3>1. ASSUME NEW k \in Kinds
          PROVE  /\ Has(c, k)' \in Int /\ quantities'[k] \in Int
                 /\ quantities'[k] + Has(c, k)' = quantities[k] + Has(c, k)
      BY <2>1, <2>m, <2>2, <1>t, <1>h, <1>r DEF Has, Served, Missing, Asked, QuotaPlaces, Holdings, AsksIn
    <3> QED
      BY <2>x, <3>1, ConservedByOne
  <2> QED
    BY <2>3, <2>4, <2>5
<1>12. ASSUME NEW c \in Clients, Walk(c) PROVE QuotaInv'
  <2>1. CASE inLine = <<>>
    <3>1. /\ pc[c] = "walk" /\ pc' = [pc EXCEPT ![c] = IF held[c] = {} THEN "idle" ELSE "hold"]
          /\ UNCHANGED <<posted, mutex, quantities, inLine, mode, got, held, requests>>
      BY <1>12, <2>1 DEF Walk, At, Goto, Lock, Over, Begin
    <3>2. /\ pc'[c] = IF held[c] = {} THEN "idle" ELSE "hold"
          /\ \A x \in Actors : x # c => pc'[x] = pc[x]
          /\ pc'[c] = "idle" => held[c] = {}
      BY <3>1, <1>t
    <3>p. pc' \in [Actors -> {"idle", "take", "back", "lock", "suspended", "hold", "give", "walk"}]
      BY <3>1, <1>t
    <3>3. QuotaTypes'
      BY <3>1, <3>2, <3>p, <1>t DEF QuotaTypes, QuotaTypeOK, Modes, Asked, QuotaPlaces, Kept, Clients
    <3>4. QuotaPlaces'
      <4>1. Lines'
        BY <3>1, <3>2, <1>t DEF Lines, QuotaPlaces, AsksIn
      <4>2. Heads'
        BY <3>1, <3>2, <1>t DEF Heads, QuotaPlaces, AsksIn
      <4>3. Kept'
        BY <3>1, <3>2, <1>t DEF Kept, QuotaPlaces, AsksIn, Clients
      <4>4. OnWay'
        BY <3>1, <3>2, <1>t DEF OnWay, QuotaPlaces, AsksIn
      <4>5. InLine'
        BY <3>1, <3>2, <1>t, <1>i DEF InLine, QuotaPlaces, AsksIn, Holdings, AsksIn
      <4>6. Holdings'
        BY <3>1, <3>2, <1>t DEF Holdings, QuotaPlaces, AsksIn
      <4> QED
        BY <4>1, <4>2, <4>3, <4>4, <4>5, <4>6 DEF QuotaPlaces
    <3>x. OthersKeep(c)
      BY <3>1, <3>2, <1>t, OthersKept DEF QuotaPlaces, Heads
    <3>5. Conserved'
      <4>1. ASSUME NEW k \in Kinds
            PROVE  /\ Has(c, k)' \in Int /\ quantities'[k] \in Int
                   /\ quantities'[k] + Has(c, k)' = quantities[k] + Has(c, k)
        BY <3>1, <3>2, <1>t, <1>h, <1>r DEF Has, Served, Missing, Asked, QuotaPlaces, Holdings, AsksIn
      <4> QED
        BY <3>x, <4>1, ConservedByOne
    <3> QED
      BY <3>3, <3>4, <3>5
  <2>2. CASE inLine # <<>>
    <3>1. /\ pc[c] = "walk" /\ pc' = [pc EXCEPT ![c] = "take"]
          /\ inLine # <<>>
          /\ mutex = Nobody /\ mutex' = c
          /\ mode' = [mode EXCEPT ![c] = "wake"]
          /\ got' = [got EXCEPT ![c] = {}]
          /\ UNCHANGED <<posted, quantities, inLine, held, requests>>
      BY <1>12, <2>2 DEF Walk, At, Goto, Lock, Over, Begin
    <3>2. /\ pc'[c] = "take"
          /\ \A x \in Actors : x # c => pc'[x] = pc[x]
          /\ \A x \in Clients : x # c => mode'[x] = mode[x]
          /\ mode'[c] = "wake"
          /\ \A x \in Clients : x # c => got'[x] = got[x]
          /\ got'[c] = {}
      BY <3>1, <1>t
    <3>p. pc' \in [Actors -> {"idle", "take", "back", "lock", "suspended", "hold", "give", "walk"}]
      BY <3>1, <1>t
    <3>3. QuotaTypes'
      BY <3>1, <3>2, <3>p, <1>t DEF QuotaTypes, QuotaTypeOK, Modes, Asked, QuotaPlaces, Kept, Clients
    <3>4. QuotaPlaces'
      <4>1. Lines'
        BY <3>1, <3>2, <1>t DEF Lines, QuotaPlaces, AsksIn
      <4>2. Heads'
        BY <3>1, <3>2, <1>t DEF Heads, QuotaPlaces, AsksIn
      <4>3. Kept'
        BY <3>1, <3>2, <1>t DEF Kept, QuotaPlaces, AsksIn, Clients
      <4>4. OnWay'
        BY <3>1, <3>2, <1>t DEF OnWay, QuotaPlaces, AsksIn
      <4>5. InLine'
        BY <3>1, <3>2, <1>t, <1>i DEF InLine, QuotaPlaces, AsksIn, Holdings, AsksIn
      <4>6. Holdings'
        BY <3>1, <3>2, <1>t DEF Holdings, QuotaPlaces, AsksIn
      <4> QED
        BY <4>1, <4>2, <4>3, <4>4, <4>5, <4>6 DEF QuotaPlaces
    <3>x. OthersKeep(c)
      BY <3>1, <3>2, <1>t, OthersKept DEF QuotaPlaces, Heads
    <3>5. Conserved'
      <4>1. ASSUME NEW k \in Kinds
            PROVE  /\ Has(c, k)' \in Int /\ quantities'[k] \in Int
                   /\ quantities'[k] + Has(c, k)' = quantities[k] + Has(c, k)
        BY <3>1, <3>2, <1>t, <1>h, <1>r DEF Has, Served, Missing, Asked, QuotaPlaces, Holdings, AsksIn
      <4> QED
        BY <3>x, <4>1, ConservedByOne
    <3> QED
      BY <3>3, <3>4, <3>5
  <2> QED
    BY <2>1, <2>2
<1>13. ASSUME NEW c \in Clients, WakeGranted(c) PROVE QuotaInv'
  <2>1. /\ pc[c] = "take" /\ pc' = [pc EXCEPT ![c] = "walk"]
        /\ Missing(c) = {} /\ mode[c] = "wake"
        /\ held' = [held EXCEPT ![Head(inLine)] = Asked(Head(inLine))]
        /\ got' = [got EXCEPT ![c] = {}]
        /\ inLine' = Tail(inLine)
        /\ mutex = c /\ mutex' = Nobody
        /\ posted' = posted \cup {Head(inLine)}
        /\ UNCHANGED <<quantities, mode, requests>>
    BY <1>13 DEF WakeGranted, At, Goto, Taken, Keep, Unlock, DispatchHandle
  <2>w. /\ inLine # <<>> /\ Head(inLine) = inLine[1] /\ Head(inLine) \in Users /\ Head(inLine) \in Clients
        /\ inLine' \in Seq(Users) /\ 1 \in DOMAIN inLine
        /\ \A i \in DOMAIN inLine' : i + 1 \in DOMAIN inLine /\ inLine'[i] = inLine[i + 1] /\ i + 1 # 1 /\ i \in Nat
    BY <2>1, <1>t, TailFacts DEF QuotaPlaces, Heads, AsksIn, Clients
  <2>v. /\ pc[Head(inLine)] = "suspended" /\ Head(inLine) \notin posted
        /\ held[Head(inLine)] = {} /\ Head(inLine) # c
    BY <2>1, <2>w DEF QuotaPlaces, InLine
  <2>o. \A i \in DOMAIN inLine' : inLine[i + 1] # Head(inLine)
    BY <2>w DEF QuotaPlaces, InLine
  <2>2. /\ pc'[c] = "walk"
        /\ \A x \in Actors : x # c => pc'[x] = pc[x]
        /\ \A x \in Clients : x # c => got'[x] = got[x]
        /\ got'[c] = {}
        /\ \A x \in Clients : x # Head(inLine) => held'[x] = held[x]
        /\ held'[Head(inLine)] = Asked(Head(inLine))
    BY <2>1, <2>w, <2>v, <2>o, <1>t
  <2>p. pc' \in [Actors -> {"idle", "take", "back", "lock", "suspended", "hold", "give", "walk"}]
    BY <2>1, <1>t
  <2>3. QuotaTypes'
    BY <2>1, <2>w, <2>v, <2>o, <2>2, <2>p, <1>t DEF QuotaTypes, QuotaTypeOK, Modes, Asked, QuotaPlaces, Kept, Clients
  <2>4. QuotaPlaces'
    <3>1. Lines'
      BY <2>1, <2>w, <2>v, <2>o, <2>2, <1>t DEF Lines, QuotaPlaces, AsksIn
    <3>2. Heads'
      BY <2>1, <2>w, <2>v, <2>o, <2>2, <1>t DEF Heads, QuotaPlaces, AsksIn, Lines
    <3>3. Kept'
      BY <2>1, <2>w, <2>v, <2>o, <2>2, <1>t DEF Kept, QuotaPlaces, AsksIn, Clients
    <3>4. OnWay'
      BY <2>1, <2>w, <2>v, <2>o, <2>2, <1>t DEF OnWay, QuotaPlaces, AsksIn
    <3>5. InLine'
      BY SMTT(20), <2>1, <2>w, <2>v, <2>o, <2>2, <1>t, <1>i DEF InLine, QuotaPlaces, AsksIn, Holdings, AsksIn
    <3>6. Holdings'
      BY <2>1, <2>w, <2>v, <2>o, <2>2, <1>t DEF Holdings, QuotaPlaces, AsksIn
    <3> QED
      BY <3>1, <3>2, <3>3, <3>4, <3>5, <3>6 DEF QuotaPlaces
  <2>5. Conserved'
    <3>1. \A x \in Clients \ {c, Head(inLine)} : \A k \in Kinds : Has(x, k)' = Has(x, k)
      <4> SUFFICES ASSUME NEW x \in Clients \ {c, Head(inLine)}, NEW k \in Kinds PROVE Has(x, k)' = Has(x, k)
        OBVIOUS
      <4>1. ~AsksIn(x, {"wake"})
        BY <2>1 DEF QuotaPlaces, Lines, AsksIn
      <4>2. pc'[x] = pc[x] /\ held'[x] = held[x] /\ got'[x] = got[x] /\ mode'[x] = mode[x]
        BY <2>1, <2>w, <2>v, <2>o, <2>2, <1>t
      <4> QED
        BY <4>1, <4>2 DEF Has, Served, AsksIn
    <3>v. PICK v \in Clients : v = Head(inLine)
      BY <2>w
    <3>2. ASSUME NEW k \in Kinds
          PROVE  /\ Has(c, k)' \in Int /\ Has(v, k)' \in Int
                 /\ Has(c, k)' + Has(v, k)' = Has(c, k) + Has(v, k)
      <4> DEFINE m == Request[v][k]
                    n == IF k \in held[c] THEN Request[c][k] ELSE 0
      <4>1. m \in Nat /\ n \in Nat /\ (k \notin got[c] => m = 0)
        BY <2>1, <2>w, <3>v, <1>r DEF Missing, Asked, Served
      <4>2. Has(c, k) = n + m /\ Has(v, k) = 0
        BY <2>1, <2>v, <3>v, <4>1 DEF Has, Served
      <4>3. Has(c, k)' = n
        BY <2>1, <2>w, <2>v, <2>o, <2>2, <4>1 DEF Has
      <4>4. held'[v] = Asked(v) /\ pc'[v] = "suspended" /\ (k \notin Asked(v) => m = 0)
        BY <2>1, <2>w, <2>v, <2>o, <2>2, <3>v, <1>t, <4>1 DEF Asked
      <4>5. Has(v, k)' = m
        BY <4>1, <4>4 DEF Has
      <4> QED
        BY <4>1, <4>2, <4>3, <4>5
    <3> QED
      <4>1. c # v /\ quantities' = quantities
        BY <2>1, <2>v, <3>v
      <4>2. \A x \in Clients \ {c, v} : \A k \in Kinds : Has(x, k)' = Has(x, k)
        BY <3>1, <3>v
      <4> QED
        BY <4>1, <4>2, <3>2, ConservedByTwo
  <2> QED
    BY <2>3, <2>4, <2>5
<1>14. ASSUME NEW c \in Clients, WakeRefused(c) PROVE QuotaInv'
  <2>1. /\ pc[c] = "back" /\ pc' = [pc EXCEPT ![c] = IF held[c] = {} THEN "idle" ELSE "hold"]
        /\ got[c] = {} /\ mode[c] = "wake"
        /\ mutex = c /\ mutex' = Nobody
        /\ UNCHANGED <<posted, quantities, inLine, mode, got, held, requests>>
    BY <1>14 DEF WakeRefused, At, Goto, Failed, Unlock, Over
  <2>2. /\ pc'[c] = IF held[c] = {} THEN "idle" ELSE "hold"
        /\ \A x \in Actors : x # c => pc'[x] = pc[x]
        /\ pc'[c] = "idle" => held[c] = {}
    BY <2>1, <1>t
  <2>p. pc' \in [Actors -> {"idle", "take", "back", "lock", "suspended", "hold", "give", "walk"}]
    BY <2>1, <1>t
  <2>3. QuotaTypes'
    BY <2>1, <2>2, <2>p, <1>t DEF QuotaTypes, QuotaTypeOK, Modes, Asked, QuotaPlaces, Kept, Clients
  <2>4. QuotaPlaces'
    <3>1. Lines'
      BY <2>1, <2>2, <1>t DEF Lines, QuotaPlaces, AsksIn
    <3>2. Heads'
      BY <2>1, <2>2, <1>t DEF Heads, QuotaPlaces, AsksIn
    <3>3. Kept'
      BY <2>1, <2>2, <1>t DEF Kept, QuotaPlaces, AsksIn, Clients
    <3>4. OnWay'
      BY <2>1, <2>2, <1>t DEF OnWay, QuotaPlaces, AsksIn
    <3>5. InLine'
      BY <2>1, <2>2, <1>t, <1>i DEF InLine, QuotaPlaces, AsksIn, Holdings, AsksIn
    <3>6. Holdings'
      BY <2>1, <2>2, <1>t DEF Holdings, QuotaPlaces, AsksIn
    <3> QED
      BY <3>1, <3>2, <3>3, <3>4, <3>5, <3>6 DEF QuotaPlaces
  <2>x. OthersKeep(c)
    BY <2>1, <2>2, <1>t, OthersKept DEF QuotaPlaces, Heads
  <2>5. Conserved'
    <3>1. ASSUME NEW k \in Kinds
          PROVE  /\ Has(c, k)' \in Int /\ quantities'[k] \in Int
                 /\ quantities'[k] + Has(c, k)' = quantities[k] + Has(c, k)
      BY <2>1, <2>2, <1>t, <1>h, <1>r DEF Has, Served, Missing, Asked, QuotaPlaces, Holdings, AsksIn
    <3> QED
      BY <2>x, <3>1, ConservedByOne
  <2> QED
    BY <2>3, <2>4, <2>5
<1>15. CASE UNCHANGED <<syncVars, quotaVars>>
  <2> USE <1>15 DEF syncVars, quotaVars
  <2>1. QuotaTypes'
    BY DEF QuotaTypes, QuotaTypeOK
  <2>2. QuotaPlaces'
    BY DEF QuotaPlaces, Lines, Heads, Kept, OnWay, InLine, Holdings, AsksIn
  <2>3. Conserved'
    BY DEF Conserved, Has, Served
  <2> QED
    BY <2>1, <2>2, <2>3
<1> QED
  BY <1>1, <1>2, <1>3, <1>4, <1>5, <1>6, <1>7, <1>8, <1>9, <1>10, <1>11, <1>12, <1>13, <1>14, <1>15 DEF QuotaNext, QuotaInternal

\* Nothing of a quota is created or lost by requests that take it kind by kind and
\* give back what they have taken (acquire and release of iris_quota_t).
THEOREM NothingIsLost == QuotaSpec => []Conserved
<1>1. QuotaInv => Conserved
  BY DEF QuotaInv
<1> QED
  BY <1>1, QuotaInvInit, QuotaStep, PTL DEF QuotaSpec

\* What users hold is never more than there is.
UsedFits == \A k \in Kinds : Bank!Used(k) <= Total[k]

\* What users hold of a kind, each of them.
HeldOf(k) == [c \in Clients |-> IF k \in held[c] THEN Request[c][k] ELSE 0]

UsedSums == \A k \in Kinds : Bank!Used(k) = SumFunctionOnSet(HeldOf(k), Clients)

\* What the abstract quota says is used is the sum of what the clients hold.
LEMMA UsedIsSum == UsedSums
BY DEF UsedSums, Bank!Used, Bank!SumFunction, Bank!SumFunctionOnSet, Bank!FoldFunctionOnSet, Bank!MapThenFoldSet,
       SumFunctionOnSet, FoldFunctionOnSet, MapThenFoldSet, HeldOf

\* What the clients hold is part of what they have, so it is never more than there is.
LEMMA UsedIsLittle == QuotaInv => UsedFits
<1> SUFFICES ASSUME QuotaInv, NEW k \in Kinds PROVE Bank!Used(k) <= Total[k]
  BY DEF UsedFits
<1> DEFINE f == HeldOf(k)
           g == HasOf(k)
<1>1. \A x \in Clients : f[x] \in Int /\ g[x] \in Int /\ f[x] <= g[x]
  <2> SUFFICES ASSUME NEW x \in Clients PROVE f[x] \in Int /\ g[x] \in Int /\ f[x] <= g[x]
    OBVIOUS
  <2>1. Has(x, k) \in Nat /\ (pc[x] \in {"take", "back"} => Served(x) \in Clients)
    BY HasType, QuotaAssumption DEF QuotaInv, QuotaPlaces, QuotaTypes, QuotaTypeOK, AsksIn
  <2>2. pc[x] \in {"take", "back"} => Request[Served(x)][k] \in Nat
    BY <2>1, QuotaAssumption
  <2>3. Request[x][k] \in Nat
    BY QuotaAssumption
  <2>4. f[x] = (IF k \in held[x] THEN Request[x][k] ELSE 0) /\ g[x] = Has(x, k)
    BY DEF HeldOf, HasOf
  <2> QED
    BY <2>1, <2>2, <2>3, <2>4 DEF Has
<1>2. quantities[k] + SumFunctionOnSet(g, Clients) = Total[k] /\ quantities[k] \in Nat /\ Total[k] \in Nat
  BY QuotaAssumption DEF QuotaInv, Conserved, HasOf, SumFunction, QuotaTypes, QuotaTypeOK
<1>3. Bank!Used(k) = SumFunctionOnSet(f, Clients)
  BY UsedIsSum DEF UsedSums
<1> HIDE DEF f, g
<1>4. SumFunctionOnSet(f, Clients) \in Int /\ SumFunctionOnSet(g, Clients) \in Int
  BY <1>1, QuotaAssumption, SumType
<1>5. SumFunctionOnSet(f, Clients) <= SumFunctionOnSet(g, Clients)
  BY <1>1, QuotaAssumption, SumMonotone
<1> QED
  BY <1>2, <1>3, <1>4, <1>5

\* A client that has nothing takes all that it asks for, and what is then used fits.
LEMMA WholeIsGranted ==
  ASSUME QuotaInv, NEW v \in Clients, held[v] = {},
         held' = [held EXCEPT ![v] = Asked(v)], UsedFits', UsedSums'
  PROVE  Bank!Next
<1>1. ASSUME NEW k \in Bank!Asked(v) PROVE Bank!Used(k) + Request[v][k] <= Total[k]
  <2> DEFINE f == HeldOf(k)
             g == HeldOf(k)'
  <2>1. k \in Kinds /\ k \in Asked(v)
    BY <1>1 DEF Bank!Asked, Asked
  <2>2. /\ \A x \in Clients : f[x] \in Int /\ g[x] \in Int
        /\ \A x \in Clients \ {v} : f[x] = g[x]
        /\ f[v] = 0 /\ g[v] = Request[v][k] /\ Request[v][k] \in Nat
    <3>1. \A x \in Clients : Request[x][k] \in Nat
      BY <2>1, QuotaAssumption
    <3>2. /\ held'[v] = Asked(v) /\ k \in held'[v] /\ k \notin held[v]
          /\ \A x \in Clients \ {v} : held'[x] = held[x]
      BY <2>1 DEF QuotaInv, QuotaTypes, QuotaTypeOK
    <3>3. /\ \A x \in Clients : f[x] = IF k \in held[x] THEN Request[x][k] ELSE 0
          /\ \A x \in Clients : g[x] = IF k \in held'[x] THEN Request[x][k] ELSE 0
      BY DEF HeldOf
    <3> HIDE DEF f, g
    <3> QED
      BY <3>1, <3>2, <3>3
  <2>3. Bank!Used(k) = SumFunctionOnSet(f, Clients)
    BY <2>1, UsedIsSum DEF UsedSums
  <2>4. Bank!Used(k)' = SumFunctionOnSet(g, Clients)
    BY <2>1 DEF UsedSums
  <2>5. Bank!Used(k)' <= Total[k]
    BY <2>1 DEF UsedFits
  <2> DEFINE m == Request[v][k]
  <2>6. m \in Nat /\ f[v] = 0 /\ g[v] = m
    BY <2>2
  <2> HIDE DEF f, g, m
  <2>7. SumFunctionOnSet(g, Clients) = SumFunctionOnSet(f, Clients) - f[v] + g[v]
    BY <2>2, QuotaAssumption, SumChange
  <2>8. SumFunctionOnSet(f, Clients) \in Int
    BY <2>2, QuotaAssumption, SumType
  <2>9. SumFunctionOnSet(f, Clients) + m <= Total[k]
    BY <2>4, <2>5, <2>6, <2>7, <2>8
  <2> QED
    BY <2>3, <2>9 DEF m
<1>2. Bank!Grant(v)
  BY <1>1 DEF Bank!Grant, Bank!Asked, Asked
<1> QED
  BY <1>2 DEF Bank!Next

\* Every step grants a request as a whole, returns a part of one, or changes nothing.
LEMMA BankStep ==
  ASSUME QuotaInv, UsedFits', UsedSums', QuotaNext
  PROVE  [Bank!Next]_held
<1> USE DEF QuotaInv
<1>1. ASSUME NEW c \in Clients, Granted(c) \/ RetryGranted(c) PROVE Bank!Next
  <2>1. held[c] = {} /\ held' = [held EXCEPT ![c] = Asked(c)]
    BY <1>1 DEF Granted, RetryGranted, Taken, Keep, At, QuotaPlaces, Holdings, AsksIn
  <2> QED
    BY <2>1, WholeIsGranted
<1>2. ASSUME NEW c \in Clients, WakeGranted(c) PROVE Bank!Next
  <2>1. inLine # <<>> /\ inLine \in Seq(Users) /\ held' = [held EXCEPT ![Head(inLine)] = Asked(Head(inLine))]
    BY <1>2 DEF WakeGranted, Taken, Keep, At, QuotaPlaces, Heads, AsksIn, QuotaTypes, QuotaTypeOK
  <2>2. Head(inLine) = inLine[1] /\ Head(inLine) \in Users /\ 1 \in DOMAIN inLine
    BY <2>1, TailFacts
  <2>3. PICK v \in Clients : v = Head(inLine)
    BY <2>2 DEF Clients
  <2>4. held[v] = {} /\ held' = [held EXCEPT ![v] = Asked(v)]
    BY <2>1, <2>2, <2>3 DEF QuotaPlaces, InLine
  <2> QED
    BY <2>4, WholeIsGranted
<1>3. ASSUME NEW c \in Clients, ReleaseKind(c) PROVE Bank!Next
  <2>1. /\ got[c] # {} /\ got[c] \subseteq held[c] /\ got[c] \subseteq Kinds
        /\ held' = [held EXCEPT ![c] = @ \ {Min(got[c])}]
    BY <1>3 DEF ReleaseKind, At, QuotaPlaces, Holdings, QuotaTypes, QuotaTypeOK
  <2>2. Min(got[c]) \in got[c]
    BY <2>1, MinIsIn
  <2>3. {Min(got[c])} \in SUBSET held[c]
    BY <2>1, <2>2
  <2>4. Bank!Return(c)
    BY <2>1, <2>3 DEF Bank!Return
  <2> QED
    BY <2>4 DEF Bank!Next
<1>4. ASSUME NEW c \in Clients,
             Acquire(c) \/ TakeKind(c) \/ GiveBack(c) \/ Refused(c) \/ AcquireQueued(c)
               \/ RetryRefused(c) \/ Resume(c) \/ Release(c) \/ Walk(c) \/ WakeRefused(c)
      PROVE  UNCHANGED held
  BY <1>4 DEF Acquire, TakeKind, GiveBack, Refused, AcquireQueued, RetryRefused, Resume,
              Release, Walk, WakeRefused, quotaVars
<1> QED
  BY <1>1, <1>2, <1>3, <1>4 DEF QuotaNext, QuotaInternal

\* Requests are granted as a whole, and only if the whole of it is free, although the
\* quantities are taken one by one and the waiters are served by whoever releases.
THEOREM GrantsWholeRequests == QuotaSpec => RefinesQuota
<1>1. QuotaInit => Bank!Init
  BY DEF QuotaInit, Bank!Init
<1>2. QuotaInv /\ UsedFits' /\ UsedSums' /\ [QuotaNext]_<<syncVars, quotaVars>> => [Bank!Next]_held
  BY BankStep DEF quotaVars
<1> QED
  BY <1>1, <1>2, QuotaInvInit, QuotaStep, UsedIsLittle, UsedIsSum, PTL DEF QuotaSpec, RefinesQuota, Bank!Spec

(***************************************************************************)
(* Barrier                                                                 *)
(***************************************************************************)
\* Those who still take part, and those of them who wait for the end of the round.
Active == Participants \ gone
Entered == {c \in Participants : pc[c] = "suspended" /\ arrived[c] = completed + 1}

\* Calls that have yet to commit, and the one that completes the round.
Commits(x) == x.at \in {"write", "commit"}
Committing == {x \in calls : Commits(x)}
Closer(x) == \/ x.at \in {"reset", "slot", "shrink", "gather"}
             \/ x.at = "compare" /\ x.n + 1 = maxAwait

\* The types of the variables, and the steps that the code of a barrier has.
BarrierTypes ==
  /\ pc \in [Actors -> {"idle", "suspended", "gone"}]
  /\ posted \subseteq Participants
  /\ IsFiniteSet(calls)
  /\ BarrierTypeOK

\* A participant is one round ahead while it waits; it is let go when its round is over.
RoundOf(c) ==
  /\ c \in gone <=> pc[c] = "gone"
  /\ pc[c] = "idle" => arrived[c] = completed /\ passed[c] = completed
  /\ pc[c] = "suspended" => /\ arrived[c] \in {completed, completed + 1}
                            /\ arrived[c] = passed[c] + 1
  /\ c \in posted => pc[c] = "suspended" /\ arrived[c] = completed

InRound == \A c \in Participants : RoundOf(c)

\* A handle is in one place only.
Handles ==
  /\ \A i \in DOMAIN slots : slots[i] # Nobody => slots[i] \in Entered
  /\ \A x \in calls : x.at = "wake" =>
       \A c \in x.woken : pc[c] = "suspended" /\ arrived[c] = completed /\ c \notin posted
  /\ \A x, y \in calls : x.at = "wake" /\ y.at = "wake" /\ y # x => x.woken \cap y.woken = {}

\* A participant makes one call in a round; once somebody leaves, one call at a time.
Numbered ==
  /\ \A x \in calls : x.round < arrived[x.who] \/ x.who \in gone
  /\ \A x, y \in calls : x.who = y.who /\ x.round = y.round => x = y
  /\ released > 0 => Leavers # {} /\ \A x, y \in calls : x = y

\* Each writes an entry of its own.
Writing ==
  /\ \A x \in calls : x.at = "write" => /\ x.who \in Entered
                                        /\ x.n < slotCount /\ slots[x.n] = Nobody
  /\ \A x, y \in calls : x.at = "write" /\ y.at = "write" /\ y.n = x.n => y = x

\* Before the last one has committed ...
Opened ==
  /\ committed + Cardinality(Committing) = slotCount + released
  /\ slotCount = Cardinality(Entered)
  /\ \A i \in DOMAIN slots : slots[i] # Nobody => i < slotCount

\* ... and while the call x completes the round.
Closing(x) ==
  /\ Committing = {} /\ \A y \in calls : Closer(y) => y = x
  /\ Active \subseteq Entered
  /\ committed = IF x.at \in {"compare", "reset"} THEN maxAwait ELSE 0
  /\ slotCount = IF x.at \in {"compare", "reset", "slot"} THEN Cardinality(Entered) ELSE 0
  /\ x.at = "gather" => released = 0
  /\ \A i \in DOMAIN slots : slots[i] # Nobody => i < IF x.at = "gather" THEN x.n ELSE maxAwait

Phase ==
  /\ maxAwait = Cardinality(Active) + released
  /\ (\A x \in calls : ~Closer(x)) => Opened
  /\ \A x \in calls : Closer(x) => Closing(x)

\* The handle of whoever waits is with somebody who will pass it on.
KeptFor(c) ==
  \/ c \in posted
  \/ \E x \in calls : x.at = "wake" /\ c \in x.woken
  \/ c \in Entered /\ \E x \in calls : x.at = "write" /\ x.who = c
  \/ c \in Entered /\ \E i \in DOMAIN slots : slots[i] = c

Remembered == \A c \in Participants : At(c, "suspended") => KeptFor(c)

BarrierInv ==
  BarrierTypes /\ InRound /\ Handles /\ Numbered /\ Writing /\ Phase /\ Remembered

\* The use of a barrier that the theorems are about: calls do not overlap in a round
\* that somebody leaves.
Orderly == Serial \/ Leavers = {}

\* The counters are numbers, and whatever is counted is finite.
LEMMA BarrierSizes ==
  ASSUME BarrierTypes
  PROVE  /\ Size \in Nat /\ maxAwait \in Nat /\ slotCount \in Nat /\ committed \in Nat /\ released \in Nat
         /\ MaxRounds \in Nat /\ completed \in Nat
         /\ IsFiniteSet(Active) /\ Cardinality(Active) \in Nat /\ Cardinality(Active) <= Size
         /\ IsFiniteSet(Entered) /\ Cardinality(Entered) \in Nat /\ Cardinality(Entered) <= Size
         /\ IsFiniteSet(Committing) /\ Cardinality(Committing) \in Nat
<1>1. Size \in Nat /\ IsFiniteSet(Participants)
  BY BarrierAssumption, FS_CardinalityType DEF Size
<1>2. Active \subseteq Participants /\ Entered \subseteq Participants /\ Committing \subseteq calls
  BY DEF Active, Entered, Committing
<1>3. /\ IsFiniteSet(Active) /\ Cardinality(Active) <= Size
      /\ IsFiniteSet(Entered) /\ Cardinality(Entered) <= Size
  BY <1>1, <1>2, FS_Subset DEF Size
<1>4. IsFiniteSet(Committing)
  BY <1>2, FS_Subset DEF BarrierTypes
<1> QED
  BY <1>1, <1>3, <1>4, FS_CardinalityType, BarrierAssumption DEF BarrierTypes, BarrierTypeOK

\* What a call has.
LEMMA CallTypes ==
  ASSUME BarrierTypes, NEW x \in calls
  PROVE  /\ x \in Call /\ x.who \in Participants /\ x.round \in Nat
         /\ x.n \in 0..Size /\ x.n \in Nat /\ x.woken \subseteq Participants
<1>1. x \in Call
  BY DEF BarrierTypes, BarrierTypeOK
<1>2. x.who \in Participants /\ x.round \in 0..MaxRounds /\ x.n \in 0..Size /\ x.woken \subseteq Participants
  BY <1>1 DEF Call
<1> QED
  BY <1>1, <1>2

\* y is the call x a step later.
Later(x, y) ==
  /\ x \in calls /\ y \in Call /\ y.who = x.who /\ y.round = x.round
  /\ calls' = (calls \ {x}) \cup {y}

\* How many have yet to commit.
LEMMA CommittingLater ==
  ASSUME BarrierTypes, Numbered, NEW x, NEW y, Later(x, y)
  PROVE  /\ IsFiniteSet(calls')
         /\ Cardinality(Committing') = Cardinality(Committing) - One(Commits(x)) + One(Commits(y))
<1>1. y \in calls => y = x
  BY DEF Numbered, Later
<1>2. IsFiniteSet(Committing) /\ Cardinality(Committing) \in Nat
  BY BarrierSizes
<1>3. IsFiniteSet(calls')
  BY FS_AddElement, FS_RemoveElement DEF BarrierTypes, Later
<1>r. IsFiniteSet(Committing \ {x}) /\ Cardinality(Committing \ {x}) = Cardinality(Committing) - One(Commits(x))
  <2>1. x \in Committing <=> Commits(x)
    BY DEF Committing, Later
  <2>2. CASE Commits(x)
    BY <1>2, <2>1, <2>2, FS_RemoveElement DEF One
  <2>3. CASE ~Commits(x)
    BY <1>2, <2>1, <2>3, FS_RemoveElement DEF One
  <2> QED
    BY <2>2, <2>3
<1>4. CASE Commits(y)
  <2>1. Committing' = (Committing \ {x}) \cup {y}
    BY <1>4 DEF Committing, Later, Commits
  <2>2. y \notin Committing \ {x}
    BY <1>1 DEF Committing
  <2>3. Cardinality((Committing \ {x}) \cup {y}) = Cardinality(Committing \ {x}) + 1
    BY <1>r, <2>2, FS_AddElement
  <2> QED
    BY <1>2, <1>3, <1>4, <1>r, <2>1, <2>3 DEF One
<1>5. CASE ~Commits(y)
  <2>1. Committing' = Committing \ {x}
    BY <1>5 DEF Committing, Later, Commits
  <2> QED
    BY <1>2, <1>3, <1>5, <1>r, <2>1 DEF One
<1> QED
  BY <1>4, <1>5

\* At first nobody has arrived.
LEMMA BarrierInvInit == ASSUME SyncInit, BarrierInit PROVE BarrierInv
<1> USE BarrierAssumption
<1>1. BarrierTypes
  <2>1. Size \in Nat
    BY FS_CardinalityType DEF Size
  <2> QED
    BY <2>1, FS_EmptySet DEF SyncInit, BarrierInit, BarrierTypes, BarrierTypeOK
<1>2. InRound /\ Handles /\ Numbered /\ Writing /\ Remembered
  BY DEF SyncInit, BarrierInit, InRound, RoundOf, Handles, Numbered, Writing, Remembered, At
<1>3. Phase
  <2>1. Active = Participants /\ Entered = {} /\ Committing = {}
    BY DEF SyncInit, BarrierInit, Active, Entered, Committing
  <2>2. Size \in Nat
    BY FS_CardinalityType DEF Size
  <2> QED
    BY <2>1, <2>2, FS_EmptySet DEF BarrierInit, Phase, Opened, Size
<1> QED
  BY <1>1, <1>2, <1>3 DEF BarrierInv

\* Nobody has yet to arrive when a round is being completed.
LEMMA IdleOpens ==
  ASSUME BarrierInv, NEW c \in Participants, pc[c] = "idle"
  PROVE  /\ c \notin gone /\ c \in Active /\ c \notin Entered /\ c \notin posted
         /\ arrived[c] = completed /\ passed[c] = completed
         /\ (\A x \in calls : ~Closer(x)) /\ Opened
<1>1. c \notin gone /\ arrived[c] = completed /\ passed[c] = completed /\ c \notin posted
  BY DEF BarrierInv, InRound, RoundOf
<1>2. c \in Active /\ c \notin Entered
  BY <1>1 DEF Active, Entered
<1>3. \A x \in calls : ~Closer(x)
  BY <1>2 DEF BarrierInv, Phase, Closing
<1> QED
  BY <1>1, <1>2, <1>3 DEF BarrierInv, Phase

\* A participant arrives: the next entry of handles is free, and its own.
LEMMA ArriveStep ==
  ASSUME Orderly, BarrierInv, NEW c \in Participants, Arrive(c)
  PROVE  BarrierInv'
<1> USE BarrierAssumption
<1> DEFINE y == [who |-> c, round |-> arrived[c], at |-> "write", n |-> slotCount, woken |-> {}]
<1>n. /\ Size \in Nat /\ maxAwait \in Nat /\ slotCount \in Nat /\ committed \in Nat /\ released \in Nat
      /\ MaxRounds \in Nat /\ completed \in Nat
      /\ IsFiniteSet(Entered) /\ Cardinality(Entered) \in Nat
      /\ IsFiniteSet(Committing) /\ Cardinality(Committing) \in Nat
  BY BarrierSizes DEF BarrierInv
<1>1. /\ pc[c] = "idle" /\ arrived[c] < MaxRounds /\ (released > 0 => InTurn)
      /\ slotCount' = slotCount + 1 /\ calls' = calls \cup {y}
      /\ arrived' = [arrived EXCEPT ![c] = @ + 1] /\ pc' = [pc EXCEPT ![c] = "suspended"]
      /\ UNCHANGED <<posted, mutex, maxAwait, committed, released, slots, completed, passed, gone>>
  BY DEF Arrive, At, Goto, NewCall
<1>2. /\ c \notin gone /\ c \in Active /\ c \notin Entered /\ c \notin posted
      /\ arrived[c] = completed /\ passed[c] = completed
      /\ (\A x \in calls : ~Closer(x)) /\ Opened
  BY <1>1, IdleOpens
<1>3. /\ pc'[c] = "suspended" /\ arrived'[c] = completed + 1 /\ c \in Actors
      /\ \A d \in Actors : d # c => pc'[d] = pc[d]
      /\ \A d \in Participants : d # c => arrived'[d] = arrived[d]
      /\ pc' \in [Actors -> {"idle", "suspended", "gone"}]
      /\ arrived' \in [Participants -> 0..MaxRounds]
  BY <1>n, <1>1, <1>2 DEF BarrierInv, BarrierTypes, BarrierTypeOK
<1>e. Entered' = Entered \cup {c} /\ Active' = Active
  BY <1>1, <1>2, <1>3 DEF Entered, Active
<1>4. /\ Cardinality(Entered \cup {c}) = Cardinality(Entered) + 1
      /\ Cardinality(Entered \cup {c}) <= Size
  <2>1. Entered \cup {c} \subseteq Participants
    BY DEF Entered
  <2>2. Cardinality(Entered \cup {c}) <= Size
    BY <2>1, FS_Subset DEF Size
  <2> QED
    BY <1>n, <1>2, <2>2, FS_AddElement
<1>5. slotCount < Size /\ slotCount = Cardinality(Entered)
  BY <1>n, <1>2, <1>4 DEF Opened
<1>6. y \in Call /\ y.who = c /\ y.round = arrived[c] /\ y.at = "write" /\ y.n = slotCount /\ y.woken = {}
  BY <1>n, <1>1, <1>5 DEF Call, BarrierInv, BarrierTypes, BarrierTypeOK
<1> HIDE DEF y
<1>7. \A x \in calls : ~(x.who = c /\ x.round = arrived[c])
  <2> SUFFICES ASSUME NEW x \in calls, x.who = c, x.round = arrived[c] PROVE FALSE
    OBVIOUS
  <2>1. arrived[c] < arrived[c]
    BY <1>2 DEF BarrierInv, Numbered
  <2> QED
    BY <2>1, <1>n, <1>2
<1>8. Committing' = Committing \cup {y} /\ y \notin Committing
  BY <1>1, <1>6, <1>7 DEF Committing, Commits
<1>9. Cardinality(Committing') = Cardinality(Committing) + 1
  BY <1>8, <1>n, FS_AddElement
<1>10. released > 0 => calls = {}
  BY <1>1 DEF InTurn, Orderly, BarrierInv, Numbered
<1>11. BarrierTypes'
  <2>1. IsFiniteSet(calls')
    BY <1>1, FS_AddElement DEF BarrierInv, BarrierTypes
  <2>2. calls' \subseteq Call /\ slotCount' \in 0..Size
    BY <1>n, <1>1, <1>5, <1>6 DEF BarrierInv, BarrierTypes, BarrierTypeOK
  <2> QED
    BY <1>1, <1>3, <2>1, <2>2 DEF BarrierInv, BarrierTypes, BarrierTypeOK
<1>12. InRound'
  <2> SUFFICES ASSUME NEW d \in Participants PROVE RoundOf(d)'
    BY DEF InRound
  <2>1. CASE d = c
    BY <1>n, <1>1, <1>2, <1>3, <2>1 DEF RoundOf
  <2>2. CASE d # c
    BY <1>1, <1>3, <2>2 DEF RoundOf, BarrierInv, InRound
  <2> QED
    BY <2>1, <2>2
<1>13. Handles'
  <2>1. \A i \in DOMAIN slots' : slots'[i] # Nobody => slots'[i] \in Entered'
    BY <1>1, <1>e DEF BarrierInv, Handles
  <2>2. ASSUME NEW x \in calls', x.at = "wake", NEW d \in x.woken
        PROVE  pc'[d] = "suspended" /\ arrived'[d] = completed' /\ d \notin posted'
    <3>1. x \in calls /\ d \in Participants
      BY <1>1, <1>6, <2>2 DEF BarrierInv, BarrierTypes, BarrierTypeOK, Call
    <3>2. pc[d] = "suspended" /\ arrived[d] = completed /\ d \notin posted
      BY <2>2, <3>1 DEF BarrierInv, Handles
    <3> QED
      BY <1>1, <1>3, <3>1, <3>2
  <2>3. \A x, z \in calls' : x.at = "wake" /\ z.at = "wake" /\ z # x => x.woken \cap z.woken = {}
    BY <1>1, <1>6 DEF BarrierInv, Handles
  <2> QED
    BY <2>1, <2>2, <2>3 DEF Handles
<1>14. Numbered'
  <2>1. ASSUME NEW x \in calls' PROVE x.round < arrived'[x.who] \/ x.who \in gone'
    <3>1. CASE x = y
      BY <1>n, <1>2, <1>3, <1>6, <3>1
    <3>2. CASE x # y
      <4>0. x \in calls
        BY <1>1, <2>1, <3>2
      <4>1. x \in calls /\ x.who \in Participants /\ x.round \in Nat
        BY <4>0, CallTypes DEF BarrierInv
      <4>2. x.round < arrived[x.who] \/ x.who \in gone
        BY <4>1 DEF BarrierInv, Numbered
      <4>3. CASE x.who = c
        BY <1>n, <1>1, <1>2, <1>3, <4>1, <4>2, <4>3
      <4>4. CASE x.who # c
        BY <1>1, <1>3, <4>1, <4>2, <4>4
      <4> QED
        BY <4>3, <4>4
    <3> QED
      BY <3>1, <3>2
  <2>2. \A x, z \in calls' : x.who = z.who /\ x.round = z.round => x = z
    BY <1>1, <1>6, <1>7 DEF BarrierInv, Numbered
  <2>3. released' > 0 => Leavers # {} /\ \A x, z \in calls' : x = z
    BY <1>1, <1>10 DEF BarrierInv, Numbered
  <2> QED
    BY <2>1, <2>2, <2>3 DEF Numbered
<1>15. Writing'
  <2>1. ASSUME NEW x \in calls', x.at = "write"
        PROVE  x.who \in Entered' /\ x.n < slotCount' /\ slots'[x.n] = Nobody
    <3>1. CASE x = y
      <4>1. slotCount \in DOMAIN slots /\ ~(slotCount < slotCount)
        BY <1>n, <1>5 DEF BarrierInv, BarrierTypes, BarrierTypeOK
      <4>2. slots[slotCount] = Nobody
        BY <1>2, <4>1 DEF Opened
      <4> QED
        BY <1>n, <1>1, <1>e, <1>6, <3>1, <4>2
    <3>2. CASE x # y
      <4>1. x \in calls /\ x.n \in Nat
        BY <1>1, <2>1, <3>2 DEF BarrierInv, BarrierTypes, BarrierTypeOK, Call
      <4>2. x.who \in Entered /\ x.n < slotCount /\ slots[x.n] = Nobody
        BY <2>1, <4>1 DEF BarrierInv, Writing
      <4> QED
        BY <1>n, <1>1, <1>e, <4>1, <4>2
    <3> QED
      BY <3>1, <3>2
  <2>2. \A x \in calls : x.at = "write" => x.n # slotCount
    BY <1>n DEF BarrierInv, Writing
  <2>3. \A x, z \in calls' : x.at = "write" /\ z.at = "write" /\ z.n = x.n => z = x
    BY <1>1, <1>6, <2>2 DEF BarrierInv, Writing
  <2> QED
    BY <2>1, <2>3 DEF Writing
<1>16. Phase'
  <2>1. \A x \in calls' : ~Closer(x)'
    BY <1>1, <1>2, <1>6 DEF Closer
  <2>2. maxAwait' = Cardinality(Active') + released'
    BY <1>1, <1>e DEF BarrierInv, Phase
  <2>3. Opened'
    <3>1. committed + Cardinality(Committing) = slotCount + released
      BY <1>2 DEF Opened
    <3>2. committed' + Cardinality(Committing') = slotCount' + released'
      BY <1>n, <1>1, <1>9, <3>1
    <3>3. slotCount' = Cardinality(Entered')
      BY <1>1, <1>e, <1>4, <1>5
    <3>4. \A i \in DOMAIN slots' : slots'[i] # Nobody => i < slotCount'
      BY <1>n, <1>1, <1>2 DEF Opened, BarrierInv, BarrierTypes, BarrierTypeOK
    <3> QED
      BY <3>2, <3>3, <3>4 DEF Opened
  <2> QED
    BY <2>1, <2>2, <2>3 DEF Phase
<1>17. Remembered'
  <2> SUFFICES ASSUME NEW d \in Participants, pc'[d] = "suspended" PROVE KeptFor(d)'
    BY DEF Remembered, At
  <2>1. CASE d = c
    BY <1>1, <1>e, <1>6, <2>1 DEF KeptFor
  <2>2. CASE d # c
    <3>1. KeptFor(d)
      BY <1>3, <2>2 DEF BarrierInv, Remembered, At
    <3> QED
      BY <1>1, <1>e, <3>1 DEF KeptFor
  <2> QED
    BY <2>1, <2>2
<1> QED
  BY <1>11, <1>12, <1>13, <1>14, <1>15, <1>16, <1>17 DEF BarrierInv

\* A participant leaves for good, and counts itself as one that has arrived.
LEMMA LeaveStep ==
  ASSUME Orderly, BarrierInv, NEW c \in Participants, Leave(c)
  PROVE  BarrierInv'
<1> USE BarrierAssumption
<1> DEFINE y == [who |-> c, round |-> arrived[c], at |-> "commit", n |-> 0, woken |-> {}]
<1>n. /\ Size \in Nat /\ maxAwait \in Nat /\ slotCount \in Nat /\ committed \in Nat /\ released \in Nat
      /\ MaxRounds \in Nat /\ completed \in Nat
      /\ IsFiniteSet(Active) /\ Cardinality(Active) \in Nat
      /\ IsFiniteSet(Committing) /\ Cardinality(Committing) \in Nat
  BY BarrierSizes DEF BarrierInv
<1>1. /\ c \in Leavers /\ pc[c] = "idle" /\ InTurn
      /\ released' = released + 1 /\ calls' = calls \cup {y}
      /\ gone' = gone \cup {c} /\ pc' = [pc EXCEPT ![c] = "gone"]
      /\ UNCHANGED <<posted, mutex, maxAwait, slotCount, committed, slots, completed, arrived, passed>>
  BY DEF Leave, At, Goto, NewCall
<1>c. calls = {} /\ calls' = {y}
  BY <1>1 DEF InTurn, Orderly
<1>2. /\ c \notin gone /\ c \in Active /\ c \notin Entered /\ c \notin posted /\ Opened
  BY <1>1, IdleOpens
<1>3. /\ pc'[c] = "gone" /\ c \in Actors
      /\ \A d \in Actors : d # c => pc'[d] = pc[d]
      /\ pc' \in [Actors -> {"idle", "suspended", "gone"}]
  BY <1>1 DEF BarrierInv, BarrierTypes
<1>e. Entered' = Entered /\ Active' = Active \ {c}
  BY <1>1, <1>2, <1>3 DEF Entered, Active
<1>4. /\ Cardinality(Active') = Cardinality(Active) - 1
      /\ Cardinality(Active) >= 1
  <2>1. Cardinality(Active \ {c}) = Cardinality(Active) - 1 /\ Cardinality(Active \ {c}) \in Nat
    BY <1>n, <1>2, FS_RemoveElement, FS_CardinalityType
  <2> QED
    BY <1>n, <1>e, <2>1
<1>6. y \in Call /\ y.who = c /\ y.at = "commit" /\ y.woken = {} /\ y.round = arrived[c]
  BY <1>n, <1>1 DEF Call, BarrierInv, BarrierTypes, BarrierTypeOK
<1> HIDE DEF y
<1>8. Committing' = {y} /\ Committing = {}
  BY <1>c, <1>6 DEF Committing, Commits
<1>9. Cardinality(Committing') = 1 /\ Cardinality(Committing) = 0
  BY <1>8, FS_Singleton, FS_EmptySet
<1>11. BarrierTypes'
  <2>1. IsFiniteSet(calls')
    BY <1>c, FS_Singleton
  <2>2. released + 1 \in 0..Size
    BY <1>n, <1>4 DEF BarrierInv, Phase, BarrierTypes, BarrierTypeOK
  <2> QED
    BY <1>n, <1>1, <1>3, <1>6, <2>1, <2>2 DEF BarrierInv, BarrierTypes, BarrierTypeOK
<1>12. InRound'
  <2> SUFFICES ASSUME NEW d \in Participants PROVE RoundOf(d)'
    BY DEF InRound
  <2>1. CASE d = c
    BY <1>n, <1>1, <1>2, <1>3, <2>1 DEF RoundOf
  <2>2. CASE d # c
    BY <1>1, <1>3, <2>2 DEF RoundOf, BarrierInv, InRound
  <2> QED
    BY <2>1, <2>2
<1>13. Handles'
  BY <1>1, <1>e, <1>c, <1>6 DEF BarrierInv, Handles
<1>14. Numbered'
  BY <1>1, <1>c, <1>6 DEF Numbered
<1>15. Writing'
  BY <1>c, <1>6 DEF Writing
<1>16. Phase'
  <2>1. \A x \in calls' : ~Closer(x)'
    BY <1>c, <1>6 DEF Closer
  <2>2. maxAwait' = Cardinality(Active') + released'
    BY <1>n, <1>1, <1>4 DEF BarrierInv, Phase
  <2>3. committed + 0 = slotCount + released
    BY <1>2, <1>9 DEF Opened
  <2>4. Opened'
    BY <1>n, <1>1, <1>2, <1>e, <1>9, <2>3 DEF Opened
  <2> QED
    BY <2>1, <2>2, <2>4 DEF Phase
<1>17. Remembered'
  <2> SUFFICES ASSUME NEW d \in Participants, pc'[d] = "suspended" PROVE KeptFor(d)'
    BY DEF Remembered, At
  <2>1. d # c /\ pc[d] = "suspended"
    BY <1>3
  <2>2. KeptFor(d)
    BY <2>1 DEF BarrierInv, Remembered, At
  <2> QED
    BY <1>1, <1>e, <2>2 DEF KeptFor
<1> QED
  BY <1>11, <1>12, <1>13, <1>14, <1>15, <1>16, <1>17 DEF BarrierInv

\* The participants stand where they stood.
Still == UNCHANGED <<pc, posted, mutex, completed, arrived, passed, gone>>

\* What only depends on the participants.
LEMMA StillRound ==
  ASSUME InRound, Still
  PROVE  InRound' /\ Entered' = Entered /\ Active' = Active
BY DEF InRound, RoundOf, Still, Entered, Active

\* A call goes on: the calls can still be told apart.
LEMMA NumberedLater ==
  ASSUME BarrierTypes, Numbered, NEW x, NEW y, Later(x, y), released' \in {released, 0},
         arrived' = arrived, gone' = gone
  PROVE  Numbered'
<1>1. \A z \in calls' : z \in calls \/ z = y
  BY DEF Later
<1>2. \A z \in calls' : z.round < arrived'[z.who] \/ z.who \in gone'
  BY <1>1 DEF Later, Numbered
<1>3. \A z, u \in calls' : z.who = u.who /\ z.round = u.round => z = u
  BY DEF Numbered, Later
<1>4. released' > 0 => Leavers # {} /\ \A z, u \in calls' : z = u
  BY DEF Numbered, Later
<1> QED
  BY <1>2, <1>3, <1>4 DEF Numbered

\* A call goes on and moves no handle.
LEMMA HandlesLater ==
  ASSUME Handles, Still, NEW x, NEW y, Later(x, y), y.at # "wake", UNCHANGED slots
  PROVE  Handles'
<1>1. Entered' = Entered
  BY DEF Still, Entered
<1>2. \A z \in calls' : z.at = "wake" => z \in calls
  BY DEF Later
<1> QED
  BY <1>1, <1>2 DEF Handles, Still

\* No handle is dropped when a call that has none goes on.
LEMMA RememberedLater ==
  ASSUME Remembered, Still, NEW x, NEW y, Later(x, y), x.at \notin {"wake", "write"}, UNCHANGED slots
  PROVE  Remembered'
<1>1. Entered' = Entered
  BY DEF Still, Entered
<1>2. \A z \in calls : z.at \in {"wake", "write"} => z \in calls'
  BY DEF Later
<1> SUFFICES ASSUME NEW c \in Participants, pc'[c] = "suspended" PROVE KeptFor(c)'
  BY DEF Remembered, At
<1>3. KeptFor(c)
  BY DEF Still, Remembered, At
<1> QED
  BY <1>1, <1>2, <1>3 DEF KeptFor, Still

\* The calls that are to write keep their entries.
LEMMA WritingLater ==
  ASSUME Writing, Still, NEW x, NEW y, Later(x, y), y.at # "write", UNCHANGED <<slots, slotCount>>
  PROVE  Writing'
<1>1. Entered' = Entered
  BY DEF Still, Entered
<1>2. \A z \in calls' : z.at = "write" => z \in calls
  BY DEF Later
<1> QED
  BY <1>1, <1>2 DEF Writing

\* The handle goes from the call to its entry.
LEMMA WriteHandleStep ==
  ASSUME BarrierInv, NEW x \in calls, WriteHandle(x)
  PROVE  BarrierInv'
<1> USE BarrierAssumption
<1>n. /\ Size \in Nat /\ maxAwait \in Nat /\ slotCount \in Nat /\ committed \in Nat /\ released \in Nat
      /\ IsFiniteSet(Committing) /\ Cardinality(Committing) \in Nat
  BY BarrierSizes DEF BarrierInv
<1>x. x \in Call
  BY DEF BarrierInv, BarrierTypes, BarrierTypeOK
<1>0. PICK y \in Call : y = [x EXCEPT !.at = "commit"]
  BY <1>x DEF Call
<1>1. /\ x.at = "write" /\ slots' = [slots EXCEPT ![x.n] = x.who] /\ calls' = (calls \ {x}) \cup {y}
      /\ UNCHANGED <<syncVars, maxAwait, slotCount, committed, released, completed, rounds>>
  BY <1>0 DEF WriteHandle, Proceed
<1>2. y \in Call /\ y.who = x.who /\ y.round = x.round /\ y.n = x.n /\ y.at = "commit"
  BY <1>0, <1>x DEF Call
<1>3. Later(x, y) /\ Still
  BY <1>1, <1>2 DEF Later, Still, syncVars, rounds
<1>4. InRound' /\ Entered' = Entered /\ Active' = Active
  BY <1>3, StillRound DEF BarrierInv
<1>5. IsFiniteSet(calls') /\ Cardinality(Committing') = Cardinality(Committing)
  <2>1. /\ IsFiniteSet(calls')
        /\ Cardinality(Committing') = Cardinality(Committing) - One(Commits(x)) + One(Commits(y))
    BY <1>3, CommittingLater DEF BarrierInv
  <2>2. One(Commits(x)) = 1 /\ One(Commits(y)) = 1
    BY <1>1, <1>2 DEF Commits, One
  <2> QED
    BY <1>n, <2>1, <2>2
<1>w. x.who \in Entered /\ x.n < slotCount /\ slots[x.n] = Nobody /\ x.who \in Participants /\ x.n \in DOMAIN slots
  <2>1. x.who \in Entered /\ x.n < slotCount /\ slots[x.n] = Nobody
    BY <1>1 DEF BarrierInv, Writing
  <2>2. x.n \in 0..(Size - 1) /\ x.who \in Participants
    <3>1. slotCount \in 0..Size /\ x.n \in Nat /\ x.who \in Participants
      BY CallTypes DEF BarrierInv, BarrierTypes, BarrierTypeOK
    <3> QED
      BY <1>n, <2>1, <3>1
  <2> QED
    BY <2>1, <2>2 DEF BarrierInv, BarrierTypes, BarrierTypeOK
<1>s. /\ slots'[x.n] = x.who /\ DOMAIN slots' = DOMAIN slots
      /\ \A i \in DOMAIN slots : i # x.n => slots'[i] = slots[i]
  BY <1>1, <1>w
<1>6. BarrierTypes'
  <2>1. slots' \in [0..(Size - 1) -> Participants \cup {Nobody}]
    BY <1>1, <1>w DEF BarrierInv, BarrierTypes, BarrierTypeOK
  <2>2. calls' \subseteq Call
    BY <1>2, <1>1 DEF BarrierInv, BarrierTypes, BarrierTypeOK
  <2> QED
    BY <1>1, <1>5, <2>1, <2>2 DEF BarrierInv, BarrierTypes, BarrierTypeOK, syncVars, rounds
<1>7. Handles'
  <2>1. \A i \in DOMAIN slots' : slots'[i] # Nobody => slots'[i] \in Entered'
    BY <1>s, <1>w, <1>4 DEF BarrierInv, Handles
  <2>2. \A z \in calls' : z.at = "wake" => z \in calls
    BY <1>1, <1>2
  <2> QED
    BY <2>1, <2>2, <1>3 DEF Handles, BarrierInv, Still
<1>8. Numbered'
  BY <1>1, <1>3, NumberedLater DEF BarrierInv, rounds
<1>9. Writing'
  <2>1. \A z \in calls' : z.at = "write" => z \in calls /\ z # x
    BY <1>1, <1>2
  <2>2. \A z \in calls' : z.at = "write" => z.n # x.n /\ z.n \in 0..(Size - 1)
    <3>1. \A z \in calls' : z.at = "write" => z.n # x.n /\ z.n < slotCount /\ z.n \in Nat
      BY <2>1, <1>1 DEF BarrierInv, Writing, BarrierTypes, BarrierTypeOK, Call
    <3> QED
      BY <3>1, <1>n DEF BarrierInv, BarrierTypes, BarrierTypeOK
  <2>3. \A z \in calls' : z.at = "write" => slots'[z.n] = slots[z.n]
    BY <2>2, <1>s DEF BarrierInv, BarrierTypes, BarrierTypeOK
  <2> QED
    BY <2>1, <2>3, <1>1, <1>4 DEF BarrierInv, Writing
<1>10. Phase'
  <2>1. \A z \in calls : ~Closer(z)
    BY <1>1 DEF BarrierInv, Phase, Closing, Committing, Commits
  <2>2. \A z \in calls' : ~Closer(z)'
    BY <2>1, <1>1, <1>2 DEF Closer
  <2>3. Opened
    BY <2>1 DEF BarrierInv, Phase
  <2>4. Opened'
    BY <2>3, <1>1, <1>4, <1>5, <1>s, <1>w DEF Opened
  <2> QED
    BY <2>2, <2>4, <1>1, <1>4 DEF BarrierInv, Phase
<1>11. Remembered'
  <2> SUFFICES ASSUME NEW c \in Participants, pc'[c] = "suspended" PROVE KeptFor(c)'
    BY DEF Remembered, At
  <2>1. KeptFor(c)
    BY <1>3 DEF Still, BarrierInv, Remembered, At
  <2>2. CASE c = x.who
    BY <2>2, <1>4, <1>s, <1>w DEF KeptFor
  <2>3. CASE c # x.who
    <3>1. \A z \in calls : z.at \in {"wake", "write"} /\ z # x => z \in calls'
      BY <1>1
    <3>2. \A i \in DOMAIN slots : slots[i] = c => slots'[i] = c
      BY <1>s, <1>w
    <3> QED
      BY <2>1, <2>3, <3>1, <3>2, <1>1, <1>3, <1>4, <1>s DEF KeptFor, Still
  <2> QED
    BY <2>2, <2>3
<1> QED
  BY <1>4, <1>6, <1>7, <1>8, <1>9, <1>10, <1>11 DEF BarrierInv

\* A call commits; if it is the last one, everybody has arrived or left.
LEMMA CommitStep ==
  ASSUME BarrierInv, NEW x \in calls, Commit(x)
  PROVE  BarrierInv'
<1> USE BarrierAssumption
<1>n. /\ Size \in Nat /\ maxAwait \in Nat /\ slotCount \in Nat /\ committed \in Nat /\ released \in Nat
      /\ IsFiniteSet(Committing) /\ Cardinality(Committing) \in Nat
      /\ IsFiniteSet(Active) /\ Cardinality(Active) \in Nat
      /\ IsFiniteSet(Entered) /\ Cardinality(Entered) \in Nat
  BY BarrierSizes DEF BarrierInv
<1>x. x \in Call
  BY DEF BarrierInv, BarrierTypes, BarrierTypeOK
<1>0. PICK y \in Call : y = [x EXCEPT !.at = "compare", !.n = committed]
  BY <1>x DEF Call, BarrierInv, BarrierTypes, BarrierTypeOK
<1>1. /\ x.at = "commit" /\ committed' = committed + 1 /\ calls' = (calls \ {x}) \cup {y}
      /\ UNCHANGED <<syncVars, maxAwait, slotCount, released, slots, completed, rounds>>
  BY <1>0 DEF Commit, Proceed
<1>2. y \in Call /\ y.who = x.who /\ y.round = x.round /\ y.n = committed /\ y.at = "compare"
  BY <1>0, <1>x DEF Call
<1>3. Later(x, y) /\ Still
  BY <1>1, <1>2 DEF Later, Still, syncVars, rounds
<1>4. InRound' /\ Entered' = Entered /\ Active' = Active
  BY <1>3, StillRound DEF BarrierInv
<1>5. IsFiniteSet(calls') /\ Cardinality(Committing') = Cardinality(Committing) - 1
  <2>1. /\ IsFiniteSet(calls')
        /\ Cardinality(Committing') = Cardinality(Committing) - One(Commits(x)) + One(Commits(y))
    BY <1>3, CommittingLater DEF BarrierInv
  <2>2. One(Commits(x)) = 1 /\ One(Commits(y)) = 0
    BY <1>1, <1>2 DEF Commits, One
  <2> QED
    BY <1>n, <2>1, <2>2
<1>o. (\A z \in calls : ~Closer(z)) /\ Opened
  BY <1>1 DEF BarrierInv, Phase, Closing, Committing, Commits
<1>p. IsFiniteSet(Committing') /\ Cardinality(Committing') \in Nat
  <2>1. Committing' \subseteq calls'
    BY DEF Committing
  <2> QED
    BY <1>5, <2>1, FS_Subset, FS_CardinalityType
<1>a. Entered \subseteq Active
  BY DEF BarrierInv, InRound, RoundOf, Entered, Active
<1>b. Cardinality(Entered) <= Cardinality(Active) /\ (Cardinality(Entered) = Cardinality(Active) => Entered = Active)
  BY <1>n, <1>a, FS_Subset
<1>c. /\ committed' + Cardinality(Committing') = slotCount + released
      /\ committed' <= maxAwait
      /\ committed' = maxAwait => Cardinality(Committing') = 0 /\ Entered = Active
  BY <1>n, <1>1, <1>5, <1>o, <1>p, <1>b DEF Opened, BarrierInv, Phase
<1>6. BarrierTypes'
  <2>1. committed' \in 0..Size
    BY <1>n, <1>1, <1>c DEF BarrierInv, BarrierTypes, BarrierTypeOK
  <2>2. calls' \subseteq Call
    BY <1>2, <1>1 DEF BarrierInv, BarrierTypes, BarrierTypeOK
  <2> QED
    BY <1>1, <1>5, <2>1, <2>2 DEF BarrierInv, BarrierTypes, BarrierTypeOK, syncVars, rounds
<1>7. Handles' /\ Numbered' /\ Writing' /\ Remembered'
  <2>1. Numbered'
    BY <1>1, <1>3, NumberedLater DEF BarrierInv, rounds
  <2> QED
    BY <2>1, <1>1, <1>2, <1>3, HandlesLater, WritingLater, RememberedLater DEF BarrierInv
<1>10. Phase'
  <2>1. \A z \in calls' : z # y => ~Closer(z)'
    BY <1>o, <1>1, <1>2 DEF Closer
  <2>2. Closer(y)' <=> committed' = maxAwait
    BY <1>n, <1>1, <1>2 DEF Closer
  <2>3. maxAwait' = Cardinality(Active') + released'
    BY <1>1, <1>4 DEF BarrierInv, Phase
  <2>4. CASE committed' = maxAwait
    <3>1. Committing' = {}
      BY <1>c, <1>p, <2>4, FS_EmptySet
    <3>2. slotCount = Cardinality(Entered) /\ Cardinality(Entered) <= maxAwait
      BY <1>o, <1>n, <1>b DEF Opened, BarrierInv, Phase
    <3>3. Closing(y)'
      <4>1. \A z \in calls' : Closer(z)' => z = y
        BY <2>1
      <4>2. \A i \in DOMAIN slots : slots[i] # Nobody => i < maxAwait
        BY <3>2, <1>n, <1>o DEF Opened, BarrierInv, BarrierTypes, BarrierTypeOK
      <4> QED
        BY <3>1, <3>2, <4>1, <4>2, <2>4, <1>1, <1>2, <1>4, <1>c DEF Closing
    <3>4. y \in calls'
      BY <1>1
    <3> QED
      BY <2>1, <2>2, <2>3, <2>4, <3>3, <3>4 DEF Phase
  <2>5. CASE committed' # maxAwait
    <3>1. Opened'
      BY <1>1, <1>4, <1>c, <1>o DEF Opened
    <3> QED
      BY <2>1, <2>2, <2>3, <2>5, <3>1 DEF Phase
  <2> QED
    BY <2>4, <2>5
<1> QED
  BY <1>4, <1>6, <1>7, <1>10 DEF BarrierInv

\* The call that completes the round takes its next step as y.
Completes(x, y) ==
  /\ Closer(x) /\ Later(x, y) /\ y.at \in {"reset", "slot", "shrink", "gather"}
  /\ Still /\ UNCHANGED slots /\ released' \in {released, 0}
  /\ \A z \in calls : z # x /\ z.at = "compare" => z.n + 1 # maxAwait'

\* While a round is being completed only the counters change.
LEMMA CloserStep ==
  ASSUME BarrierInv, NEW x, NEW y, Completes(x, y)
  PROVE  /\ InRound' /\ Handles' /\ Numbered' /\ Writing' /\ Remembered'
         /\ IsFiniteSet(calls') /\ calls' \subseteq Call
         /\ Committing' = {} /\ y \in calls' /\ \A z \in calls' : Closer(z)' => z = y
         /\ Active \subseteq Entered /\ Entered' = Entered /\ Active' = Active
<1>1. /\ Closer(x) /\ Later(x, y) /\ y.at \in {"reset", "slot", "shrink", "gather"}
      /\ Still /\ UNCHANGED slots /\ released' \in {released, 0}
      /\ \A z \in calls : z # x /\ z.at = "compare" => z.n + 1 # maxAwait'
  BY DEF Completes
<1>2. x \in calls /\ y \in Call /\ calls' = (calls \ {x}) \cup {y}
  BY <1>1 DEF Later
<1>3. Closing(x)
  BY <1>1, <1>2 DEF BarrierInv, Phase
<1>4. InRound' /\ Entered' = Entered /\ Active' = Active
  BY <1>1, StillRound DEF BarrierInv
<1>5. x.at \notin {"wake", "write"}
  BY <1>1 DEF Closer
<1>6. Handles' /\ Numbered' /\ Remembered'
  <2>1. Numbered'
    BY <1>1, NumberedLater DEF BarrierInv, Still
  <2> QED
    BY <2>1, <1>1, <1>5, HandlesLater, RememberedLater DEF BarrierInv
<1>7. IsFiniteSet(calls')
  BY <1>1, CommittingLater DEF BarrierInv
<1>8. Committing' = {}
  BY <1>1, <1>2, <1>3 DEF Closing, Committing, Commits
<1>9. Writing'
  BY <1>8 DEF Writing, Committing, Commits
<1>10. \A z \in calls' : Closer(z)' => z = y
  BY <1>1, <1>2, <1>3 DEF Closing, Closer
<1>11. calls' \subseteq Call
  BY <1>2 DEF BarrierInv, BarrierTypes, BarrierTypeOK
<1> QED
  BY <1>2, <1>3, <1>4, <1>6, <1>7, <1>8, <1>9, <1>10, <1>11 DEF Closing

\* A call that neither commits nor completes the round returns.
LEMMA ReturnStep ==
  ASSUME BarrierInv, NEW x \in calls, ~Commits(x), ~Closer(x), calls' = calls \ {x},
         UNCHANGED <<pc, maxAwait, slotCount, committed, released, slots, completed, arrived, gone>>
  PROVE  Numbered' /\ Writing' /\ Phase' /\ Entered' = Entered /\ IsFiniteSet(calls')
<1>1. Entered' = Entered /\ Active' = Active
  BY DEF Entered, Active
<1>2. Numbered' /\ Writing'
  BY <1>1 DEF BarrierInv, Numbered, Writing
<1>3. IsFiniteSet(calls')
  BY FS_RemoveElement DEF BarrierInv, BarrierTypes
<1>4. Phase'
  <2>1. Committing' = Committing
    BY DEF Committing, Commits
  <2>2. \A z \in calls' : Closer(z)' <=> Closer(z)
    BY DEF Closer
  <2>3. maxAwait' = Cardinality(Active') + released'
    BY <1>1 DEF BarrierInv, Phase
  <2>4. CASE \A z \in calls' : ~Closer(z)
    <3>1. Opened
      BY <2>4 DEF BarrierInv, Phase
    <3>2. Opened'
      BY <1>1, <2>1, <3>1 DEF Opened
    <3> QED
      BY <2>2, <2>3, <2>4, <3>2 DEF Phase
  <2>5. ASSUME NEW z \in calls', Closer(z) PROVE Phase'
    <3>1. Closing(z) /\ z \in calls
      BY <2>5 DEF BarrierInv, Phase
    <3>2. Closing(z)'
      BY <1>1, <2>1, <2>2, <3>1 DEF Closing
    <3>3. \A u \in calls' : Closer(u)' => u = z
      BY <2>2, <3>1 DEF Closing
    <3> QED
      BY <2>2, <2>3, <2>5, <3>2, <3>3 DEF Phase
  <2> QED
    BY <2>4, <2>5
<1> QED
  BY <1>1, <1>2, <1>3, <1>4

\* A call that was not the last one returns.
LEMMA CompareReturns ==
  ASSUME BarrierInv, NEW x \in calls, x.at = "compare", ~Closer(x), calls' = calls \ {x},
         UNCHANGED <<syncVars, maxAwait, slotCount, committed, released, slots, completed, rounds>>
  PROVE  BarrierInv'
<1>1. UNCHANGED <<pc, posted, arrived, passed, gone>>
  BY DEF syncVars, rounds
<1>2. Numbered' /\ Writing' /\ Phase' /\ Entered' = Entered /\ IsFiniteSet(calls')
  BY <1>1, ReturnStep DEF Commits
<1>3. BarrierTypes'
  BY <1>1, <1>2 DEF BarrierInv, BarrierTypes, BarrierTypeOK
<1>4. InRound' /\ Handles'
  BY <1>1, <1>2 DEF BarrierInv, InRound, RoundOf, Handles
<1>5. Remembered'
  <2> SUFFICES ASSUME NEW c \in Participants, pc'[c] = "suspended" PROVE KeptFor(c)'
    BY DEF Remembered, At
  <2>1. KeptFor(c)
    BY <1>1 DEF BarrierInv, Remembered, At
  <2> QED
    BY <1>1, <1>2, <2>1 DEF KeptFor
<1> QED
  BY <1>2, <1>3, <1>4, <1>5 DEF BarrierInv

\* The last one to commit goes on to complete the round.
LEMMA CompareStep ==
  ASSUME BarrierInv, NEW x \in calls, Compare(x)
  PROVE  BarrierInv'
<1> USE BarrierAssumption
<1>x. x \in Call
  BY DEF BarrierInv, BarrierTypes, BarrierTypeOK
<1>1. CASE x.n + 1 = maxAwait
  <2>0. PICK y \in Call : y = [x EXCEPT !.at = "reset"]
    BY <1>x DEF Call
  <2>1. /\ x.at = "compare" /\ calls' = (calls \ {x}) \cup {y}
        /\ UNCHANGED <<syncVars, maxAwait, slotCount, committed, released, slots, completed, rounds>>
    BY <1>1, <2>0 DEF Compare, Proceed
  <2>2. y.who = x.who /\ y.round = x.round /\ y.at = "reset"
    BY <2>0, <1>x DEF Call
  <2>3. Closing(x) /\ Closer(x)
    BY <1>1, <2>1 DEF BarrierInv, Phase, Closer
  <2>4. Completes(x, y)
    BY <2>1, <2>2, <2>3 DEF Completes, Later, Still, syncVars, rounds, Closing, Closer
  <2>5. /\ InRound' /\ Handles' /\ Numbered' /\ Writing' /\ Remembered'
        /\ IsFiniteSet(calls') /\ calls' \subseteq Call
        /\ Committing' = {} /\ y \in calls' /\ \A z \in calls' : Closer(z)' => z = y
        /\ Active \subseteq Entered /\ Entered' = Entered /\ Active' = Active
    BY <2>4, CloserStep
  <2>6. BarrierTypes'
    BY <2>1, <2>5 DEF BarrierInv, BarrierTypes, BarrierTypeOK, syncVars, rounds
  <2>7. Closing(y)'
    BY <2>1, <2>2, <2>3, <2>5 DEF Closing
  <2>8. Closer(y)'
    BY <2>2 DEF Closer
  <2>9. Phase'
    BY <2>1, <2>5, <2>7, <2>8 DEF BarrierInv, Phase
  <2> QED
    BY <2>5, <2>6, <2>9 DEF BarrierInv
<1>2. CASE x.n + 1 # maxAwait
  <2>1. /\ x.at = "compare" /\ calls' = calls \ {x} /\ ~Closer(x)
        /\ UNCHANGED <<syncVars, maxAwait, slotCount, committed, released, slots, completed, rounds>>
    BY <1>2 DEF Compare, Return, Closer
  <2> QED
    BY <2>1, CompareReturns
<1> QED
  BY <1>1, <1>2

\* complete() resets commit_count ...
LEMMA ResetCommitStep ==
  ASSUME BarrierInv, NEW x \in calls, ResetCommit(x)
  PROVE  BarrierInv'
<1> USE BarrierAssumption
<1>x. x \in Call /\ Size \in Nat
  BY BarrierSizes DEF BarrierInv, BarrierTypes, BarrierTypeOK
<1>0. PICK y \in Call : y = [x EXCEPT !.at = "slot"]
  BY <1>x DEF Call
<1>1. /\ x.at = "reset" /\ calls' = (calls \ {x}) \cup {y} /\ committed' = 0
      /\ UNCHANGED <<syncVars, maxAwait, slotCount, released, slots, completed, rounds>>
  BY <1>0 DEF ResetCommit, Proceed
<1>2. y.who = x.who /\ y.round = x.round /\ y.at = "slot"
  BY <1>0, <1>x DEF Call
<1>3. Closing(x) /\ Closer(x)
  BY <1>1 DEF BarrierInv, Phase, Closer
<1>4. Completes(x, y)
  BY <1>1, <1>2, <1>3 DEF Completes, Later, Still, syncVars, rounds, Closing, Closer
<1>5. /\ InRound' /\ Handles' /\ Numbered' /\ Writing' /\ Remembered'
      /\ IsFiniteSet(calls') /\ calls' \subseteq Call
      /\ Committing' = {} /\ y \in calls' /\ \A z \in calls' : Closer(z)' => z = y
      /\ Active \subseteq Entered /\ Entered' = Entered /\ Active' = Active
  BY <1>4, CloserStep
<1>6. BarrierTypes'
  BY <1>x, <1>1, <1>5 DEF BarrierInv, BarrierTypes, BarrierTypeOK, syncVars, rounds
<1>7. Closing(y)'
  BY <1>1, <1>2, <1>3, <1>5 DEF Closing
<1>8. Closer(y)'
  BY <1>2 DEF Closer
<1>9. Phase'
  BY <1>1, <1>5, <1>7, <1>8 DEF BarrierInv, Phase
<1> QED
  BY <1>5, <1>6, <1>9 DEF BarrierInv

\* ... and slot_count, which nobody looks at meanwhile ...
LEMMA ResetSlotsStep ==
  ASSUME BarrierInv, NEW x \in calls, ResetSlots(x)
  PROVE  BarrierInv'
<1> USE BarrierAssumption
<1>x. x \in Call /\ Size \in Nat
  BY BarrierSizes DEF BarrierInv, BarrierTypes, BarrierTypeOK
<1>0. PICK y \in Call : y = [x EXCEPT !.at = "shrink"]
  BY <1>x DEF Call
<1>1. /\ x.at = "slot" /\ calls' = (calls \ {x}) \cup {y} /\ slotCount' = 0
      /\ UNCHANGED <<syncVars, maxAwait, committed, released, slots, completed, rounds>>
  BY <1>0 DEF ResetSlots, Proceed
<1>2. y.who = x.who /\ y.round = x.round /\ y.at = "shrink"
  BY <1>0, <1>x DEF Call
<1>3. Closing(x) /\ Closer(x)
  BY <1>1 DEF BarrierInv, Phase, Closer
<1>4. Completes(x, y)
  BY <1>1, <1>2, <1>3 DEF Completes, Later, Still, syncVars, rounds, Closing, Closer
<1>5. /\ InRound' /\ Handles' /\ Numbered' /\ Writing' /\ Remembered'
      /\ IsFiniteSet(calls') /\ calls' \subseteq Call
      /\ Committing' = {} /\ y \in calls' /\ \A z \in calls' : Closer(z)' => z = y
      /\ Active \subseteq Entered /\ Entered' = Entered /\ Active' = Active
  BY <1>4, CloserStep
<1>6. BarrierTypes'
  BY <1>x, <1>1, <1>5 DEF BarrierInv, BarrierTypes, BarrierTypeOK, syncVars, rounds
<1>7. Closing(y)'
  BY <1>1, <1>2, <1>3, <1>5 DEF Closing
<1>8. Closer(y)'
  BY <1>2 DEF Closer
<1>9. Phase'
  BY <1>1, <1>5, <1>7, <1>8 DEF BarrierInv, Phase
<1> QED
  BY <1>5, <1>6, <1>9 DEF BarrierInv

\* ... and takes those that left off max_await_count, when there is no other call.
LEMMA ShrinkStep ==
  ASSUME BarrierInv, NEW x \in calls, Shrink(x)
  PROVE  BarrierInv'
<1> USE BarrierAssumption
<1>n. /\ Size \in Nat /\ maxAwait \in Nat /\ slotCount \in Nat /\ committed \in Nat /\ released \in Nat
      /\ Cardinality(Active) \in Nat /\ Cardinality(Active) <= Size
  BY BarrierSizes DEF BarrierInv
<1>x. x \in Call /\ maxAwait \in 0..Size
  BY DEF BarrierInv, BarrierTypes, BarrierTypeOK
<1>0. PICK y \in Call : y = [x EXCEPT !.at = "gather", !.n = maxAwait]
  BY <1>x DEF Call
<1>1. /\ x.at = "shrink" /\ calls' = (calls \ {x}) \cup {y}
      /\ maxAwait' = maxAwait - released /\ released' = 0
      /\ UNCHANGED <<syncVars, slotCount, committed, slots, completed, rounds>>
  BY <1>0 DEF Shrink, Proceed
<1>2. y.who = x.who /\ y.round = x.round /\ y.at = "gather" /\ y.n = maxAwait
  BY <1>0, <1>x DEF Call
<1>3. Closing(x) /\ Closer(x)
  BY <1>1 DEF BarrierInv, Phase, Closer
<1>a. maxAwait' = Cardinality(Active)
  BY <1>n, <1>1 DEF BarrierInv, Phase
<1>r. \A z \in calls : z # x /\ z.at = "compare" => z.n + 1 # maxAwait'
  <2>1. CASE released > 0
    BY <2>1 DEF BarrierInv, Numbered
  <2>2. CASE released = 0
    BY <1>n, <1>1, <1>3, <2>2 DEF Closing, Closer
  <2> QED
    BY <1>n, <2>1, <2>2
<1>4. Completes(x, y)
  BY <1>1, <1>2, <1>3, <1>r DEF Completes, Later, Still, syncVars, rounds
<1>5. /\ InRound' /\ Handles' /\ Numbered' /\ Writing' /\ Remembered'
      /\ IsFiniteSet(calls') /\ calls' \subseteq Call
      /\ Committing' = {} /\ y \in calls' /\ \A z \in calls' : Closer(z)' => z = y
      /\ Active \subseteq Entered /\ Entered' = Entered /\ Active' = Active
  BY <1>4, CloserStep
<1>6. BarrierTypes'
  BY <1>n, <1>a, <1>1, <1>5 DEF BarrierInv, BarrierTypes, BarrierTypeOK, syncVars, rounds
<1>7. Closing(y)'
  BY <1>1, <1>2, <1>3, <1>5 DEF Closing
<1>8. Closer(y)'
  BY <1>2 DEF Closer
<1>9. maxAwait' = Cardinality(Active') + released'
  <2>1. Cardinality(Active') = Cardinality(Active)
    BY <1>5
  <2>2. released' = 0 /\ Cardinality(Active) + 0 = Cardinality(Active)
    BY <1>n, <1>1
  <2> QED
    BY <1>a, <2>1, <2>2
<1>10. Phase'
  BY <1>5, <1>7, <1>8, <1>9 DEF Phase
<1> QED
  BY <1>5, <1>6, <1>10 DEF BarrierInv

\* The snapshot holds the handles of all who take part, and empties every entry.
LEMMA GatherStep ==
  ASSUME BarrierInv, NEW x \in calls, Gather(x)
  PROVE  BarrierInv'
<1> USE BarrierAssumption
<1>n. /\ Size \in Nat /\ maxAwait \in Nat /\ slotCount \in Nat /\ completed \in Nat
      /\ x \in Call /\ x.n \in Nat
  BY BarrierSizes, CallTypes DEF BarrierInv
<1>t. /\ posted \subseteq Participants /\ calls \subseteq Call
      /\ slots \in [0..(Size - 1) -> Participants \cup {Nobody}]
      /\ pc \in [Actors -> {"idle", "suspended", "gone"}]
  BY DEF BarrierInv, BarrierTypes, BarrierTypeOK
<1> DEFINE W == {slots[i] : i \in {i \in DOMAIN slots : i < x.n /\ slots[i] # Nobody}}
<1>1. /\ x.at = "gather" /\ completed' = completed + 1
      /\ slots' = [i \in DOMAIN slots |-> IF i < x.n THEN Nobody ELSE slots[i]]
      /\ calls' = (calls \ {x}) \cup {[x EXCEPT !.at = "wake", !.woken = W]}
      /\ UNCHANGED <<syncVars, maxAwait, slotCount, committed, released, rounds>>
  BY DEF Gather, Proceed
<1>2. Closing(x) /\ Closer(x)
  BY <1>1 DEF BarrierInv, Phase, Closer
<1>3. /\ Committing = {} /\ (\A z \in calls : Closer(z) => z = x) /\ Active \subseteq Entered
      /\ committed = 0 /\ slotCount = 0 /\ released = 0
      /\ \A i \in DOMAIN slots : slots[i] # Nobody => i < x.n
  BY <1>1, <1>2 DEF Closing
\* Whoever takes part waits for the end of this round, and nobody for an earlier one.
<1>4. \A c \in Participants : /\ c \in Entered \/ c \in gone
                              /\ c \in Entered <=> pc[c] = "suspended"
                              /\ c \in Entered => arrived[c] = completed + 1
                              /\ pc[c] # "idle" /\ c \notin posted
  <2> TAKE c \in Participants
  <2>1. c \in Entered \/ c \in gone
    BY <1>3 DEF Active
  <2>2. c \in gone <=> pc[c] = "gone"
    BY DEF BarrierInv, InRound, RoundOf
  <2>3. c \in Entered => pc[c] = "suspended" /\ arrived[c] = completed + 1
    BY DEF Entered
  <2>4. c \in posted => pc[c] = "suspended" /\ arrived[c] = completed
    BY DEF BarrierInv, InRound, RoundOf
  <2> QED
    BY <1>n, <2>1, <2>2, <2>3, <2>4
<1>5. \A z \in calls : z.at = "wake" => z.woken = {}
  <2> SUFFICES ASSUME NEW z \in calls, z.at = "wake", NEW c \in z.woken PROVE FALSE
    OBVIOUS
  <2>1. c \in Participants
    BY <1>t DEF Call
  <2>2. pc[c] = "suspended" /\ arrived[c] = completed
    BY DEF BarrierInv, Handles
  <2> QED
    BY <1>n, <1>4, <2>1, <2>2
<1>6. W = Entered
  <2>1. \A c \in W : c \in Entered
    BY DEF BarrierInv, Handles
  <2>2. ASSUME NEW c \in Entered PROVE c \in W
    <3>1. c \in Participants /\ pc[c] = "suspended" /\ c # Nobody
      BY DEF Entered
    <3>2. KeptFor(c)
      BY <3>1 DEF BarrierInv, Remembered, At
    <3>3. PICK i \in DOMAIN slots : slots[i] = c
      BY <1>3, <1>4, <1>5, <3>1, <3>2 DEF KeptFor, Committing, Commits
    <3> QED
      BY <1>3, <3>1, <3>3
  <2> QED
    BY <2>1, <2>2
<1> HIDE DEF W
<1>7. Entered \subseteq Participants
  BY DEF Entered
<1>0. PICK y \in Call : y = [x EXCEPT !.at = "wake", !.woken = W]
  BY <1>n, <1>6, <1>7 DEF Call
<1>8. /\ y.who = x.who /\ y.round = x.round /\ y.at = "wake" /\ y.woken = Entered
      /\ calls' = (calls \ {x}) \cup {y}
  BY <1>n, <1>0, <1>1, <1>6 DEF Call
<1>9. Later(x, y)
  BY <1>8 DEF Later
<1>10. \A i \in DOMAIN slots' : slots'[i] = Nobody
  BY <1>1, <1>3
<1>11. Entered' = {} /\ Active' = Active
  BY <1>n, <1>1, <1>4 DEF Entered, Active, syncVars, rounds
<1>12. Committing' = {}
  BY <1>3, <1>8 DEF Committing, Commits
<1>13. BarrierTypes'
  <2>1. IsFiniteSet(calls')
    BY <1>9, CommittingLater DEF BarrierInv
  <2>2. calls' \subseteq Call
    BY <1>t, <1>8
  <2>3. slots' \in [0..(Size - 1) -> Participants \cup {Nobody}] /\ completed' \in Nat
    BY <1>n, <1>t, <1>1
  <2> QED
    BY <1>1, <2>1, <2>2, <2>3 DEF BarrierInv, BarrierTypes, BarrierTypeOK, syncVars, rounds
<1>14. InRound'
  <2> SUFFICES ASSUME NEW c \in Participants PROVE RoundOf(c)'
    BY DEF InRound
  <2>1. RoundOf(c)
    BY DEF BarrierInv, InRound
  <2>2. UNCHANGED <<pc, posted, arrived, passed, gone>>
    BY <1>1 DEF syncVars, rounds
  <2> QED
    BY <1>n, <1>1, <1>4, <2>1, <2>2 DEF RoundOf
<1>15. Handles'
  <2>1. \A z \in calls' : z.at = "wake" => z.woken = {} \/ z = y
    BY <1>5, <1>8
  <2>2. \A c \in y.woken : pc'[c] = "suspended" /\ arrived'[c] = completed' /\ c \notin posted'
    BY <1>1, <1>4, <1>7, <1>8 DEF syncVars, rounds
  <2> QED
    BY <1>10, <2>1, <2>2 DEF Handles
<1>16. Numbered'
  BY <1>1, <1>9, NumberedLater DEF BarrierInv, rounds
<1>17. Writing'
  BY <1>12 DEF Writing, Committing, Commits
<1>18. Phase'
  <2>1. \A z \in calls' : ~Closer(z)'
    BY <1>1, <1>3, <1>8 DEF Closer
  <2>2. maxAwait' = Cardinality(Active') + released'
    BY <1>1, <1>11 DEF BarrierInv, Phase
  <2>3. Opened'
    BY <1>1, <1>3, <1>10, <1>11, <1>12, FS_EmptySet DEF Opened
  <2> QED
    BY <2>1, <2>2, <2>3 DEF Phase
<1>19. Remembered'
  <2>1. pc' = pc /\ y \in calls'
    BY <1>1, <1>8 DEF syncVars
  <2> QED
    BY <1>4, <1>8, <2>1 DEF Remembered, KeptFor, At
<1> QED
  BY <1>13, <1>14, <1>15, <1>16, <1>17, <1>18, <1>19 DEF BarrierInv

\* The handles of the snapshot are posted.
LEMMA WakeStep ==
  ASSUME BarrierInv, NEW x \in calls, Wake(x)
  PROVE  BarrierInv'
<1>1. /\ x.at = "wake" /\ posted' = posted \cup x.woken /\ calls' = calls \ {x}
      /\ UNCHANGED <<pc, mutex, maxAwait, slotCount, committed, released, slots, completed,
                     arrived, passed, gone>>
  BY DEF Wake, Return, rounds
<1>2. Numbered' /\ Writing' /\ Phase' /\ Entered' = Entered /\ IsFiniteSet(calls')
  BY <1>1, ReturnStep DEF Commits, Closer
<1>3. x.woken \subseteq Participants
  BY DEF BarrierInv, BarrierTypes, BarrierTypeOK, Call
<1>4. \A c \in x.woken : pc[c] = "suspended" /\ arrived[c] = completed
  BY <1>1 DEF BarrierInv, Handles
<1>5. BarrierTypes'
  BY <1>1, <1>2, <1>3 DEF BarrierInv, BarrierTypes, BarrierTypeOK
<1>6. InRound'
  BY <1>1, <1>4 DEF BarrierInv, InRound, RoundOf
<1>7. Handles'
  <2>1. \A z \in calls' : z.at = "wake" => z.woken \cap x.woken = {}
    BY <1>1 DEF BarrierInv, Handles
  <2> QED
    BY <1>1, <1>2, <2>1 DEF BarrierInv, Handles
<1>8. Remembered'
  <2> SUFFICES ASSUME NEW c \in Participants, pc'[c] = "suspended" PROVE KeptFor(c)'
    BY DEF Remembered, At
  <2>1. KeptFor(c)
    BY <1>1 DEF BarrierInv, Remembered, At
  <2> QED
    BY <1>1, <1>2, <2>1 DEF KeptFor
<1> QED
  BY <1>2, <1>5, <1>6, <1>7, <1>8 DEF BarrierInv

\* A participant goes on to the next round.
LEMMA ResumeStep ==
  ASSUME BarrierInv, NEW c \in Participants, ResumeParticipant(c)
  PROVE  BarrierInv'
<1> USE BarrierAssumption
<1>n. completed \in Nat /\ MaxRounds \in Nat
  BY BarrierSizes DEF BarrierInv
<1>1. /\ c \in posted /\ pc[c] = "suspended" /\ posted' = posted \ {c}
      /\ pc' = [pc EXCEPT ![c] = "idle"] /\ passed' = [passed EXCEPT ![c] = @ + 1]
      /\ UNCHANGED <<mutex, maxAwait, slotCount, committed, released, slots, calls, completed,
                     arrived, gone>>
  BY DEF ResumeParticipant, Resumed, At, Goto
<1>2. arrived[c] = completed /\ passed[c] + 1 = completed /\ c \notin gone /\ passed[c] \in Nat
      /\ completed <= MaxRounds
  <2>1. arrived[c] \in 0..MaxRounds /\ passed[c] \in 0..MaxRounds
    BY DEF BarrierInv, BarrierTypes, BarrierTypeOK
  <2>2. arrived[c] = completed /\ arrived[c] = passed[c] + 1 /\ c \notin gone
    BY <1>1 DEF BarrierInv, InRound, RoundOf
  <2> QED
    BY <1>n, <2>1, <2>2
<1>3. /\ pc'[c] = "idle" /\ c \in Actors
      /\ \A d \in Actors : d # c => pc'[d] = pc[d]
      /\ pc' \in [Actors -> {"idle", "suspended", "gone"}]
      /\ passed'[c] = completed /\ passed' \in [Participants -> 0..MaxRounds]
      /\ \A d \in Participants : d # c => passed'[d] = passed[d]
  BY <1>n, <1>1, <1>2 DEF BarrierInv, BarrierTypes, BarrierTypeOK
<1>4. Entered' = Entered /\ c \notin Entered
  BY <1>n, <1>1, <1>2, <1>3 DEF Entered
<1>5. BarrierTypes'
  BY <1>1, <1>3 DEF BarrierInv, BarrierTypes, BarrierTypeOK
<1>6. InRound'
  <2> SUFFICES ASSUME NEW d \in Participants PROVE RoundOf(d)'
    BY DEF InRound
  <2>1. CASE d = c
    BY <1>1, <1>2, <1>3, <2>1 DEF RoundOf
  <2>2. CASE d # c
    BY <1>1, <1>3, <2>2 DEF RoundOf, BarrierInv, InRound
  <2> QED
    BY <2>1, <2>2
<1>7. Handles'
  <2>1. ASSUME NEW z \in calls, z.at = "wake", NEW d \in z.woken
        PROVE  pc'[d] = "suspended" /\ arrived'[d] = completed' /\ d \notin posted'
    <3>1. pc[d] = "suspended" /\ arrived[d] = completed /\ d \notin posted /\ d \in Participants
      BY <2>1 DEF BarrierInv, Handles, BarrierTypes, BarrierTypeOK, Call
    <3> QED
      BY <1>1, <1>3, <3>1
  <2> QED
    BY <1>1, <1>4, <2>1 DEF BarrierInv, Handles
<1>8. Numbered' /\ Writing'
  BY <1>1, <1>4 DEF BarrierInv, Numbered, Writing
<1>9. Phase'
  <2>1. Active' = Active /\ Committing' = Committing
    BY <1>1 DEF Active, Committing, Commits
  <2>2. \A z \in calls : Closer(z)' <=> Closer(z)
    BY <1>1 DEF Closer
  <2>3. Opened => Opened'
    BY <1>1, <1>4, <2>1 DEF Opened
  <2>4. \A z \in calls : Closing(z) => Closing(z)'
    BY <1>1, <1>4, <2>1, <2>2 DEF Closing
  <2>5. /\ maxAwait' = Cardinality(Active') + released' /\ calls' = calls
    BY <1>1, <2>1 DEF BarrierInv, Phase
  <2> QED
    BY <2>2, <2>3, <2>4, <2>5 DEF BarrierInv, Phase
<1>10. Remembered'
  <2> SUFFICES ASSUME NEW d \in Participants, pc'[d] = "suspended" PROVE KeptFor(d)'
    BY DEF Remembered, At
  <2>1. d # c /\ KeptFor(d)
    BY <1>3 DEF BarrierInv, Remembered, At
  <2> QED
    BY <1>1, <1>4, <2>1 DEF KeptFor
<1> QED
  BY <1>5, <1>6, <1>7, <1>8, <1>9, <1>10 DEF BarrierInv

\* Every step keeps the invariant.
LEMMA BarrierStep ==
  ASSUME Orderly, BarrierInv, [BarrierNext]_<<syncVars, barrierVars>>
  PROVE  BarrierInv'
<1>1. CASE UNCHANGED <<syncVars, barrierVars>>
  <2>1. /\ UNCHANGED <<pc, posted, mutex, maxAwait, slotCount, committed, released, slots, calls>>
        /\ UNCHANGED <<completed, arrived, passed, gone>>
    BY <1>1 DEF syncVars, barrierVars
  <2>2. Active' = Active /\ Entered' = Entered /\ Committing' = Committing
    BY <2>1 DEF Active, Entered, Committing, Commits
  <2>3. BarrierTypes' /\ InRound' /\ Numbered'
    BY <2>1 DEF BarrierInv, BarrierTypes, BarrierTypeOK, InRound, RoundOf, Numbered
  <2>4. Handles' /\ Writing' /\ Remembered'
    BY <2>1, <2>2 DEF BarrierInv, Handles, Writing, Remembered, KeptFor, At
  <2>5. Phase'
    BY <2>1, <2>2 DEF BarrierInv, Phase, Opened, Closing, Closer
  <2> QED
    BY <2>3, <2>4, <2>5 DEF BarrierInv
<1>2. CASE BarrierNext
  <2>1. PICK c \in Participants : Takes(c) \/ BarrierInternal(c)
    BY <1>2 DEF BarrierNext
  <2>2. CASE Takes(c)
    BY <2>2, ArriveStep, LeaveStep DEF Takes
  <2>3. CASE ResumeParticipant(c)
    BY <2>3, ResumeStep
  <2>4. ASSUME NEW x \in calls, CallStep(x) PROVE BarrierInv'
    BY <2>4, WriteHandleStep, CommitStep, CompareStep, ResetCommitStep, ResetSlotsStep, ShrinkStep,
       GatherStep, WakeStep DEF CallStep
  <2> QED
    BY <2>1, <2>2, <2>3, <2>4 DEF BarrierInternal
<1> QED
  BY <1>1, <1>2

\* The invariant holds as long as nobody leaves in a round with calls that overlap.
LEMMA BarrierHolds == ASSUME Orderly PROVE BarrierSpec => []BarrierInv
<1>1. SyncInit /\ BarrierInit => BarrierInv
  BY BarrierInvInit
<1>2. Orderly /\ BarrierInv /\ [BarrierNext]_<<syncVars, barrierVars>> => BarrierInv'
  BY BarrierStep
<1>3. Orderly
  OBVIOUS
<1> QED
  BY <1>1, <1>2, <1>3, PTL DEF BarrierSpec

\* complete() runs once a round: never more often than each of those who still take
\* part has arrived, whatever calls of earlier rounds have yet to return.
THEOREM CompletesOnce == ASSUME Orderly PROVE BarrierSpec => []OnceARound
<1>1. BarrierInv => OnceARound
  <2> SUFFICES ASSUME BarrierInv, NEW c \in Participants \ gone PROVE completed <= arrived[c]
    BY DEF OnceARound
  <2>1. pc[c] \in {"idle", "suspended", "gone"} /\ RoundOf(c) /\ completed \in Nat
    BY BarrierAssumption DEF BarrierInv, BarrierTypes, BarrierTypeOK, InRound
  <2> QED
    BY <2>1 DEF RoundOf
<1> QED
  BY <1>1, BarrierHolds, PTL

\* Every step is one that Rounds allows, or changes nothing that it speaks of.
LEMMA RoundsStep ==
  ASSUME BarrierInv, [BarrierNext]_<<syncVars, barrierVars>>
  PROVE  [Promise!Next]_<<arrived, passed, gone>>
<1> USE BarrierAssumption
<1>1. CASE UNCHANGED <<syncVars, barrierVars>>
  BY <1>1 DEF barrierVars
<1>2. CASE BarrierNext
  <2>1. PICK c \in Participants : Takes(c) \/ BarrierInternal(c)
    BY <1>2 DEF BarrierNext
  <2>2. CASE Arrive(c)
    <3>1. c \notin gone /\ arrived[c] = passed[c]
      BY <2>2, IdleOpens DEF Arrive, At
    <3> QED
      BY <2>2, <3>1 DEF Arrive, Promise!Next, Promise!Arrive
  <2>3. CASE Leave(c)
    <3>1. c \notin gone /\ arrived[c] = passed[c]
      BY <2>3, IdleOpens DEF Leave, At
    <3> QED
      BY <2>3, <3>1 DEF Leave, Promise!Next, Promise!Leave
  <2>4. CASE ResumeParticipant(c)
    <3>1. completed \in Nat
      BY BarrierSizes DEF BarrierInv
    <3>2. arrived[c] = completed /\ arrived[c] = passed[c] + 1 /\ passed[c] \in Nat
      BY <2>4 DEF ResumeParticipant, Resumed, At, BarrierInv, InRound, RoundOf, BarrierTypes, BarrierTypeOK
    <3>3. \A d \in Participants \ gone : arrived[d] \in {completed, completed + 1}
      BY <3>1 DEF BarrierInv, InRound, RoundOf, BarrierTypes
    <3>4. passed[c] < arrived[c] /\ \A d \in Participants \ gone : arrived[d] > passed[c]
      BY <3>1, <3>2, <3>3
    <3> QED
      BY <2>4, <3>4 DEF ResumeParticipant, Promise!Next, Promise!Pass
  <2>5. ASSUME NEW x \in calls, CallStep(x) PROVE UNCHANGED <<arrived, passed, gone>>
    BY <2>5 DEF CallStep, WriteHandle, Commit, Compare, ResetCommit, ResetSlots, Shrink, Gather, Wake, rounds
  <2> QED
    BY <2>1, <2>2, <2>3, <2>4, <2>5 DEF Takes, BarrierInternal
<1> QED
  BY <1>1, <1>2

\* A barrier implements Rounds: nobody passes before everybody has arrived or left,
\* however the arrivals, the late returns of earlier calls and the wakes interleave.
THEOREM NobodyPassesEarly == ASSUME Orderly PROVE BarrierSpec => RefinesRounds
<1>1. BarrierInit => Promise!Init
  BY DEF BarrierInit, Promise!Init
<1>2. BarrierInv /\ [BarrierNext]_<<syncVars, barrierVars>> => [Promise!Next]_<<arrived, passed, gone>>
  BY RoundsStep
<1> QED
  BY <1>1, <1>2, BarrierHolds, PTL DEF BarrierSpec, RefinesRounds, Promise!Spec

\* Nobody who waits is forgotten: its handle is on the way to its entry, in the entry,
\* in the snapshot of the call that wakes it, or posted.
THEOREM WaitersAreKept == ASSUME Orderly PROVE BarrierSpec => []Remembered
<1>1. BarrierInv => Remembered
  BY DEF BarrierInv
<1> QED
  BY <1>1, BarrierHolds, PTL

(***************************************************************************)
(* Awaitables, switches and selects                                        *)
(*                                                                         *)
(* The invariant says of each coroutine what is under way that will resume   *)
(* it (Main: its own execution, or the job that resumes it), that this and    *)
(* the function that it awaits (Func) are each one at most, and which of the  *)
(* two is to do it; and of the warps that who holds one holds it alone.       *)
(***************************************************************************)
SwitchType == [target : Warps \cup {NoWarp}, other : Warps \cup {NoWarp},
               parallelTarget : BOOLEAN, parallelOther : BOOLEAN]
Labels == {"user", "suspend", "dispatch", "func", "complete", "answer", "post",
           "taken", "end", "handler", "leave"}
Looping == {"post", "taken", "end"}

Jobs ==
  {j \in [does : {"func", "resume", "candidate", "switch"}, who : Coroutines, round : Nat,
          on : Warps \cup {NoWarp}, shared : BOOLEAN, switch : SwitchType] :
     j.shared => j.on \in Warps}
Execs ==
  {x \in [who : Coroutines, round : Nat, at : Labels, on : Warps \cup {NoWarp},
          holds : SUBSET Warps, shares : SUBSET Warps, worker : BOOLEAN,
          n : Nat, early : BOOLEAN, switch : SwitchType] :
     x.at \in Looping => x.n \in DOMAIN Candidates}

\* The types of the variables.
CoroutineTypes ==
  /\ round \in [Coroutines -> Nat]
  /\ flags \in [Coroutines -> SUBSET {"dispatched", "waited", "completed"}]
  /\ caller \in [Coroutines -> Warps \cup {NoWarp}]
  /\ open \in [Coroutines -> BOOLEAN]
  /\ asked \in [Coroutines -> [all : SUBSET Warps, parallel : SUBSET Warps]]

AwaitTypes == jobs \subseteq Jobs /\ execs \subseteq Execs /\ CoroutineTypes

\* What resumes the coroutine c by itself, and the function that it awaits.
MainAt == {"user", "suspend", "answer", "handler"}
MainDoes == {"resume", "switch"}
FuncAt == {"func", "complete"}
Main(c) == {x \in execs : x.who = c /\ x.at \in MainAt} \cup {j \in jobs : j.who = c /\ j.does \in MainDoes}
Func(c) == {x \in execs : x.who = c /\ x.at \in FuncAt} \cup {j \in jobs : j.who = c /\ j.does = "func"}
Sole(S) == \A x, y \in S : x = y

\* What c is at: nothing, or an awaitable that was dispatched, and whose function
\* has yet to race with the await, or has been awaited to its end.
Calm(c) == flags[c] = {} /\ Func(c) = {} /\ ~open[c]
Began(c) == /\ "dispatched" \in flags[c] /\ ~open[c]
            /\ asked[c].all = Only(caller[c])
Races(c) == Began(c) /\ "waited" \notin flags[c] /\ ("completed" \in flags[c] <=> Func(c) = {})
Answered(c) == Began(c) /\ Func(c) = {}

HasAsked(x, c) == /\ asked[c].all \subseteq x.holds \cup x.shares
             /\ asked[c].all \ asked[c].parallel \subseteq x.holds

\* s is what is left to do of the switch that c asked for.
ToSwitch(s, c) ==
  /\ asked[c].all = {s.target, s.other} \ {NoWarp}
  /\ s.parallelTarget => s.target \in asked[c].parallel
  /\ s.parallelOther => s.other \in asked[c].parallel \cup {NoWarp}

ExecInv(x) ==
  /\ x.at = "user" /\ ~x.early => Calm(x.who) /\ HasAsked(x, x.who)
  /\ x.at = "user" /\ x.early => /\ Races(x.who) /\ Only(caller[x.who]) \subseteq x.holds
                                 /\ round[x.who] < MaxAwaits[x.who]
  /\ x.at = "suspend" => Races(x.who)
  /\ x.at = "answer" => Answered(x.who)
  /\ x.at = "handler" =>
       /\ Calm(x.who) /\ ToSwitch(x.switch, x.who)
       /\ \/ x.switch.target \in x.holds \cup {NoWarp}
          \/ x.switch.parallelTarget /\ x.switch.target \in x.shares

JobInv(j) ==
  /\ j.does = "resume" => Answered(j.who) /\ j.on = caller[j.who] /\ ~j.shared
  /\ j.does = "switch" => /\ Calm(j.who) /\ ToSwitch(j.switch, j.who)
                          /\ j.on = j.switch.target /\ (j.shared => j.switch.parallelTarget)

Offered(c) ==
  \/ \E j \in jobs : j.who = c /\ j.does = "candidate" /\ j.round = round[c]
  \/ \E x \in execs : x.who = c /\ x.at = "post" /\ x.round = round[c]

OnItsWay(c) ==
  /\ Sole(Main(c)) /\ Sole(Func(c))
  /\ \A y \in Main(c) \cup Func(c) : y.round = round[c]
  /\ \A x \in execs : x.who = c => ExecInv(x)
  /\ \A j \in jobs : j.who = c => JobInv(j)
  /\ open[c] => Main(c) = {} /\ Func(c) = {} /\ flags[c] = {} /\ asked[c].all = {} /\ Offered(c)
  /\ Func(c) # {} => Began(c) /\ "completed" \notin flags[c]
  /\ Main(c) = {} /\ Func(c) # {} => "waited" \in flags[c]
  /\ Main(c) = {} /\ Func(c) = {} /\ ~open[c] => round[c] = MaxAwaits[c]

\* Whoever has a warp alone has it alone; a parallel function may start beside it.
Excluded ==
  \A x, y \in execs : x # y => /\ x.holds \cap y.holds = {}
                               /\ y.at # "func" => x.holds \cap y.shares = {}

AwaitInv == AwaitTypes /\ Excluded /\ \A c \in Coroutines : OnItsWay(c)

(***************************************************************************)
LEMMA JobIsNoExecution == ASSUME NEW j \in Jobs, NEW x \in Execs PROVE j # x
<1>1. "does" \in DOMAIN j /\ "does" \notin DOMAIN x
  BY DEF Jobs, Execs
<1> QED
  BY <1>1

\* Only c has moved: the jobs J and the executions X are gone, K and Y are new.
Acts(c, J, K, X, Y) ==
  /\ J \subseteq jobs /\ X \subseteq execs /\ K \subseteq Jobs /\ Y \subseteq Execs
  /\ \A z \in J \cup K \cup X \cup Y : z.who = c
  /\ jobs' = (jobs \ J) \cup K /\ execs' = (execs \ X) \cup Y

LEMMA ActsParts ==
  ASSUME AwaitTypes, NEW c, NEW J, NEW K, NEW X, NEW Y, Acts(c, J, K, X, Y)
  PROVE  /\ Main(c)' = (Main(c) \ (J \cup X)) \cup {y \in Y : y.at \in MainAt}
                                              \cup {k \in K : k.does \in MainDoes}
         /\ Func(c)' = (Func(c) \ (J \cup X)) \cup {y \in Y : y.at \in FuncAt}
                                              \cup {k \in K : k.does = "func"}
         /\ jobs' \subseteq Jobs /\ execs' \subseteq Execs
<1>1. \A j \in J : j \notin execs
  BY JobIsNoExecution DEF Acts, AwaitTypes
<1>2. \A x \in X : x \notin jobs
  BY JobIsNoExecution DEF Acts, AwaitTypes
<1>3. jobs' \subseteq Jobs /\ execs' \subseteq Execs
  BY DEF Acts, AwaitTypes
<1>4. Main(c)' = (Main(c) \ (J \cup X)) \cup {y \in Y : y.at \in MainAt}
                                        \cup {k \in K : k.does \in MainDoes}
  BY <1>1, <1>2 DEF Acts, Main
<1>5. Func(c)' = (Func(c) \ (J \cup X)) \cup {y \in Y : y.at \in FuncAt}
                                        \cup {k \in K : k.does = "func"}
  BY <1>1, <1>2 DEF Acts, Func
<1> QED
  BY <1>3, <1>4, <1>5

\* What is known of a coroutine d, but for where its jobs and executions are.
SameFor(d) ==
  /\ round'[d] = round[d] /\ flags'[d] = flags[d] /\ caller'[d] = caller[d]
  /\ open'[d] = open[d] /\ asked'[d] = asked[d]

\* The step of one coroutine leaves the others alone.
LEMMA OthersStay ==
  ASSUME AwaitTypes, NEW c, NEW J, NEW K, NEW X, NEW Y, Acts(c, J, K, X, Y),
         NEW d \in Coroutines, d # c, SameFor(d), OnItsWay(d)
  PROVE  OnItsWay(d)'
<1>1. \A x : x.who = d => (x \in execs' <=> x \in execs)
  BY DEF Acts
<1>2. \A j : j.who = d => (j \in jobs' <=> j \in jobs)
  BY DEF Acts
<1>3. Main(d)' = Main(d) /\ Func(d)' = Func(d)
  BY <1>1, <1>2 DEF Main, Func
<1>4. /\ Calm(d)' <=> Calm(d)
      /\ Began(d)' <=> Began(d)
      /\ Races(d)' <=> Races(d)
      /\ Answered(d)' <=> Answered(d)
  BY <1>3 DEF Calm, Began, Races, Answered, SameFor
<1>5. \A x \in execs' : x.who = d => ExecInv(x)'
  <2> SUFFICES ASSUME NEW x \in execs', x.who = d PROVE ExecInv(x)'
    OBVIOUS
  <2>1. ExecInv(x)
    BY <1>1 DEF OnItsWay
  <2> QED
    BY <2>1, <1>4 DEF ExecInv, HasAsked, ToSwitch, SameFor
<1>6. \A j \in jobs' : j.who = d => JobInv(j)'
  <2> SUFFICES ASSUME NEW j \in jobs', j.who = d PROVE JobInv(j)'
    OBVIOUS
  <2>1. JobInv(j)
    BY <1>2 DEF OnItsWay
  <2> QED
    BY <2>1, <1>4 DEF JobInv, ToSwitch, SameFor
<1>7. Offered(d) => Offered(d)'
  BY <1>1, <1>2 DEF Offered, SameFor
<1> QED
  BY <1>3, <1>4, <1>5, <1>6, <1>7 DEF OnItsWay, SameFor

\* It is enough to look at what resumes c.
LEMMA SoleWay ==
  ASSUME NEW c, NEW m, Main(c)' \subseteq {m}, 
         m \in Main(c)' /\ m \in execs' => ExecInv(m)',
         m \in Main(c)' /\ m \in jobs' => JobInv(m)'
  PROVE  /\ Sole(Main(c)') 
         /\ \A x \in execs' : x.who = c => ExecInv(x)'
         /\ \A j \in jobs' : j.who = c => JobInv(j)'
<1>1. \A x \in execs' : x.who = c => ExecInv(x)'
  <2> SUFFICES ASSUME NEW x \in execs', x.who = c PROVE ExecInv(x)'
    OBVIOUS
  <2>1. CASE x.at \in MainAt
    <3>1. x \in Main(c)'
      BY <2>1 DEF Main
    <3> QED
      BY <3>1
  <2>2. CASE x.at \notin MainAt
    BY <2>2 DEF ExecInv, MainAt
  <2> QED
    BY <2>1, <2>2
<1>2. \A j \in jobs' : j.who = c => JobInv(j)'
  <2> SUFFICES ASSUME NEW j \in jobs', j.who = c PROVE JobInv(j)'
    OBVIOUS
  <2>1. CASE j.does \in MainDoes
    <3>1. j \in Main(c)'
      BY <2>1 DEF Main
    <3> QED
      BY <3>1
  <2>2. CASE j.does \notin MainDoes
    BY <2>2 DEF JobInv, MainDoes
  <2> QED
    BY <2>1, <2>2
<1> QED
  BY <1>1, <1>2 DEF Sole

(***************************************************************************)
LEMMA OneActs ==
  ASSUME AwaitInv, NEW c \in Coroutines, NEW J, NEW K, NEW X, NEW Y, Acts(c, J, K, X, Y),
         CoroutineTypes', \A d \in Coroutines : d # c => SameFor(d), Excluded', OnItsWay(c)'
  PROVE  AwaitInv'
<1>1. AwaitTypes'
  BY ActsParts DEF AwaitInv, AwaitTypes
<1>2. ASSUME NEW d \in Coroutines PROVE OnItsWay(d)'
  BY OthersStay DEF AwaitInv
<1> QED
  BY <1>1, <1>2 DEF AwaitInv

\* x goes on as what is in Y, with fewer warps.
Loses(x, Y) ==
  /\ execs' = (execs \ {x}) \cup Y /\ Sole(Y)
  /\ \A y \in Y : /\ y.holds \subseteq x.holds /\ y.shares \subseteq x.shares
                  /\ x.at = "func" => y.at = "func" \/ y.shares = {}

LEMMA ExcludedLess ==
  ASSUME Excluded, NEW x \in execs, NEW Y, Loses(x, Y)
  PROVE  Excluded'
<1> USE DEF Loses
<1> SUFFICES ASSUME NEW u \in execs', NEW v \in execs', u # v
             PROVE  u.holds \cap v.holds = {} /\ (v.at # "func" => u.holds \cap v.shares = {})
  BY DEF Excluded
<1>1. CASE u \in Y
  <2>1. v \in execs /\ v # x
    BY <1>1 DEF Sole
  <2> QED
    BY <1>1, <2>1 DEF Excluded
<1>2. CASE v \in Y
  <2>1. u \in execs /\ u # x
    BY <1>2 DEF Sole
  <2> QED
    BY <1>2, <2>1 DEF Excluded
<1>3. CASE u \notin Y /\ v \notin Y
  BY <1>3 DEF Excluded
<1> QED
  BY <1>1, <1>2, <1>3

\* An execution ends, or goes on with the same warps.
LEMMA ExcludedGone ==
  ASSUME Excluded, NEW x \in execs, Ends(x) PROVE Excluded'
BY DEF Excluded, Ends

Keeps(x, y) ==
  /\ execs' = (execs \ {x}) \cup {y} /\ y.holds = x.holds /\ y.shares = x.shares
  /\ x.at = "func" => y.at = "func"

LEMMA ExcludedSame ==
  ASSUME Excluded, NEW x \in execs, NEW y, Keeps(x, y) PROVE Excluded'
<1>1. execs' = (execs \ {x}) \cup {y} /\ Sole({y})
  BY DEF Keeps, Sole
<1>2. \A z \in {y} : /\ z.holds \subseteq x.holds /\ z.shares \subseteq x.shares
                     /\ x.at = "func" => z.at = "func" \/ z.shares = {}
  BY DEF Keeps
<1> QED
  BY <1>1, <1>2, ExcludedLess DEF Loses

\* A job takes its warp.
TakesWarp(j, y) ==
  /\ j \in jobs /\ CanStart(j)
  /\ y.holds = IF j.shared THEN {} ELSE Only(j.on)
  /\ y.shares = IF j.shared THEN {j.on} ELSE {}
  /\ j.does = "func" => y.at = "func"

LEMMA ExcludedStart ==
  ASSUME AwaitTypes, Excluded, NEW j, NEW y, TakesWarp(j, y), execs' = execs \cup {y}
  PROVE  Excluded'
<1>t. \A z \in execs : z.holds \subseteq Warps
  BY DEF AwaitTypes, Execs
<1>1. \A z \in execs : /\ y.holds \cap z.holds = {} /\ y.holds \cap z.shares = {}
                       /\ y.at # "func" => z.holds \cap y.shares = {}
  <2>1. CASE j.shared
    <3>1. y.at # "func" => ~Busy(j.on)
      <4>1. j.on \in Warps
        BY <2>1 DEF TakesWarp, AwaitTypes, Jobs
      <4> QED
        BY <2>1, <4>1, AwaitablesAssumption DEF TakesWarp, CanStart
    <3> QED
      BY <2>1, <3>1 DEF TakesWarp, Busy
  <2>2. CASE ~j.shared
    BY <2>2 DEF TakesWarp, CanStart, Vacant, Busy, Suspended, Only
  <2> QED
    BY <2>1, <2>2
<1> SUFFICES ASSUME NEW u \in execs', NEW v \in execs', u # v
             PROVE  u.holds \cap v.holds = {} /\ (v.at # "func" => u.holds \cap v.shares = {})
  BY DEF Excluded
<1>2. CASE u = y
  BY <1>1, <1>2
<1>3. CASE v = y
  BY <1>1, <1>3
<1>4. CASE u # y /\ v # y
  BY <1>4 DEF Excluded
<1> QED
  BY <1>2, <1>3, <1>4

(***************************************************************************)
(* Records                                                                 *)
(***************************************************************************)
\* u is y with the coroutine resumed in it.
Resumes(u, y) ==
  /\ u \in Execs /\ u = User(y) /\ u.who = y.who /\ u.round = y.round + 1
  /\ u.at = "user" /\ ~u.early /\ u.holds = y.holds /\ u.shares = y.shares

LEMMA UserFacts == ASSUME NEW y \in Execs PROVE \E u \in Execs : Resumes(u, y)
<1> DEFINE u == User(y)
<1>1. NoSwitch \in SwitchType
  BY DEF NoSwitch, SwitchType
<1>2. /\ u.who = y.who /\ u.round = y.round + 1 /\ u.at = "user" /\ u.early = FALSE
      /\ u.holds = y.holds /\ u.shares = y.shares
  BY DEF User, Execs
<1>3. u \in Execs
  <2>1. u.round \in Nat /\ u.at \in Labels /\ u.at \notin Looping
    BY <1>2 DEF Execs, Labels, Looping
  <2>2. u = [y EXCEPT !.at = "user", !.round = y.round + 1, !.early = FALSE, !.switch = NoSwitch]
    BY DEF User, Execs
  <2> QED
    BY <1>1, <2>1, <2>2 DEF Execs, Labels, Looping
<1>4. Resumes(u, y)
  BY <1>2, <1>3 DEF Resumes
<1> QED
  BY <1>3, <1>4

\* y is x with another label.
Relabels(y, x, label) ==
  /\ y \in Execs /\ y = [x EXCEPT !.at = label] /\ y.at = label
  /\ y.who = x.who /\ y.round = x.round /\ y.early = x.early
  /\ y.holds = x.holds /\ y.shares = x.shares /\ y.switch = x.switch /\ y.n = x.n

LEMMA RelabelFacts ==
  ASSUME NEW x \in Execs, NEW label \in Labels, label \in Looping => x.at \in Looping
  PROVE  \E y \in Execs : Relabels(y, x, label)
<1> DEFINE y == [x EXCEPT !.at = label]
<1>1. y.at = label /\ y.who = x.who /\ y.round = x.round /\ y.early = x.early
      /\ y.holds = x.holds /\ y.shares = x.shares /\ y.switch = x.switch /\ y.n = x.n
  BY DEF Execs
<1>2. y \in Execs
  BY DEF Execs
<1>3. Relabels(y, x, label)
  BY <1>1, <1>2 DEF Relabels
<1> QED
  BY <1>2, <1>3

\* The call that x was in returns: Y is what is left of it.
Left(x, Y) ==
  /\ execs' = (execs \ {x}) \cup Y /\ Y \subseteq Execs /\ Sole(Y)
  /\ \A y \in Y : /\ y.who = x.who /\ y.at = "leave"
                  /\ y.holds = x.holds /\ y.shares = x.shares

LEMMA LeavesFacts ==
  ASSUME NEW x \in Execs, Leaves(x)
  PROVE  \E Y \in SUBSET Execs : Left(x, Y)
<1>1. CASE x.holds \cup x.shares = {}
  <2>1. Left(x, {})
    BY <1>1 DEF Leaves, Ends, Left, Sole
  <2> QED
    BY <2>1
<1>2. CASE x.holds \cup x.shares # {}
  <2>1. PICK y \in Execs : Relabels(y, x, "leave")
    BY RelabelFacts DEF Labels, Looping
  <2>2. Left(x, {y})
    BY <1>2, <2>1 DEF Leaves, Becomes, Left, Sole, Relabels
  <2> QED
    BY <2>2
<1> QED
  BY <1>1, <1>2

LEMMA ExcludedLeft ==
  ASSUME Excluded, NEW x \in execs, NEW Y, Left(x, Y), x.at # "func"
  PROVE  Excluded'
BY ExcludedLess DEF Left, Loses

\* j does something for x, on the warp w.
Works(j, does, x, w, shared, switch) ==
  /\ j \in Jobs /\ j = Job(does, x, w, shared, switch) /\ j.does = does /\ j.who = x.who
  /\ j.round = x.round /\ j.on = w /\ j.shared = shared /\ j.switch = switch

LEMMA JobFacts ==
  ASSUME NEW does \in {"func", "resume", "candidate", "switch"}, NEW x \in Execs,
         NEW w \in Warps \cup {NoWarp}, NEW shared \in BOOLEAN, NEW switch \in SwitchType,
         shared => w \in Warps
  PROVE  \E j \in Jobs : Works(j, does, x, w, shared, switch)
<1> DEFINE j == Job(does, x, w, shared, switch)
<1>1. /\ j.does = does /\ j.who = x.who /\ j.round = x.round /\ j.on = w /\ j.shared = shared
      /\ j.switch = switch
  BY DEF Job
<1>2. x.who \in Coroutines /\ x.round \in Nat
  BY DEF Execs
<1>3. j \in Jobs
  BY <1>2 DEF Job, Jobs
<1>4. Works(j, does, x, w, shared, switch)
  BY <1>1, <1>3 DEF Works
<1> QED
  BY <1>3, <1>4

\* y is the job j, begun.
Begins(y, j, label) ==
  /\ y \in Execs /\ y = Execution(j, label) /\ y.who = j.who /\ y.round = j.round /\ y.at = label
  /\ y.holds = (IF j.shared THEN {} ELSE Only(j.on))
  /\ y.shares = (IF j.shared THEN {j.on} ELSE {})
  /\ y.switch = j.switch /\ ~y.early

LEMMA ExecutionFacts ==
  ASSUME NEW j \in Jobs, NEW label \in Labels \ Looping
  PROVE  \E y \in Execs : Begins(y, j, label)
<1> DEFINE y == Execution(j, label)
<1>1. Only(j.on) \subseteq Warps
  BY DEF Only, Jobs
<1>2. (IF j.shared THEN {} ELSE Only(j.on)) \in SUBSET Warps /\ (IF j.shared THEN {j.on} ELSE {}) \in SUBSET Warps
  BY <1>1 DEF Jobs
<1>3. j.who \in Coroutines /\ j.round \in Nat /\ j.on \in Warps \cup {NoWarp} /\ j.switch \in SwitchType
  BY DEF Jobs
<1>4. y \in Execs
  BY <1>2, <1>3 DEF Execution, Execs
<1>5. Begins(y, j, label)
  BY <1>4 DEF Begins, Execution
<1> QED
  BY <1>4, <1>5

(***************************************************************************)
\* A step of a call that has nothing to do with what resumes the coroutine.
LEMMA IdleStep ==
  ASSUME AwaitInv, NEW c \in Coroutines, NEW J, NEW K, NEW X, NEW Y, Acts(c, J, K, X, Y),
         UNCHANGED coroutineVars, Excluded',
         \A x \in X \cup Y : x.at \notin MainAt \cup FuncAt,
         \A j \in J \cup K : j.does = "candidate",
         \A x \in X : x.at = "post" => \E k \in K : k.round = x.round,
         \A j \in J : ~(open[c] /\ j.round = round[c])
  PROVE  AwaitInv'
<1>c. UNCHANGED <<round, flags, caller, open, asked>>
  BY DEF coroutineVars
<1>1. Main(c)' = Main(c) /\ Func(c)' = Func(c)
  <2>1. \A z \in J \cup X : z \notin Main(c) /\ z \notin Func(c)
    <3>1. \A j \in J : j \notin execs
      BY JobIsNoExecution DEF Acts, AwaitInv, AwaitTypes
    <3>2. \A x \in X : x \notin jobs
      BY JobIsNoExecution DEF Acts, AwaitInv, AwaitTypes
    <3> QED
      BY <3>1, <3>2 DEF Main, Func, MainAt, FuncAt, MainDoes
  <2>2. {y \in Y : y.at \in MainAt} = {} /\ {y \in Y : y.at \in FuncAt} = {}
    OBVIOUS
  <2>3. {k \in K : k.does \in MainDoes} = {} /\ {k \in K : k.does = "func"} = {}
    BY DEF MainDoes
  <2>4. /\ Main(c)' = (Main(c) \ (J \cup X)) \cup {y \in Y : y.at \in MainAt}
                                              \cup {k \in K : k.does \in MainDoes}
        /\ Func(c)' = (Func(c) \ (J \cup X)) \cup {y \in Y : y.at \in FuncAt}
                                              \cup {k \in K : k.does = "func"}
    BY ActsParts DEF AwaitInv
  <2> QED
    BY <2>1, <2>2, <2>3, <2>4
<1>2. OnItsWay(c)
  BY DEF AwaitInv
<1>3. /\ Calm(c)' <=> Calm(c)
      /\ Began(c)' <=> Began(c)
      /\ Races(c)' <=> Races(c)
      /\ Answered(c)' <=> Answered(c)
  BY <1>c, <1>1 DEF Calm, Began, Races, Answered
<1>4. \A x \in execs' : x.who = c => ExecInv(x)'
  <2> SUFFICES ASSUME NEW x \in execs', x.who = c PROVE ExecInv(x)'
    OBVIOUS
  <2>1. CASE x \in Y
    BY <2>1 DEF ExecInv, MainAt
  <2>2. CASE x \notin Y
    <3>1. ExecInv(x)
      BY <1>2, <2>2 DEF OnItsWay, Acts
    <3> QED
      BY <1>c, <1>3, <3>1 DEF ExecInv, HasAsked, ToSwitch
  <2> QED
    BY <2>1, <2>2
<1>5. \A j \in jobs' : j.who = c => JobInv(j)'
  <2> SUFFICES ASSUME NEW j \in jobs', j.who = c PROVE JobInv(j)'
    OBVIOUS
  <2>1. CASE j \in K
    BY <2>1 DEF JobInv
  <2>2. CASE j \notin K
    <3>1. JobInv(j)
      BY <1>2, <2>2 DEF OnItsWay, Acts
    <3> QED
      BY <1>c, <1>3, <3>1 DEF JobInv, ToSwitch
  <2> QED
    BY <2>1, <2>2
<1>6. open[c] /\ Offered(c) => Offered(c)'
  <2> SUFFICES ASSUME open[c], Offered(c) PROVE Offered(c)'
    OBVIOUS
  <2>1. ASSUME NEW j \in jobs, j.who = c, j.does = "candidate", j.round = round[c] PROVE Offered(c)'
    <3>1. j \in jobs'
      BY <2>1 DEF Acts
    <3> QED
      BY <1>c, <2>1, <3>1 DEF Offered
  <2>2. ASSUME NEW x \in execs, x.who = c, x.at = "post", x.round = round[c] PROVE Offered(c)'
    <3>1. CASE x \in X
      <4>1. PICK k \in K : k.round = x.round
        BY <2>2, <3>1
      <4>2. k \in jobs' /\ k.who = c /\ k.does = "candidate"
        BY DEF Acts
      <4> QED
        BY <1>c, <2>2, <4>1, <4>2 DEF Offered
    <3>2. CASE x \notin X
      <4>1. x \in execs'
        BY <3>2 DEF Acts
      <4> QED
        BY <1>c, <2>2, <4>1 DEF Offered
    <3> QED
      BY <3>1, <3>2
  <2> QED
    BY <2>1, <2>2 DEF Offered
<1>7. OnItsWay(c)'
  BY <1>c, <1>1, <1>2, <1>3, <1>4, <1>5, <1>6 DEF OnItsWay
<1>8. CoroutineTypes'
  BY <1>c DEF AwaitInv, AwaitTypes, CoroutineTypes
<1>9. \A d \in Coroutines : SameFor(d)
  BY <1>c DEF SameFor
<1> QED
  BY <1>7, <1>8, <1>9, OneActs

(***************************************************************************)
(* What a step leaves of a coroutine                                       *)
(***************************************************************************)
\* The coroutine c acts, and what is known of it and of the warps stays true.
ActsAlone(c, J, K, X, Y) ==
  /\ Acts(c, J, K, X, Y) /\ CoroutineTypes' /\ Excluded'
  /\ \A d \in Coroutines : d # c => SameFor(d)

\* m is the only thing that may resume c, and it can.
Settled(c, m) ==
  /\ Main(c)' \subseteq {m}
  /\ m \in Main(c)' => /\ m.round = round'[c]
                       /\ m \in execs' => ExecInv(m)'
                       /\ m \in jobs' => JobInv(m)'

LEMMA Settles ==
  ASSUME AwaitInv, NEW c \in Coroutines, NEW J, NEW K, NEW X, NEW Y, ActsAlone(c, J, K, X, Y),
         NEW m, Settled(c, m), Sole(Func(c)'), \A f \in Func(c)' : f.round = round'[c],
         ~open'[c],
         Func(c)' # {} => Began(c)' /\ "completed" \notin flags'[c],
         Main(c)' = {} /\ Func(c)' # {} => "waited" \in flags'[c],
         Main(c)' = {} /\ Func(c)' = {} => round'[c] = MaxAwaits[c]
  PROVE  AwaitInv'
<1>1. /\ Sole(Main(c)')
      /\ \A x \in execs' : x.who = c => ExecInv(x)'
      /\ \A j \in jobs' : j.who = c => JobInv(j)'
  BY SoleWay DEF Settled
<1>2. \A y \in Main(c)' \cup Func(c)' : y.round = round'[c]
  BY DEF Settled
<1>3. OnItsWay(c)'
  BY <1>1, <1>2 DEF OnItsWay
<1> QED
  BY <1>3, OneActs DEF ActsAlone

\* m comes out of the step as what resumes c, and nothing of c is left beside it.
LEMMA Passes ==
  ASSUME AwaitInv, NEW c \in Coroutines, NEW J, NEW K, NEW X, NEW Y, ActsAlone(c, J, K, X, Y),
         NEW m, Main(c) \subseteq J \cup X, Func(c) \subseteq J \cup X,
         {y \in Y : y.at \in MainAt} \cup {k \in K : k.does \in MainDoes} = {m},
         {y \in Y : y.at \in FuncAt} = {}, {k \in K : k.does = "func"} = {},
         m.round = round'[c], ~open'[c],
         m \in Y => ExecInv(m)', m \in K => JobInv(m)'
  PROVE  AwaitInv'
<1>0. Acts(c, J, K, X, Y)
  BY DEF ActsAlone
<1>1. Main(c)' = {m} /\ Func(c)' = {}
  <2>1. /\ Main(c)' = (Main(c) \ (J \cup X)) \cup {y \in Y : y.at \in MainAt}
                                              \cup {k \in K : k.does \in MainDoes}
        /\ Func(c)' = (Func(c) \ (J \cup X)) \cup {y \in Y : y.at \in FuncAt}
                                              \cup {k \in K : k.does = "func"}
    BY <1>0, ActsParts DEF AwaitInv
  <2> QED
    BY <2>1
<1>2. m \in Y \/ m \in K
  OBVIOUS
<1>3. K \subseteq Jobs /\ Y \subseteq Execs /\ execs' \subseteq Execs /\ jobs' \subseteq Jobs
  <2>1. execs' \subseteq Execs /\ jobs' \subseteq Jobs
    BY <1>0, ActsParts DEF AwaitInv
  <2>2. K \subseteq Jobs /\ Y \subseteq Execs
    BY <1>0 DEF Acts
  <2> QED
    BY <2>1, <2>2
<1>4. (m \in execs' => ExecInv(m)') /\ (m \in jobs' => JobInv(m)')
  BY <1>2, <1>3, JobIsNoExecution
<1>5. Settled(c, m)
  BY <1>1, <1>4 DEF Settled
<1> QED
  BY <1>1, <1>5, Settles DEF Sole

LEMMA GoesOnFacts ==
  ASSUME AwaitTypes, NEW c \in Coroutines, GoesOn(c)
  PROVE  /\ round'[c] = round[c] + 1 /\ flags'[c] = {} /\ open'[c] = FALSE
         /\ caller' = caller /\ asked' = asked
         /\ CoroutineTypes' /\ \A d \in Coroutines : d # c => SameFor(d)
<1>1. /\ round'[c] = round[c] + 1 /\ flags'[c] = {} /\ open'[c] = FALSE
      /\ caller' = caller /\ asked' = asked
  BY DEF GoesOn, AwaitTypes, CoroutineTypes
<1>2. CoroutineTypes'
  BY DEF GoesOn, AwaitTypes, CoroutineTypes
<1>3. \A d \in Coroutines : d # c => SameFor(d)
  BY DEF GoesOn, AwaitTypes, CoroutineTypes, SameFor
<1> QED
  BY <1>1, <1>2, <1>3

\* The coroutine is resumed, in u.
LEMMA ResumedIn ==
  ASSUME AwaitInv, NEW c \in Coroutines, NEW J, NEW X, NEW u, Acts(c, J, {}, X, {u}),
         GoesOn(c), Excluded', Main(c) \subseteq J \cup X, Func(c) = {},
         u.at = "user", ~u.early, u.round = round[c] + 1, HasAsked(u, c)
  PROVE  AwaitInv'
<1>1. /\ round'[c] = round[c] + 1 /\ flags'[c] = {} /\ open'[c] = FALSE
      /\ caller' = caller /\ asked' = asked
      /\ CoroutineTypes' /\ \A d \in Coroutines : d # c => SameFor(d)
  BY GoesOnFacts DEF AwaitInv
<1>2. ActsAlone(c, J, {}, X, {u})
  BY <1>1 DEF ActsAlone
<1>3. u.who = c
  BY DEF Acts
<1>4. Func(c)' = {}
  <2>1. Func(c)' = (Func(c) \ (J \cup X)) \cup {y \in {u} : y.at \in FuncAt}
                                          \cup {k \in {} : k.does = "func"}
    BY ActsParts DEF AwaitInv
  <2> QED
    BY <2>1 DEF FuncAt
<1>5. ExecInv(u)'
  BY <1>1, <1>3, <1>4 DEF ExecInv, Calm, HasAsked
<1>6. /\ {y \in {u} : y.at \in MainAt} \cup {k \in {} : k.does \in MainDoes} = {u}
      /\ {y \in {u} : y.at \in FuncAt} = {}
      /\ {k \in {} : k.does = "func"} = {}
  BY DEF MainAt, FuncAt
<1> QED
  BY <1>1, <1>2, <1>5, <1>6, Passes

\* What is known of a coroutine when x or j is what will resume it.
LEMMA MainFacts ==
  ASSUME AwaitInv, NEW x \in execs, x.at \in MainAt
  PROVE  /\ x \in Execs /\ x.who \in Coroutines /\ Main(x.who) = {x} /\ ExecInv(x)
         /\ x.round = round[x.who] /\ ~open[x.who] /\ x \notin jobs
<1>1. x \in Execs /\ x.who \in Coroutines
  BY DEF AwaitInv, AwaitTypes, Execs
<1>2. x \in Main(x.who)
  BY DEF Main
<1>3. OnItsWay(x.who)
  BY <1>1 DEF AwaitInv
<1>4. x \notin jobs
  BY <1>1, JobIsNoExecution DEF AwaitInv, AwaitTypes
<1> QED
  BY <1>1, <1>2, <1>3, <1>4 DEF OnItsWay, Sole

LEMMA MainJobFacts ==
  ASSUME AwaitInv, NEW j \in jobs, j.does \in MainDoes
  PROVE  /\ j \in Jobs /\ j.who \in Coroutines /\ Main(j.who) = {j} /\ JobInv(j)
         /\ j.round = round[j.who] /\ ~open[j.who] /\ j \notin execs
<1>1. j \in Jobs /\ j.who \in Coroutines
  BY DEF AwaitInv, AwaitTypes, Jobs
<1>2. j \in Main(j.who)
  BY DEF Main
<1>3. OnItsWay(j.who)
  BY <1>1 DEF AwaitInv
<1>4. j \notin execs
  BY <1>1, JobIsNoExecution DEF AwaitInv, AwaitTypes
<1> QED
  BY <1>1, <1>2, <1>3, <1>4 DEF OnItsWay, Sole

\* The coroutine that may begin something has nothing else under way.
LEMMA CallFacts ==
  ASSUME AwaitInv, NEW x \in execs, MayCall(x)
  PROVE  /\ x \in Execs /\ x.who \in Coroutines /\ Main(x.who) = {x} /\ Func(x.who) = {}
         /\ x.round = round[x.who] /\ ~open[x.who] /\ flags[x.who] = {}
         /\ Current(x) \in x.holds \cup {NoWarp} /\ x.at = "user" /\ ~x.early
         /\ round[x.who] < MaxAwaits[x.who]
<1>1. x.at = "user" /\ ~x.early /\ x.at \in MainAt /\ round[x.who] < MaxAwaits[x.who]
  BY DEF MayCall, Stands, MainAt
<1> QED
  BY <1>1, MainFacts DEF ExecInv, Calm, Current

\* x goes on as y, which holds H and shares S beside what x had.
Gains(x, y, H, S) ==
  /\ execs' = (execs \ {x}) \cup {y} /\ x.at # "func"
  /\ y.holds \subseteq x.holds \cup H /\ y.shares \subseteq x.shares \cup S
  /\ \A z \in execs : z # x =>
       H \cap z.holds = {} /\ H \cap z.shares = {} /\ S \cap z.holds = {}

LEMMA ExcludedMore ==
  ASSUME Excluded, NEW x \in execs, NEW y, NEW H, NEW S, Gains(x, y, H, S)
  PROVE  Excluded'
<1> USE DEF Gains
<1> SUFFICES ASSUME NEW u \in execs', NEW v \in execs', u # v
             PROVE  u.holds \cap v.holds = {} /\ (v.at # "func" => u.holds \cap v.shares = {})
  BY DEF Excluded
<1>1. CASE u = y
  <2>1. v \in execs /\ v # x
    BY <1>1
  <2>2. /\ x.holds \cap v.holds = {} /\ (v.at # "func" => x.holds \cap v.shares = {})
        /\ H \cap v.holds = {} /\ H \cap v.shares = {}
    BY <2>1 DEF Excluded
  <2> QED
    BY <1>1, <2>2
<1>2. CASE v = y
  <2>1. u \in execs /\ u # x
    BY <1>2
  <2>2. u.holds \cap x.holds = {} /\ u.holds \cap x.shares = {} /\ H \cap u.holds = {} /\ S \cap u.holds = {}
    BY <2>1 DEF Excluded
  <2> QED
    BY <1>2, <2>2
<1>3. CASE u # y /\ v # y
  BY <1>3 DEF Excluded
<1> QED
  BY <1>1, <1>2, <1>3

(***************************************************************************)
(* The steps                                                               *)
(***************************************************************************)
LEMMA LeaveCallInv == ASSUME AwaitInv, NEW x \in execs, LeaveCall(x) PROVE AwaitInv'
<1>1. x \in Execs /\ x.who \in Coroutines /\ x.at = "leave"
  BY DEF AwaitInv, AwaitTypes, Execs, LeaveCall, Stands
<1>2. Acts(x.who, {}, {}, {x}, {})
  BY <1>1 DEF Acts, LeaveCall, Ends
<1>3. Excluded'
  BY ExcludedGone DEF AwaitInv, LeaveCall
<1> QED
  BY <1>1, <1>2, <1>3, IdleStep DEF LeaveCall, MainAt, FuncAt

LEMMA LateDispatchInv == ASSUME AwaitInv, NEW x \in execs, LateDispatch(x) PROVE AwaitInv'
<1>1. x \in Execs /\ x.who \in Coroutines /\ x.at = "dispatch"
  BY DEF AwaitInv, AwaitTypes, Execs, LateDispatch, Stands
<1>2. PICK Y \in SUBSET Execs : Left(x, Y)
  BY <1>1, LeavesFacts DEF LateDispatch
<1>3. Acts(x.who, {}, {}, {x}, Y)
  BY <1>1, <1>2 DEF Acts, LateDispatch, Left
<1>4. Excluded'
  BY <1>1, <1>2, ExcludedLeft DEF AwaitInv
<1>5. \A y \in Y : y.at = "leave"
  BY <1>2 DEF Left
<1> QED
  BY <1>1, <1>3, <1>4, <1>5, IdleStep DEF LateDispatch, MainAt, FuncAt

LEMMA LookTakenInv == ASSUME AwaitInv, NEW x \in execs, LookTaken(x) PROVE AwaitInv'
<1>1. x \in Execs /\ x.who \in Coroutines /\ x.at = "taken"
  BY DEF AwaitInv, AwaitTypes, Execs, LookTaken, Stands
<1>2. CASE StillThere(x)
  <2>1. PICK y \in Execs : Relabels(y, x, "end")
    BY <1>1, RelabelFacts DEF Labels, Looping
  <2>2. execs' = (execs \ {x}) \cup {y}
    BY <1>2, <2>1 DEF LookTaken, Becomes, Relabels
  <2>3. Acts(x.who, {}, {}, {x}, {y})
    BY <1>1, <2>1, <2>2 DEF Acts, LookTaken, Relabels
  <2>4. Excluded'
    <3>1. Keeps(x, y)
      BY <1>1, <2>1, <2>2 DEF Relabels, Keeps
    <3> QED
      BY <3>1, ExcludedSame DEF AwaitInv
  <2>5. y.at = "end"
    BY <2>1 DEF Relabels
  <2> QED
    BY <1>1, <2>3, <2>4, <2>5, IdleStep DEF LookTaken, MainAt, FuncAt
<1>3. CASE ~StillThere(x)
  <2>1. Acts(x.who, {}, {}, {x}, {})
    BY <1>1, <1>3 DEF Acts, LookTaken, Ends
  <2>2. Excluded'
    BY <1>3, ExcludedGone DEF AwaitInv, LookTaken
  <2> QED
    BY <1>1, <2>1, <2>2, IdleStep DEF LookTaken, MainAt, FuncAt
<1> QED
  BY <1>2, <1>3

LEMMA LookEndInv == ASSUME AwaitInv, NEW x \in execs, LookEnd(x) PROVE AwaitInv'
<1>1. x \in Execs /\ x.who \in Coroutines /\ x.at = "end" /\ x.n \in DOMAIN Candidates
  BY DEF AwaitInv, AwaitTypes, Execs, LookEnd, Stands, Looping
<1>2. CASE x.n < Len(Candidates)
  <2>1. PICK y : y = [x EXCEPT !.at = "post", !.n = @ + 1]
    OBVIOUS
  <2>2. x.n + 1 \in DOMAIN Candidates /\ x.n + 1 \in Nat
    BY <1>1, <1>2, AwaitablesAssumption
  <2>3. /\ y \in Execs /\ y.who = x.who /\ y.at = "post" /\ y.holds = x.holds
        /\ y.shares = x.shares
    BY <1>1, <2>1, <2>2 DEF Execs, Labels
  <2>4. execs' = (execs \ {x}) \cup {y}
    BY <1>2, <2>1 DEF LookEnd, Becomes
  <2>5. Acts(x.who, {}, {}, {x}, {y})
    BY <1>1, <2>3, <2>4 DEF Acts, LookEnd
  <2>6. Excluded'
    <3>1. Keeps(x, y)
      BY <1>1, <2>3, <2>4 DEF Keeps
    <3> QED
      BY <3>1, ExcludedSame DEF AwaitInv
  <2> QED
    BY <1>1, <2>3, <2>5, <2>6, IdleStep DEF LookEnd, MainAt, FuncAt
<1>3. CASE ~(x.n < Len(Candidates))
  <2>1. Acts(x.who, {}, {}, {x}, {})
    BY <1>1, <1>3 DEF Acts, LookEnd, Ends
  <2>2. Excluded'
    BY <1>3, ExcludedGone DEF AwaitInv, LookEnd
  <2> QED
    BY <1>1, <2>1, <2>2, IdleStep DEF LookEnd, MainAt, FuncAt
<1> QED
  BY <1>2, <1>3

LEMMA PostCandidateInv == ASSUME AwaitInv, NEW x \in execs, PostCandidate(x) PROVE AwaitInv'
<1>1. x \in Execs /\ x.who \in Coroutines /\ x.at = "post" /\ x.n \in DOMAIN Candidates
  BY DEF AwaitInv, AwaitTypes, Execs, PostCandidate, Stands, Looping
<1>2. Candidates[x.n] \in Warps
  BY <1>1, AwaitablesAssumption
<1>3. PICK y \in Execs : Relabels(y, x, "taken")
  BY <1>1, RelabelFacts DEF Labels, Looping
<1>4. PICK j \in Jobs : Works(j, "candidate", x, Candidates[x.n], FALSE, NoSwitch)
  <2>1. NoSwitch \in SwitchType
    BY DEF NoSwitch, SwitchType
  <2> QED
    BY <1>1, <1>2, <2>1, JobFacts
<1>5. execs' = (execs \ {x}) \cup {y} /\ jobs' = jobs \cup {j}
  BY <1>3, <1>4 DEF PostCandidate, Becomes, Post, Relabels, Works
<1>6. Acts(x.who, {}, {j}, {x}, {y})
  BY <1>1, <1>3, <1>4, <1>5 DEF Acts, Relabels, Works
<1>7. Excluded'
  <2>1. Keeps(x, y)
    BY <1>1, <1>3, <1>5 DEF Relabels, Keeps
  <2> QED
    BY <2>1, ExcludedSame DEF AwaitInv
<1>8. y.at = "taken" /\ j.does = "candidate" /\ j.round = x.round
  BY <1>3, <1>4 DEF Relabels, Works
<1> QED
  BY <1>1, <1>6, <1>7, <1>8, IdleStep DEF PostCandidate, MainAt, FuncAt

LEMMA CandidateLosesInv == ASSUME AwaitInv, NEW j \in jobs, CandidateLoses(j) PROVE AwaitInv'
<1>1. j \in Jobs /\ j.who \in Coroutines /\ j.does = "candidate"
  BY DEF AwaitInv, AwaitTypes, Jobs, CandidateLoses
<1>2. Acts(j.who, {j}, {}, {}, {})
  BY <1>1 DEF Acts, CandidateLoses
<1>3. Excluded'
  BY DEF AwaitInv, CandidateLoses, Excluded
<1>4. ~(open[j.who] /\ j.round = round[j.who])
  BY DEF CandidateLoses, StillThere
<1> QED
  BY <1>1, <1>2, <1>3, <1>4, IdleStep DEF CandidateLoses

\* Nothing of what is known of the coroutines changes.
LEMMA SameFacts ==
  ASSUME AwaitTypes, UNCHANGED coroutineVars
  PROVE  /\ CoroutineTypes' /\ \A d \in Coroutines : SameFor(d)
         /\ round' = round /\ flags' = flags /\ caller' = caller /\ open' = open /\ asked' = asked
BY DEF AwaitTypes, CoroutineTypes, coroutineVars, SameFor

LEMMA ReturnCallerInv == ASSUME AwaitInv, NEW x \in execs, ReturnCaller(x) PROVE AwaitInv'
<1>1. x.at = "user" /\ x.at \in MainAt /\ round[x.who] = MaxAwaits[x.who]
  BY DEF ReturnCaller, Stands, MainAt
<1>2. /\ x \in Execs /\ x.who \in Coroutines /\ Main(x.who) = {x} /\ ExecInv(x)
      /\ ~open[x.who] /\ x.round = round[x.who]
  BY <1>1, MainFacts
<1>3. Func(x.who) = {}
  <2>1. x.who \in Coroutines /\ round[x.who] \in Nat
    BY <1>2 DEF AwaitInv, AwaitTypes, CoroutineTypes
  <2>2. ~x.early
    BY <1>1, <1>2, <2>1 DEF ExecInv
  <2> QED
    BY <1>1, <1>2, <2>2 DEF ExecInv, Calm
<1>4. Acts(x.who, {}, {}, {x}, {})
  BY <1>2 DEF Acts, ReturnCaller, Ends
<1>5. Excluded'
  BY ExcludedGone DEF AwaitInv, ReturnCaller
<1>6. /\ CoroutineTypes' /\ \A d \in Coroutines : SameFor(d)
      /\ round' = round /\ open' = open
  BY SameFacts DEF AwaitInv, ReturnCaller
<1>7. ActsAlone(x.who, {}, {}, {x}, {})
  BY <1>4, <1>5, <1>6 DEF ActsAlone
<1>8. Main(x.who)' = {} /\ Func(x.who)' = {}
  <2>1. /\ Main(x.who)' = (Main(x.who) \ ({} \cup {x})) \cup {y \in {} : y.at \in MainAt}
                                              \cup {k \in {} : k.does \in MainDoes}
        /\ Func(x.who)' = (Func(x.who) \ ({} \cup {x})) \cup {y \in {} : y.at \in FuncAt}
                                              \cup {k \in {} : k.does = "func"}
    BY <1>4, ActsParts DEF AwaitInv
  <2> QED
    BY <1>2, <1>3, <2>1
<1>9. Settled(x.who, x)
  BY <1>8 DEF Settled
<1> QED
  BY <1>1, <1>2, <1>6, <1>7, <1>8, <1>9, Settles DEF Sole

\* x is resumed, in u, with the warps that it had.
LEMMA ResumedHere ==
  ASSUME AwaitInv, NEW x \in execs, x.at \in MainAt, Becomes(x, User(x)), GoesOn(x.who),
         jobs' = jobs, Func(x.who) = {}, HasAsked(x, x.who)
  PROVE  AwaitInv'
<1>1. /\ x \in Execs /\ x.who \in Coroutines /\ Main(x.who) = {x}
      /\ x.round = round[x.who]
  BY MainFacts
<1>2. PICK u \in Execs : Resumes(u, x)
  BY <1>1, UserFacts
<1>3. execs' = (execs \ {x}) \cup {u}
  BY <1>2 DEF Becomes, Resumes
<1>4. Acts(x.who, {}, {}, {x}, {u})
  BY <1>1, <1>2, <1>3 DEF Acts, Resumes
<1>5. Excluded'
  <2>1. Keeps(x, u)
    BY <1>2, <1>3 DEF Keeps, Resumes, MainAt
  <2> QED
    BY <2>1, ExcludedSame DEF AwaitInv
<1>6. u.at = "user" /\ ~u.early /\ u.round = round[x.who] + 1 /\ HasAsked(u, x.who)
  BY <1>1, <1>2 DEF Resumes, HasAsked
<1> QED
  BY <1>1, <1>4, <1>5, <1>6, ResumedIn

LEMMA AwaitEarlyInv == ASSUME AwaitInv, NEW x \in execs, AwaitEarly(x) PROVE AwaitInv'
<1>1. x.at = "user" /\ x.at \in MainAt /\ x.early
  BY DEF AwaitEarly, Stands, MainAt
<1>2. /\ x \in Execs /\ x.who \in Coroutines /\ Main(x.who) = {x} /\ ExecInv(x)
      /\ ~open[x.who] /\ x.round = round[x.who]
  BY <1>1, MainFacts
<1>3. Races(x.who) /\ Only(caller[x.who]) \subseteq x.holds
  BY <1>1, <1>2 DEF ExecInv
<1>4. CASE "completed" \in flags[x.who]
  <2>1. Func(x.who) = {} /\ HasAsked(x, x.who)
    BY <1>3, <1>4 DEF Races, Began, HasAsked
  <2>2. Becomes(x, User(x)) /\ GoesOn(x.who) /\ jobs' = jobs
    BY <1>4 DEF AwaitEarly
  <2> QED
    BY <1>1, <2>1, <2>2, ResumedHere
<1>5. CASE "completed" \notin flags[x.who]
  <2>1. PICK y \in Execs : Relabels(y, x, "suspend")
    BY <1>2, RelabelFacts DEF Labels, Looping
  <2>2. execs' = (execs \ {x}) \cup {y} /\ jobs' = jobs
    BY <1>5, <2>1 DEF AwaitEarly, Becomes, Relabels
  <2>3. Acts(x.who, {}, {}, {x}, {y})
    BY <1>2, <2>1, <2>2 DEF Acts, Relabels
  <2>4. /\ CoroutineTypes' /\ \A d \in Coroutines : SameFor(d)
        /\ round' = round /\ flags' = flags /\ caller' = caller /\ open' = open /\ asked' = asked
    BY <1>5, SameFacts DEF AwaitInv, AwaitEarly
  <2>5. Excluded'
    <3>1. Keeps(x, y)
      BY <1>1, <2>1, <2>2 DEF Keeps, Relabels
    <3> QED
      BY <3>1, ExcludedSame DEF AwaitInv
  <2>6. ActsAlone(x.who, {}, {}, {x}, {y})
    BY <2>3, <2>4, <2>5 DEF ActsAlone
  <2>7. Main(x.who)' = {y} /\ Func(x.who)' = Func(x.who)
    <3>1. /\ Main(x.who)' = (Main(x.who) \ ({} \cup {x})) \cup {z \in {y} : z.at \in MainAt}
                                                \cup {k \in {} : k.does \in MainDoes}
          /\ Func(x.who)' = (Func(x.who) \ ({} \cup {x})) \cup {z \in {y} : z.at \in FuncAt}
                                                \cup {k \in {} : k.does = "func"}
      BY <2>3, ActsParts DEF AwaitInv
    <3>2. x \notin Func(x.who)
      BY <1>1, <1>2, MainFacts DEF Func, FuncAt
    <3>3. y.at = "suspend"
      BY <2>1 DEF Relabels
    <3> QED
      BY <1>2, <3>1, <3>2, <3>3 DEF MainAt, FuncAt
  <2>8. Races(x.who)' /\ Began(x.who)' /\ "completed" \notin flags'[x.who] /\ ~open'[x.who]
    BY <1>2, <1>3, <1>5, <2>4, <2>7 DEF Races, Began
  <2>9. ExecInv(y)'
    BY <2>1, <2>8 DEF ExecInv, Relabels
  <2>10. Settled(x.who, y)
    <3>1. y \notin jobs'
      BY <2>1, <2>2, JobIsNoExecution DEF AwaitInv, AwaitTypes
    <3> QED
      BY <1>2, <2>1, <2>4, <2>7, <2>9, <3>1 DEF Settled, Relabels
  <2>11. Sole(Func(x.who)') /\ \A f \in Func(x.who)' : f.round = round'[x.who]
    BY <1>2, <2>4, <2>7 DEF AwaitInv, OnItsWay
  <2> QED
    BY <1>2, <2>6, <2>7, <2>8, <2>10, <2>11, Settles
<1> QED
  BY <1>4, <1>5

LEMMA HandlerOneInv == ASSUME AwaitInv, NEW x \in execs, HandlerOne(x) PROVE AwaitInv'
<1>1. x.at = "handler" /\ x.at \in MainAt /\ x.switch.other = NoWarp
  BY DEF HandlerOne, Stands, MainAt
<1>2. x \in Execs /\ ExecInv(x)
  BY <1>1, MainFacts
<1>3. Func(x.who) = {} /\ HasAsked(x, x.who)
  BY <1>1, <1>2 DEF ExecInv, Calm, HasAsked, ToSwitch
<1> QED
  BY <1>1, <1>3, ResumedHere DEF HandlerOne

LEMMA HandlerSharesInv == ASSUME AwaitInv, NEW x \in execs, HandlerShares(x) PROVE AwaitInv'
<1> DEFINE w == x.switch.other
<1>1. x.at = "handler" /\ x.at \in MainAt /\ w # NoWarp /\ x.switch.parallelOther /\ ~Busy(w)
  BY DEF HandlerShares, Stands, MainAt
<1>2. /\ x \in Execs /\ x.who \in Coroutines /\ Main(x.who) = {x} /\ ExecInv(x)
      /\ x.round = round[x.who]
  BY <1>1, MainFacts
<1>3. PICK y : y = [x EXCEPT !.shares = @ \cup {w}]
  OBVIOUS
<1>4. w \in Warps
  BY <1>1, <1>2 DEF Execs, SwitchType
<1>5. /\ y \in Execs /\ y.who = x.who /\ y.holds = x.holds /\ y.shares = x.shares \cup {w}
      /\ y.round = x.round
  BY <1>2, <1>3, <1>4 DEF Execs
<1>6. PICK u \in Execs : Resumes(u, y)
  BY <1>5, UserFacts
<1>7. execs' = (execs \ {x}) \cup {u} /\ jobs' = jobs /\ GoesOn(x.who)
  BY <1>3, <1>6 DEF HandlerShares, Becomes, Resumes
<1>8. Acts(x.who, {}, {}, {x}, {u})
  BY <1>2, <1>5, <1>6, <1>7 DEF Acts, Resumes
<1>9. u.holds \subseteq x.holds \cup {} /\ u.shares \subseteq x.shares \cup {w}
  BY <1>5, <1>6 DEF Resumes
<1>10. Excluded'
  <2>1. \A z \in execs : z # x => {} \cap z.holds = {} /\ {} \cap z.shares = {} /\ {w} \cap z.holds = {}
    BY <1>1 DEF Busy
  <2>2. x.at # "func" /\ Excluded
    BY <1>1 DEF AwaitInv
  <2>3. Gains(x, u, {}, {w})
    BY <1>7, <1>9, <2>1, <2>2 DEF Gains
  <2> QED
    BY <2>2, <2>3, ExcludedMore
<1>11. Func(x.who) = {} /\ HasAsked(u, x.who)
  <2>1. ToSwitch(x.switch, x.who) /\ Func(x.who) = {}
    BY <1>1, <1>2 DEF ExecInv, Calm
  <2>2. \/ x.switch.target \in x.holds \cup {NoWarp}
        \/ x.switch.parallelTarget /\ x.switch.target \in x.shares
    BY <1>1, <1>2 DEF ExecInv
  <2>3. u.holds = x.holds /\ u.shares = x.shares \cup {w}
    BY <1>5, <1>6 DEF Resumes
  <2> QED
    BY <1>1, <2>1, <2>2, <2>3 DEF HasAsked, ToSwitch
<1>12. u.at = "user" /\ ~u.early /\ u.round = round[x.who] + 1
  BY <1>2, <1>5, <1>6 DEF Resumes
<1> QED
  BY <1>2, <1>7, <1>8, <1>10, <1>11, <1>12, ResumedIn

LEMMA HandlerPreemptsInv == ASSUME AwaitInv, NEW x \in execs, HandlerPreempts(x) PROVE AwaitInv'
<1> DEFINE w == x.switch.other
<1>1. /\ x.at = "handler" /\ x.at \in MainAt /\ w # NoWarp
      /\ Vacant(w) \/ (w = Current(x) /\ ~Suspended(w))
  BY DEF HandlerPreempts, Stands, MainAt
<1>2. /\ x \in Execs /\ x.who \in Coroutines /\ Main(x.who) = {x} /\ ExecInv(x)
      /\ x.round = round[x.who]
  BY <1>1, MainFacts
<1>3. PICK y : y = [x EXCEPT !.holds = @ \cup {w}, !.on = w]
  OBVIOUS
<1>4. w \in Warps
  BY <1>1, <1>2 DEF Execs, SwitchType
<1>5. /\ y \in Execs /\ y.who = x.who /\ y.holds = x.holds \cup {w} /\ y.shares = x.shares
      /\ y.round = x.round
  BY <1>2, <1>3, <1>4 DEF Execs
<1>6. PICK u \in Execs : Resumes(u, y)
  BY <1>5, UserFacts
<1>7. execs' = (execs \ {x}) \cup {u} /\ jobs' = jobs /\ GoesOn(x.who)
  BY <1>3, <1>6 DEF HandlerPreempts, Becomes, Resumes
<1>8. Acts(x.who, {}, {}, {x}, {u})
  BY <1>2, <1>5, <1>6, <1>7 DEF Acts, Resumes
<1>9. u.holds \subseteq x.holds \cup {w} /\ u.shares \subseteq x.shares \cup {}
  BY <1>5, <1>6 DEF Resumes
<1>10. Excluded'
  <2>1. \A z \in execs : z # x => {w} \cap z.holds = {} /\ {w} \cap z.shares = {} /\ {} \cap z.holds = {}
    <3>1. CASE Vacant(w)
      BY <3>1 DEF Vacant, Busy, Suspended
    <3>2. CASE w = Current(x) /\ ~Suspended(w)
      <4>1. w \in x.holds
        BY <1>1, <3>2 DEF Current
      <4>2. \A z \in execs : w \notin z.shares
        BY <3>2 DEF Suspended
      <4>3. \A z \in execs : z # x => x.holds \cap z.holds = {}
        BY DEF AwaitInv, Excluded
      <4> QED
        BY <4>1, <4>2, <4>3
    <3> QED
      BY <1>1, <3>1, <3>2
  <2>2. x.at # "func" /\ Excluded
    BY <1>1 DEF AwaitInv
  <2>3. Gains(x, u, {w}, {})
    BY <1>7, <1>9, <2>1, <2>2 DEF Gains
  <2> QED
    BY <2>2, <2>3, ExcludedMore
<1>11. Func(x.who) = {} /\ HasAsked(u, x.who)
  <2>1. ToSwitch(x.switch, x.who) /\ Func(x.who) = {}
    BY <1>1, <1>2 DEF ExecInv, Calm
  <2>2. \/ x.switch.target \in x.holds \cup {NoWarp}
        \/ x.switch.parallelTarget /\ x.switch.target \in x.shares
    BY <1>1, <1>2 DEF ExecInv
  <2>3. u.holds = x.holds \cup {w} /\ u.shares = x.shares
    BY <1>5, <1>6 DEF Resumes
  <2> QED
    BY <1>1, <2>1, <2>2, <2>3 DEF HasAsked, ToSwitch
<1>12. u.at = "user" /\ ~u.early /\ u.round = round[x.who] + 1
  BY <1>2, <1>5, <1>6 DEF Resumes
<1> QED
  BY <1>2, <1>7, <1>8, <1>10, <1>11, <1>12, ResumedIn

LEMMA MarkWaitedInv == ASSUME AwaitInv, NEW x \in execs, MarkWaited(x) PROVE AwaitInv'
<1>1. x.at = "suspend" /\ x.at \in MainAt
  BY DEF MarkWaited, Stands, MainAt
<1>2. /\ x \in Execs /\ x.who \in Coroutines /\ Main(x.who) = {x} /\ ExecInv(x)
      /\ ~open[x.who] /\ x.round = round[x.who]
  BY <1>1, MainFacts
<1>3. Races(x.who)
  BY <1>1, <1>2 DEF ExecInv
<1>4. /\ flags'[x.who] = flags[x.who] \cup {"waited"}
      /\ round' = round /\ caller' = caller /\ open' = open /\ asked' = asked /\ jobs' = jobs
  BY <1>2 DEF MarkWaited, AwaitInv, AwaitTypes, CoroutineTypes
<1>5. CoroutineTypes' /\ \A d \in Coroutines : d # x.who => SameFor(d)
  BY <1>2 DEF MarkWaited, AwaitInv, AwaitTypes, CoroutineTypes, SameFor
<1>6. CASE "completed" \in flags[x.who]
  <2>1. PICK y \in Execs : Relabels(y, x, "answer")
    BY <1>2, RelabelFacts DEF Labels, Looping
  <2>2. execs' = (execs \ {x}) \cup {y}
    BY <1>6, <2>1 DEF MarkWaited, Becomes, Relabels
  <2>3. Acts(x.who, {}, {}, {x}, {y})
    BY <1>2, <1>4, <2>1, <2>2 DEF Acts, Relabels
  <2>4. Excluded'
    <3>1. Keeps(x, y)
      BY <1>1, <2>1, <2>2 DEF Keeps, Relabels
    <3> QED
      BY <3>1, ExcludedSame DEF AwaitInv
  <2>5. ActsAlone(x.who, {}, {}, {x}, {y})
    BY <1>5, <2>3, <2>4 DEF ActsAlone
  <2>6. y.at = "answer" /\ y.round = x.round /\ y.who = x.who
    BY <2>1 DEF Relabels
  <2>7. Func(x.who) = {}
    BY <1>3, <1>6 DEF Races
  <2>8. Func(x.who)' = {}
    <3>1. Func(x.who)' = (Func(x.who) \ ({} \cup {x})) \cup {z \in {y} : z.at \in FuncAt}
                                                \cup {k \in {} : k.does = "func"}
      BY <2>3, ActsParts DEF AwaitInv
    <3> QED
      BY <2>6, <2>7, <3>1 DEF FuncAt
  <2>9. Answered(x.who)'
    BY <1>2, <1>3, <1>4, <2>8 DEF Races, Began, Answered
  <2>10. ExecInv(y)'
    BY <2>6, <2>9 DEF ExecInv
  <2>11. /\ {z \in {y} : z.at \in MainAt} \cup {k \in {} : k.does \in MainDoes} = {y}
         /\ {z \in {y} : z.at \in FuncAt} = {} /\ {k \in {} : k.does = "func"} = {}
    BY <2>6 DEF MainAt, FuncAt
  <2> QED
    BY <1>2, <1>4, <2>5, <2>6, <2>7, <2>10, <2>11, Passes
<1>7. CASE "completed" \notin flags[x.who]
  <2>1. PICK y \in Execs : Relabels(y, x, "dispatch")
    BY <1>2, RelabelFacts DEF Labels, Looping
  <2>2. execs' = (execs \ {x}) \cup {y}
    BY <1>7, <2>1 DEF MarkWaited, Becomes, Relabels
  <2>3. Acts(x.who, {}, {}, {x}, {y})
    BY <1>2, <1>4, <2>1, <2>2 DEF Acts, Relabels
  <2>4. Excluded'
    <3>1. Keeps(x, y)
      BY <1>1, <2>1, <2>2 DEF Keeps, Relabels
    <3> QED
      BY <3>1, ExcludedSame DEF AwaitInv
  <2>5. ActsAlone(x.who, {}, {}, {x}, {y})
    BY <1>5, <2>3, <2>4 DEF ActsAlone
  <2>6. y.at = "dispatch"
    BY <2>1 DEF Relabels
  <2>7. Main(x.who)' = {} /\ Func(x.who)' = Func(x.who)
    <3>1. /\ Main(x.who)' = (Main(x.who) \ ({} \cup {x})) \cup {z \in {y} : z.at \in MainAt}
                                                \cup {k \in {} : k.does \in MainDoes}
          /\ Func(x.who)' = (Func(x.who) \ ({} \cup {x})) \cup {z \in {y} : z.at \in FuncAt}
                                                \cup {k \in {} : k.does = "func"}
      BY <2>3, ActsParts DEF AwaitInv
    <3>2. x \notin Func(x.who)
      BY <1>1, MainFacts DEF Func, FuncAt
    <3> QED
      BY <1>2, <2>6, <3>1, <3>2 DEF MainAt, FuncAt
  <2>8. Func(x.who) # {}
    BY <1>3, <1>7 DEF Races
  <2>9. Began(x.who)' /\ "completed" \notin flags'[x.who] /\ "waited" \in flags'[x.who]
    BY <1>2, <1>3, <1>4, <1>7 DEF Races, Began
  <2>10. Sole(Func(x.who)') /\ \A f \in Func(x.who)' : f.round = round'[x.who]
    BY <1>2, <1>4, <2>7 DEF AwaitInv, OnItsWay
  <2>11. Settled(x.who, y)
    BY <2>7 DEF Settled
  <2> QED
    BY <1>2, <1>4, <2>5, <2>7, <2>8, <2>9, <2>10, <2>11, Settles
<1> QED
  BY <1>6, <1>7

\* The call that x was in returns, and j is what will resume the coroutine.
LEMMA PassesToJob ==
  ASSUME AwaitInv, NEW x \in execs, x.at # "func", NEW Y, NEW j, Left(x, Y), j \in Jobs,
         jobs' = jobs \cup {j}, j.who = x.who, j.does \in MainDoes, j.round = round[x.who],
         CoroutineTypes', \A d \in Coroutines : d # x.who => SameFor(d),
         round' = round, ~open'[x.who], Main(x.who) = {x}, Func(x.who) = {},
         Y \subseteq Execs, JobInv(j)'
  PROVE  AwaitInv'
<1>1. x \in Execs /\ x.who \in Coroutines
  BY DEF AwaitInv, AwaitTypes, Execs
<1>2. execs' = (execs \ {x}) \cup Y /\ \A y \in Y : y.who = x.who /\ y.at = "leave"
  BY DEF Left
<1>3. Acts(x.who, {}, {j}, {x}, Y)
  BY <1>2 DEF Acts
<1>4. Excluded'
  BY ExcludedLeft DEF AwaitInv
<1>5. ActsAlone(x.who, {}, {j}, {x}, Y)
  BY <1>3, <1>4 DEF ActsAlone
<1>6. /\ {y \in Y : y.at \in MainAt} \cup {k \in {j} : k.does \in MainDoes} = {j}
      /\ {y \in Y : y.at \in FuncAt} = {} /\ {k \in {j} : k.does = "func"} = {}
  BY <1>2 DEF MainAt, FuncAt, MainDoes
<1>7. j \notin Y
  BY <1>2, JobIsNoExecution
<1> QED
  BY <1>1, <1>5, <1>6, <1>7, Passes

LEMMA AnswerInv == ASSUME AwaitInv, NEW x \in execs, Answer(x) PROVE AwaitInv'
<1>1. x.at = "answer" /\ x.at \in MainAt /\ x.at # "func"
  BY DEF Answer, Stands, MainAt
<1>2. /\ x \in Execs /\ x.who \in Coroutines /\ Main(x.who) = {x} /\ ExecInv(x)
      /\ ~open[x.who] /\ x.round = round[x.who]
  BY <1>1, MainFacts
<1>3. Answered(x.who)
  BY <1>1, <1>2 DEF ExecInv
<1>4. PICK Y \in SUBSET Execs : Left(x, Y)
  BY <1>2, LeavesFacts DEF Answer
<1>5. PICK j \in Jobs : Works(j, "resume", x, caller[x.who], FALSE, NoSwitch)
  <2>1. NoSwitch \in SwitchType
    BY DEF NoSwitch, SwitchType
  <2>2. caller[x.who] \in Warps \cup {NoWarp}
    BY <1>2 DEF AwaitInv, AwaitTypes, CoroutineTypes
  <2> QED
    BY <1>2, <2>1, <2>2, JobFacts
<1>6. /\ CoroutineTypes' /\ \A d \in Coroutines : SameFor(d)
      /\ round' = round /\ flags' = flags /\ caller' = caller /\ open' = open /\ asked' = asked
  BY SameFacts DEF AwaitInv, Answer
<1>7. jobs' = jobs \cup {j}
  BY <1>5 DEF Answer, Post, Works
<1>8. /\ j.who = x.who /\ j.does = "resume" /\ j.round = x.round /\ j.on = caller[x.who]
      /\ ~j.shared
  BY <1>5 DEF Works
<1>9. Func(x.who)' = {}
  <2>1. execs' = (execs \ {x}) \cup Y /\ \A y \in Y : y.who = x.who /\ y.at = "leave"
    BY <1>4 DEF Left
  <2>2. Acts(x.who, {}, {j}, {x}, Y)
    BY <1>2, <1>7, <1>8, <2>1 DEF Acts
  <2>3. Func(x.who)' = (Func(x.who) \ ({} \cup {x})) \cup {z \in Y : z.at \in FuncAt}
                                              \cup {k \in {j} : k.does = "func"}
    BY <2>2, ActsParts DEF AwaitInv
  <2> QED
    BY <1>3, <1>8, <2>1, <2>3 DEF FuncAt, Answered
<1>10. JobInv(j)'
  BY <1>3, <1>6, <1>8, <1>9 DEF JobInv, Answered, Began
<1>11. j.does \in MainDoes
  BY <1>8 DEF MainDoes
<1> QED
  BY <1>1, <1>2, <1>3, <1>4, <1>6, <1>7, <1>8, <1>10, <1>11, PassesToJob DEF Answered

LEMMA HandlerSwapsInv == ASSUME AwaitInv, NEW x \in execs, HandlerSwaps(x) PROVE AwaitInv'
<1> DEFINE s == x.switch
           w == s.other
<1>1. x.at = "handler" /\ x.at \in MainAt /\ x.at # "func" /\ w # NoWarp
  BY DEF HandlerSwaps, Stands, MainAt
<1>2. /\ x \in Execs /\ x.who \in Coroutines /\ Main(x.who) = {x} /\ ExecInv(x)
      /\ ~open[x.who] /\ x.round = round[x.who]
  BY <1>1, MainFacts
<1>3. Calm(x.who) /\ ToSwitch(s, x.who)
  BY <1>1, <1>2 DEF ExecInv
<1>4. PICK Y \in SUBSET Execs : Left(x, Y)
  BY <1>2, LeavesFacts DEF HandlerSwaps
<1>s. s \in SwitchType /\ w \in Warps /\ s.parallelOther \in BOOLEAN
  BY <1>1, <1>2 DEF Execs, SwitchType
<1>5. PICK j \in Jobs : Works(j, "switch", x, w, s.parallelOther, Swapped(s))
  <2>1. Swapped(s) \in SwitchType
    BY <1>s DEF Swapped, SwitchType
  <2> QED
    BY <1>2, <1>s, <2>1, JobFacts
<1>6. /\ CoroutineTypes' /\ \A d \in Coroutines : SameFor(d)
      /\ round' = round /\ flags' = flags /\ caller' = caller /\ open' = open /\ asked' = asked
  BY SameFacts DEF AwaitInv, HandlerSwaps
<1>7. jobs' = jobs \cup {j}
  BY <1>5 DEF HandlerSwaps, Post, Works
<1>8. /\ j.who = x.who /\ j.does = "switch" /\ j.round = x.round /\ j.on = w
      /\ j.shared = s.parallelOther /\ j.switch = Swapped(s)
  BY <1>5 DEF Works
<1>9. Func(x.who)' = {}
  <2>1. execs' = (execs \ {x}) \cup Y /\ \A y \in Y : y.who = x.who /\ y.at = "leave"
    BY <1>4 DEF Left
  <2>2. Acts(x.who, {}, {j}, {x}, Y)
    BY <1>2, <1>7, <1>8, <2>1 DEF Acts
  <2>3. Func(x.who)' = (Func(x.who) \ ({} \cup {x})) \cup {z \in Y : z.at \in FuncAt}
                                              \cup {k \in {j} : k.does = "func"}
    BY <2>2, ActsParts DEF AwaitInv
  <2> QED
    BY <1>3, <1>8, <2>1, <2>3 DEF FuncAt, Calm
<1>10. JobInv(j)'
  <2>1. Calm(x.who)'
    BY <1>3, <1>6, <1>9 DEF Calm
  <2>2. ToSwitch(j.switch, x.who)'
    BY <1>1, <1>3, <1>6, <1>8 DEF ToSwitch, Swapped
  <2>3. j.on = j.switch.target /\ (j.shared => j.switch.parallelTarget)
    BY <1>8 DEF Swapped
  <2> QED
    BY <1>8, <2>1, <2>2, <2>3 DEF JobInv
<1>11. j.does \in MainDoes
  BY <1>8 DEF MainDoes
<1> QED
  BY <1>1, <1>2, <1>3, <1>4, <1>6, <1>7, <1>8, <1>10, <1>11, PassesToJob DEF Calm

LEMMA StartHandlerInv == ASSUME AwaitInv, NEW j \in jobs, StartHandler(j) PROVE AwaitInv'
<1>1. j.does = "switch" /\ j.does \in MainDoes /\ CanStart(j)
  BY DEF StartHandler, MainDoes
<1>2. /\ j \in Jobs /\ j.who \in Coroutines /\ Main(j.who) = {j} /\ JobInv(j)
      /\ j.round = round[j.who] /\ ~open[j.who]
  BY <1>1, MainJobFacts
<1>3. PICK y \in Execs : Begins(y, j, "handler")
  BY <1>2, ExecutionFacts DEF Labels, Looping
<1>4. jobs' = jobs \ {j} /\ execs' = execs \cup {y}
  BY <1>3 DEF StartHandler, Starts, Begins
<1>5. Acts(j.who, {j}, {}, {}, {y})
  BY <1>2, <1>3, <1>4 DEF Acts, Begins
<1>6. /\ CoroutineTypes' /\ \A d \in Coroutines : SameFor(d)
      /\ round' = round /\ flags' = flags /\ caller' = caller /\ open' = open /\ asked' = asked
  BY SameFacts DEF AwaitInv, StartHandler
<1>7. Excluded'
  <2>1. TakesWarp(j, y)
    BY <1>1, <1>3 DEF TakesWarp, Begins
  <2> QED
    BY <1>4, <2>1, ExcludedStart DEF AwaitInv
<1>8. ActsAlone(j.who, {j}, {}, {}, {y})
  BY <1>5, <1>6, <1>7 DEF ActsAlone
<1>9. Calm(j.who) /\ ToSwitch(j.switch, j.who) /\ j.on = j.switch.target
      /\ (j.shared => j.switch.parallelTarget)
  BY <1>1, <1>2 DEF JobInv
<1>10. /\ y.at = "handler" /\ y.who = j.who /\ y.round = j.round /\ y.switch = j.switch
       /\ y.holds = (IF j.shared THEN {} ELSE Only(j.on))
       /\ y.shares = (IF j.shared THEN {j.on} ELSE {})
  BY <1>3 DEF Begins
<1>11. Func(j.who)' = {}
  <2>1. Func(j.who)' = (Func(j.who) \ ({j} \cup {})) \cup {z \in {y} : z.at \in FuncAt}
                                              \cup {k \in {} : k.does = "func"}
    BY <1>5, ActsParts DEF AwaitInv
  <2> QED
    BY <1>9, <1>10, <2>1 DEF FuncAt, Calm
<1>12. ExecInv(y)'
  <2>1. Calm(j.who)' /\ ToSwitch(y.switch, y.who)'
    BY <1>6, <1>9, <1>10, <1>11 DEF Calm, ToSwitch
  <2>2. \/ y.switch.target \in y.holds \cup {NoWarp}
        \/ y.switch.parallelTarget /\ y.switch.target \in y.shares
    BY <1>9, <1>10 DEF Only
  <2> QED
    BY <1>10, <2>1, <2>2 DEF ExecInv
<1>13. /\ {z \in {y} : z.at \in MainAt} \cup {k \in {} : k.does \in MainDoes} = {y}
       /\ {z \in {y} : z.at \in FuncAt} = {} /\ {k \in {} : k.does = "func"} = {}
  BY <1>10 DEF MainAt, FuncAt
<1> QED
  BY <1>2, <1>6, <1>8, <1>9, <1>10, <1>12, <1>13, Passes DEF Calm

\* A job that resumes its coroutine, with the warp that it was posted to.
LEMMA JobResumes ==
  ASSUME AwaitInv, NEW j \in jobs, j.does # "func", CanStart(j), j.round = round[j.who],
         Starts(j, User(Execution(j, "user"))), GoesOn(j.who),
         Main(j.who) \subseteq {j}, Func(j.who) = {},
         asked[j.who].all \subseteq IF j.shared THEN {} ELSE Only(j.on)
  PROVE  AwaitInv'
<1>1. j \in Jobs /\ j.who \in Coroutines
  BY DEF AwaitInv, AwaitTypes, Jobs
<1>2. PICK y \in Execs : Begins(y, j, "user")
  BY <1>1, ExecutionFacts DEF Labels, Looping
<1>3. PICK u \in Execs : Resumes(u, y)
  BY UserFacts
<1>4. jobs' = jobs \ {j} /\ execs' = execs \cup {u}
  BY <1>2, <1>3 DEF Starts, Begins, Resumes
<1>5. /\ u.who = j.who /\ u.at = "user" /\ ~u.early /\ u.round = round[j.who] + 1
      /\ u.holds = (IF j.shared THEN {} ELSE Only(j.on))
      /\ u.shares = (IF j.shared THEN {j.on} ELSE {})
  BY <1>2, <1>3 DEF Begins, Resumes
<1>6. Acts(j.who, {j}, {}, {}, {u})
  BY <1>1, <1>4, <1>5 DEF Acts
<1>7. Excluded'
  <2>1. TakesWarp(j, u)
    BY <1>5 DEF TakesWarp
  <2> QED
    BY <1>4, <2>1, ExcludedStart DEF AwaitInv
<1>8. HasAsked(u, j.who)
  BY <1>5 DEF HasAsked
<1> QED
  BY <1>1, <1>5, <1>6, <1>7, <1>8, ResumedIn

LEMMA ResumeCoroutineInv == ASSUME AwaitInv, NEW j \in jobs, ResumeCoroutine(j) PROVE AwaitInv'
<1>1. j.does = "resume" /\ j.does \in MainDoes
  BY DEF ResumeCoroutine, MainDoes
<1>2. Main(j.who) = {j} /\ JobInv(j) /\ j.round = round[j.who]
  BY <1>1, MainJobFacts
<1>3. Answered(j.who) /\ j.on = caller[j.who] /\ ~j.shared
  BY <1>1, <1>2 DEF JobInv
<1>4. Func(j.who) = {} /\ asked[j.who].all \subseteq Only(j.on)
  BY <1>3 DEF Answered, Began
<1> QED
  BY <1>1, <1>2, <1>3, <1>4, JobResumes DEF ResumeCoroutine

LEMMA CandidateWinsInv ==
  ASSUME AwaitInv, NEW j \in jobs, CandidateWins(j) PROVE AwaitInv'
<1>1. j.does = "candidate" /\ open[j.who] /\ j.round = round[j.who]
  BY DEF CandidateWins, StillThere
<1>2. j.who \in Coroutines
  BY DEF AwaitInv, AwaitTypes, Jobs
<1>3. Main(j.who) = {} /\ Func(j.who) = {} /\ asked[j.who].all = {}
  BY <1>1, <1>2 DEF AwaitInv, OnItsWay
<1> QED
  BY <1>1, <1>3, JobResumes DEF CandidateWins

(***************************************************************************)
(* The function of an awaitable                                            *)
(***************************************************************************)
\* What is known when f is the function that c awaits.
LEMMA FuncFacts ==
  ASSUME AwaitInv, NEW c \in Coroutines, NEW f, f \in Func(c)
  PROVE  /\ Func(c) = {f} /\ f.round = round[c] /\ f.who = c /\ Began(c)
         /\ "completed" \notin flags[c] /\ ~open[c]
         /\ \A m \in Main(c) : m.round = round[c] /\ Main(c) = {m}
         /\ "waited" \in flags[c] => Main(c) = {}
         /\ Main(c) = {} => "waited" \in flags[c]
         /\ \A m \in Main(c) : /\ m \in execs => ExecInv(m) /\ Races(c) /\ m.at \in {"user", "suspend"}
                               /\ m \notin jobs
                               /\ m \in execs
<1>1. OnItsWay(c)
  BY DEF AwaitInv
<1>2. /\ Func(c) = {f} /\ f.round = round[c] /\ f.who = c /\ Began(c)
      /\ "completed" \notin flags[c] /\ ~open[c]
      /\ \A m \in Main(c) : m.round = round[c] /\ Main(c) = {m}
      /\ Main(c) = {} => "waited" \in flags[c]
  <2>1. Func(c) = {f} /\ f.who = c
    BY <1>1 DEF OnItsWay, Sole, Func
  <2>2. \A m \in Main(c) : m.round = round[c] /\ Main(c) = {m}
    BY <1>1 DEF OnItsWay, Sole
  <2> QED
    BY <1>1, <2>1, <2>2 DEF OnItsWay
<1>3. \A m \in Main(c) : /\ m \in execs => ExecInv(m) /\ Races(c) /\ m.at \in {"user", "suspend"}
                         /\ m \notin jobs
                         /\ m \in execs
  <2> SUFFICES ASSUME NEW m \in Main(c)
               PROVE  /\ m \in execs => ExecInv(m) /\ Races(c) /\ m.at \in {"user", "suspend"}
                      /\ m \notin jobs /\ m \in execs
    OBVIOUS
  <2>1. ASSUME m \in jobs PROVE FALSE
    <3>1. m \notin execs
      BY <2>1, JobIsNoExecution DEF AwaitInv, AwaitTypes
    <3>2. m.who = c /\ m.does \in MainDoes
      BY <3>1 DEF Main
    <3>3. JobInv(m)
      BY <1>1, <2>1, <3>2 DEF OnItsWay
    <3> QED
      BY <1>2, <3>2, <3>3 DEF JobInv, MainDoes, Answered, Calm
  <2>2. m \in execs /\ m.who = c /\ m.at \in MainAt
    BY <2>1 DEF Main
  <2>3. ExecInv(m)
    BY <1>1, <2>2 DEF OnItsWay
  <2>4. m.at \in {"user", "suspend"} /\ Races(c)
    BY <1>2, <2>2, <2>3 DEF ExecInv, MainAt, Answered, Calm
  <2> QED
    BY <2>1, <2>2, <2>3, <2>4
<1>4. "waited" \in flags[c] => Main(c) = {}
  BY <1>3 DEF Races
<1> QED
  BY <1>2, <1>3, <1>4

\* The function goes on, with no effect on what is known of the coroutine.
LEMMA FuncMoves ==
  ASSUME AwaitInv, NEW c \in Coroutines, NEW f, f \in Func(c), NEW J, NEW X, NEW y,
         Acts(c, J, {}, X, {y}), J \cup X = {f}, y.at \in FuncAt, y.round = f.round,
         UNCHANGED coroutineVars, Excluded'
  PROVE  AwaitInv'
<1>1. /\ Func(c) = {f} /\ f.round = round[c] /\ Began(c)
      /\ "completed" \notin flags[c] /\ ~open[c]
      /\ \A m \in Main(c) : m.round = round[c] /\ Main(c) = {m}
      /\ Main(c) = {} => "waited" \in flags[c]
      /\ \A m \in Main(c) : /\ m \in execs => ExecInv(m) /\ Races(c) /\ m.at \in {"user", "suspend"}
                            /\ m \notin jobs
                            /\ m \in execs
  BY FuncFacts
<1>2. /\ CoroutineTypes' /\ \A d \in Coroutines : SameFor(d)
      /\ round' = round /\ flags' = flags /\ caller' = caller /\ open' = open /\ asked' = asked
  BY SameFacts DEF AwaitInv
<1>3. ActsAlone(c, J, {}, X, {y})
  BY <1>2 DEF ActsAlone
<1>4. f \notin Main(c)
  <2>1. ASSUME f \in Main(c) PROVE FALSE
    <3>1. f \in execs /\ f \notin jobs /\ f.at \in {"user", "suspend"}
      BY <1>1, <2>1
    <3> QED
      BY <3>1 DEF Func, FuncAt
  <2> QED
    BY <2>1
<1>5. Main(c)' = Main(c) /\ Func(c)' = {y}
  <2>1. /\ Main(c)' = (Main(c) \ (J \cup X)) \cup {z \in {y} : z.at \in MainAt}
                                              \cup {k \in {} : k.does \in MainDoes}
        /\ Func(c)' = (Func(c) \ (J \cup X)) \cup {z \in {y} : z.at \in FuncAt}
                                              \cup {k \in {} : k.does = "func"}
    BY ActsParts DEF AwaitInv
  <2> QED
    BY <1>1, <1>4, <2>1 DEF MainAt, FuncAt
<1>6. Began(c)' /\ "completed" \notin flags'[c] /\ ~open'[c]
  BY <1>1, <1>2 DEF Began
<1>7. Sole(Func(c)') /\ \A z \in Func(c)' : z.round = round'[c]
  BY <1>1, <1>2, <1>5 DEF Sole
<1>8. CASE Main(c) = {}
  <2>1. Settled(c, y)
    BY <1>5, <1>8 DEF Settled
  <2>2. Main(c)' = {} /\ "waited" \in flags'[c]
    BY <1>1, <1>2, <1>5, <1>8
  <2> QED
    BY <1>3, <1>5, <1>6, <1>7, <2>1, <2>2, Settles
<1>9. CASE Main(c) # {}
  <2>1. PICK m \in Main(c) : TRUE
    BY <1>9
  <2>2. /\ m.round = round[c] /\ Main(c) = {m} /\ m \in execs /\ ExecInv(m) /\ Races(c)
        /\ m.at \in {"user", "suspend"} /\ m \notin jobs /\ m.who = c
    BY <1>1, <2>1 DEF Main
  <2>3. Races(c)'
    BY <1>1, <1>2, <1>5, <1>6, <2>2 DEF Races
  <2>4. ExecInv(m)'
    <3>1. m.at = "user" => m.early
      BY <1>1, <2>2 DEF ExecInv, Calm
    <3>2. m.at = "user" => Only(caller[m.who]) \subseteq m.holds /\ round[m.who] < MaxAwaits[m.who]
      BY <2>2, <3>1 DEF ExecInv
    <3> QED
      BY <1>2, <2>2, <2>3, <3>1, <3>2 DEF ExecInv
  <2>5. m \notin jobs'
    BY <2>2, JobIsNoExecution DEF Acts, AwaitInv, AwaitTypes
  <2>6. Settled(c, m)
    BY <1>2, <1>5, <2>2, <2>4, <2>5 DEF Settled
  <2>7. Main(c)' # {}
    BY <1>5, <2>2
  <2> QED
    BY <1>3, <1>5, <1>6, <1>7, <2>6, <2>7, Settles
<1> QED
  BY <1>8, <1>9

LEMMA StartFuncInv == ASSUME AwaitInv, NEW j \in jobs, StartFunc(j) PROVE AwaitInv'
<1>1. j \in Jobs /\ j.who \in Coroutines /\ j.does = "func"
  BY DEF AwaitInv, AwaitTypes, Jobs, StartFunc
<1>2. j \in Func(j.who)
  BY <1>1 DEF Func
<1>3. PICK y \in Execs : Begins(y, j, "func")
  BY <1>1, ExecutionFacts DEF Labels, Looping
<1>4. jobs' = jobs \ {j} /\ execs' = execs \cup {y}
  BY <1>3 DEF StartFunc, Starts, Begins
<1>5. Acts(j.who, {j}, {}, {}, {y})
  BY <1>1, <1>3, <1>4 DEF Acts, Begins
<1>6. Excluded'
  <2>1. TakesWarp(j, y)
    BY <1>3 DEF TakesWarp, Begins, StartFunc
  <2> QED
    BY <1>4, <2>1, ExcludedStart DEF AwaitInv
<1>7. y.at \in FuncAt /\ y.round = j.round
  BY <1>3 DEF Begins, FuncAt
<1>8. {j} \cup {} = {j}
  OBVIOUS
<1> QED
  BY <1>1, <1>2, <1>5, <1>6, <1>7, <1>8, FuncMoves DEF StartFunc

LEMMA FuncReturnsInv == ASSUME AwaitInv, NEW x \in execs, FuncReturns(x) PROVE AwaitInv'
<1>1. x \in Execs /\ x.who \in Coroutines /\ x.at = "func"
  BY DEF AwaitInv, AwaitTypes, Execs, FuncReturns, Stands
<1>2. x \in Func(x.who)
  BY <1>1 DEF Func, FuncAt
<1>3. PICK y : y = [x EXCEPT !.at = "complete", !.shares = {}]
  OBVIOUS
<1>4. /\ y \in Execs /\ y.who = x.who /\ y.at = "complete" /\ y.holds = x.holds
      /\ y.shares = {} /\ y.round = x.round
  BY <1>1, <1>3 DEF Execs, Labels, Looping
<1>5. execs' = (execs \ {x}) \cup {y} /\ jobs' = jobs
  BY <1>3 DEF FuncReturns, Becomes
<1>6. Acts(x.who, {}, {}, {x}, {y})
  BY <1>1, <1>4, <1>5 DEF Acts
<1>7. Excluded'
  <2>1. Sole({y}) /\ \A z \in {y} : z.holds \subseteq x.holds /\ z.shares = {}
    BY <1>4 DEF Sole
  <2> QED
    <3>1. Loses(x, {y})
      BY <1>5, <2>1 DEF Loses
    <3> QED
      BY <3>1, ExcludedLess DEF AwaitInv
<1>8. y.at \in FuncAt /\ {} \cup {x} = {x}
  BY <1>4 DEF FuncAt
<1> QED
  BY <1>1, <1>2, <1>4, <1>6, <1>7, <1>8, FuncMoves DEF FuncReturns

LEMMA CompleteInv == ASSUME AwaitInv, NEW x \in execs, Complete(x) PROVE AwaitInv'
<1> DEFINE c == x.who
<1>1. x \in Execs /\ c \in Coroutines /\ x.at = "complete" /\ x.at # "func" /\ jobs' = jobs
  BY DEF AwaitInv, AwaitTypes, Execs, Complete, Stands
<1>2. x \in Func(c)
  BY <1>1 DEF Func, FuncAt
<1>3. /\ Func(c) = {x} /\ x.round = round[c] /\ Began(c)
      /\ "completed" \notin flags[c] /\ ~open[c]
      /\ \A m \in Main(c) : m.round = round[c] /\ Main(c) = {m}
      /\ "waited" \in flags[c] => Main(c) = {}
      /\ Main(c) = {} => "waited" \in flags[c]
      /\ \A m \in Main(c) : /\ m \in execs => ExecInv(m) /\ Races(c) /\ m.at \in {"user", "suspend"}
                            /\ m \notin jobs
                            /\ m \in execs
  BY <1>1, <1>2, FuncFacts
<1>4. /\ flags'[c] = flags[c] \cup {"completed"}
      /\ round' = round /\ caller' = caller /\ open' = open /\ asked' = asked
  BY <1>1 DEF Complete, AwaitInv, AwaitTypes, CoroutineTypes
<1>5. CoroutineTypes' /\ \A d \in Coroutines : d # c => SameFor(d)
  BY <1>1 DEF Complete, AwaitInv, AwaitTypes, CoroutineTypes, SameFor
<1>6. CASE "waited" \in flags[c]
  <2>1. PICK y \in Execs : Relabels(y, x, "answer")
    BY <1>1, RelabelFacts DEF Labels, Looping
  <2>2. execs' = (execs \ {x}) \cup {y}
    BY <1>6, <2>1 DEF Complete, Becomes, Relabels
  <2>3. Acts(c, {}, {}, {x}, {y})
    BY <1>1, <2>1, <2>2 DEF Acts, Relabels
  <2>4. Excluded'
    <3>1. Keeps(x, y)
      BY <1>1, <2>1, <2>2 DEF Keeps, Relabels
    <3> QED
      BY <3>1, ExcludedSame DEF AwaitInv
  <2>5. ActsAlone(c, {}, {}, {x}, {y})
    BY <1>5, <2>3, <2>4 DEF ActsAlone
  <2>6. y.at = "answer" /\ y.round = x.round /\ y.who = c
    BY <2>1 DEF Relabels
  <2>7. Func(c)' = {}
    <3>1. Func(c)' = (Func(c) \ ({} \cup {x})) \cup {z \in {y} : z.at \in FuncAt}
                                               \cup {k \in {} : k.does = "func"}
      BY <2>3, ActsParts DEF AwaitInv
    <3> QED
      BY <1>3, <2>6, <3>1 DEF FuncAt
  <2>8. Answered(c)'
    BY <1>3, <1>4, <2>7 DEF Began, Answered
  <2>9. ExecInv(y)'
    BY <2>6, <2>8 DEF ExecInv
  <2>10. /\ {z \in {y} : z.at \in MainAt} \cup {k \in {} : k.does \in MainDoes} = {y}
         /\ {z \in {y} : z.at \in FuncAt} = {} /\ {k \in {} : k.does = "func"} = {}
    BY <2>6 DEF MainAt, FuncAt
  <2> HIDE DEF c
  <2> QED
    BY <1>1, <1>3, <1>4, <1>6, <2>5, <2>6, <2>9, <2>10, Passes
<1>7. CASE "waited" \notin flags[c]
  <2>1. PICK Y \in SUBSET Execs : Left(x, Y)
    BY <1>1, <1>7, LeavesFacts DEF Complete
  <2>2. execs' = (execs \ {x}) \cup Y /\ \A y \in Y : y.who = c /\ y.at = "leave"
    BY <2>1 DEF Left
  <2>3. Acts(c, {}, {}, {x}, Y)
    BY <1>1, <2>2 DEF Acts
  <2>4. Excluded'
    BY <1>1, <2>1, ExcludedLeft DEF AwaitInv
  <2>5. ActsAlone(c, {}, {}, {x}, Y)
    BY <1>5, <2>3, <2>4 DEF ActsAlone
  <2>6. PICK m \in Main(c) : TRUE
    BY <1>3, <1>7
  <2>7. /\ m.round = round[c] /\ Main(c) = {m} /\ m \in execs /\ ExecInv(m) /\ Races(c)
        /\ m.at \in {"user", "suspend"} /\ m \notin jobs /\ m.who = c
    BY <1>3, <2>6 DEF Main
  <2>8. Main(c)' = {m} /\ Func(c)' = {}
    <3>1. /\ Main(c)' = (Main(c) \ ({} \cup {x})) \cup {z \in Y : z.at \in MainAt}
                                                \cup {k \in {} : k.does \in MainDoes}
          /\ Func(c)' = (Func(c) \ ({} \cup {x})) \cup {z \in Y : z.at \in FuncAt}
                                                \cup {k \in {} : k.does = "func"}
      BY <2>3, ActsParts DEF AwaitInv
    <3>2. m # x
      BY <1>1, <2>7
    <3> QED
      BY <1>3, <2>2, <2>7, <3>1, <3>2 DEF MainAt, FuncAt
  <2>9. Races(c)' /\ ~open'[c]
    BY <1>3, <1>4, <1>7, <2>8 DEF Races, Began
  <2>10. ExecInv(m)'
    <3>1. m.at = "user" => m.early
      BY <1>3, <2>7 DEF ExecInv, Calm
    <3>2. m.at = "user" => Only(caller[m.who]) \subseteq m.holds /\ round[m.who] < MaxAwaits[m.who]
      BY <2>7, <3>1 DEF ExecInv
    <3> QED
      BY <1>4, <2>7, <2>9, <3>1, <3>2 DEF ExecInv
  <2>11. Settled(c, m)
    BY <1>1, <1>4, <2>7, <2>8, <2>10 DEF Settled
  <2> HIDE DEF c
  <2> QED
    BY <1>1, <2>5, <2>8, <2>9, <2>11, Settles DEF Sole
<1> QED
  BY <1>6, <1>7

(***************************************************************************)
(* What a coroutine begins                                                 *)
(***************************************************************************)
\* asked' for c, when the coroutine asks for W, and for P in parallel.
LEMMA AsksFacts ==
  ASSUME AwaitTypes, NEW c \in Coroutines, NEW W \in SUBSET Warps, NEW P \in SUBSET Warps, Asks(c, W, P)
  PROVE  /\ asked'[c].all = W /\ asked'[c].parallel = P
         /\ asked' \in [Coroutines -> [all : SUBSET Warps, parallel : SUBSET Warps]]
         /\ \A d \in Coroutines : d # c => asked'[d] = asked[d]
BY DEF Asks, AwaitTypes, CoroutineTypes

\* What c asks for is there: it goes on in u, with the warps that x had.
LEMMA StaysHere ==
  ASSUME AwaitInv, NEW x \in execs, MayCall(x), NEW W \in SUBSET Warps, NEW P \in SUBSET Warps,
         Asks(x.who, W, P), W \subseteq x.holds, Becomes(x, User(x)),
         round' = [round EXCEPT ![x.who] = @ + 1], UNCHANGED <<jobs, flags, caller, open>>
  PROVE  AwaitInv'
<1>1. /\ x \in Execs /\ x.who \in Coroutines /\ Main(x.who) = {x} /\ Func(x.who) = {}
      /\ x.round = round[x.who] /\ ~open[x.who] /\ flags[x.who] = {}
      /\ x.at = "user" /\ ~x.early
  BY CallFacts
<1>2. PICK u \in Execs : Resumes(u, x)
  BY <1>1, UserFacts
<1>3. execs' = (execs \ {x}) \cup {u} /\ jobs' = jobs
  BY <1>2 DEF Becomes, Resumes
<1>4. Acts(x.who, {}, {}, {x}, {u})
  BY <1>1, <1>2, <1>3 DEF Acts, Resumes
<1>5. Excluded'
  <2>1. Keeps(x, u)
    BY <1>1, <1>2, <1>3 DEF Keeps, Resumes
  <2> QED
    BY <2>1, ExcludedSame DEF AwaitInv
<1>6. /\ asked'[x.who].all = W /\ asked'[x.who].parallel = P
      /\ asked' \in [Coroutines -> [all : SUBSET Warps, parallel : SUBSET Warps]]
      /\ \A d \in Coroutines : d # x.who => asked'[d] = asked[d]
  BY <1>1, AsksFacts DEF AwaitInv
<1>7. /\ round'[x.who] = round[x.who] + 1 /\ round' \in [Coroutines -> Nat]
      /\ \A d \in Coroutines : d # x.who => round'[d] = round[d]
  BY <1>1 DEF AwaitInv, AwaitTypes, CoroutineTypes
<1>8. CoroutineTypes' /\ \A d \in Coroutines : d # x.who => SameFor(d)
  BY <1>6, <1>7 DEF AwaitInv, AwaitTypes, CoroutineTypes, SameFor
<1>9. ActsAlone(x.who, {}, {}, {x}, {u})
  BY <1>4, <1>5, <1>8 DEF ActsAlone
<1>10. /\ u.who = x.who /\ u.at = "user" /\ ~u.early /\ u.round = round'[x.who]
       /\ u.holds = x.holds /\ u.shares = x.shares
  BY <1>1, <1>2, <1>7 DEF Resumes
<1>11. Func(x.who)' = {}
  <2>1. Func(x.who)' = (Func(x.who) \ ({} \cup {x})) \cup {y \in {u} : y.at \in FuncAt}
                                          \cup {k \in {} : k.does = "func"}
    BY <1>4, ActsParts DEF AwaitInv
  <2> QED
    BY <1>1, <1>10, <2>1 DEF FuncAt
<1>12. ExecInv(u)'
  <2>1. Calm(x.who)' /\ HasAsked(u, x.who)'
    BY <1>1, <1>6, <1>10, <1>11 DEF Calm, HasAsked
  <2> QED
    BY <1>10, <2>1 DEF ExecInv
<1>13. /\ {z \in {u} : z.at \in MainAt} \cup {k \in {} : k.does \in MainDoes} = {u}
       /\ {z \in {u} : z.at \in FuncAt} = {} /\ {k \in {} : k.does = "func"} = {}
  BY <1>10 DEF MainAt, FuncAt
<1> QED
  BY <1>1, <1>9, <1>10, <1>12, <1>13, Passes

LEMMA OnlyCurrent ==
  ASSUME NEW x \in Execs
  PROVE  Only(Current(x)) \in SUBSET Warps /\ Only(Current(x)) \subseteq x.holds
         /\ Current(x) \in Warps \cup {NoWarp}
BY DEF Only, Current, Execs

LEMMA SwitchStaysInv ==
  ASSUME AwaitInv, NEW x \in execs, NEW s \in SwitchCalls, SwitchStays(x, s) PROVE AwaitInv'
<1>1. x \in Execs
  BY DEF AwaitInv, AwaitTypes
<1> DEFINE W == {s.target, s.other} \ {NoWarp}
           P == (IF s.parallelTarget THEN {s.target} ELSE {})
                  \cup (IF s.parallelOther THEN Only(s.other) ELSE {})
<1>2. ~s.parallelTarget /\ ~s.parallelOther
  BY DEF SwitchStays, Stays
<1>3. W \in SUBSET Warps /\ P \in SUBSET Warps
  BY <1>2 DEF SwitchCalls
<1>4. W \subseteq x.holds
  <2>1. W \subseteq Only(Current(x))
    BY DEF SwitchStays, Stays, Only
  <2> QED
    BY <1>1, <2>1, OnlyCurrent
<1>5. Asks(x.who, W, P)
  BY DEF SwitchStays, SwitchAsks
<1> HIDE DEF W, P
<1> QED
  BY <1>3, <1>4, <1>5, StaysHere DEF SwitchStays

LEMMA SelectInv == ASSUME AwaitInv, NEW x \in execs, Select(x) PROVE AwaitInv'
<1> DEFINE c == x.who
<1>1. /\ x \in Execs /\ c \in Coroutines /\ Main(c) = {x} /\ Func(c) = {}
      /\ x.round = round[c] /\ ~open[c] /\ flags[c] = {}
      /\ x.at = "user" /\ ~x.early
  BY CallFacts DEF Select
<1>2. PICK y : y = [x EXCEPT !.at = "post", !.n = 1]
  OBVIOUS
<1>3. 1 \in DOMAIN Candidates
  BY AwaitablesAssumption
<1>4. /\ y \in Execs /\ y.who = c /\ y.at = "post" /\ y.holds = x.holds /\ y.shares = x.shares
      /\ y.round = x.round
  BY <1>1, <1>2, <1>3 DEF Execs, Labels
<1>5. execs' = (execs \ {x}) \cup {y} /\ jobs' = jobs
  BY <1>2 DEF Select, Becomes
<1>6. Acts(c, {}, {}, {x}, {y})
  BY <1>1, <1>4, <1>5 DEF Acts
<1>7. Excluded'
  <2>1. Keeps(x, y)
    BY <1>1, <1>4, <1>5 DEF Keeps
  <2> QED
    BY <2>1, ExcludedSame DEF AwaitInv
<1>8. /\ asked'[c].all = {} /\ asked' \in [Coroutines -> [all : SUBSET Warps, parallel : SUBSET Warps]]
      /\ \A d \in Coroutines : d # c => asked'[d] = asked[d]
  <2>1. Asks(c, {}, {}) /\ {} \in SUBSET Warps
    BY DEF Select
  <2> HIDE DEF c
  <2> QED
    BY <1>1, <2>1, AsksFacts DEF AwaitInv
<1>9. /\ open'[c] = TRUE /\ round' = round /\ flags' = flags /\ caller' = caller
      /\ open' \in [Coroutines -> BOOLEAN] /\ \A d \in Coroutines : d # c => open'[d] = open[d]
  BY <1>1 DEF Select, AwaitInv, AwaitTypes, CoroutineTypes
<1>10. CoroutineTypes' /\ \A d \in Coroutines : d # c => SameFor(d)
  BY <1>8, <1>9 DEF AwaitInv, AwaitTypes, CoroutineTypes, SameFor
<1>11. Main(c)' = {} /\ Func(c)' = {}
  <2>1. /\ Main(c)' = (Main(c) \ ({} \cup {x})) \cup {z \in {y} : z.at \in MainAt}
                                              \cup {k \in {} : k.does \in MainDoes}
        /\ Func(c)' = (Func(c) \ ({} \cup {x})) \cup {z \in {y} : z.at \in FuncAt}
                                              \cup {k \in {} : k.does = "func"}
    BY <1>6, ActsParts DEF AwaitInv
  <2> QED
    BY <1>1, <1>4, <2>1 DEF MainAt, FuncAt
<1>12. Offered(c)'
  BY <1>1, <1>4, <1>5, <1>9 DEF Offered
<1>13. /\ Sole(Main(c)')
       /\ \A z \in execs' : z.who = c => ExecInv(z)'
       /\ \A j \in jobs' : j.who = c => JobInv(j)'
  BY <1>11, SoleWay
<1>14. OnItsWay(c)'
  BY <1>1, <1>8, <1>9, <1>11, <1>12, <1>13 DEF OnItsWay, Sole
<1> HIDE DEF c
<1> QED
  BY <1>1, <1>6, <1>7, <1>10, <1>14, OneActs

\* DispatchTo, and what it makes of the awaitable.
Dispatched(c, w, bits) ==
  /\ caller'[c] = w /\ flags'[c] = bits
  /\ caller' \in [Coroutines -> Warps \cup {NoWarp}]
  /\ flags' \in [Coroutines -> SUBSET {"dispatched", "waited", "completed"}]
  /\ \A d \in Coroutines : d # c => caller'[d] = caller[d] /\ flags'[d] = flags[d]

LEMMA DispatchFacts ==
  ASSUME AwaitTypes, NEW x \in Execs, NEW a \in AwaitCalls, NEW bits \in SUBSET {"waited"},
         DispatchTo(x, a, bits)
  PROVE  /\ a.target = Current(x) =>
              /\ Dispatched(x.who, Current(x), bits \cup {"dispatched", "completed"})
              /\ jobs' = jobs
         /\ a.target # Current(x) =>
              /\ Dispatched(x.who, Current(x), bits \cup {"dispatched"})
              /\ jobs' = jobs \cup {Job("func", x, a.target, a.parallel, NoSwitch)}
<1>1. x.who \in Coroutines /\ Current(x) \in Warps \cup {NoWarp}
  BY OnlyCurrent DEF Execs
<1>2. CASE a.target = Current(x)
  <2>1. /\ caller' = [caller EXCEPT ![x.who] = Current(x)]
        /\ flags' = [flags EXCEPT ![x.who] = bits \cup {"dispatched", "completed"}]
        /\ jobs' = jobs
    BY <1>2 DEF DispatchTo
  <2>2. Dispatched(x.who, Current(x), bits \cup {"dispatched", "completed"})
    BY <1>1, <2>1 DEF Dispatched, AwaitTypes, CoroutineTypes
  <2> QED
    BY <1>2, <2>1, <2>2
<1>3. CASE a.target # Current(x)
  <2>1. /\ caller' = [caller EXCEPT ![x.who] = Current(x)]
        /\ flags' = [flags EXCEPT ![x.who] = bits \cup {"dispatched"}]
        /\ jobs' = jobs \cup {Job("func", x, a.target, a.parallel, NoSwitch)}
    BY <1>3 DEF DispatchTo, Post
  <2>2. Dispatched(x.who, Current(x), bits \cup {"dispatched"})
    BY <1>1, <2>1 DEF Dispatched, AwaitTypes, CoroutineTypes
  <2> QED
    BY <1>3, <2>1, <2>2
<1> QED
  BY <1>2, <1>3

LEMMA AwaitInvStep ==
  ASSUME AwaitInv, NEW x \in execs, NEW a \in AwaitCalls, Await(x, a) PROVE AwaitInv'
<1> DEFINE c == x.who
<1>1. /\ x \in Execs /\ c \in Coroutines /\ Main(c) = {x} /\ Func(c) = {}
      /\ x.round = round[c] /\ ~open[c] /\ flags[c] = {}
      /\ x.at = "user" /\ ~x.early
  BY CallFacts DEF Await
<1>2. /\ Only(Current(x)) \in SUBSET Warps /\ Only(Current(x)) \subseteq x.holds
      /\ Current(x) \in Warps \cup {NoWarp}
  BY <1>1, OnlyCurrent
<1>3. Asks(c, Only(Current(x)), {}) /\ {} \in SUBSET Warps
  BY DEF Await
<1>4. CASE a.target = Current(x)
  BY <1>2, <1>3, <1>4, StaysHere DEF Await
<1>5. CASE a.target # Current(x)
  <2>1. PICK Y \in SUBSET Execs : Left(x, Y)
    BY <1>1, <1>5, LeavesFacts DEF Await
  <2>2. PICK j \in Jobs : Works(j, "func", x, a.target, a.parallel, NoSwitch)
    <3>1. NoSwitch \in SwitchType
      BY DEF NoSwitch, SwitchType
    <3>2. a.target \in Warps \cup {NoWarp} /\ a.parallel \in BOOLEAN /\ (a.parallel => a.target \in Warps)
      BY DEF AwaitCalls
    <3> QED
      BY <1>1, <3>1, <3>2, JobFacts
  <2>3. Dispatched(c, Current(x), {"waited"} \cup {"dispatched"})
        /\ jobs' = jobs \cup {Job("func", x, a.target, a.parallel, NoSwitch)}
    BY <1>1, <1>5, DispatchFacts DEF Await, AwaitInv
  <2>4. /\ execs' = (execs \ {x}) \cup Y /\ \A y \in Y : y.who = c /\ y.at = "leave"
        /\ jobs' = jobs \cup {j} /\ j.who = c /\ j.does = "func" /\ j.round = x.round
    BY <2>1, <2>2, <2>3 DEF Left, Works
  <2>5. Acts(c, {}, {j}, {x}, Y)
    BY <1>1, <2>4 DEF Acts
  <2>6. Excluded'
    BY <1>1, <2>1, ExcludedLeft DEF AwaitInv
  <2>7. /\ asked'[c].all = Only(Current(x))
        /\ asked' \in [Coroutines -> [all : SUBSET Warps, parallel : SUBSET Warps]]
        /\ \A d \in Coroutines : d # c => asked'[d] = asked[d]
    <3> HIDE DEF c
    <3> QED
      BY <1>1, <1>2, <1>3, AsksFacts DEF AwaitInv
  <2>8. round' = round /\ open' = open
    BY <1>5 DEF Await
  <2>9. CoroutineTypes' /\ \A d \in Coroutines : d # c => SameFor(d)
    BY <2>3, <2>7, <2>8 DEF Dispatched, AwaitInv, AwaitTypes, CoroutineTypes, SameFor
  <2>10. ActsAlone(c, {}, {j}, {x}, Y)
    BY <2>5, <2>6, <2>9 DEF ActsAlone
  <2>11. Main(c)' = {} /\ Func(c)' = {j}
    <3>1. /\ Main(c)' = (Main(c) \ ({} \cup {x})) \cup {z \in Y : z.at \in MainAt}
                                                \cup {k \in {j} : k.does \in MainDoes}
          /\ Func(c)' = (Func(c) \ ({} \cup {x})) \cup {z \in Y : z.at \in FuncAt}
                                                \cup {k \in {j} : k.does = "func"}
      BY <2>5, ActsParts DEF AwaitInv
    <3> QED
      BY <1>1, <2>4, <3>1 DEF MainAt, FuncAt, MainDoes
  <2>12. Began(c)' /\ "completed" \notin flags'[c] /\ "waited" \in flags'[c] /\ ~open'[c]
    BY <1>1, <2>3, <2>7, <2>8 DEF Began, Dispatched
  <2>13. Sole(Func(c)') /\ \A f \in Func(c)' : f.round = round'[c]
    BY <1>1, <2>4, <2>8, <2>11 DEF Sole
  <2>14. Settled(c, x)
    BY <2>11 DEF Settled
  <2> HIDE DEF c
  <2> QED
    BY <1>1, <2>10, <2>11, <2>12, <2>13, <2>14, Settles
<1> QED
  BY <1>4, <1>5

LEMMA DispatchEarlyInv ==
  ASSUME AwaitInv, NEW x \in execs, NEW a \in AwaitCalls, DispatchEarly(x, a) PROVE AwaitInv'
<1> DEFINE c == x.who
<1>1. /\ x \in Execs /\ c \in Coroutines /\ Main(c) = {x} /\ Func(c) = {}
      /\ x.round = round[c] /\ ~open[c] /\ flags[c] = {}
      /\ x.at = "user" /\ ~x.early /\ round[c] < MaxAwaits[c]
  BY CallFacts DEF DispatchEarly
<1>2. /\ Only(Current(x)) \in SUBSET Warps /\ Only(Current(x)) \subseteq x.holds
      /\ Current(x) \in Warps \cup {NoWarp}
  BY <1>1, OnlyCurrent
<1>3. Asks(c, Only(Current(x)), {}) /\ {} \in SUBSET Warps
  BY DEF DispatchEarly
<1>4. /\ asked'[c].all = Only(Current(x))
      /\ asked' \in [Coroutines -> [all : SUBSET Warps, parallel : SUBSET Warps]]
      /\ \A d \in Coroutines : d # c => asked'[d] = asked[d]
  <2> HIDE DEF c
  <2> QED
    BY <1>1, <1>2, <1>3, AsksFacts DEF AwaitInv
<1>5. PICK y : y = [x EXCEPT !.early = TRUE]
  OBVIOUS
<1>6. /\ y \in Execs /\ y.who = c /\ y.at = "user" /\ y.early /\ y.holds = x.holds
      /\ y.shares = x.shares /\ y.round = x.round
  BY <1>1, <1>5 DEF Execs, Looping
<1>7. execs' = (execs \ {x}) \cup {y}
  BY <1>5 DEF DispatchEarly, Becomes
<1>8. Excluded'
  <2>1. Keeps(x, y)
    BY <1>1, <1>6, <1>7 DEF Keeps
  <2> QED
    BY <2>1, ExcludedSame DEF AwaitInv
<1>9. round' = round /\ open' = open
  BY DEF DispatchEarly
<1>10. {y} \subseteq Execs /\ \A z \in {y} : z.who = c
  BY <1>6
<1>11. CASE a.target = Current(x)
  <2>1. Dispatched(c, Current(x), {} \cup {"dispatched", "completed"}) /\ jobs' = jobs
    BY <1>1, <1>11, DispatchFacts DEF DispatchEarly, AwaitInv
  <2>2. Acts(c, {}, {}, {x}, {y})
    BY <1>1, <1>7, <1>10, <2>1 DEF Acts
  <2>3. CoroutineTypes' /\ \A d \in Coroutines : d # c => SameFor(d)
    BY <1>4, <1>9, <2>1 DEF Dispatched, AwaitInv, AwaitTypes, CoroutineTypes, SameFor
  <2>4. ActsAlone(c, {}, {}, {x}, {y})
    BY <1>8, <2>2, <2>3 DEF ActsAlone
  <2>5. Func(c)' = {}
    <3>1. Func(c)' = (Func(c) \ ({} \cup {x})) \cup {z \in {y} : z.at \in FuncAt}
                                               \cup {k \in {} : k.does = "func"}
      BY <2>2, ActsParts DEF AwaitInv
    <3> QED
      BY <1>1, <1>6, <3>1 DEF FuncAt
  <2>6. Races(c)'
    BY <1>1, <1>4, <1>9, <2>1, <2>5 DEF Races, Began, Dispatched
  <2>7. ExecInv(y)'
    BY <1>1, <1>2, <1>6, <1>9, <2>1, <2>6 DEF ExecInv, Dispatched
  <2>8. /\ {z \in {y} : z.at \in MainAt} \cup {k \in {} : k.does \in MainDoes} = {y}
        /\ {z \in {y} : z.at \in FuncAt} = {} /\ {k \in {} : k.does = "func"} = {}
    BY <1>6 DEF MainAt, FuncAt
  <2> HIDE DEF c
  <2> QED
    BY <1>1, <1>6, <1>9, <2>4, <2>7, <2>8, Passes
<1>12. CASE a.target # Current(x)
  <2>1. Dispatched(c, Current(x), {} \cup {"dispatched"})
        /\ jobs' = jobs \cup {Job("func", x, a.target, a.parallel, NoSwitch)}
    BY <1>1, <1>12, DispatchFacts DEF DispatchEarly, AwaitInv
  <2>2. PICK j \in Jobs : Works(j, "func", x, a.target, a.parallel, NoSwitch)
    <3>1. NoSwitch \in SwitchType
      BY DEF NoSwitch, SwitchType
    <3>2. a.target \in Warps \cup {NoWarp} /\ a.parallel \in BOOLEAN /\ (a.parallel => a.target \in Warps)
      BY DEF AwaitCalls
    <3> QED
      BY <1>1, <3>1, <3>2, JobFacts
  <2>3. jobs' = jobs \cup {j} /\ j.who = c /\ j.does = "func" /\ j.round = x.round
    BY <2>1, <2>2 DEF Works
  <2>4. Acts(c, {}, {j}, {x}, {y})
    BY <1>1, <1>7, <1>10, <2>3 DEF Acts
  <2>5. CoroutineTypes' /\ \A d \in Coroutines : d # c => SameFor(d)
    BY <1>4, <1>9, <2>1 DEF Dispatched, AwaitInv, AwaitTypes, CoroutineTypes, SameFor
  <2>6. ActsAlone(c, {}, {j}, {x}, {y})
    BY <1>8, <2>4, <2>5 DEF ActsAlone
  <2>7. Main(c)' = {y} /\ Func(c)' = {j}
    <3>1. /\ Main(c)' = (Main(c) \ ({} \cup {x})) \cup {z \in {y} : z.at \in MainAt}
                                                \cup {k \in {j} : k.does \in MainDoes}
          /\ Func(c)' = (Func(c) \ ({} \cup {x})) \cup {z \in {y} : z.at \in FuncAt}
                                                \cup {k \in {j} : k.does = "func"}
      BY <2>4, ActsParts DEF AwaitInv
    <3> QED
      BY <1>1, <1>6, <2>3, <3>1 DEF MainAt, FuncAt, MainDoes
  <2>8. Began(c)' /\ "completed" \notin flags'[c] /\ ~open'[c] /\ Races(c)'
    BY <1>1, <1>4, <1>9, <2>1, <2>7 DEF Races, Began, Dispatched
  <2>9. ExecInv(y)'
    BY <1>1, <1>2, <1>6, <1>9, <2>1, <2>8 DEF ExecInv, Dispatched
  <2>10. Settled(c, y)
    <3>1. y \notin jobs'
      <4>1. jobs' \subseteq Jobs
        BY <2>4, ActsParts DEF AwaitInv
      <4> QED
        BY <1>6, <4>1, JobIsNoExecution
    <3> QED
      BY <1>1, <1>6, <1>9, <2>7, <2>9, <3>1 DEF Settled
  <2>11. Sole(Func(c)') /\ \A f \in Func(c)' : f.round = round'[c]
    BY <1>1, <1>9, <2>3, <2>7 DEF Sole
  <2>12. Main(c)' # {}
    BY <2>7
  <2> HIDE DEF c
  <2> QED
    BY <1>1, <2>6, <2>8, <2>10, <2>11, <2>12, Settles
<1> QED
  BY <1>11, <1>12

LEMMA SwitchInv ==
  ASSUME AwaitInv, NEW x \in execs, NEW s \in SwitchCalls, Switch(x, s) PROVE AwaitInv'
<1> DEFINE c == x.who
           t == Oriented(s)
           W == {s.target, s.other} \ {NoWarp}
           P == (IF s.parallelTarget THEN {s.target} ELSE {})
                  \cup (IF s.parallelOther THEN Only(s.other) ELSE {})
<1>1. /\ x \in Execs /\ c \in Coroutines /\ Main(c) = {x} /\ Func(c) = {}
      /\ x.round = round[c] /\ ~open[c] /\ flags[c] = {}
      /\ x.at = "user" /\ ~x.early
  BY CallFacts DEF Switch
<1>2. s \in SwitchType /\ (s.target = NoWarp => ~s.parallelTarget)
  BY DEF SwitchCalls, SwitchType
<1>3. W \in SUBSET Warps /\ P \in SUBSET Warps
  BY <1>2 DEF SwitchType, Only
<1>4. /\ asked'[c].all = W /\ asked'[c].parallel = P
      /\ asked' \in [Coroutines -> [all : SUBSET Warps, parallel : SUBSET Warps]]
      /\ \A d \in Coroutines : d # c => asked'[d] = asked[d]
  <2>1. Asks(c, W, P)
    BY DEF Switch, SwitchAsks
  <2> HIDE DEF c, W, P
  <2> QED
    BY <1>1, <1>3, <2>1, AsksFacts DEF AwaitInv
<1>5. round' = round /\ flags' = flags /\ caller' = caller /\ open' = open
  BY DEF Switch
<1>6. CoroutineTypes' /\ \A d \in Coroutines : d # c => SameFor(d)
  BY <1>4, <1>5 DEF AwaitInv, AwaitTypes, CoroutineTypes, SameFor
<1>7. t \in SwitchType /\ (t.parallelTarget => t.target \in Warps)
  <2>1. CASE s.target = NoWarp
    <3>1. t = [s EXCEPT !.target = s.other, !.other = NoWarp]
      BY <2>1 DEF Oriented
    <3> QED
      BY <1>2, <2>1, <3>1 DEF SwitchType
  <2>2. CASE s.target # NoWarp
    BY <1>2, <2>2 DEF Oriented, SwitchType
  <2> QED
    BY <2>1, <2>2
<1>8. ToSwitch(t, c)'
  <2>1. CASE s.target = NoWarp
    <3>1. t = [s EXCEPT !.target = s.other, !.other = NoWarp]
      BY <2>1 DEF Oriented
    <3>2. /\ t.target = s.other /\ t.other = NoWarp /\ ~t.parallelTarget
      BY <1>2, <2>1, <3>1 DEF SwitchType
    <3>3. asked'[c].all = {t.target, t.other} \ {NoWarp}
      BY <1>4, <2>1, <3>2
    <3> QED
      BY <3>2, <3>3 DEF ToSwitch
  <2>2. CASE s.target # NoWarp
    <3>1. t = s
      BY <2>2 DEF Oriented
    <3>2. s.parallelTarget => s.target \in P
      OBVIOUS
    <3>3. s.parallelOther => s.other \in P \cup {NoWarp}
      BY DEF Only
    <3> QED
      BY <1>4, <3>1, <3>2, <3>3 DEF ToSwitch
  <2> QED
    BY <2>1, <2>2
<1>9. CASE Inline(x, t)
  <2>1. t.parallelTarget /\ ~Busy(t.target) /\ t.target \in Warps
    BY <1>7, <1>9 DEF Inline
  <2>2. PICK y : y = [x EXCEPT !.at = "handler", !.shares = @ \cup {t.target}, !.switch = t]
    OBVIOUS
  <2>3. /\ y \in Execs /\ y.who = c /\ y.at = "handler" /\ y.holds = x.holds /\ y.switch = t
        /\ y.shares = x.shares \cup {t.target} /\ y.round = x.round
    <3> HIDE DEF t
    <3> QED
      BY <1>1, <1>7, <2>1, <2>2 DEF Execs, Labels, Looping
  <2>4. execs' = (execs \ {x}) \cup {y} /\ jobs' = jobs
    BY <1>9, <2>2 DEF Switch, Becomes
  <2>5. Acts(c, {}, {}, {x}, {y})
    BY <1>1, <2>3, <2>4 DEF Acts
  <2>6. Excluded'
    <3>1. \A z \in execs : z # x =>
            {} \cap z.holds = {} /\ {} \cap z.shares = {} /\ {t.target} \cap z.holds = {}
      BY <2>1 DEF Busy
    <3>2. Gains(x, y, {}, {t.target})
      BY <1>1, <2>3, <2>4, <3>1 DEF Gains
    <3> QED
      BY <3>2, ExcludedMore DEF AwaitInv
  <2>7. ActsAlone(c, {}, {}, {x}, {y})
    BY <1>6, <2>5, <2>6 DEF ActsAlone
  <2>8. Func(c)' = {}
    <3>1. Func(c)' = (Func(c) \ ({} \cup {x})) \cup {z \in {y} : z.at \in FuncAt}
                                               \cup {k \in {} : k.does = "func"}
      BY <2>5, ActsParts DEF AwaitInv
    <3> QED
      BY <1>1, <2>3, <3>1 DEF FuncAt
  <2>9. Calm(c)'
    BY <1>1, <1>5, <2>8 DEF Calm
  <2>10. ExecInv(y)'
    <3>1. ToSwitch(y.switch, y.who)'
      BY <1>8, <2>3
    <3> QED
      BY <2>1, <2>3, <2>9, <3>1 DEF ExecInv
  <2>11. /\ {z \in {y} : z.at \in MainAt} \cup {k \in {} : k.does \in MainDoes} = {y}
        /\ {z \in {y} : z.at \in FuncAt} = {} /\ {k \in {} : k.does = "func"} = {}
    BY <2>3 DEF MainAt, FuncAt
  <2> HIDE DEF c, t
  <2> QED
    BY <1>1, <1>5, <2>3, <2>7, <2>10, <2>11, Passes
<1>10. CASE ~Inline(x, t)
  <2>1. /\ jobs' = jobs \cup {Job("switch", x, t.target, t.parallelTarget /\ x.worker, t)}
        /\ Leaves(x)
    BY <1>10 DEF Switch, Post
  <2>2. PICK Y \in SUBSET Execs : Left(x, Y)
    BY <1>1, <2>1, LeavesFacts
  <2>3. t.target \in Warps \cup {NoWarp} /\ (t.parallelTarget /\ x.worker) \in BOOLEAN
        /\ (t.parallelTarget /\ x.worker => t.target \in Warps)
    BY <1>7 DEF SwitchType
  <2>4. PICK j \in Jobs : Works(j, "switch", x, t.target, t.parallelTarget /\ x.worker, t)
    <3> HIDE DEF t
    <3> QED
      BY <1>1, <1>7, <2>3, JobFacts
  <2>5. /\ jobs' = jobs \cup {j} /\ j.who = c /\ j.does = "switch" /\ j.round = x.round
        /\ j.on = t.target /\ (j.shared => t.parallelTarget) /\ j.switch = t
    BY <2>1, <2>4 DEF Works
  <2>6. Func(c)' = {}
    <3>1. execs' = (execs \ {x}) \cup Y /\ \A y \in Y : y.who = c /\ y.at = "leave"
      BY <2>2 DEF Left
    <3>2. Acts(c, {}, {j}, {x}, Y)
      BY <1>1, <2>5, <3>1 DEF Acts
    <3>3. Func(c)' = (Func(c) \ ({} \cup {x})) \cup {z \in Y : z.at \in FuncAt}
                                               \cup {k \in {j} : k.does = "func"}
      BY <3>2, ActsParts DEF AwaitInv
    <3> QED
      BY <1>1, <2>5, <3>1, <3>3 DEF FuncAt
  <2>7. JobInv(j)'
    <3>1. Calm(c)'
      BY <1>1, <1>5, <2>6 DEF Calm
    <3>2. ToSwitch(j.switch, j.who)'
      BY <1>8, <2>5
    <3> QED
      BY <2>5, <3>1, <3>2 DEF JobInv
  <2>8. j.does \in MainDoes /\ x.at # "func" /\ ~open'[c]
    BY <1>1, <1>5, <2>5 DEF MainDoes
  <2> QED
    BY <1>1, <1>5, <1>6, <2>2, <2>5, <2>7, <2>8, PassesToJob
<1> QED
  BY <1>9, <1>10

(***************************************************************************)
(* The theorems                                                            *)
(***************************************************************************)
LEMMA AwaitInvInit == AwaitablesInit => AwaitInv
<1> SUFFICES ASSUME AwaitablesInit PROVE AwaitInv
  OBVIOUS
<1> DEFINE E(c) == [who |-> c, round |-> 0, at |-> "user", on |-> NoWarp, holds |-> {}, shares |-> {},
                    worker |-> FALSE, n |-> 0, early |-> FALSE, switch |-> NoSwitch]
<1>1. execs = {E(c) : c \in Coroutines} /\ jobs = {}
  BY DEF AwaitablesInit
<1>2. \A c \in Coroutines : E(c) \in Execs
  <2>1. NoSwitch \in SwitchType
    BY DEF NoSwitch, SwitchType
  <2> QED
    BY <2>1 DEF Execs, Labels, Looping
<1>3. /\ \A x \in execs : /\ x.holds = {} /\ x.shares = {} /\ x.at = "user" /\ x.round = 0
                          /\ ~x.early /\ x.who \in Coroutines
      /\ \A x, y \in execs : x.who = y.who => x = y
      /\ \A c \in Coroutines : \E x \in execs : x.who = c
  <2>1. \A c \in Coroutines : /\ E(c).holds = {} /\ E(c).shares = {} /\ E(c).at = "user"
                             /\ E(c).round = 0 /\ E(c).early = FALSE /\ E(c).who = c
    OBVIOUS
  <2> HIDE DEF E
  <2> QED
    BY <1>1, <2>1
<1>4. AwaitTypes
  <2>1. jobs \subseteq Jobs /\ execs \subseteq Execs
    BY <1>1, <1>2
  <2> QED
    BY <2>1 DEF AwaitablesInit, AwaitTypes, CoroutineTypes
<1>5. Excluded
  BY <1>3 DEF Excluded
<1> HIDE DEF E
<1>6. ASSUME NEW c \in Coroutines PROVE OnItsWay(c)
  <2>1. PICK x \in execs : x.who = c
    BY <1>3
  <2>2. Main(c) = {x} /\ Func(c) = {}
    BY <1>1, <1>3, <2>1 DEF Main, Func, MainAt, FuncAt
  <2>3. round[c] = 0 /\ flags[c] = {} /\ ~open[c] /\ asked[c].all = {}
    BY DEF AwaitablesInit
  <2>4. Calm(c) /\ HasAsked(x, c)
    BY <2>2, <2>3 DEF Calm, HasAsked
  <2>5. \A y \in execs : y.who = c => ExecInv(y)
    <3>1. ExecInv(x)
      BY <1>3, <2>1, <2>4 DEF ExecInv
    <3> QED
      BY <1>3, <2>1, <3>1
  <2> QED
    BY <1>1, <1>3, <2>2, <2>3, <2>5 DEF OnItsWay, Sole
<1> QED
  BY <1>4, <1>5, <1>6 DEF AwaitInv

LEMMA AwaitInvStutters ==
  ASSUME AwaitInv, UNCHANGED awaitableVars PROVE AwaitInv'
<1>1. /\ jobs' = jobs /\ execs' = execs /\ round' = round /\ flags' = flags
      /\ caller' = caller /\ open' = open /\ asked' = asked
  BY DEF awaitableVars
<1>2. AwaitTypes' /\ Excluded'
  BY <1>1 DEF AwaitInv, AwaitTypes, CoroutineTypes, Excluded
<1>3. ASSUME NEW c \in Coroutines PROVE OnItsWay(c)'
  <2>1. PICK other \in {0, 1} : other # c
    OBVIOUS
  <2>2. Acts(other, {}, {}, {}, {}) /\ SameFor(c)
    BY <1>1 DEF Acts, SameFor
  <2> QED
    BY <2>1, <2>2, OthersStay DEF AwaitInv
<1> QED
  BY <1>2, <1>3 DEF AwaitInv

LEMMA AwaitInvNext == ASSUME AwaitInv, AwaitablesNext PROVE AwaitInv'
<1>1. ASSUME NEW x \in execs, Step(x) PROVE AwaitInv'
  BY <1>1, LeaveCallInv, ReturnCallerInv, AwaitEarlyInv, MarkWaitedInv, LateDispatchInv,
     FuncReturnsInv, CompleteInv, AnswerInv, PostCandidateInv, LookTakenInv, LookEndInv,
     HandlerOneInv, HandlerSharesInv, HandlerPreemptsInv, HandlerSwapsInv DEF Step
<1>2. ASSUME NEW j \in jobs, Start(j) PROVE AwaitInv'
  BY <1>2, StartFuncInv, ResumeCoroutineInv, CandidateWinsInv, CandidateLosesInv,
     StartHandlerInv DEF Start
<1>3. ASSUME NEW x \in execs, StartClosure(x) PROVE AwaitInv'
  <2>1. x.who \in Coroutines
    BY DEF AwaitInv, AwaitTypes, Execs
  <2>2. ASSUME NEW a \in Awaits[x.who], DispatchEarly(x, a) \/ Await(x, a) PROVE AwaitInv'
    <3>1. a \in AwaitCalls
      BY <2>1, <2>2, AwaitablesAssumption
    <3> QED
      BY <2>2, <3>1, AwaitInvStep, DispatchEarlyInv
  <2>3. ASSUME NEW s \in Switches[x.who], SwitchStays(x, s) \/ Switch(x, s) PROVE AwaitInv'
    <3>1. s \in SwitchCalls
      BY <2>1, <2>3, AwaitablesAssumption
    <3> QED
      BY <2>3, <3>1, SwitchStaysInv, SwitchInv
  <2> QED
    BY <1>3, <2>2, <2>3, SelectInv DEF StartClosure
<1> QED
  BY <1>1, <1>2, <1>3 DEF AwaitablesNext

\* What is known of every coroutine, its awaitable, its jobs and its warps.
THEOREM AwaitInvHolds == AwaitablesSpec => []AwaitInv
<1>1. AwaitInv /\ [AwaitablesNext]_awaitableVars => AwaitInv'
  BY AwaitInvNext, AwaitInvStutters
<1> QED
  BY <1>1, AwaitInvInit, PTL DEF AwaitablesSpec

LEMMA OneSoleIsOne == ASSUME NEW S, NEW m, S = {m} PROVE Cardinality(S) = 1
BY FS_Singleton

LEMMA WaysBackParts ==
  ASSUME AwaitInv, NEW c \in Coroutines
  PROVE  /\ Runs(c) \subseteq Main(c)
         /\ Runs(c) = {x \in Main(c) : x \in execs /\ x.at = "user"}
         /\ WaysBack(c) = (Main(c) \ Runs(c))
                            \cup (IF "waited" \in flags[c] THEN Func(c) ELSE {})
                            \cup (IF open[c] THEN {c} ELSE {})
<1>1. \A j \in jobs : j \notin execs
  BY JobIsNoExecution DEF AwaitInv, AwaitTypes
<1>2. Runs(c) = {x \in Main(c) : x \in execs /\ x.at = "user"}
  BY <1>1 DEF Runs, Main, MainAt
<1>3. {j \in jobs : j.who = c /\ j.does \in {"resume", "switch"}}
        \cup {x \in execs : x.who = c /\ x.at \in {"suspend", "answer", "handler"}}
      = Main(c) \ Runs(c)
  BY <1>1 DEF Runs, Main, MainAt, MainDoes
<1>4. {y \in jobs \cup execs :
            /\ y.who = c /\ "waited" \in flags[c]
            /\ y \in jobs => y.does = "func"
            /\ y \in execs => y.at \in {"func", "complete"}}
      = IF "waited" \in flags[c] THEN Func(c) ELSE {}
  BY <1>1 DEF Func, FuncAt
<1>5. {k \in {c} :
            \/ \E j \in jobs : j.who = c /\ j.does = "candidate" /\ StillThere(j)
            \/ \E x \in execs : x.who = c /\ x.at = "post" /\ StillThere(x)}
      = IF open[c] THEN {c} ELSE {}
  <2>1. CASE open[c]
    <3>1. Offered(c)
      BY <2>1 DEF AwaitInv, OnItsWay
    <3> QED
      BY <2>1, <3>1 DEF Offered, StillThere
  <2>2. CASE ~open[c]
    BY <2>2 DEF StillThere
  <2> QED
    BY <2>1, <2>2
<1> QED
  BY <1>2, <1>3, <1>4, <1>5 DEF WaysBack

\* A coroutine runs in one thread, or exactly one thing is under way that will
\* resume it.
THEOREM ComesBackOnce == AwaitablesSpec => []OneWayBack
<1>1. AwaitInv => OneWayBack
  <2> SUFFICES ASSUME AwaitInv, NEW c \in Coroutines
               PROVE  \/ Cardinality(Runs(c)) = 1 /\ WaysBack(c) = {}
                      \/ Runs(c) = {} /\ Cardinality(WaysBack(c)) = 1
                      \/ Runs(c) = {} /\ WaysBack(c) = {} /\ round[c] = MaxAwaits[c]
    BY DEF OneWayBack
  <2>1. /\ Runs(c) = {x \in Main(c) : x \in execs /\ x.at = "user"}
        /\ WaysBack(c) = (Main(c) \ Runs(c))
                            \cup (IF "waited" \in flags[c] THEN Func(c) ELSE {})
                            \cup (IF open[c] THEN {c} ELSE {})
    BY WaysBackParts
  <2>2. OnItsWay(c)
    BY DEF AwaitInv
  <2>3. CASE Main(c) # {}
    <3>1. PICK m \in Main(c) : TRUE
      BY <2>3
    <3>2. Main(c) = {m} /\ ~open[c]
      BY <2>2, <3>1 DEF OnItsWay, Sole
    <3>3. "waited" \in flags[c] => Func(c) = {}
      <4>1. ASSUME NEW f \in Func(c), "waited" \in flags[c] PROVE FALSE
        BY <2>3, <4>1, FuncFacts
      <4> QED
        BY <4>1
    <3>4. CASE Runs(c) = {}
      <4>1. WaysBack(c) = {m}
        BY <2>1, <3>2, <3>3, <3>4
      <4> QED
        BY <3>4, <4>1, OneSoleIsOne
    <3>5. CASE Runs(c) # {}
      <4>1. Runs(c) = {m}
        BY <2>1, <3>2, <3>5
      <4>2. WaysBack(c) = {}
        BY <2>1, <3>2, <3>3, <4>1
      <4> QED
        BY <4>1, <4>2, OneSoleIsOne
    <3> QED
      BY <3>4, <3>5
  <2>4. CASE Main(c) = {} /\ open[c]
    <3>1. WaysBack(c) = {c} /\ Runs(c) = {}
      BY <2>1, <2>2, <2>4 DEF OnItsWay
    <3> QED
      BY <3>1, OneSoleIsOne
  <2>5. CASE Main(c) = {} /\ ~open[c] /\ Func(c) # {}
    <3>1. PICK f \in Func(c) : TRUE
      BY <2>5
    <3>2. WaysBack(c) = {f} /\ Runs(c) = {}
      BY <2>1, <2>2, <2>5, <3>1 DEF OnItsWay, Sole
    <3> QED
      BY <3>2, OneSoleIsOne
  <2>6. CASE Main(c) = {} /\ ~open[c] /\ Func(c) = {}
    BY <2>1, <2>2, <2>6 DEF OnItsWay
  <2> QED
    BY <2>3, <2>4, <2>5, <2>6
<1> QED
  BY <1>1, AwaitInvHolds, PTL

\* A coroutine that comes back has the warps that it asked for, alone where it
\* asked to be alone.
THEOREM ComesBackWithWarps == AwaitablesSpec => []HasWhatItAsked
<1>1. AwaitInv => HasWhatItAsked
  <2> SUFFICES ASSUME AwaitInv, NEW x \in execs, x.at = "user", ~x.early
               PROVE  /\ asked[x.who].all \subseteq x.holds \cup x.shares
                      /\ asked[x.who].all \ asked[x.who].parallel \subseteq x.holds
                      /\ \A y \in execs \ {x} :
                           /\ x.holds \cap y.holds = {}
                           /\ y.at = "user" => x.holds \cap y.shares = {}
    BY DEF HasWhatItAsked
  <2>1. HasAsked(x, x.who)
    BY MainFacts DEF ExecInv, MainAt
  <2>2. \A y \in execs \ {x} : /\ x.holds \cap y.holds = {}
                               /\ y.at = "user" => x.holds \cap y.shares = {}
    BY DEF AwaitInv, Excluded
  <2> QED
    BY <2>1, <2>2 DEF HasAsked
<1> QED
  BY <1>1, AwaitInvHolds, PTL
=============================================================================
