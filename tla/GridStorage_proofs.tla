------------------------- MODULE GridStorage_proofs -------------------------
(***************************************************************************)
(* Proofs about GridStorage, for every number of workers and barriers.      *)
(*                                                                         *)
(* The loop of execute_internal keeps the versions of the slots and         *)
(* next_version without any synchronisation: they are safe because one      *)
(* thread at a time is inside the loop.  That thread owns the warp until it *)
(* leaves, unless a body gives the warp up.                                 *)
(*                                                                         *)
(* If none does, barriers order what they separate.  OrderInv below says why: *)
(* whatever has to run before another item is Apart from it, by a version   *)
(* that the later item cannot pass before the earlier one has run.          *)
(***************************************************************************)
EXTENDS GridStorage, TLAPS

\* Where the loop is, and whose warp it is.  A thread that is about to enter or to
\* look at a slot has the warp; one that runs a body or has just run one may have
\* lost it, if bodies yield.
ControlAt(t) ==
  /\ pc[t] \in {"enter", "look"} => owner = t
  /\ pc[t] \in {"body", "after"} => owner = t \/ Yielding # {}
  /\ owner = t => pc[t] # "idle"
  /\ pc[t] = "body" <=> job[t] # None

Control == \A t \in Workers : ControlAt(t)

\* A task item names a task.
ItemsNamed ==
  \A w \in Workers : \A n \in DOMAIN slots[w] :
    slots[w][n].kind = "task" => slots[w][n].task \in Bodies

IInv == TypeOK /\ Control /\ ItemsNamed

\* What flushes and suspends change.
FlushSteps == (Flush \/ Reset) /\ suspended' \in BOOLEAN /\ held' \in BOOLEAN

LEMMA FlushTypes == ASSUME FlushingTypeOK, FlushSteps PROVE FlushingTypeOK'
<1>1. queueing' \in {"idle", "pending", "executing"}
  BY DEF FlushingTypeOK, FlushSteps, Flush, Reset
<1>2. execs' = execs + 1 \/ execs' = execs
  BY DEF FlushSteps, Flush, Reset
<1>3. execs' \in Nat
  BY <1>2 DEF FlushingTypeOK
<1> QED
  BY <1>1, <1>3 DEF FlushingTypeOK, FlushSteps

\* A push flushes.
LEMMA PushFlushes == ASSUME FlushingTypeOK, Flush PROVE FlushingTypeOK'
<1>1. suspended' = suspended /\ held' = FALSE
  BY DEF Flush
<1>2. FlushSteps
  BY <1>1, Zenon DEF FlushingTypeOK, FlushSteps
<1> QED
  BY <1>2, FlushTypes

\* Who gives the warp up may flush; the suspends stay.
LEMMA ResetFlushes ==
  ASSUME FlushingTypeOK, Reset, UNCHANGED <<suspended, held>> PROVE FlushingTypeOK'
<1>1. suspended' = suspended /\ held' = held
  OBVIOUS
<1>2. FlushSteps
  BY <1>1, Zenon DEF FlushingTypeOK, FlushSteps
<1> QED
  BY <1>2, FlushTypes

(***************************************************************************)
(* Versions and items                                                      *)
(***************************************************************************)
LEMMA PlusVersion == ASSUME NEW v \in Version PROVE Plus(v, 1) \in Version
<1>1. Modulus \in Nat \ {0}
  BY GridAssumption DEF Version
<1> QED
  BY <1>1 DEF Plus, Version

LEMMA WorkerFacts == 1 \in Workers /\ NWorkers \in Workers /\ First \in Version
                     /\ None \notin Workers /\ None \notin Bodies
BY GridAssumption DEF Workers

LEMMA ItemFacts ==
  /\ \A j \in Bodies : Task(j) \in Items /\ Task(j).kind = "task" /\ Task(j).task = j
  /\ \A v \in Version : Barrier(v) \in Items /\ Barrier(v).kind = "barrier"
BY WorkerFacts DEF Task, Barrier, Items

\* A push keeps the slots well formed.
LEMMA PushItems ==
  ASSUME TypeOK, ItemsNamed, NEW t \in Workers, NEW item \in Items,
         item.kind = "task" => item.task \in Bodies, Push(t, item)
  PROVE  slots' \in [Workers -> Seq(Items)] /\ FlushingTypeOK' /\ ItemsNamed'
<1>1. slots' = [slots EXCEPT ![t] = Append(slots[t], item)] /\ slots \in [Workers -> Seq(Items)]
  BY DEF Push, TypeOK
<1>2. Append(slots[t], item) \in Seq(Items)
  BY <1>1
<1>3. \A w \in Workers : slots'[w] = IF w = t THEN Append(slots[t], item) ELSE slots[w]
  BY <1>1
<1>4. ItemsNamed'
  <2> SUFFICES ASSUME NEW w \in Workers, NEW n \in DOMAIN slots'[w], slots'[w][n].kind = "task"
               PROVE  slots'[w][n].task \in Bodies
    BY DEF ItemsNamed
  <2>1. CASE w # t
    BY <1>3, <2>1 DEF ItemsNamed
  <2>2. CASE w = t
    <3>1. slots'[w] = Append(slots[t], item) /\ slots[t] \in Seq(Items)
      BY <1>1, <1>3, <2>2
    <3>2. CASE n = Len(slots[t]) + 1
      BY <3>1, <3>2
    <3>3. CASE n # Len(slots[t]) + 1
      <4>1. n \in DOMAIN slots[t] /\ slots'[w][n] = slots[t][n]
        BY <3>1, <3>3
      <4> QED
        BY <4>1 DEF ItemsNamed
    <3> QED
      BY <3>2, <3>3
  <2> QED
    BY <2>1, <2>2
<1>5. FlushingTypeOK'
  BY PushFlushes DEF Push, TypeOK
<1> QED
  BY <1>1, <1>2, <1>4, <1>5

\* So does taking the first item.
LEMMA PopItems ==
  ASSUME TypeOK, ItemsNamed, NEW w \in Workers, slots[w] # <<>>,
         slots' = [slots EXCEPT ![w] = Tail(@)]
  PROVE  /\ slots' \in [Workers -> Seq(Items)] /\ ItemsNamed'
         /\ Head(slots[w]) \in Items
         /\ Head(slots[w]).kind = "task" => Head(slots[w]).task \in Bodies
<1>1. slots \in [Workers -> Seq(Items)] /\ slots[w] \in Seq(Items)
  BY DEF TypeOK
<1>2. Tail(slots[w]) \in Seq(Items) /\ Head(slots[w]) \in Items
  BY <1>1
<1>3. 1 \in DOMAIN slots[w] /\ Head(slots[w]) = slots[w][1]
  BY <1>1
<1>4. \A u \in Workers : slots'[u] = IF u = w THEN Tail(slots[w]) ELSE slots[u]
  BY <1>1
<1>5. ItemsNamed'
  <2> SUFFICES ASSUME NEW u \in Workers, NEW n \in DOMAIN slots'[u], slots'[u][n].kind = "task"
               PROVE  slots'[u][n].task \in Bodies
    BY DEF ItemsNamed
  <2>1. CASE u # w
    BY <1>4, <2>1 DEF ItemsNamed
  <2>2. CASE u = w
    <3>1. n + 1 \in DOMAIN slots[w] /\ slots'[u][n] = slots[w][n + 1]
      BY <1>1, <1>4, <2>2
    <3> QED
      BY <3>1 DEF ItemsNamed
  <2> QED
    BY <2>1, <2>2
<1> QED
  BY <1>1, <1>2, <1>3, <1>5 DEF ItemsNamed

(***************************************************************************)
(* The invariant                                                           *)
(***************************************************************************)
LEMMA InitInv == Init => IInv
<1> SUFFICES ASSUME Init PROVE IInv
  OBVIOUS
<1>1. slots \in [Workers -> Seq(Items)] /\ ItemsNamed
  BY DEF Init, ItemsNamed
<1>2. calls \in [{"worker", "external", "suspend"} -> Nat]
  BY DEF Init
<1>3. TypeOK
  BY <1>1, <1>2, WorkerFacts DEF Init, TypeOK, FlushingTypeOK
<1>4. Control
  BY WorkerFacts DEF Init, Control, ControlAt
<1> QED
  BY <1>1, <1>3, <1>4 DEF IInv

\* The steps of clients, that put something in a slot or in the pool.
LEMMA ClientStep ==
  ASSUME IInv, NEW t \in Workers,
         \/ \E j \in Bodies : Post(t, j)
         \/ TakeVersion(t) \/ PostBarrier(t) \/ ExternalBarrier
         \/ \E v \in pool : RunExternal(t, v)
  PROVE  IInv'
<1>1. CASE \E j \in Bodies : Post(t, j)
  <2> PICK j \in Bodies : Post(t, j)
    BY <1>1
  <2>1. slots' \in [Workers -> Seq(Items)] /\ FlushingTypeOK' /\ ItemsNamed'
    BY PushItems, ItemFacts DEF Post, IInv
  <2>2. earlier[t] \in SUBSET Bodies
    BY DEF IInv, TypeOK
  <2>3. TypeOK'
    BY <2>1, <2>2 DEF Post, IInv, TypeOK, loop
  <2>4. Control'
    BY DEF Post, IInv, Control, ControlAt
  <2> QED
    BY <2>1, <2>3, <2>4 DEF IInv
<1>2. CASE TakeVersion(t) \/ ExternalBarrier
  <2>1. Plus(barrier, 1) \in Version
    BY PlusVersion DEF IInv, TypeOK
  <2>2. calls' \in [{"worker", "external", "suspend"} -> Nat]
    <3>1. calls.worker + 1 \in Nat /\ calls.external + 1 \in Nat
      BY DEF IInv, TypeOK
    <3> QED
      BY <1>2, <3>1 DEF TakeVersion, ExternalBarrier, IInv, TypeOK
  <2>3. Sent \in SUBSET Bodies
    BY DEF Sent
  <2>4. TypeOK'
    <3>1. CASE TakeVersion(t)
      <4>1. /\ barrier' = Plus(barrier, 1)
            /\ taken' = [taken EXCEPT ![t] = Plus(barrier, 1)]
            /\ earlier' = [earlier EXCEPT ![t] = Sent]
            /\ UNCHANGED <<storage, owner, flushing, pool, pc, loop, job, status, must>>
        BY <3>1 DEF TakeVersion
      <4>2. taken' \in [Workers -> Version \cup {-1}] /\ earlier' \in [Workers -> SUBSET Bodies]
        BY <2>1, <2>3, <4>1 DEF IInv, TypeOK
      <4> QED
        BY <2>1, <2>2, <4>1, <4>2 DEF IInv, TypeOK, FlushingTypeOK, flushing, loop, storage
    <3>2. CASE ExternalBarrier
      BY <2>1, <2>2, <3>2 DEF ExternalBarrier, IInv, TypeOK, FlushingTypeOK, flushing, loop, storage, history
    <3> QED
      BY <1>2, <3>1, <3>2
  <2>5. Control' /\ ItemsNamed'
    BY <1>2 DEF TakeVersion, ExternalBarrier, IInv, Control, ControlAt, ItemsNamed, storage
  <2> QED
    BY <2>4, <2>5 DEF IInv
<1>3. CASE PostBarrier(t)
  <2>1. taken[t] \in Version
    BY <1>3 DEF PostBarrier, IInv, TypeOK
  <2>2. slots' \in [Workers -> Seq(Items)] /\ FlushingTypeOK' /\ ItemsNamed'
    BY <1>3, <2>1, PushItems, ItemFacts DEF PostBarrier, IInv
  <2>3. TypeOK'
    BY <1>3, <2>2 DEF PostBarrier, IInv, TypeOK, loop, history
  <2>4. Control'
    BY <1>3 DEF PostBarrier, IInv, Control, ControlAt
  <2> QED
    BY <2>2, <2>3, <2>4 DEF IInv
<1>4. CASE \E v \in pool : RunExternal(t, v)
  <2> PICK v \in pool : RunExternal(t, v)
    BY <1>4
  <2>1. v \in Version
    BY DEF IInv, TypeOK
  <2>2. slots' \in [Workers -> Seq(Items)] /\ FlushingTypeOK' /\ ItemsNamed'
    <3>1. CASE Push(t, Barrier(v))
      BY <2>1, <3>1, PushItems, ItemFacts DEF IInv
    <3>2. CASE Reset /\ UNCHANGED <<slots, suspended, held>>
      <4>1. FlushingTypeOK'
        BY <3>2, ResetFlushes DEF IInv, TypeOK
      <4> QED
        BY <3>2, <4>1 DEF IInv, TypeOK, ItemsNamed
    <3> QED
      BY <3>1, <3>2 DEF RunExternal
  <2>3. TypeOK'
    BY <2>1, <2>2 DEF RunExternal, IInv, TypeOK, loop, history
  <2>4. Control'
    BY DEF RunExternal, IInv, Control, ControlAt
  <2> QED
    BY <2>2, <2>3, <2>4 DEF IInv
<1> QED
  BY <1>1, <1>2, <1>3, <1>4

\* The steps of the loop.
LEMMA LoopStep ==
  ASSUME IInv, NEW t \in Workers, Execute(t) \/ Yield(t) \/ Suspend \/ Resume
  PROVE  IInv'
<1>0. TypeOK /\ Control /\ ControlAt(t) /\ ItemsNamed
  BY DEF IInv, Control
<1>1. CASE Begin(t)
  <2>1. TypeOK'
    <3>1. FlushingTypeOK'
      <4>1. /\ execs > 0 /\ execs' = execs - 1
            /\ suspended' = suspended /\ queueing' = "executing" /\ held' = FALSE
        BY <1>1 DEF Begin
      <4>2. execs' \in Nat
        BY <1>0, <4>1 DEF TypeOK, FlushingTypeOK
      <4> QED
        BY <1>0, <4>1, <4>2, Zenon DEF TypeOK, FlushingTypeOK
    <3> QED
      BY <1>0, <1>1, <3>1, WorkerFacts DEF Begin, TypeOK, storage, history
  <2>2. Control' /\ ItemsNamed'
    BY <1>0, <1>1, WorkerFacts DEF Begin, TypeOK, Control, ControlAt, ItemsNamed, storage
  <2> QED
    BY <2>1, <2>2 DEF IInv
<1>2. CASE EnterSlot(t)
  <2>1. TypeOK'
    BY <1>0, <1>2 DEF EnterSlot, TypeOK, loop, history, flushing, FlushingTypeOK
  <2>2. Control' /\ ItemsNamed'
    BY <1>0, <1>2 DEF EnterSlot, TypeOK, Control, ControlAt, ItemsNamed
  <2> QED
    BY <2>1, <2>2 DEF IInv
<1>3. CASE RunTask(t)
  <2> DEFINE w == pos[t]
  <2>1. w \in Workers /\ slots[w] # <<>> /\ slots' = [slots EXCEPT ![w] = Tail(@)]
    BY <1>0, <1>3 DEF RunTask, TypeOK
  <2>2. slots' \in [Workers -> Seq(Items)] /\ ItemsNamed' /\ Head(slots[w]).task \in Bodies
    <3> HIDE DEF w
    <3>1. Head(slots[w]).kind = "task"
      BY <1>3 DEF RunTask, w
    <3> QED
      BY <1>0, <2>1, <3>1, PopItems
  <2>3. TypeOK'
    BY <1>0, <1>3, <2>2 DEF RunTask, TypeOK, loop, flushing, FlushingTypeOK
  <2>4. Control'
    BY <1>0, <1>3, <2>2, WorkerFacts DEF RunTask, TypeOK, Control, ControlAt
  <2> QED
    BY <2>2, <2>3, <2>4 DEF IInv
<1>4. CASE RunBarrier(t)
  <2> DEFINE w == pos[t]
  <2>1. w \in Workers /\ slots[w] # <<>> /\ slots' = [slots EXCEPT ![w] = Tail(@)]
    BY <1>0, <1>4 DEF RunBarrier, TypeOK
  <2>2. slots' \in [Workers -> Seq(Items)] /\ ItemsNamed' /\ Head(slots[w]).version \in Version
    <3> HIDE DEF w
    <3>1. slots' \in [Workers -> Seq(Items)] /\ ItemsNamed' /\ Head(slots[w]) \in Items
      BY <1>0, <2>1, PopItems
    <3> QED
      BY <3>1 DEF Items
  <2>3. TypeOK'
    BY <1>0, <1>4, <2>2 DEF RunBarrier, TypeOK, loop, history, flushing, FlushingTypeOK
  <2>4. Control'
    BY <1>0, <1>4 DEF RunBarrier, TypeOK, Control, ControlAt
  <2> QED
    BY <2>2, <2>3, <2>4 DEF IInv
<1>5. CASE Yield(t)
  <2>1. TypeOK' /\ ItemsNamed'
    <3>1. FlushingTypeOK'
      BY <1>0, <1>5, ResetFlushes DEF Yield, TypeOK
    <3> QED
      BY <1>0, <1>5, <3>1 DEF Yield, TypeOK, ItemsNamed, storage, loop, history
  <2>2. Control'
    BY <1>0, <1>5, WorkerFacts DEF Yield, TypeOK, Control, ControlAt
  <2> QED
    BY <2>1, <2>2 DEF IInv
<1>6. CASE EndBody(t)
  <2>1. job[t] \in Bodies
    BY <1>0, <1>6 DEF EndBody, TypeOK, ControlAt
  <2>2. TypeOK' /\ ItemsNamed'
    BY <1>0, <1>6, <2>1 DEF EndBody, TypeOK, ItemsNamed, storage, loop, flushing, FlushingTypeOK
  <2>3. Control'
    BY <1>0, <1>6 DEF EndBody, TypeOK, Control, ControlAt
  <2> QED
    BY <2>2, <2>3 DEF IInv
<1>7. CASE GoOn(t) \/ StopYielded(t) \/ StopSuspended(t)
  <2>1. TypeOK' /\ ItemsNamed'
    <3>1. FlushingTypeOK'
      <4>1. CASE GoOn(t)
        BY <1>0, <4>1 DEF GoOn, TypeOK, FlushingTypeOK, flushing
      <4>2. CASE StopYielded(t)
        BY <1>0, <4>2, PushFlushes DEF StopYielded, TypeOK
      <4>3. CASE StopSuspended(t)
        <5>1. /\ Reset /\ suspended' = suspended
              /\ held' = (queueing # "pending" /\ \E w \in Workers : slots[w] # <<>>)
          BY <4>3 DEF StopSuspended
        <5>2. suspended' \in BOOLEAN /\ held' \in BOOLEAN
          BY <1>0, <5>1, Zenon DEF TypeOK, FlushingTypeOK
        <5> QED
          BY <1>0, <5>1, <5>2, FlushTypes DEF TypeOK, FlushSteps
      <4> QED
        BY <1>7, <4>1, <4>2, <4>3
    <3>2. versions' \in [Workers -> Version] /\ found' \in [Workers -> BOOLEAN]
      <4>1. /\ versions' = [versions EXCEPT ![pos[t]] = next]
            /\ found' = [found EXCEPT ![t] = TRUE]
        BY <1>7 DEF GoOn, StopYielded, StopSuspended, TakeNext
      <4> QED
        BY <1>0, <4>1 DEF TypeOK
    <3>3. /\ owner' \in Workers \cup {None}
          /\ pc' \in [Workers -> {"idle", "enter", "look", "body", "after"}]
      <4>1. owner' = owner \/ owner' = None
        BY <1>7 DEF GoOn, StopYielded, StopSuspended
      <4>2. pc' = [pc EXCEPT ![t] = "look"] \/ pc' = [pc EXCEPT ![t] = "idle"]
        BY <1>7 DEF GoOn, StopYielded, StopSuspended
      <4> QED
        BY <1>0, <4>1, <4>2 DEF TypeOK
    <3>4. UNCHANGED <<slots, current, next, barrier, pool, calls, pos, step, job, taken, history>>
      BY <1>7 DEF GoOn, StopYielded, StopSuspended, TakeNext
    <3> QED
      BY <1>0, <3>1, <3>2, <3>3, <3>4 DEF TypeOK, ItemsNamed, history
  <2>2. Control'
    BY <1>0, <1>7, WorkerFacts
    DEF GoOn, StopYielded, StopSuspended, TakeNext, TypeOK, Control, ControlAt
  <2> QED
    BY <2>1, <2>2 DEF IInv
<1>8. CASE LeaveSlot(t)
  <2> DEFINE w == pos[t]
             reached == IF versions[w] = Plus(current, 1) THEN versions[w] ELSE step[t]
  <2>1. w \in Workers /\ reached \in Version
    BY <1>0 DEF TypeOK
  <2>0. FlushingTypeOK'
    <3>1. /\ Reset \/ UNCHANGED <<queueing, execs>>
          /\ UNCHANGED <<suspended, held>>
      BY <1>8 DEF LeaveSlot
    <3>2. CASE Reset
      BY <1>0, <3>1, <3>2, ResetFlushes DEF TypeOK
    <3>3. CASE UNCHANGED <<queueing, execs>>
      BY <1>0, <3>1, <3>3 DEF TypeOK, FlushingTypeOK
    <3> QED
      BY <3>1, <3>2, <3>3
  <2>2. versions' \in [Workers -> Version]
    <3>1. versions' = [versions EXCEPT ![w] =
              IF versions[w] # Plus(current, 1) /\ AtLeast(current, versions[w])
              THEN current ELSE versions[w]]
      BY <1>0, <1>8 DEF LeaveSlot, TypeOK
    <3> HIDE DEF w
    <3> QED
      BY <1>0, <3>1 DEF TypeOK
  <2>3. CASE w # NWorkers
    <3>1. w + 1 \in Workers
      BY <2>1, <2>3, WorkerFacts, GridAssumption DEF Workers
    <3>2. /\ step' = [step EXCEPT ![t] = reached]
          /\ pos' = [pos EXCEPT ![t] = w + 1]
          /\ pc' = [pc EXCEPT ![t] = "enter"]
          /\ UNCHANGED <<current, found, owner>> /\ pc[t] = "look"
          /\ UNCHANGED <<slots, next, barrier, pool, calls, job, taken, history>>
      BY <1>8, <2>3 DEF LeaveSlot
    <3> HIDE DEF w, reached
    <3>3. TypeOK' /\ ItemsNamed'
      BY <1>0, <2>0, <2>1, <2>2, <3>1, <3>2 DEF TypeOK, ItemsNamed, history
    <3>4. Control'
      BY <1>0, <3>2 DEF TypeOK, Control, ControlAt
    <3> QED
      BY <3>3, <3>4 DEF IInv
  <2>4. CASE w = NWorkers
    <3>1. /\ current' = reached
          /\ step' = [step EXCEPT ![t] = reached]
          /\ pos' = [pos EXCEPT ![t] = 1]
          /\ found' = [found EXCEPT ![t] = FALSE]
          /\ pc' = [pc EXCEPT ![t] = IF found[t] THEN "enter" ELSE "idle"]
          /\ owner' = (IF found[t] THEN owner ELSE None)
          /\ pc[t] = "look"
          /\ UNCHANGED <<slots, next, barrier, pool, calls, job, taken, history>>
      BY <1>8, <2>4 DEF LeaveSlot
    <3> HIDE DEF w, reached
    <3>2. TypeOK' /\ ItemsNamed'
      BY <1>0, <2>0, <2>1, <2>2, <3>1, WorkerFacts DEF TypeOK, ItemsNamed, history
    <3>3. Control'
      BY <1>0, <3>1, WorkerFacts DEF TypeOK, Control, ControlAt
    <3> QED
      BY <3>2, <3>3 DEF IInv
  <2> QED
    BY <2>3, <2>4
<1>9. CASE Discard(t) \/ Suspend \/ Resume
  <2>1. FlushingTypeOK'
    <3>1. CASE Discard(t) \/ Suspend
      <4>1. /\ \/ execs > 0 /\ execs' = execs - 1
               \/ execs' = execs
            /\ suspended' = suspended \/ suspended' = TRUE
            /\ queueing' = queueing /\ held' = held
        BY <3>1 DEF Discard, Suspend
      <4>2. execs' \in Nat
        BY <1>0, <4>1 DEF TypeOK, FlushingTypeOK
      <4> QED
        BY <1>0, <4>1, <4>2, Zenon DEF TypeOK, FlushingTypeOK
    <3>2. CASE Resume
      <4>1. Reset /\ suspended' = FALSE /\ held' = held
        BY <3>2 DEF Resume
      <4>2. FlushSteps
        BY <1>0, <4>1, Zenon DEF TypeOK, FlushingTypeOK, FlushSteps
      <4> QED
        BY <1>0, <4>2, FlushTypes DEF TypeOK
    <3> QED
      BY <1>9, <3>1, <3>2
  <2>2. calls' \in [{"worker", "external", "suspend"} -> Nat]
    <3>1. calls.suspend + 1 \in Nat
      BY <1>0 DEF TypeOK
    <3> QED
      BY <1>0, <1>9, <3>1 DEF Discard, Suspend, Resume, TypeOK
  <2>3. UNCHANGED <<storage, barrier, owner, pool, pc, loop, job, taken, history>>
    BY <1>9 DEF Discard, Suspend, Resume
  <2>4. TypeOK' /\ ItemsNamed'
    BY <1>0, <2>1, <2>2, <2>3 DEF TypeOK, ItemsNamed, storage, loop, history
  <2>5. Control'
    BY <1>0, <2>3 DEF Control, ControlAt
  <2> QED
    BY <2>4, <2>5 DEF IInv
<1> QED
  BY <1>1, <1>2, <1>3, <1>4, <1>5, <1>6, <1>7, <1>8, <1>9 DEF Execute

LEMMA StepInv == ASSUME IInv, [Next]_vars PROVE IInv'
<1>1. CASE UNCHANGED vars
  BY <1>1 DEF vars, flushing, IInv, TypeOK, FlushingTypeOK, Control, ControlAt, ItemsNamed
<1>2. CASE ExternalBarrier \/ Suspend \/ Resume
  BY <1>2, ClientStep, LoopStep, WorkerFacts
<1>3. CASE Next /\ ~(ExternalBarrier \/ Suspend \/ Resume)
  <2> PICK t \in Workers :
        \/ \E j \in Bodies : Post(t, j)
        \/ TakeVersion(t) \/ PostBarrier(t)
        \/ \E v \in pool : RunExternal(t, v)
        \/ Execute(t) \/ Yield(t)
    BY <1>3 DEF Next
  <2>1. CASE Execute(t) \/ Yield(t)
    BY <2>1, LoopStep
  <2>2. CASE ~(Execute(t) \/ Yield(t))
    BY <2>2, ClientStep
  <2> QED
    BY <2>1, <2>2
<1> QED
  BY <1>1, <1>2, <1>3

(***************************************************************************)
(* Theorems                                                                *)
(***************************************************************************)
LEMMA Invariance == Spec => []IInv
BY InitInv, StepInv, PTL DEF Spec

\* The variables of the storage and of the loop keep their types: every version
\* stays a word, and the loop never takes a position that no slot has.
THEOREM TypesCorrect == Spec => []TypeOK
<1>1. IInv => TypeOK
  BY DEF IInv
<1> QED
  BY <1>1, Invariance, PTL

\* Two threads are inside the loop of one warp only after a body has given the
\* warp up: without yields the unsynchronised versions have one writer.
OneLoop ==
  Yielding = {} => \A t, u \in Workers : pc[t] # "idle" /\ pc[u] # "idle" => t = u

\* execute_internal is never entered by a second thread while the first is in it,
\* unless a body yields (owner, which set_warp and the compare-exchange keep).
THEOREM LoopAlone == Spec => []OneLoop
<1>1. IInv => OneLoop
  BY DEF IInv, TypeOK, Control, ControlAt, OneLoop
<1> QED
  BY <1>1, Invariance, PTL

(***************************************************************************)
(* Why barriers keep order                                                 *)
(*                                                                         *)
(* Versions are ordered by their distance from First: it is far from        *)
(* wrapping around when the versions themselves do.                         *)
(***************************************************************************)
\* The distance of a version, and how many versions have been taken.
L(v) == Ahead(v, First)
Drawn == calls.worker + calls.external

InLoop(t) == pc[t] # "idle"

\* The version that slot w waits for: the loop keeps that of the slot it has just run
\* a body of in next_version, and stores it when it goes on or leaves.
E(w) == IF \E t \in Workers : pc[t] = "after" /\ pos[t] = w THEN next ELSE versions[w]

BarrierAt(w, n, v) == n \in DOMAIN slots[w] /\ slots[w][n].kind = "barrier" /\ slots[w][n].version = v
TaskAt(w, n, j) == n \in DOMAIN slots[w] /\ slots[w][n].kind = "task" /\ slots[w][n].task = j

\* The loop has not come to version v yet.
Fresh(v) == L(v) > L(current)

\* No version is ahead of those that were taken.
Levels ==
  /\ calls.worker <= MaxBarriers /\ calls.external <= MaxExternal
  /\ L(barrier) = Drawn /\ L(current) <= Drawn /\ L(next) <= Drawn
  /\ \A w \in Workers : L(versions[w]) <= Drawn
  /\ \A w \in Workers : \A n \in DOMAIN slots[w] :
       slots[w][n].kind = "barrier" => L(slots[w][n].version) <= Drawn
  /\ \A t \in Workers : taken[t] # -1 => L(taken[t]) <= Drawn
  /\ \A v \in pool : L(v) <= Drawn

\* A version that was taken is in one place: behind a barrier in a slot, with the
\* thread that took it, in the pool, or, until the loop comes to it, in the slot that
\* waits for it.
Distinct ==
  /\ \A w, x \in Workers : \A n \in DOMAIN slots[w], m \in DOMAIN slots[x], v \in Version :
       BarrierAt(w, n, v) /\ BarrierAt(x, m, v) => w = x /\ n = m
  /\ \A w, t \in Workers : \A n \in DOMAIN slots[w] : ~BarrierAt(w, n, taken[t])
  /\ \A w \in Workers : \A n \in DOMAIN slots[w] : \A v \in pool : ~BarrierAt(w, n, v)
  /\ \A t, u \in Workers : t # u => taken[t] # taken[u] \/ taken[t] = -1
  /\ \A t \in Workers : taken[t] \notin pool
  /\ \A w \in Workers : Fresh(E(w)) =>
       /\ E(w) \notin pool
       /\ \A t \in Workers : taken[t] # E(w) /\ (t # w => E(t) # E(w))
       /\ \A x \in Workers : \A n \in DOMAIN slots[x] : ~BarrierAt(x, n, E(w))

\* The version a pass works for: that of the loop, or the next one, after the pass has
\* met a slot that waits for it.
StepAt(t) ==
  \/ step[t] = current
  \/ /\ Fresh(step[t]) /\ L(step[t]) = L(current) + 1
     /\ \E w \in Workers : w < pos[t] /\ E(w) = step[t]

LoopInv ==
  /\ \A t \in Workers : pc[t] \in {"look", "body"} => next = versions[pos[t]]
  /\ \A t \in Workers : InLoop(t) => StepAt(t)

\* Slot x can run its items up to m before the loop comes to version g.
Below(x, m, g) ==
  /\ L(E(x)) < L(g) \/ ~Fresh(E(x))
  /\ \A i \in 1..(m - 1) : slots[x][i].kind = "barrier" => L(slots[x][i].version) < L(g)

\* A pass under way comes by slot x, and then by slot t; or slot t waits for g, and the
\* pass that comes to g has not left slot x behind.
Later(x, t) == x < t /\ \A u \in Workers : InLoop(u) => pos[u] <= x
Waits(x, t, g) == /\ Fresh(g) /\ E(t) = g /\ x # t
                  /\ \A u \in Workers : InLoop(u) /\ step[u] = g => x < t \/ pos[u] <= x

\* What is at m of slot x runs before what is at n of slot t, for version g separates
\* them: slot x needs none so late, and slot t has a barrier with g in front of n, or
\* waits for g, or the loop has just come to g and slot x is next.
Apart(x, m, t, n, g) ==
  /\ Below(x, m, g)
  /\ \/ Fresh(g) /\ \E i \in 1..(n - 1) : BarrierAt(t, i, g) /\ (x = t => m < i)
     \/ Waits(x, t, g)
     \/ ~Fresh(g) /\ Later(x, t)

\* The history variables and the slots speak of tasks that were sent.
Sents ==
  /\ \A j \in Bodies : must[j] \subseteq Sent
  /\ \A t \in Workers : earlier[t] \subseteq Sent
  /\ \A w \in Workers : \A n \in DOMAIN slots[w] :
       slots[w][n].kind = "task" => slots[w][n].task \in Sent
  /\ \A j \in Bodies : status[j] = "queued" => \E w \in Workers : \E n \in DOMAIN slots[w] : TaskAt(w, n, j)

\* What thread t sends from now on runs after the tasks that were queued before its
\* last barrier, which it may still have in its hands.
EarlierInv ==
  \A t, x \in Workers : \A k \in earlier[t] : \A m \in DOMAIN slots[x] : TaskAt(x, m, k) =>
    \E g \in Version : \/ Apart(x, m, t, Len(slots[t]) + 1, g)
                       \/ Below(x, m, g) /\ Fresh(g) /\ taken[t] = g

\* A task in a slot runs after the queued tasks it must come after.
MustInv ==
  \A t, x \in Workers : \A n \in DOMAIN slots[t], m \in DOMAIN slots[x] : \A j, k \in Bodies :
    TaskAt(t, n, j) /\ TaskAt(x, m, k) /\ k \in must[j] => \E g \in Version : Apart(x, m, t, n, g)

\* A thread runs one body.
Jobs == \A t \in Workers : job[t] # None => status[job[t]] = "running"

\* The inductive invariant, together with IInv.
OrderInv == Levels /\ Distinct /\ LoopInv /\ Sents /\ Jobs /\ EarlierInv /\ MustInv /\ BarrierOrder

(***************************************************************************)
(* Arithmetic of versions                                                  *)
(***************************************************************************)
LEMMA Wraps ==
  ASSUME NEW m \in Nat \ {0}, NEW d \in 0..(m - 1), NEW x \in Int, x = d \/ x = d + m \/ x = d - m
  PROVE  x % m = d
OBVIOUS

LEMMA ModulusFacts == Modulus \in Nat \ {0} /\ Modulus = 2 * (Modulus \div 2) /\ Modulus \div 2 \in Nat
<1>1. Modulus \in Nat /\ Modulus % 2 = 0 /\ 0 < Modulus
  BY GridAssumption DEF Version
<1> QED
  BY <1>1

LEMMA LevelOf ==
  ASSUME NEW v \in Version
  PROVE  /\ L(v) \in 0..(Modulus - 1)
         /\ L(v) = IF v >= First THEN v - First ELSE v - First + Modulus
<1>1. First \in Version /\ Modulus \in Nat \ {0}
  BY ModulusFacts, GridAssumption
<1>2. CASE v >= First
  <2>1. v - First \in 0..(Modulus - 1)
    BY <1>1, <1>2 DEF Version
  <2>2. (v - First) % Modulus = v - First
    BY <1>1, <2>1, Wraps
  <2> QED
    BY <1>2, <2>1, <2>2 DEF L, Ahead
<1>3. CASE ~(v >= First)
  <2>1. v - First + Modulus \in 0..(Modulus - 1) /\ v - First \in Int
    BY <1>1, <1>3 DEF Version
  <2>2. (v - First) % Modulus = v - First + Modulus
    BY <1>1, <2>1, Wraps
  <2> QED
    BY <1>3, <2>1, <2>2 DEF L, Ahead
<1> QED
  BY <1>2, <1>3

LEMMA LevelOne == ASSUME NEW v \in Version, NEW u \in Version, L(v) = L(u) PROVE v = u
BY LevelOf, GridAssumption DEF Version

LEMMA LevelNext ==
  ASSUME NEW v \in Version, L(v) + 1 < Modulus
  PROVE  Plus(v, 1) \in Version /\ L(Plus(v, 1)) = L(v) + 1
<1>1. Modulus \in Nat \ {0} /\ v \in 0..(Modulus - 1) /\ First \in 0..(Modulus - 1)
  BY ModulusFacts, GridAssumption DEF Version
<1>2. Plus(v, 1) = IF v + 1 < Modulus THEN v + 1 ELSE 0
  <2>1. CASE v + 1 < Modulus
    <3>1. v + 1 \in 0..(Modulus - 1)
      BY <1>1, <2>1
    <3>2. (v + 1) % Modulus = v + 1
      BY <1>1, <3>1, Wraps
    <3> QED
      BY <2>1, <3>2 DEF Plus
  <2>2. CASE ~(v + 1 < Modulus)
    <3>1. v + 1 = 0 + Modulus /\ 0 \in 0..(Modulus - 1)
      BY <1>1, <2>2
    <3>2. (v + 1) % Modulus = 0
      BY <1>1, <3>1, Wraps
    <3> QED
      BY <2>2, <3>2 DEF Plus
  <2> QED
    BY <2>1, <2>2
<1>3. Plus(v, 1) \in Version
  BY <1>1, <1>2 DEF Version
<1>4. L(v) = IF v >= First THEN v - First ELSE v - First + Modulus
  BY LevelOf
<1>5. L(Plus(v, 1)) = IF Plus(v, 1) >= First THEN Plus(v, 1) - First ELSE Plus(v, 1) - First + Modulus
  BY <1>3, LevelOf
<1> QED
  BY <1>1, <1>2, <1>3, <1>4, <1>5

LEMMA LevelOrder ==
  ASSUME NEW a \in Version, NEW b \in Version, NEW n \in Nat, L(a) <= n, L(b) <= n, 2 * n < Modulus
  PROVE  AtLeast(a, b) <=> L(b) <= L(a)
<1>1. /\ Modulus \in Nat \ {0} /\ Modulus = 2 * (Modulus \div 2) /\ Modulus \div 2 \in Nat
      /\ a \in 0..(Modulus - 1) /\ b \in 0..(Modulus - 1) /\ First \in 0..(Modulus - 1)
  BY ModulusFacts, GridAssumption DEF Version
<1>2. /\ L(a) = IF a >= First THEN a - First ELSE a - First + Modulus
      /\ L(b) = IF b >= First THEN b - First ELSE b - First + Modulus
      /\ L(a) \in 0..(Modulus - 1) /\ L(b) \in 0..(Modulus - 1)
  BY LevelOf
<1>3. \/ a - b = L(a) - L(b) \/ a - b = L(a) - L(b) + Modulus \/ a - b = L(a) - L(b) - Modulus
  BY <1>1, <1>2
<1>4. a - b \in Int /\ -Modulus < a - b /\ a - b < Modulus
  BY <1>1
<1>5. CASE L(b) <= L(a)
  <2>1. L(a) - L(b) \in 0..(Modulus - 1) /\ L(a) - L(b) < Modulus \div 2
    BY <1>1, <1>2, <1>5
  <2>2. (a - b) % Modulus = L(a) - L(b)
    <3> DEFINE d == L(a) - L(b)
               x == a - b
    <3>1. d \in 0..(Modulus - 1) /\ x \in Int /\ (x = d \/ x = d + Modulus \/ x = d - Modulus)
      BY <1>3, <1>4, <2>1
    <3> HIDE DEF d, x
    <3>2. x % Modulus = d
      BY <1>1, <3>1, Wraps
    <3> QED
      BY <3>2 DEF d, x
  <2> QED
    BY <1>5, <2>1, <2>2 DEF AtLeast, Ahead
<1>6. CASE L(a) < L(b)
  <2>1. L(a) - L(b) + Modulus \in 0..(Modulus - 1) /\ ~(L(a) - L(b) + Modulus < Modulus \div 2)
    BY <1>1, <1>2, <1>6
  <2>2. (a - b) % Modulus = L(a) - L(b) + Modulus
    <3> DEFINE d == L(a) - L(b) + Modulus
               x == a - b
    <3>1. d \in 0..(Modulus - 1) /\ x \in Int /\ (x = d \/ x = d + Modulus \/ x = d - Modulus)
      BY <1>1, <1>2, <1>3, <1>4, <2>1
    <3> HIDE DEF d, x
    <3>2. x % Modulus = d
      BY <1>1, <3>1, Wraps
    <3> QED
      BY <3>2 DEF d, x
  <2> QED
    BY <1>2, <1>6, <2>1, <2>2 DEF AtLeast, Ahead
<1> QED
  BY <1>2, <1>5, <1>6

(***************************************************************************)
(* The owner and the versions it sees                                      *)
(***************************************************************************)
\* The owner is the one thread in the loop.
LEMMA Alone ==
  ASSUME IInv, Yielding = {}, NEW t \in Workers, InLoop(t)
  PROVE  owner = t /\ \A u \in Workers : InLoop(u) => u = t
BY DEF IInv, TypeOK, Control, ControlAt, InLoop

LEMMA NobodyIn ==
  ASSUME IInv, Yielding = {}, owner = None
  PROVE  /\ \A u \in Workers : ~InLoop(u)
         /\ \A w \in Workers : E(w) = versions[w]
<1>1. \A u \in Workers : ~InLoop(u)
  BY WorkerFacts DEF IInv, TypeOK, Control, ControlAt, InLoop
<1> QED
  BY <1>1 DEF E, InLoop

LEMMA ESeen ==
  ASSUME IInv, Yielding = {}, NEW t \in Workers, InLoop(t)
  PROVE  \A w \in Workers : E(w) = IF pc[t] = "after" /\ pos[t] = w THEN next ELSE versions[w]
<1>1. \A u \in Workers : pc[u] = "after" => u = t
  BY Alone DEF InLoop
<1> QED
  BY <1>1 DEF E

LEMMA EVersion == ASSUME TypeOK, NEW w \in Workers PROVE E(w) \in Version
BY DEF TypeOK, E

LEMMA LevelBounds ==
  ASSUME IInv, Levels
  PROVE  /\ Drawn \in Nat /\ 2 * Drawn < Modulus /\ Modulus \in Nat
         /\ \A v \in Version : L(v) \in Nat
         /\ \A w \in Workers : E(w) \in Version /\ L(E(w)) <= Drawn
         /\ current \in Version /\ L(current) <= Drawn
<1>1. calls.worker \in Nat /\ calls.external \in Nat
  BY DEF IInv, TypeOK
<1>2. Drawn \in Nat /\ 2 * Drawn < Modulus
  BY <1>1, GridAssumption DEF Levels, Drawn
<1>3. \A v \in Version : L(v) \in Nat
  BY LevelOf, ModulusFacts
<1>4. \A w \in Workers : E(w) \in Version /\ L(E(w)) <= Drawn
  BY EVersion DEF IInv, Levels, E
<1> QED
  BY <1>2, <1>3, <1>4, ModulusFacts DEF IInv, TypeOK, Levels

\* A slot is open exactly while its version is not a fresh one.
LEMMA OpenFresh ==
  ASSUME IInv, Levels, NEW w \in Workers
  PROVE  Open(w) <=> ~Fresh(versions[w])
<1>1. versions[w] \in Version /\ L(versions[w]) <= Drawn
  BY DEF IInv, TypeOK, Levels
<1>2. AtLeast(current, versions[w]) <=> L(versions[w]) <= L(current)
  BY <1>1, LevelBounds, LevelOrder
<1> QED
  BY <1>1, <1>2, LevelBounds DEF Open, Fresh

(***************************************************************************)
(* Pairs of items                                                          *)
(***************************************************************************)
\* Nothing that pairs depend on has changed, but that items are added behind and
\* that threads enter and leave the loop.
Calmly ==
  /\ \A w \in Workers : E(w)' = E(w)
  /\ current' = current
  /\ \A u \in Workers : InLoop(u)' => \/ InLoop(u) /\ pos'[u] = pos[u] /\ step'[u] = step[u]
                                      \/ pos'[u] = 1 /\ step'[u] = current
Grows ==
  \A w \in Workers : \A n \in DOMAIN slots[w] : n \in DOMAIN slots'[w] /\ slots'[w][n] = slots[w][n]

LEMMA SlotFacts ==
  ASSUME TypeOK, NEW x \in Workers
  PROVE  /\ x \in Nat /\ 1 <= x /\ x <= NWorkers
         /\ slots[x] \in Seq(Items) /\ Len(slots[x]) \in Nat
         /\ DOMAIN slots[x] = 1..Len(slots[x])
<1>1. x \in Nat /\ 1 <= x /\ x <= NWorkers
  BY GridAssumption DEF Workers
<1>2. slots[x] \in Seq(Items)
  BY DEF TypeOK
<1> QED
  BY <1>1, <1>2

LEMMA ItemVersions ==
  ASSUME TypeOK, NEW x \in Workers, NEW n \in DOMAIN slots[x]
  PROVE  slots[x][n] \in Items /\ slots[x][n].version \in Version
<1>1. slots[x][n] \in Items
  BY SlotFacts
<1> QED
  BY <1>1 DEF Items

LEMMA BelowStays ==
  ASSUME TypeOK, Calmly, Grows, NEW x \in Workers, NEW m \in DOMAIN slots[x], NEW g \in Version,
         Below(x, m, g)
  PROVE  Below(x, m, g)'
<1>1. L(E(x))' < L(g)' \/ ~Fresh(E(x))'
  BY DEF Calmly, Below, Fresh, L
<1>2. \A i \in 1..(m - 1) : i \in DOMAIN slots[x] /\ slots'[x][i] = slots[x][i]
  BY DEF TypeOK, Grows
<1> QED
  BY <1>1, <1>2 DEF Below, L, Ahead

LEMMA ApartStays ==
  ASSUME TypeOK, Calmly, Grows, NEW x \in Workers, NEW m \in DOMAIN slots[x],
         NEW t \in Workers, NEW n \in Nat, NEW g \in Version, Apart(x, m, t, n, g)
  PROVE  Apart(x, m, t, n, g)'
<1>1. Below(x, m, g)'
  BY BelowStays DEF Apart
<1>2. Fresh(g)' <=> Fresh(g)
  BY DEF Calmly, Fresh, L
<1>3. 1 <= x /\ m \in Nat /\ x \in Nat
  BY SlotFacts
<1>4. CASE Fresh(g) /\ \E i \in 1..(n - 1) : BarrierAt(t, i, g) /\ (x = t => m < i)
  <2>1. PICK i \in 1..(n - 1) : BarrierAt(t, i, g) /\ (x = t => m < i)
    BY <1>4
  <2>2. BarrierAt(t, i, g)'
    BY <2>1 DEF BarrierAt, Grows
  <2> QED
    BY <1>1, <1>2, <1>4, <2>1, <2>2 DEF Apart
<1>5. CASE Waits(x, t, g)
  <2>1. \A u \in Workers : InLoop(u)' /\ step'[u] = g => x < t \/ pos'[u] <= x
    BY <1>3, <1>5 DEF Calmly, Waits
  <2>2. Waits(x, t, g)'
    BY <1>2, <1>5, <2>1 DEF Calmly, Waits
  <2> QED
    BY <1>1, <2>2 DEF Apart
<1>6. CASE ~Fresh(g) /\ Later(x, t)
  <2>1. Later(x, t)'
    BY <1>3, <1>6 DEF Calmly, Later
  <2> QED
    BY <1>1, <1>2, <1>6, <2>1 DEF Apart
<1> QED
  BY <1>4, <1>5, <1>6 DEF Apart

\* What thread t sends now runs after what is at m of slot x.
Follows(x, m, t) ==
  \E g \in Version : \/ Apart(x, m, t, Len(slots[t]) + 1, g)
                     \/ Below(x, m, g) /\ Fresh(g) /\ taken[t] = g

\* EarlierInv of one thread.
EarlierAt(t) ==
  \A x \in Workers : \A k \in earlier[t] : \A m \in DOMAIN slots[x] :
    TaskAt(x, m, k) => Follows(x, m, t)

Follow(x, m, t, n) == \E g \in Version : Apart(x, m, t, n, g)

LEMMA EarlierSplit == EarlierInv <=> \A t \in Workers : EarlierAt(t)
BY DEF EarlierInv, EarlierAt, Follows

\* The tasks that the slots held are where they were.
OldTasks ==
  \A x \in Workers : \A m \in DOMAIN slots'[x] : \A k \in Sent :
    TaskAt(x, m, k)' => m \in DOMAIN slots[x] /\ TaskAt(x, m, k)

LEMMA FollowStays ==
  ASSUME TypeOK, Calmly, Grows, NEW x \in Workers, NEW m \in DOMAIN slots[x],
         NEW t \in Workers, NEW n \in DOMAIN slots[t], Follow(x, m, t, n)
  PROVE  Follow(x, m, t, n)'
<1>1. PICK g \in Version : Apart(x, m, t, n, g)
  BY DEF Follow
<1>2. n \in Nat
  BY SlotFacts
<1>3. Apart(x, m, t, n, g)'
  BY <1>1, <1>2, ApartStays
<1> QED
  BY <1>3 DEF Follow, Version

\* Thread t, that takes or posts no barrier now.
LEMMA FollowsStays ==
  ASSUME TypeOK, TypeOK', Calmly, Grows, NEW x \in Workers, NEW m \in DOMAIN slots[x],
         NEW t \in Workers, taken'[t] = taken[t], Follows(x, m, t)
  PROVE  Follows(x, m, t)'
<1>1. PICK g \in Version : \/ Apart(x, m, t, Len(slots[t]) + 1, g)
                           \/ Below(x, m, g) /\ Fresh(g) /\ taken[t] = g
  BY DEF Follows
<1>2. PICK n \in Nat : n = Len(slots[t]) + 1
  BY SlotFacts
<1>3. PICK k \in Nat : k = Len(slots'[t]) + 1
  BY DEF TypeOK
<1>4. n <= k
  <2>1. CASE Len(slots[t]) = 0
    BY <1>2, <1>3, <2>1
  <2>2. CASE Len(slots[t]) > 0
    <3>1. Len(slots[t]) \in DOMAIN slots[t]
      BY <2>2, SlotFacts
    <3>2. Len(slots[t]) \in DOMAIN slots'[t]
      BY <3>1 DEF Grows
    <3> QED
      BY <1>2, <1>3, <3>2, SlotFacts DEF TypeOK
  <2> QED
    BY <2>1, <2>2, SlotFacts
<1>5. CASE Apart(x, m, t, n, g)
  <2>1. Apart(x, m, t, n, g)'
    BY <1>5, ApartStays
  <2>2. Apart(x, m, t, k, g)'
    <3>1. 1..(n - 1) \subseteq 1..(k - 1)
      BY <1>4
    <3> QED
      BY <2>1, <3>1 DEF Apart
  <2> QED
    BY <1>3, <2>2 DEF Follows, Version
<1>6. CASE Below(x, m, g) /\ Fresh(g) /\ taken[t] = g
  <2>1. Below(x, m, g)'
    BY <1>6, BelowStays
  <2>2. Fresh(g)' /\ taken'[t] = g
    BY <1>6 DEF Calmly, Fresh, L
  <2> QED
    BY <2>1, <2>2 DEF Follows, Version
<1> QED
  BY <1>1, <1>2, <1>5, <1>6

(***************************************************************************)
(* Steps that remove nothing from the slots                                *)
(***************************************************************************)
\* Everything that is in a slot stays where it is.
Keeps == IInv /\ IInv' /\ OrderInv /\ Calmly /\ Grows /\ OldTasks

LEMMA KeepsPair ==
  ASSUME Keeps, NEW t \in Workers, NEW x \in Workers, NEW n \in DOMAIN slots'[t],
         NEW m \in DOMAIN slots'[x], NEW j \in Bodies, NEW k \in Bodies,
         TaskAt(t, n, j)', TaskAt(x, m, k)', k \in must[j], j \in Sent
  PROVE  Follow(x, m, t, n)'
<1>1. k \in Sent
  BY DEF Keeps, OrderInv, Sents
<1>2. /\ n \in DOMAIN slots[t] /\ TaskAt(t, n, j)
      /\ m \in DOMAIN slots[x] /\ TaskAt(x, m, k)
  BY <1>1 DEF Keeps, OldTasks
<1>3. Follow(x, m, t, n)
  BY <1>2 DEF Keeps, OrderInv, MustInv, Follow
<1> QED
  BY <1>2, <1>3, FollowStays DEF Keeps, IInv

LEMMA MustSplit ==
  MustInv <=> \A t, x \in Workers : \A n \in DOMAIN slots[t], m \in DOMAIN slots[x] :
                \A j, k \in Bodies :
                  TaskAt(t, n, j) /\ TaskAt(x, m, k) /\ k \in must[j] => Follow(x, m, t, n)
BY DEF MustInv, Follow

LEMMA KeepsMust == ASSUME Keeps, Sents', Sent' = Sent, must' = must PROVE MustInv'
<1> SUFFICES ASSUME NEW t \in Workers, NEW x \in Workers, NEW n \in DOMAIN slots'[t],
                    NEW m \in DOMAIN slots'[x], NEW j \in Bodies, NEW k \in Bodies,
                    TaskAt(t, n, j)', TaskAt(x, m, k)', k \in must'[j]
             PROVE  Follow(x, m, t, n)'
  BY DEF MustInv, Follow
<1>1. j \in Sent
  BY DEF Sents, TaskAt
<1> QED
  BY <1>1, KeepsPair

LEMMA KeepsEarlier ==
  ASSUME Keeps, NEW t \in Workers, earlier'[t] = earlier[t], taken'[t] = taken[t]
  PROVE  EarlierAt(t)'
<1> SUFFICES ASSUME NEW x \in Workers, NEW k \in earlier'[t], NEW m \in DOMAIN slots'[x],
                    TaskAt(x, m, k)'
             PROVE  Follows(x, m, t)'
  BY DEF EarlierAt
<1>1. k \in Sent
  BY DEF Keeps, OrderInv, Sents
<1>2. m \in DOMAIN slots[x] /\ TaskAt(x, m, k)
  BY <1>1 DEF Keeps, OldTasks
<1>3. Follows(x, m, t)
  BY <1>2 DEF Keeps, OrderInv, EarlierInv, Follows
<1> QED
  BY <1>2, <1>3, FollowsStays DEF Keeps, IInv

LEMMA JobsStay ==
  ASSUME IInv, IInv', Jobs, Yielding = {}, [Next]_vars
  PROVE  Jobs'
<1>0. TypeOK /\ TypeOK' /\ Control /\ Control'
  BY DEF IInv
<1>1. \A t, u \in Workers : job[t] # None /\ job[u] # None => t = u
  BY <1>0, Alone DEF Control, ControlAt, InLoop
<1>2. CASE \E t \in Workers : RunTask(t)
  <2> PICK t \in Workers : RunTask(t)
    BY <1>2
  <2>1. PICK j : j = Head(slots[pos[t]]).task
    OBVIOUS
  <2>2. /\ pc[t] = "look" /\ job' = [job EXCEPT ![t] = j] /\ status' = [status EXCEPT ![j] = "running"]
    BY <2>1 DEF RunTask
  <2>3. j \in Bodies \cup {None}
    BY <1>0, <2>2 DEF TypeOK
  <2> QED
    BY <1>0, <2>2, <2>3 DEF Jobs, TypeOK
<1>3. CASE \E t \in Workers : EndBody(t)
  <2> PICK t \in Workers : EndBody(t)
    BY <1>3
  <2>1. pc[t] = "body" /\ job' = [job EXCEPT ![t] = None] /\ job[t] # None
    BY <1>0 DEF EndBody, Control, ControlAt
  <2>2. \A u \in Workers : job'[u] = None
    BY <1>0, <1>1, <2>1 DEF TypeOK
  <2> QED
    BY <2>2 DEF Jobs
<1>4. CASE \E t \in Workers, j \in Bodies : Post(t, j)
  <2> PICK t \in Workers, j \in Bodies : Post(t, j)
    BY <1>4
  <2>1. status[j] = "new" /\ status' = [status EXCEPT ![j] = "queued"] /\ job' = job
    BY DEF Post
  <2> QED
    BY <1>0, <2>1 DEF Jobs, TypeOK
<1>5. CASE UNCHANGED <<job, status>>
  BY <1>5 DEF Jobs
<1>6. ASSUME NEW t \in Workers, ~RunTask(t), ~EndBody(t),
             \/ TakeVersion(t) \/ PostBarrier(t) \/ ExternalBarrier
             \/ \E v \in pool : RunExternal(t, v)
             \/ Execute(t) \/ Yield(t) \/ Suspend \/ Resume
      PROVE  UNCHANGED <<job, status>>
  BY <1>6 DEF TakeVersion, PostBarrier, ExternalBarrier, RunExternal, Execute, StopSuspended,
              Yield, Suspend, Resume, Discard, Begin, EnterSlot, RunBarrier, GoOn, StopYielded, LeaveSlot, TakeNext, history
<1>7. CASE UNCHANGED vars
  BY <1>5, <1>7 DEF vars
<1>8. CASE Next
  BY <1>2, <1>3, <1>4, <1>5, <1>6, <1>8, WorkerFacts DEF Next
<1> QED
  BY <1>7, <1>8

(***************************************************************************)
(* Steps of the loop that take nothing from a slot                         *)
(***************************************************************************)
Still ==
  /\ Calmly /\ slots' = slots /\ barrier' = barrier /\ pool' = pool /\ taken' = taken
  /\ earlier' = earlier /\ must' = must /\ versions' \in [Workers -> Version]
  /\ calls'.worker = calls.worker /\ calls'.external = calls.external
  /\ Sent' = Sent /\ next' \in {next} \cup {versions[w] : w \in Workers}
  /\ \A w \in Workers : versions'[w] = versions[w] \/ versions'[w] = next
  /\ \A j \in Bodies : \/ status'[j] = status[j]
                       \/ status[j] = "running" /\ status'[j] = "done"

LEMMA StillOrder ==
  ASSUME IInv, IInv', OrderInv, Still
  PROVE  Levels' /\ Distinct' /\ Sents' /\ EarlierInv' /\ MustInv' /\ BarrierOrder'
<1>1. Sents'
  <2>1. Sent' = Sent /\ slots' = slots /\ earlier' = earlier /\ must' = must
    BY DEF Still
  <2>2. \A j \in Bodies : status'[j] = "queued" => status[j] = "queued"
    BY DEF Still
  <2> QED
    BY <2>1, <2>2 DEF OrderInv, Sents, TaskAt
<1>2. Keeps
  <2>1. Grows /\ OldTasks
    BY DEF Still, Grows, OldTasks, TaskAt
  <2> QED
    BY <2>1 DEF Still, Keeps
<1>3. MustInv'
  BY <1>1, <1>2, KeepsMust DEF Still
<1>4. EarlierInv'
  <2>1. \A t \in Workers : EarlierAt(t)'
    BY <1>2, KeepsEarlier DEF Still
  <2> QED
    BY <2>1 DEF EarlierInv, EarlierAt, Follows
<1>5. Distinct'
  BY DEF OrderInv, Distinct, Still, Calmly, BarrierAt, Fresh, L
<1>6. Levels'
  <2>1. Drawn' = Drawn /\ current' = current
    BY DEF Still, Drawn, Calmly
  <2>2. L(next)' <= Drawn /\ \A w \in Workers : L(versions[w])' <= Drawn
    BY DEF OrderInv, Levels, Still, L
  <2> QED
    BY <2>1, <2>2 DEF OrderInv, Levels, Still, L
<1>7. BarrierOrder'
  <2>1. \A j \in Bodies : status'[j] \in {"running", "done"} => status[j] \in {"running", "done"}
    BY DEF Still
  <2>2. \A j \in Bodies : status'[j] = "queued" => status[j] = "queued"
    BY DEF Still
  <2>3. must' = must /\ must \in [Bodies -> SUBSET Bodies]
    BY DEF Still, IInv, TypeOK
  <2> QED
    BY <2>1, <2>2, <2>3 DEF OrderInv, BarrierOrder
<1> QED
  BY <1>1, <1>3, <1>4, <1>5, <1>6, <1>7

LEMMA StepStays ==
  ASSUME LoopInv, current' = current, \A w \in Workers : E(w)' = E(w),
         NEW u \in Workers, InLoop(u), pos'[u] = pos[u], step'[u] = step[u]
  PROVE  StepAt(u)'
<1>1. StepAt(u)
  BY DEF LoopInv
<1> QED
  BY <1>1 DEF StepAt, Fresh, L

\* The thread in the loop sees the version that it keeps in next_version.
LEMMA StillSteps ==
  ASSUME IInv, IInv', OrderInv, Yielding = {}, NEW t \in Workers,
         Begin(t) \/ EnterSlot(t) \/ EndBody(t) \/ GoOn(t) \/ StopSuspended(t)
  PROVE  Still /\ LoopInv'
<1>0. TypeOK /\ TypeOK' /\ Control /\ LoopInv
  BY DEF IInv, OrderInv
<1>1. CASE Begin(t)
  <2>1. \A u \in Workers : ~InLoop(u)
    BY <1>1, NobodyIn DEF Begin
  <2>2. /\ UNCHANGED <<storage, barrier, pool, calls, job, taken, history>>
        /\ pc' = [pc EXCEPT ![t] = "enter"] /\ step' = [step EXCEPT ![t] = current]
        /\ pos' = [pos EXCEPT ![t] = 1]
    BY <1>1 DEF Begin
  <2>3. \A u \in Workers : InLoop(u)' => u = t /\ pos'[u] = 1 /\ step'[u] = current /\ pc'[u] = "enter"
    BY <1>0, <2>1, <2>2 DEF InLoop, TypeOK
  <2>4. \A w \in Workers : E(w)' = E(w)
    BY <2>1, <2>2, <2>3 DEF E, storage, InLoop
  <2>5. Still
    BY <1>0, <2>2, <2>3, <2>4 DEF Still, Calmly, storage, history, Sent, TypeOK
  <2>6. LoopInv'
    <3>1. \A u \in Workers : InLoop(u)' => StepAt(u)'
      BY <2>2, <2>3 DEF StepAt, storage
    <3>2. \A u \in Workers : pc'[u] \notin {"look", "body"}
      BY <2>3 DEF InLoop
    <3> QED
      BY <3>1, <3>2 DEF LoopInv
  <2> QED
    BY <2>5, <2>6
<1>2. CASE EnterSlot(t)
  <2>1. /\ pc' = [pc EXCEPT ![t] = "look"] /\ next' = versions[pos[t]] /\ pc[t] = "enter"
        /\ UNCHANGED <<slots, versions, current, barrier, owner, flushing, pool, calls,
                 loop, job, taken, history>>
    BY <1>2 DEF EnterSlot
  <2>2. \A u \in Workers : InLoop(u) => u = t
    BY <2>1, Alone DEF InLoop
  <2>3. \A u \in Workers : (InLoop(u)' <=> InLoop(u)) /\ pc[u] # "after" /\ pc'[u] # "after"
    BY <1>0, <2>1, <2>2 DEF InLoop, TypeOK
  <2>4. \A w \in Workers : E(w)' = E(w)
    BY <2>1, <2>3 DEF E
  <2>5. Still
    BY <1>0, <2>1, <2>3, <2>4 DEF Still, Calmly, history, loop, Sent, TypeOK
  <2>6. LoopInv'
    <3>1. pos' = pos /\ step' = step /\ current' = current /\ versions' = versions
      BY <2>1 DEF loop
    <3>2. \A u \in Workers : pc'[u] \in {"look", "body"} => next' = versions'[pos'[u]]
      BY <2>1, <2>2, <2>3, <3>1 DEF InLoop
    <3> QED
      BY <1>0, <2>3, <2>4, <3>1, <3>2, StepStays DEF LoopInv
  <2> QED
    BY <2>5, <2>6
<1>3. CASE EndBody(t)
  <2>1. /\ pc' = [pc EXCEPT ![t] = "after"] /\ pc[t] = "body"
        /\ status' = [status EXCEPT ![job[t]] = "done"]
        /\ UNCHANGED <<storage, barrier, owner, flushing, pool, calls, loop, taken,
                       earlier, must>>
    BY <1>3 DEF EndBody
  <2>2. \A u \in Workers : InLoop(u) => u = t
    BY <2>1, Alone DEF InLoop
  <2>3. \A u \in Workers : (InLoop(u)' <=> InLoop(u)) /\ pc[u] # "after" /\ (pc'[u] = "after" => u = t)
                           /\ pc'[u] \notin {"look", "body"}
    BY <1>0, <2>1, <2>2 DEF InLoop, TypeOK
  <2>4. next = versions[pos[t]] /\ pos' = pos /\ next' = next /\ versions' = versions
    BY <1>0, <2>1 DEF LoopInv, loop, storage
  <2>5. \A w \in Workers : E(w)' = E(w)
    BY <2>3, <2>4 DEF E
  <2>6. status[job[t]] = "running" /\ \A j \in Bodies : j # job[t] => status'[j] = status[j]
    <3>1. job[t] # None /\ job[t] \in Bodies
      BY <1>0, <2>1 DEF Control, ControlAt, TypeOK
    <3> QED
      BY <1>0, <2>1, <3>1 DEF OrderInv, Jobs, TypeOK
  <2>7. Still
    BY <1>0, <2>1, <2>3, <2>5, <2>6 DEF Still, Calmly, storage, loop, Sent, TypeOK
  <2>8. LoopInv'
    <3>1. pos' = pos /\ step' = step /\ current' = current
      BY <2>1 DEF loop, storage
    <3> QED
      BY <1>0, <2>3, <2>5, <3>1, StepStays DEF LoopInv
  <2> QED
    BY <2>7, <2>8
<1>4. CASE GoOn(t) \/ StopSuspended(t)
  <2>1. /\ pc[t] = "after" /\ versions' = [versions EXCEPT ![pos[t]] = next]
        /\ UNCHANGED <<slots, current, next, barrier, pool, calls, pos, step, job, taken, history>>
        /\ pc' = [pc EXCEPT ![t] = "look"] \/ pc' = [pc EXCEPT ![t] = "idle"]
    BY <1>4 DEF GoOn, StopSuspended, TakeNext
  <2>2. \A u \in Workers : InLoop(u) => u = t
    BY <2>1, Alone DEF InLoop
  <2>3. \A u \in Workers : /\ InLoop(u)' => InLoop(u)
                           /\ pc'[u] # "after" /\ (pc[u] = "after" => u = t)
                           /\ (pc'[u] \in {"look", "body"} => u = t)
    BY <1>0, <2>1, <2>2 DEF InLoop, TypeOK
  <2>4. /\ pos[t] \in Workers /\ next \in Version
        /\ \A w \in Workers : versions'[w] = IF w = pos[t] THEN next ELSE versions[w]
    BY <1>0, <2>1 DEF TypeOK
  <2>5. \A w \in Workers : E(w)' = E(w)
    BY <2>1, <2>3, <2>4 DEF E
  <2>6. Still
    BY <1>0, <2>1, <2>3, <2>4, <2>5 DEF Still, Calmly, history, Sent, TypeOK
  <2>7. LoopInv'
    <3>1. \A u \in Workers : pc'[u] \in {"look", "body"} => next' = versions'[pos'[u]]
      BY <2>1, <2>3, <2>4
    <3>2. pos' = pos /\ step' = step /\ current' = current
      BY <2>1
    <3> QED
      BY <1>0, <2>3, <2>5, <3>1, <3>2, StepStays DEF LoopInv
  <2> QED
    BY <2>6, <2>7
<1> QED
  BY <1>1, <1>2, <1>3, <1>4

(***************************************************************************)
(* Steps of clients                                                        *)
(***************************************************************************)
LEMMA ClientCalm ==
  ASSUME IInv, LoopInv, Yielding = {}, UNCHANGED <<versions, current, pc, loop>>,
         next' = next \/ owner = None
  PROVE  Calmly /\ LoopInv'
<1>1. \A u \in Workers : (InLoop(u)' <=> InLoop(u)) /\ pos'[u] = pos[u] /\ step'[u] = step[u]
  BY DEF loop, InLoop
<1>2. \A w \in Workers : E(w)' = E(w)
  BY NobodyIn DEF E, loop, InLoop
<1>3. Calmly
  BY <1>1, <1>2 DEF Calmly
<1>4. \A u \in Workers : pc'[u] \in {"look", "body"} => next' = versions'[pos'[u]]
  BY NobodyIn DEF LoopInv, InLoop, loop
<1>5. \A u \in Workers : InLoop(u)' => StepAt(u)'
  BY <1>1, <1>2, StepStays
<1> QED
  BY <1>3, <1>4, <1>5 DEF LoopInv

LEMMA PushGrows ==
  ASSUME TypeOK, NEW t \in Workers, NEW item \in Items, Push(t, item)
  PROVE  /\ Grows
         /\ Len(slots'[t]) = Len(slots[t]) + 1 /\ Len(slots[t]) + 1 \in DOMAIN slots'[t]
         /\ slots'[t][Len(slots[t]) + 1] = item
         /\ \A x \in Workers : \A m \in DOMAIN slots'[x] :
              \/ m \in DOMAIN slots[x] /\ slots'[x][m] = slots[x][m]
              \/ x = t /\ m = Len(slots[t]) + 1
<1>1. slots[t] \in Seq(Items) /\ slots \in [Workers -> Seq(Items)]
  BY DEF TypeOK
<1>2. \A x \in Workers : slots'[x] = IF x = t THEN Append(slots[t], item) ELSE slots[x]
  BY <1>1 DEF Push
<1>3. /\ Len(Append(slots[t], item)) = Len(slots[t]) + 1
      /\ DOMAIN Append(slots[t], item) = 1..(Len(slots[t]) + 1)
      /\ DOMAIN slots[t] = 1..Len(slots[t]) /\ Len(slots[t]) \in Nat
      /\ Append(slots[t], item)[Len(slots[t]) + 1] = item
      /\ \A m \in 1..Len(slots[t]) : Append(slots[t], item)[m] = slots[t][m]
  BY <1>1
<1>4. slots'[t] = Append(slots[t], item) /\ \A x \in Workers : x # t => slots'[x] = slots[x]
  BY <1>2
<1>5. Grows
  BY <1>3, <1>4 DEF Grows
<1>6. \A m \in DOMAIN slots'[t] : \/ m \in DOMAIN slots[t] /\ slots'[t][m] = slots[t][m]
                                \/ m = Len(slots[t]) + 1
  BY <1>3, <1>4
<1>7. \A x \in Workers : \A m \in DOMAIN slots'[x] :
              \/ m \in DOMAIN slots[x] /\ slots'[x][m] = slots[x][m]
              \/ x = t /\ m = Len(slots[t]) + 1
  BY <1>4, <1>6
<1>8. Len(slots[t]) + 1 \in DOMAIN slots'[t]
  BY <1>3, <1>4
<1> QED
  BY <1>3, <1>4, <1>5, <1>7, <1>8

LEMMA PostOrder ==
  ASSUME IInv, IInv', OrderInv, Yielding = {}, NEW t \in Workers, NEW j \in Bodies, Post(t, j)
  PROVE  Levels' /\ Distinct' /\ LoopInv' /\ Sents' /\ EarlierInv' /\ MustInv' /\ BarrierOrder'
<1>0. TypeOK /\ TypeOK' /\ Sents /\ LoopInv
  BY DEF IInv, OrderInv
<1>1. /\ taken[t] = -1 /\ status[j] = "new" /\ Push(t, Task(j))
      /\ status' = [status EXCEPT ![j] = "queued"] /\ must' = [must EXCEPT ![j] = earlier[t]]
      /\ UNCHANGED <<versions, current, next, barrier, owner, pool, calls, pc, loop,
                 job, taken, earlier>>
  BY DEF Post, InClient
<1>2. Calmly /\ LoopInv'
  BY <1>0, <1>1, ClientCalm
<1>3. PICK n0 \in Nat : n0 = Len(slots[t]) + 1
  BY SlotFacts, <1>0
<1>4. /\ Grows /\ n0 \in DOMAIN slots'[t] /\ slots'[t][n0] = Task(j)
      /\ \A x \in Workers : \A m \in DOMAIN slots'[x] :
           \/ m \in DOMAIN slots[x] /\ slots'[x][m] = slots[x][m]
           \/ x = t /\ m = n0
  BY <1>0, <1>1, <1>3, PushGrows, ItemFacts
<1>5. Sent' = Sent \cup {j} /\ j \notin Sent
  BY <1>0, <1>1 DEF Sent, TypeOK
<1>6. /\ \A i \in Bodies : i # j => must'[i] = must[i] /\ status'[i] = status[i]
      /\ must'[j] = earlier[t] /\ status'[j] = "queued"
  BY <1>0, <1>1 DEF TypeOK
<1>7. Task(j).kind = "task" /\ Task(j).task = j
  BY ItemFacts
<1>8. Keeps
  <2>1. OldTasks
    BY <1>4, <1>5, <1>7 DEF OldTasks, TaskAt
  <2> QED
    BY <1>2, <1>4, <2>1 DEF Keeps
<1>9. Sents'
  <2>1. \A i \in Bodies : must'[i] \subseteq Sent'
    BY <1>0, <1>5, <1>6 DEF Sents
  <2>2. \A u \in Workers : earlier'[u] \subseteq Sent'
    BY <1>0, <1>1, <1>5 DEF Sents
  <2>3. \A w \in Workers : \A n \in DOMAIN slots'[w] :
          slots'[w][n].kind = "task" => slots'[w][n].task \in Sent'
    BY <1>0, <1>4, <1>5, <1>7 DEF Sents
  <2>4. ASSUME NEW i \in Bodies, status'[i] = "queued"
        PROVE  \E w \in Workers : \E n \in DOMAIN slots'[w] : TaskAt(w, n, i)'
    <3>1. CASE i = j
      BY <1>4, <1>7, <3>1 DEF TaskAt
    <3>2. CASE i # j
      <4>1. PICK w \in Workers : \E n \in DOMAIN slots[w] : TaskAt(w, n, i)
        BY <1>0, <1>6, <2>4, <3>2 DEF Sents
      <4>2. PICK n \in DOMAIN slots[w] : TaskAt(w, n, i)
        BY <4>1
      <4>3. n \in DOMAIN slots'[w] /\ slots'[w][n] = slots[w][n]
        BY <1>4 DEF Grows
      <4> QED
        BY <4>2, <4>3 DEF TaskAt
    <3> QED
      BY <3>1, <3>2
  <2> QED
    BY <2>1, <2>2, <2>3, <2>4 DEF Sents
<1>10. EarlierInv'
  <2>1. \A u \in Workers : EarlierAt(u)'
    BY <1>1, <1>8, KeepsEarlier
  <2> QED
    BY <2>1 DEF EarlierInv, EarlierAt, Follows
<1>11. MustInv'
  <2> SUFFICES ASSUME NEW u \in Workers, NEW x \in Workers, NEW n \in DOMAIN slots'[u],
                      NEW m \in DOMAIN slots'[x], NEW i \in Bodies, NEW k \in Bodies,
                      TaskAt(u, n, i)', TaskAt(x, m, k)', k \in must'[i]
               PROVE  Follow(x, m, u, n)'
    BY DEF MustInv, Follow
  <2>1. CASE i # j
    <3>1. i \in Sent
      BY <1>5, <1>9, <2>1 DEF Sents, TaskAt
    <3> QED
      BY <1>6, <1>8, <2>1, <3>1, KeepsPair
  <2>2. CASE i = j
    <3>1. k \in earlier[t] /\ k \in Sent
      BY <1>0, <1>6, <2>2 DEF Sents
    <3>2. u = t /\ n = n0
      BY <1>0, <1>4, <1>5, <2>2 DEF Sents, TaskAt
    <3>3. m \in DOMAIN slots[x] /\ TaskAt(x, m, k)
      BY <1>8, <3>1 DEF Keeps, OldTasks
    <3>4. Follows(x, m, t)
      BY <3>1, <3>3 DEF OrderInv, EarlierInv, Follows
    <3>5. PICK g \in Version : Apart(x, m, t, n0, g)
      BY <1>1, <1>3, <3>4, GridAssumption DEF Follows, Version
    <3>6. Apart(x, m, t, n0, g)'
      BY <1>0, <1>2, <1>4, <3>3, <3>5, ApartStays
    <3> QED
      BY <3>2, <3>6 DEF Follow, Version
  <2> QED
    BY <2>1, <2>2
<1>12. Levels' /\ Distinct'
  <2>1. \A w \in Workers : \A n, v : BarrierAt(w, n, v)' => n \in DOMAIN slots[w] /\ BarrierAt(w, n, v)
    BY <1>4, <1>7 DEF BarrierAt
  <2>2. Distinct'
    BY <1>1, <1>2, <2>1 DEF OrderInv, Distinct, Calmly, Fresh, L
  <2>3. Drawn' = Drawn
    BY <1>1 DEF Drawn
  <2>4. \A w \in Workers : \A n \in DOMAIN slots'[w] :
       slots'[w][n].kind = "barrier" => L(slots'[w][n].version) <= Drawn
    BY <1>4, <1>7 DEF OrderInv, Levels
  <2>5. Levels'
    BY <1>1, <2>3, <2>4 DEF OrderInv, Levels, L, Ahead
  <2> QED
    BY <2>2, <2>5
<1>13. BarrierOrder'
  <2> SUFFICES ASSUME NEW i \in Bodies, status'[i] \in {"running", "done"}, NEW k \in must'[i]
               PROVE  status'[k] # "queued"
    BY DEF BarrierOrder
  <2>1. i # j
    BY <1>6
  <2>2. k \in must[i] /\ k \in Sent /\ k # j /\ k \in Bodies
    BY <1>0, <1>5, <1>6, <2>1 DEF Sents, Sent
  <2> QED
    BY <1>6, <2>1, <2>2 DEF OrderInv, BarrierOrder
<1> QED
  BY <1>2, <1>9, <1>10, <1>11, <1>12, <1>13

\* The next version is ahead of all that have been taken.
LEMMA DrawNext ==
  ASSUME IInv, Levels, Drawn + 1 <= MaxBarriers + MaxExternal
  PROVE  Plus(barrier, 1) \in Version /\ L(Plus(barrier, 1)) = Drawn + 1
<1>1. Drawn \in Nat /\ barrier \in Version /\ L(barrier) = Drawn
  BY LevelBounds DEF Levels, IInv, TypeOK
<1>2. Drawn + 1 < Modulus
  BY <1>1, GridAssumption
<1> QED
  BY <1>1, <1>2, LevelNext

\* A step that posts no task, and loses none.
NoTasks ==
  /\ Grows /\ status' = status /\ must' = must
  /\ \A x \in Workers : \A m \in DOMAIN slots'[x] :
       slots'[x][m].kind = "task" => m \in DOMAIN slots[x] /\ slots'[x][m] = slots[x][m]

LEMMA NoTasksOrder ==
  ASSUME IInv, IInv', OrderInv, Calmly, NoTasks, \A t \in Workers : earlier'[t] \subseteq Sent
  PROVE  Keeps /\ Sents' /\ MustInv' /\ BarrierOrder'
<1>1. Sent' = Sent
  BY DEF Sent, NoTasks
<1>2. Sents'
  <2>1. \A i \in Bodies : must'[i] \subseteq Sent'
    BY <1>1 DEF NoTasks, OrderInv, Sents
  <2>2. \A u \in Workers : earlier'[u] \subseteq Sent'
    BY <1>1
  <2>3. \A w \in Workers : \A n \in DOMAIN slots'[w] :
          slots'[w][n].kind = "task" => slots'[w][n].task \in Sent'
    BY <1>1 DEF NoTasks, OrderInv, Sents
  <2>4. ASSUME NEW i \in Bodies, status'[i] = "queued"
        PROVE  \E w \in Workers : \E n \in DOMAIN slots'[w] : TaskAt(w, n, i)'
    <3>1. PICK w \in Workers : \E n \in DOMAIN slots[w] : TaskAt(w, n, i)
      BY <2>4 DEF NoTasks, OrderInv, Sents
    <3>2. PICK n \in DOMAIN slots[w] : TaskAt(w, n, i)
      BY <3>1
    <3>3. n \in DOMAIN slots'[w] /\ slots'[w][n] = slots[w][n]
      BY DEF NoTasks, Grows
    <3> QED
      BY <3>2, <3>3 DEF TaskAt
  <2> QED
    BY <2>1, <2>2, <2>3, <2>4 DEF Sents
<1>3. Keeps
  BY DEF Keeps, OldTasks, NoTasks, TaskAt
<1>4. MustInv'
  BY <1>1, <1>2, <1>3, KeepsMust DEF NoTasks
<1>5. BarrierOrder'
  BY DEF NoTasks, OrderInv, BarrierOrder
<1> QED
  BY <1>2, <1>3, <1>4, <1>5

LEMMA TakeVersionOrder ==
  ASSUME IInv, IInv', OrderInv, Yielding = {}, NEW t \in Workers, TakeVersion(t)
  PROVE  Levels' /\ Distinct' /\ LoopInv' /\ Sents' /\ EarlierInv' /\ MustInv' /\ BarrierOrder'
<1>0. TypeOK /\ TypeOK' /\ Levels /\ LoopInv /\ calls.worker \in Nat /\ calls.external \in Nat
  BY DEF IInv, OrderInv, TypeOK
<1>1. PICK g0 : g0 = Plus(barrier, 1)
  OBVIOUS
<1>2. /\ calls.worker < MaxBarriers /\ barrier' = g0
      /\ taken' = [taken EXCEPT ![t] = g0] /\ earlier' = [earlier EXCEPT ![t] = Sent]
      /\ UNCHANGED <<storage, owner, flushing, pool, pc, loop, job, status, must>>
  BY <1>1 DEF TakeVersion
<1>3. calls'.worker = calls.worker + 1 /\ calls'.external = calls.external
  BY <1>0 DEF TakeVersion, TypeOK
<1>4. g0 \in Version /\ L(g0) = Drawn + 1 /\ Drawn \in Nat /\ Drawn' = Drawn + 1
  <2>1. Drawn \in Nat /\ Drawn + 1 <= MaxBarriers + MaxExternal
    BY <1>0, <1>2, GridAssumption DEF Levels, Drawn
  <2>2. Drawn' = Drawn + 1
    BY <1>0, <1>3 DEF Drawn
  <2> QED
    BY <1>0, <1>1, <2>1, <2>2, DrawNext
<1>5. Calmly /\ LoopInv'
  BY <1>0, <1>2, ClientCalm DEF storage
<1>6. /\ \A u \in Workers : u # t => earlier'[u] = earlier[u] /\ taken'[u] = taken[u]
      /\ earlier'[t] = Sent /\ taken'[t] = g0
  BY <1>0, <1>2 DEF TypeOK
<1>7. Keeps /\ Sents' /\ MustInv' /\ BarrierOrder'
  <2>1. NoTasks
    BY <1>2 DEF NoTasks, Grows, storage
  <2>2. \A u \in Workers : earlier'[u] \subseteq Sent
    BY <1>6 DEF OrderInv, Sents
  <2> QED
    BY <1>5, <2>1, <2>2, NoTasksOrder
\* Every version and every barrier is below the one that is taken.
<1>8. /\ \A v \in Version : L(v) \in Nat
      /\ L(current) < L(g0) /\ \A w \in Workers : E(w) \in Version /\ L(E(w)) < L(g0)
      /\ \A w \in Workers : \A n \in DOMAIN slots[w] :
           slots[w][n].kind = "barrier" =>
             slots[w][n].version \in Version /\ L(slots[w][n].version) < L(g0)
  <2>1. \A v \in Version : L(v) \in Nat
    BY <1>0, LevelBounds
  <2>2. L(current) < L(g0) /\ \A w \in Workers : E(w) \in Version /\ L(E(w)) < L(g0)
    BY <1>0, <1>4, <2>1, LevelBounds
  <2>3. \A w \in Workers : \A n \in DOMAIN slots[w] : slots[w][n].version \in Version
    BY <1>0, ItemVersions
  <2>4. \A w \in Workers : \A n \in DOMAIN slots[w] :
           slots[w][n].kind = "barrier" => L(slots[w][n].version) < L(g0)
    BY <1>0, <1>4, <2>1, <2>3 DEF Levels
  <2> QED
    BY <2>1, <2>2, <2>3, <2>4
<1>9. EarlierInv'
  <2>1. \A u \in Workers : u # t => EarlierAt(u)'
    BY <1>6, <1>7, KeepsEarlier
  <2>2. EarlierAt(t)'
    <3> SUFFICES ASSUME NEW x \in Workers, NEW m \in DOMAIN slots'[x]
                 PROVE  Follows(x, m, t)'
      BY DEF EarlierAt
    <3>1. m \in DOMAIN slots[x] /\ slots' = slots
      BY <1>2 DEF storage
    <3>2. Below(x, m, g0)
      BY <1>0, <1>8, <3>1, SlotFacts DEF Below
    <3>3. Below(x, m, g0)'
      BY <1>0, <1>4, <1>5, <1>7, <3>1, <3>2, BelowStays DEF Keeps
    <3>4. Fresh(g0)'
      BY <1>2, <1>8 DEF Fresh, L, storage
    <3> QED
      BY <1>4, <1>6, <3>3, <3>4 DEF Follows, Version
  <2> QED
    BY <2>1, <2>2 DEF EarlierInv, EarlierAt, Follows
<1>10. Distinct'
  <2>1. Distinct /\ slots' = slots /\ pool' = pool /\ current' = current
    BY <1>2 DEF OrderInv, storage
  <2>2. \A w \in Workers : \A n \in DOMAIN slots[w] : ~BarrierAt(w, n, g0)
    BY <1>8 DEF BarrierAt
  <2>3. g0 \notin pool /\ \A u \in Workers : taken[u] # g0
    BY <1>0, <1>4, GridAssumption DEF Levels, Version
  <2>4. \A w \in Workers : E(w) # g0
    BY <1>8
  <2>5. /\ \A w, x \in Workers : \A n \in DOMAIN slots[w], m \in DOMAIN slots[x], v \in Version :
             BarrierAt(w, n, v) /\ BarrierAt(x, m, v) => w = x /\ n = m
        /\ \A w, u \in Workers : \A n \in DOMAIN slots[w] : ~BarrierAt(w, n, taken'[u])
        /\ \A w \in Workers : \A n \in DOMAIN slots[w] : \A v \in pool : ~BarrierAt(w, n, v)
        /\ \A r, u \in Workers : r # u => taken'[r] # taken'[u] \/ taken'[r] = -1
        /\ \A r \in Workers : taken'[r] \notin pool
    BY <1>6, <2>1, <2>2, <2>3 DEF Distinct
  <2>6. \A w \in Workers : Fresh(E(w)) =>
       /\ E(w) \notin pool
       /\ \A r \in Workers : taken'[r] # E(w) /\ (r # w => E(r) # E(w))
       /\ \A x \in Workers : \A n \in DOMAIN slots[x] : ~BarrierAt(x, n, E(w))
    BY <1>6, <2>1, <2>4 DEF Distinct
  <2>7. \A w \in Workers : E(w)' = E(w) /\ (Fresh(E(w))' <=> Fresh(E(w)))
    BY <1>5 DEF Calmly, Fresh, L
  <2> QED
    BY <2>1, <2>5, <2>6, <2>7 DEF Distinct, BarrierAt
<1>11. Levels'
  <2>1. /\ calls'.worker <= MaxBarriers /\ calls'.external <= MaxExternal
        /\ L(barrier)' = Drawn'
    BY <1>0, <1>2, <1>3, <1>4, GridAssumption DEF Levels, L
  <2>2. L(current)' <= Drawn' /\ L(next)' <= Drawn'
        /\ \A w \in Workers : L(versions[w])' <= Drawn'
    <3>1. L(current) \in Nat /\ L(next) \in Nat /\ \A w \in Workers : L(versions[w]) \in Nat
      BY <1>0, LevelBounds DEF TypeOK
    <3> QED
      BY <1>0, <1>2, <1>4, <3>1 DEF Levels, L, storage
  <2>3. \A w \in Workers : \A n \in DOMAIN slots'[w] :
           slots'[w][n].kind = "barrier" => L(slots'[w][n].version) <= Drawn'
    BY <1>2, <1>4, <1>8 DEF storage
  <2>4. \A u \in Workers : taken'[u] # -1 => L(taken'[u]) <= Drawn'
    <3> SUFFICES ASSUME NEW u \in Workers, taken'[u] # -1 PROVE L(taken'[u]) <= Drawn'
      OBVIOUS
    <3>1. CASE u = t
      BY <1>4, <1>6, <3>1
    <3>2. CASE u # t
      <4>1. taken[u] \in Version /\ taken'[u] = taken[u]
        BY <1>0, <1>6, <3>2 DEF TypeOK
      <4>2. L(taken[u]) <= Drawn /\ L(taken[u]) \in Nat
        BY <1>0, <1>6, <1>8, <3>2, <4>1 DEF Levels
      <4> QED
        BY <1>4, <4>1, <4>2
    <3> QED
      BY <3>1, <3>2
  <2>5. \A v \in pool' : L(v) <= Drawn'
    BY <1>0, <1>2, <1>4, <1>8 DEF Levels, TypeOK
  <2> QED
    BY <2>1, <2>2, <2>3, <2>4, <2>5 DEF Levels, L
<1> QED
  BY <1>5, <1>7, <1>9, <1>10, <1>11

LEMMA PostBarrierOrder ==
  ASSUME IInv, IInv', OrderInv, Yielding = {}, NEW t \in Workers, PostBarrier(t)
  PROVE  Levels' /\ Distinct' /\ LoopInv' /\ Sents' /\ EarlierInv' /\ MustInv' /\ BarrierOrder'
<1>0. TypeOK /\ TypeOK' /\ Levels /\ LoopInv
  BY DEF IInv, OrderInv
<1>1. PICK g0 : g0 = taken[t]
  OBVIOUS
<1>2. /\ g0 \in Version /\ Push(t, Barrier(g0)) /\ taken' = [taken EXCEPT ![t] = -1]
      /\ UNCHANGED <<versions, current, next, barrier, owner, pool, calls, pc, loop,
                 job, history>>
  BY <1>0, <1>1 DEF PostBarrier, TypeOK
<1>3. /\ \A u \in Workers : u # t => taken'[u] = taken[u]
      /\ taken'[t] = -1 /\ -1 \notin Version
  BY <1>0, <1>2, GridAssumption DEF TypeOK, Version
<1>4. Calmly /\ LoopInv'
  BY <1>0, <1>2, ClientCalm
<1>5. PICK n0 \in Nat : n0 = Len(slots[t]) + 1
  BY SlotFacts, <1>0
<1>6. /\ Grows /\ n0 \in DOMAIN slots'[t] /\ slots'[t][n0] = Barrier(g0) /\ Len(slots'[t]) = n0
      /\ \A x \in Workers : \A m \in DOMAIN slots'[x] :
           \/ m \in DOMAIN slots[x] /\ slots'[x][m] = slots[x][m]
           \/ x = t /\ m = n0
  BY <1>0, <1>2, <1>5, PushGrows, ItemFacts
<1>7. Barrier(g0).kind = "barrier" /\ Barrier(g0).version = g0
  BY DEF Barrier
<1>8. Keeps /\ Sents' /\ MustInv' /\ BarrierOrder'
  <2>1. NoTasks
    BY <1>2, <1>6, <1>7 DEF NoTasks, history
  <2>2. \A u \in Workers : earlier'[u] \subseteq Sent
    BY <1>2 DEF OrderInv, Sents, history
  <2> QED
    BY <1>4, <2>1, <2>2, NoTasksOrder
<1>9. EarlierInv'
  <2>1. \A u \in Workers : u # t => EarlierAt(u)'
    BY <1>2, <1>3, <1>8, KeepsEarlier DEF history
  <2>2. EarlierAt(t)'
    <3> SUFFICES ASSUME NEW x \in Workers, NEW k \in earlier'[t], NEW m \in DOMAIN slots'[x],
                        TaskAt(x, m, k)'
                 PROVE  \E g \in Version : Apart(x, m, t, n0 + 1, g)'
      BY <1>6 DEF EarlierAt, Follows, Version
    <3>1. m \in DOMAIN slots[x] /\ TaskAt(x, m, k) /\ k \in earlier[t]
      <4>1. earlier' = earlier /\ k \in Sent
        BY <1>2 DEF history, OrderInv, Sents
      <4> QED
        BY <1>8, <4>1 DEF Keeps, OldTasks
    <3>2. PICK g \in Version : \/ Apart(x, m, t, n0, g)
                               \/ Below(x, m, g) /\ Fresh(g) /\ taken[t] = g
      BY <1>5, <3>1 DEF OrderInv, EarlierInv
    <3>3. CASE Apart(x, m, t, n0, g)
      <4>1. Apart(x, m, t, n0, g)'
        BY <1>0, <1>4, <1>6, <3>1, <3>3, ApartStays
      <4>2. 1..(n0 - 1) \subseteq 1..((n0 + 1) - 1)
        OBVIOUS
      <4>3. Apart(x, m, t, n0 + 1, g)'
        BY <4>1, <4>2 DEF Apart
      <4> QED
        BY <4>3
    <3>4. CASE Below(x, m, g) /\ Fresh(g) /\ taken[t] = g
      <4>1. Below(x, m, g)'
        BY <1>0, <1>4, <1>6, <3>1, <3>4, BelowStays
      <4>2. Fresh(g)'
        BY <1>4, <3>4 DEF Calmly, Fresh, L
      <4>3. BarrierAt(t, n0, g)' /\ n0 \in 1..((n0 + 1) - 1)
        BY <1>1, <1>5, <1>6, <1>7, <3>4, SlotFacts, <1>0 DEF BarrierAt
      <4>4. x = t => m < n0
        BY <1>0, <1>5, <3>1, SlotFacts
      <4>5. Apart(x, m, t, n0 + 1, g)'
        BY <4>1, <4>2, <4>3, <4>4 DEF Apart
      <4> QED
        BY <4>5
    <3> QED
      BY <3>2, <3>3, <3>4
  <2> QED
    BY <2>1, <2>2 DEF EarlierInv, EarlierAt, Follows
<1>10. Distinct'
  <2>1. Distinct /\ pool' = pool /\ current' = current
    BY <1>2 DEF OrderInv
  <2>2. \A w \in Workers : \A n \in DOMAIN slots'[w] : \A v : BarrierAt(w, n, v)' =>
          \/ n \in DOMAIN slots[w] /\ BarrierAt(w, n, v)
          \/ w = t /\ n = n0 /\ v = g0
    BY <1>6, <1>7 DEF BarrierAt
  <2>3. \A w \in Workers : \A n \in DOMAIN slots[w] : ~BarrierAt(w, n, g0)
    BY <1>1, <2>1 DEF Distinct
  <2>4. g0 \notin pool /\ \A u \in Workers : taken'[u] # g0
    BY <1>1, <1>2, <1>3, <2>1 DEF Distinct
  <2>5. \A w, x \in Workers : \A n \in DOMAIN slots'[w], m \in DOMAIN slots'[x], v \in Version :
             BarrierAt(w, n, v)' /\ BarrierAt(x, m, v)' => w = x /\ n = m
    BY <2>1, <2>2, <2>3 DEF Distinct
  <2>6. /\ \A w, u \in Workers : \A n \in DOMAIN slots'[w] : ~BarrierAt(w, n, taken[u])'
        /\ \A w \in Workers : \A n \in DOMAIN slots'[w] : \A v \in pool : ~BarrierAt(w, n, v)'
    <3>1. \A w, u \in Workers : \A n \in DOMAIN slots[w] : ~BarrierAt(w, n, taken'[u])
      <4>1. \A w \in Workers : \A n \in DOMAIN slots[w] : ~BarrierAt(w, n, -1)
        BY <1>0, <1>3, ItemVersions DEF BarrierAt
      <4> QED
        BY <1>3, <2>1, <4>1 DEF Distinct
    <3>2. \A w, u \in Workers : \A n \in DOMAIN slots'[w] : ~BarrierAt(w, n, taken[u])'
      BY <1>6, <1>7, <2>4, <3>1 DEF BarrierAt
    <3> QED
      BY <2>1, <2>2, <2>4, <3>2 DEF Distinct
  <2>7. /\ \A r, u \in Workers : r # u => taken'[r] # taken'[u] \/ taken'[r] = -1
        /\ \A r \in Workers : taken'[r] \notin pool
    <3>1. -1 \notin pool
      BY <1>0, <1>3 DEF TypeOK
    <3> QED
      BY <1>3, <2>1, <3>1 DEF Distinct
  <2>8. ASSUME NEW w \in Workers, Fresh(E(w)) PROVE
        /\ E(w) \notin pool
        /\ \A r \in Workers : taken'[r] # E(w) /\ (r # w => E(r) # E(w))
        /\ \A x \in Workers : \A n \in DOMAIN slots'[x] : ~BarrierAt(x, n, E(w))'
    <3>1. E(w) # g0 /\ E(w) \in Version /\ E(w)' = E(w)
      BY <1>0, <1>1, <1>4, <2>1, <2>8, EVersion DEF Distinct, Calmly
    <3>2. \A r \in Workers : taken'[r] # E(w)
      BY <1>3, <2>1, <2>8, <3>1 DEF Distinct
    <3>3. \A x \in Workers : \A n \in DOMAIN slots'[x] : ~BarrierAt(x, n, E(w))'
      <4>1. PICK v : v = E(w)
        OBVIOUS
      <4>2. \A x \in Workers : \A n \in DOMAIN slots'[x] : ~BarrierAt(x, n, v)'
        BY <2>1, <2>2, <2>8, <3>1, <4>1 DEF Distinct
      <4> QED
        BY <3>1, <4>1, <4>2 DEF BarrierAt
    <3> QED
      BY <2>1, <2>8, <3>2, <3>3 DEF Distinct
  <2>9. \A w \in Workers : E(w)' = E(w) /\ (Fresh(E(w))' <=> Fresh(E(w)))
    BY <1>4 DEF Calmly, Fresh, L
  <2> QED
    BY <2>1, <2>5, <2>6, <2>7, <2>8, <2>9 DEF Distinct
<1>11. Levels'
  <2>1. Drawn' = Drawn /\ L(g0) <= Drawn
    BY <1>0, <1>1, <1>2, <1>3 DEF Drawn, Levels
  <2>2. \A w \in Workers : \A n \in DOMAIN slots'[w] :
           slots'[w][n].kind = "barrier" => L(slots'[w][n].version) <= Drawn
    BY <1>0, <1>6, <1>7, <2>1 DEF Levels
  <2>3. \A u \in Workers : taken'[u] # -1 => L(taken'[u]) <= Drawn
    BY <1>0, <1>3 DEF Levels
  <2> QED
    BY <1>0, <1>2, <2>1, <2>2, <2>3 DEF Levels, L
<1> QED
  BY <1>4, <1>8, <1>9, <1>10, <1>11

LEMMA ExternalOrder ==
  ASSUME IInv, IInv', OrderInv, Yielding = {}, ExternalBarrier
  PROVE  Levels' /\ Distinct' /\ LoopInv' /\ Sents' /\ EarlierInv' /\ MustInv' /\ BarrierOrder'
<1>0. TypeOK /\ TypeOK' /\ Levels /\ LoopInv /\ calls.worker \in Nat /\ calls.external \in Nat
  BY DEF IInv, OrderInv, TypeOK
<1>1. PICK g0 : g0 = Plus(barrier, 1)
  OBVIOUS
<1>2. /\ calls.external < MaxExternal /\ barrier' = g0 /\ pool' = pool \cup {g0}
      /\ UNCHANGED <<storage, owner, flushing, pc, loop, job, taken, history>>
  BY <1>1 DEF ExternalBarrier
<1>3. calls'.worker = calls.worker /\ calls'.external = calls.external + 1
  BY <1>0 DEF ExternalBarrier, TypeOK
<1>4. g0 \in Version /\ L(g0) = Drawn + 1 /\ Drawn \in Nat /\ Drawn' = Drawn + 1
  <2>1. Drawn \in Nat /\ Drawn + 1 <= MaxBarriers + MaxExternal
    BY <1>0, <1>2, GridAssumption DEF Levels, Drawn
  <2>2. Drawn' = Drawn + 1
    BY <1>0, <1>3 DEF Drawn
  <2> QED
    BY <1>0, <1>1, <2>1, <2>2, DrawNext
<1>5. Calmly /\ LoopInv'
  BY <1>0, <1>2, ClientCalm DEF storage
<1>6. Keeps /\ Sents' /\ MustInv' /\ BarrierOrder'
  <2>1. NoTasks
    BY <1>2 DEF NoTasks, Grows, storage, history
  <2>2. \A u \in Workers : earlier'[u] \subseteq Sent
    BY <1>2 DEF OrderInv, Sents, history
  <2> QED
    BY <1>5, <2>1, <2>2, NoTasksOrder
<1>7. EarlierInv'
  <2>1. \A u \in Workers : EarlierAt(u)'
    BY <1>2, <1>6, KeepsEarlier DEF history
  <2> QED
    BY <2>1 DEF EarlierInv, EarlierAt, Follows
<1>8. /\ \A v \in Version : L(v) \in Nat
      /\ \A w \in Workers : E(w) # g0
      /\ \A w \in Workers : \A n \in DOMAIN slots[w] :
           slots[w][n].kind = "barrier" => slots[w][n].version # g0
  BY <1>0, <1>4, LevelBounds DEF Levels
<1>9. Distinct'
  <2>1. Distinct /\ slots' = slots /\ taken' = taken /\ current' = current
    BY <1>2 DEF OrderInv, storage
  <2>2. \A w \in Workers : \A n \in DOMAIN slots[w] : ~BarrierAt(w, n, g0)
    BY <1>8 DEF BarrierAt
  <2>3. \A u \in Workers : taken[u] # g0
    BY <1>0, <1>4, GridAssumption DEF Levels, Version
  <2>4. /\ \A w \in Workers : \A n \in DOMAIN slots[w] : \A v \in pool' : ~BarrierAt(w, n, v)
        /\ \A r \in Workers : taken[r] \notin pool'
    BY <1>2, <2>1, <2>2, <2>3 DEF Distinct
  <2>5. \A w \in Workers : Fresh(E(w)) => E(w) \notin pool'
    BY <1>2, <1>8, <2>1 DEF Distinct
  <2>6. \A w \in Workers : E(w)' = E(w) /\ (Fresh(E(w))' <=> Fresh(E(w)))
    BY <1>5 DEF Calmly, Fresh, L
  <2> QED
    BY <2>1, <2>4, <2>5, <2>6 DEF Distinct, BarrierAt
<1>10. Levels'
  <2>1. /\ calls'.worker <= MaxBarriers /\ calls'.external <= MaxExternal
        /\ L(barrier)' = Drawn'
    BY <1>0, <1>2, <1>3, <1>4, GridAssumption DEF Levels, L
  <2>2. L(current)' <= Drawn' /\ L(next)' <= Drawn'
        /\ \A w \in Workers : L(versions[w])' <= Drawn'
    <3>1. L(current) \in Nat /\ L(next) \in Nat /\ \A w \in Workers : L(versions[w]) \in Nat
      BY <1>0, LevelBounds DEF TypeOK
    <3> QED
      BY <1>0, <1>2, <1>4, <3>1 DEF Levels, L, storage
  <2>3. \A w \in Workers : \A n \in DOMAIN slots'[w] :
           slots'[w][n].kind = "barrier" => L(slots'[w][n].version) <= Drawn'
    <3>1. \A w \in Workers : \A n \in DOMAIN slots[w] : L(slots[w][n].version) \in Nat
      BY <1>0, <1>8, ItemVersions
    <3> QED
      BY <1>0, <1>2, <1>4, <3>1 DEF storage, Levels
  <2>4. \A u \in Workers : taken'[u] # -1 => L(taken'[u]) <= Drawn'
    <3> SUFFICES ASSUME NEW u \in Workers, taken'[u] # -1 PROVE L(taken'[u]) <= Drawn'
      OBVIOUS
    <3>1. taken[u] \in Version /\ taken'[u] = taken[u]
      BY <1>0, <1>2 DEF TypeOK
    <3>2. L(taken[u]) <= Drawn /\ L(taken[u]) \in Nat
      BY <1>0, <1>8, <3>1 DEF Levels
    <3> QED
      BY <1>4, <3>1, <3>2
  <2>5. \A v \in pool' : L(v) <= Drawn'
    <3>1. \A v \in pool : L(v) <= Drawn /\ L(v) \in Nat
      BY <1>0, <1>8 DEF Levels, TypeOK
    <3> QED
      BY <1>2, <1>4, <3>1
  <2> QED
    BY <2>1, <2>2, <2>3, <2>4, <2>5 DEF Levels, L
<1> QED
  BY <1>5, <1>6, <1>7, <1>9, <1>10

LEMMA RunExternalOrder ==
  ASSUME IInv, IInv', OrderInv, Yielding = {}, NEW t \in Workers, NEW g0 \in pool, RunExternal(t, g0)
  PROVE  Levels' /\ Distinct' /\ LoopInv' /\ Sents' /\ EarlierInv' /\ MustInv' /\ BarrierOrder'
<1>0. TypeOK /\ TypeOK' /\ Levels /\ LoopInv /\ Distinct /\ g0 \in Version
  BY DEF IInv, OrderInv, TypeOK
<1>1. /\ pool' = pool \ {g0}
      /\ \/ owner = None /\ next' = g0 /\ slots' = slots
         \/ Push(t, Barrier(g0)) /\ next' = next
      /\ UNCHANGED <<versions, current, barrier, owner, calls, pc, loop, job, taken,
                 history>>
  BY DEF RunExternal
<1>2. Calmly /\ LoopInv'
  BY <1>0, <1>1, ClientCalm
<1>3. PICK n0 \in Nat : n0 = Len(slots[t]) + 1
  BY SlotFacts, <1>0
<1>4. Barrier(g0).kind = "barrier" /\ Barrier(g0).version = g0
  BY DEF Barrier
<1>5. /\ Grows
      /\ \A x \in Workers : \A m \in DOMAIN slots'[x] :
           \/ m \in DOMAIN slots[x] /\ slots'[x][m] = slots[x][m]
           \/ x = t /\ m = n0 /\ slots'[x][m] = Barrier(g0)
  <2>1. CASE slots' = slots
    BY <2>1 DEF Grows
  <2>2. CASE Push(t, Barrier(g0))
    BY <1>0, <1>3, <2>2, PushGrows, ItemFacts
  <2> QED
    BY <1>1, <2>1, <2>2
<1>6. Keeps /\ Sents' /\ MustInv' /\ BarrierOrder'
  <2>1. NoTasks
    BY <1>1, <1>4, <1>5 DEF NoTasks, history
  <2>2. \A u \in Workers : earlier'[u] \subseteq Sent
    BY <1>1 DEF OrderInv, Sents, history
  <2> QED
    BY <1>2, <2>1, <2>2, NoTasksOrder
<1>7. EarlierInv'
  <2>1. \A u \in Workers : EarlierAt(u)'
    BY <1>1, <1>6, KeepsEarlier DEF history
  <2> QED
    BY <2>1 DEF EarlierInv, EarlierAt, Follows
<1>8. Distinct'
  <2>1. taken' = taken /\ current' = current
    BY <1>1
  <2>2. \A w \in Workers : \A n \in DOMAIN slots'[w] : \A v : BarrierAt(w, n, v)' =>
          \/ n \in DOMAIN slots[w] /\ BarrierAt(w, n, v)
          \/ w = t /\ n = n0 /\ v = g0
    BY <1>4, <1>5 DEF BarrierAt
  <2>3. \A w \in Workers : \A n \in DOMAIN slots[w] : ~BarrierAt(w, n, g0)
    BY <1>0 DEF Distinct
  <2>4. g0 \notin pool' /\ \A u \in Workers : taken[u] # g0
    BY <1>0, <1>1 DEF Distinct
  <2>5. \A w, x \in Workers : \A n \in DOMAIN slots'[w], m \in DOMAIN slots'[x], v \in Version :
             BarrierAt(w, n, v)' /\ BarrierAt(x, m, v)' => w = x /\ n = m
    BY <1>0, <2>2, <2>3 DEF Distinct
  <2>6. /\ \A w, u \in Workers : \A n \in DOMAIN slots'[w] : ~BarrierAt(w, n, taken[u])'
        /\ \A w \in Workers : \A n \in DOMAIN slots'[w] : \A v \in pool' : ~BarrierAt(w, n, v)'
    <3>1. \A w, u \in Workers : \A n \in DOMAIN slots[w] : ~BarrierAt(w, n, taken'[u])
      BY <1>0, <2>1 DEF Distinct
    <3>2. \A w, u \in Workers : \A n \in DOMAIN slots'[w] : ~BarrierAt(w, n, taken[u])'
      BY <1>4, <1>5, <2>1, <2>4, <3>1 DEF BarrierAt
    <3> QED
      BY <1>0, <1>1, <2>2, <2>4, <3>2 DEF Distinct
  <2>7. /\ \A r, u \in Workers : r # u => taken'[r] # taken'[u] \/ taken'[r] = -1
        /\ \A r \in Workers : taken'[r] \notin pool'
    BY <1>0, <1>1 DEF Distinct
  <2>8. ASSUME NEW w \in Workers, Fresh(E(w)) PROVE
        /\ E(w) \notin pool'
        /\ \A r \in Workers : taken'[r] # E(w) /\ (r # w => E(r) # E(w))
        /\ \A x \in Workers : \A n \in DOMAIN slots'[x] : ~BarrierAt(x, n, E(w))'
    <3>1. E(w) # g0 /\ E(w) \in Version /\ E(w)' = E(w)
      BY <1>0, <1>2, <2>8, EVersion DEF Distinct, Calmly
    <3>2. \A x \in Workers : \A n \in DOMAIN slots'[x] : ~BarrierAt(x, n, E(w))'
      <4>1. PICK v : v = E(w)
        OBVIOUS
      <4>2. \A x \in Workers : \A n \in DOMAIN slots'[x] : ~BarrierAt(x, n, v)'
        BY <1>0, <2>2, <2>8, <3>1, <4>1 DEF Distinct
      <4> QED
        BY <3>1, <4>1, <4>2 DEF BarrierAt
    <3> QED
      BY <1>0, <1>1, <2>1, <2>8, <3>2 DEF Distinct
  <2>9. \A w \in Workers : E(w)' = E(w) /\ (Fresh(E(w))' <=> Fresh(E(w)))
    BY <1>2 DEF Calmly, Fresh, L
  <2> QED
    BY <2>5, <2>6, <2>7, <2>8, <2>9 DEF Distinct
<1>9. Levels'
  <2>1. Drawn' = Drawn /\ L(g0) <= Drawn
    BY <1>0, <1>1 DEF Drawn, Levels
  <2>2. \A w \in Workers : \A n \in DOMAIN slots'[w] :
           slots'[w][n].kind = "barrier" => L(slots'[w][n].version) <= Drawn
    BY <1>0, <1>4, <1>5, <2>1 DEF Levels
  <2>3. L(next)' <= Drawn
    BY <1>0, <1>1, <2>1 DEF Levels, L
  <2> QED
    BY <1>0, <1>1, <2>1, <2>2, <2>3 DEF Levels, L
<1> QED
  BY <1>2, <1>6, <1>7, <1>8, <1>9

(***************************************************************************)
(* Steps that take the first item of a slot                                *)
(***************************************************************************)
\* The thread in the loop takes the first item of slot w; a barrier raises the
\* version that the slot is seen to have.
Pops(t0, w) ==
  /\ IInv /\ IInv' /\ OrderInv
  /\ pos[t0] = w /\ InLoop(t0) /\ ~Fresh(E(w)) /\ slots[w] # <<>>
  /\ \A x \in Workers : x # w => slots'[x] = slots[x]
  /\ slots'[w] = Tail(slots[w])
  /\ pos' = pos /\ step' = step /\ current' = current
  /\ \A u \in Workers : InLoop(u)' <=> InLoop(u)
  /\ \A u \in Workers : InLoop(u) => u = t0
  /\ \A x \in Workers : x # w => E(x)' = E(x)
  /\ \/ slots[w][1].kind = "barrier" /\ E(w)' = slots[w][1].version
     \/ slots[w][1].kind = "task" /\ E(w)' = E(w)

\* The place that the item at m of slot x had.
Old(x, w, m) == IF x = w THEN m + 1 ELSE m

LEMMA PopOld ==
  ASSUME NEW t0 \in Workers, NEW w \in Workers, Pops(t0, w)
  PROVE  /\ \A x \in Workers : \A m \in DOMAIN slots'[x] :
              /\ m \in Nat /\ 1 <= m /\ Old(x, w, m) \in DOMAIN slots[x]
              /\ slots'[x][m] = slots[x][Old(x, w, m)]
         /\ \A x \in Workers : \A m \in DOMAIN slots[x] :
              (x = w => m # 1) => \E k \in DOMAIN slots'[x] : m = Old(x, w, k)
         /\ 1 \in DOMAIN slots[w] /\ Head(slots[w]) = slots[w][1]
         /\ \A x \in Workers : Old(x, w, Len(slots'[x]) + 1) = Len(slots[x]) + 1
<1>1. TypeOK /\ slots[w] # <<>> /\ slots[w] \in Seq(Items) /\ slots'[w] = Tail(slots[w])
  BY SlotFacts DEF Pops, IInv
<1>2. /\ Len(slots[w]) \in Nat /\ Len(slots[w]) # 0 /\ DOMAIN slots[w] = 1..Len(slots[w])
      /\ DOMAIN slots'[w] = 1..(Len(slots[w]) - 1) /\ Len(slots'[w]) = Len(slots[w]) - 1
      /\ \A m \in 1..(Len(slots[w]) - 1) : slots'[w][m] = slots[w][m + 1]
      /\ Head(slots[w]) = slots[w][1]
  BY <1>1
<1>3. \A x \in Workers : x # w => slots'[x] = slots[x] /\ DOMAIN slots[x] = 1..Len(slots[x])
  BY <1>1, SlotFacts DEF Pops
<1>4. \A x \in Workers : \A m \in DOMAIN slots'[x] :
              /\ m \in Nat /\ 1 <= m /\ Old(x, w, m) \in DOMAIN slots[x]
              /\ slots'[x][m] = slots[x][Old(x, w, m)]
  <2> SUFFICES ASSUME NEW x \in Workers, NEW m \in DOMAIN slots'[x]
               PROVE  /\ m \in Nat /\ 1 <= m /\ Old(x, w, m) \in DOMAIN slots[x]
                      /\ slots'[x][m] = slots[x][Old(x, w, m)]
    OBVIOUS
  <2>1. CASE x = w
    <3>1. m \in 1..(Len(slots[w]) - 1)
      BY <1>2, <2>1
    <3>2. m \in Nat /\ 1 <= m /\ m + 1 \in DOMAIN slots[w] /\ slots'[w][m] = slots[w][m + 1]
      BY <1>2, <3>1
    <3> QED
      BY <2>1, <3>2 DEF Old
  <2>2. CASE x # w
    <3>1. m \in 1..Len(slots[x]) /\ Len(slots[x]) \in Nat
      BY <1>1, <1>3, <2>2, SlotFacts
    <3> QED
      BY <1>3, <2>2, <3>1 DEF Old
  <2> QED
    BY <2>1, <2>2
<1>5. \A x \in Workers : \A m \in DOMAIN slots[x] :
              (x = w => m # 1) => \E k \in DOMAIN slots'[x] : m = Old(x, w, k)
  <2> SUFFICES ASSUME NEW x \in Workers, NEW m \in DOMAIN slots[x], x = w => m # 1
               PROVE  \E k \in DOMAIN slots'[x] : m = Old(x, w, k)
    OBVIOUS
  <2>1. CASE x = w
    <3>1. m - 1 \in DOMAIN slots'[x] /\ m = (m - 1) + 1
      BY <1>2, <2>1
    <3> QED
      BY <2>1, <3>1 DEF Old
  <2>2. CASE x # w
    BY <1>3, <2>2 DEF Old
  <2> QED
    BY <2>1, <2>2
<1>6. 1 \in DOMAIN slots[w]
  BY <1>2
<1>7. \A x \in Workers : Old(x, w, Len(slots'[x]) + 1) = Len(slots[x]) + 1
  BY <1>2, <1>3 DEF Old
<1> QED
  BY <1>2, <1>4, <1>5, <1>6, <1>7

LEMMA PopBelow ==
  ASSUME NEW t0 \in Workers, NEW w \in Workers, Pops(t0, w),
         NEW x \in Workers, NEW m \in DOMAIN slots'[x], NEW g \in Version, Below(x, Old(x, w, m), g)
  PROVE  Below(x, m, g)'
<1>1. m \in Nat /\ 1 <= m
  BY PopOld
<1>2. L(E(x))' < L(g)' \/ ~Fresh(E(x))'
  <2>1. CASE x # w \/ slots[w][1].kind = "task"
    BY <2>1 DEF Pops, Below, Fresh, L
  <2>2. CASE x = w /\ slots[w][1].kind # "task"
    <3>1. slots[w][1].kind = "barrier" /\ E(w)' = slots[w][1].version
      BY <2>2 DEF Pops
    <3>2. 1 \in 1..(Old(x, w, m) - 1)
      BY <1>1, <2>2 DEF Old
    <3> QED
      BY <2>2, <3>1, <3>2 DEF Below, L, Ahead
  <2> QED
    BY <2>1, <2>2
<1>3. ASSUME NEW i \in 1..(m - 1), slots'[x][i].kind = "barrier"
      PROVE  L(slots'[x][i].version) < L(g)
  <2>1. i \in DOMAIN slots'[x] /\ Old(x, w, i) \in 1..(Old(x, w, m) - 1)
    <3>1. DOMAIN slots'[x] = 1..Len(slots'[x]) /\ Len(slots'[x]) \in Nat
      BY DEF Pops, IInv, TypeOK
    <3> QED
      BY <1>1, <3>1 DEF Old
  <2>2. slots'[x][i] = slots[x][Old(x, w, i)]
    BY <2>1, PopOld
  <2> QED
    BY <1>3, <2>1, <2>2 DEF Below
<1> QED
  BY <1>2, <1>3 DEF Below, L, Ahead

LEMMA PopApart ==
  ASSUME NEW t0 \in Workers, NEW w \in Workers, Pops(t0, w),
         NEW x \in Workers, NEW m \in DOMAIN slots'[x], NEW t \in Workers, NEW n \in Nat,
         NEW g \in Version, Apart(x, Old(x, w, m), t, Old(t, w, n), g)
  PROVE  Apart(x, m, t, n, g)'
<1>1. Below(x, m, g)'
  BY PopBelow DEF Apart
<1>2. Fresh(g)' <=> Fresh(g)
  BY DEF Pops, Fresh, L
<1>3. m \in Nat /\ 1 <= m
  BY PopOld
<1>4. CASE Waits(x, t, g)
  <2>1. t # w
    BY <1>4 DEF Waits, Pops
  <2>2. Waits(x, t, g)'
    BY <1>2, <1>4, <2>1 DEF Waits, Pops
  <2> QED
    BY <1>1, <2>2 DEF Apart
<1>5. CASE ~Fresh(g) /\ Later(x, t)
  <2>1. Later(x, t)'
    BY <1>5 DEF Later, Pops
  <2> QED
    BY <1>1, <1>2, <1>5, <2>1 DEF Apart
<1>6. CASE Fresh(g) /\ \E i \in 1..(Old(t, w, n) - 1) : BarrierAt(t, i, g) /\ (x = t => Old(x, w, m) < i)
  <2>1. PICK i \in 1..(Old(t, w, n) - 1) : BarrierAt(t, i, g) /\ (x = t => Old(x, w, m) < i)
    BY <1>6
  <2>2. i \in DOMAIN slots[t] /\ slots[t][i].kind = "barrier" /\ slots[t][i].version = g
    BY <2>1 DEF BarrierAt
\* The barrier itself is taken: slot w waits now.
  <2>3. CASE t = w /\ i = 1
    <3>1. x # t
      BY <1>3, <2>1, <2>3 DEF Old
    <3>2. E(t)' = g
      BY <2>2, <2>3 DEF Pops
    <3>3. step[t0] # g
      <4>1. StepAt(t0)
        BY DEF Pops, OrderInv, LoopInv
      <4>2. \A v \in Workers : E(v) # g
        <5>1. Distinct
          BY DEF Pops, OrderInv
        <5> QED
          BY <1>6, <2>1, <2>2, <5>1 DEF Distinct
      <4>3. current # g
        <5>1. L(current) \in Nat
          BY LevelBounds DEF Pops, OrderInv
        <5> QED
          BY <1>6, <5>1 DEF Fresh
      <4> QED
        BY <4>1, <4>2, <4>3 DEF StepAt
    <3>4. \A u \in Workers : InLoop(u)' => step'[u] # g
      BY <3>3 DEF Pops
    <3>5. Waits(x, t, g)'
      BY <1>2, <1>6, <3>1, <3>2, <3>4 DEF Waits
    <3> QED
      BY <1>1, <3>5 DEF Apart
  <2>4. CASE ~(t = w /\ i = 1)
    <3>1. PICK k \in DOMAIN slots'[t] : i = Old(t, w, k)
      BY <2>2, <2>4, PopOld
    <3>2. BarrierAt(t, k, g)'
      <4>1. slots'[t][k] = slots[t][i]
        BY <3>1, PopOld
      <4> QED
        BY <2>2, <4>1 DEF BarrierAt
    <3>3. k \in 1..(n - 1) /\ (x = t => m < k)
      <4>1. k \in Nat /\ 1 <= k
        BY PopOld
      <4> QED
        BY <1>3, <2>1, <3>1, <4>1 DEF Old
    <3> QED
      BY <1>1, <1>2, <1>6, <3>2, <3>3 DEF Apart
  <2> QED
    BY <2>3, <2>4
<1> QED
  BY <1>4, <1>5, <1>6 DEF Apart

\* What such a step leaves as it was.
PopsOnly(t0, w) ==
  /\ Pops(t0, w) /\ Sent' = Sent
  /\ UNCHANGED <<versions, barrier, pool, calls, taken, earlier, must>>
  /\ \/ next' = next
     \/ slots[w][1].kind = "barrier" /\ next' = slots[w][1].version

LEMMA PopPairs ==
  ASSUME NEW t0 \in Workers, NEW w \in Workers, PopsOnly(t0, w)
  PROVE  EarlierInv' /\ MustInv'
<1>0. Pops(t0, w) /\ TypeOK /\ EarlierInv /\ MustInv /\ earlier' = earlier /\ must' = must /\ taken' = taken
  BY DEF PopsOnly, Pops, IInv, OrderInv
<1>1. ASSUME NEW x \in Workers, NEW m \in DOMAIN slots'[x], NEW k
      PROVE  /\ Old(x, w, m) \in DOMAIN slots[x]
             /\ TaskAt(x, m, k)' <=> TaskAt(x, Old(x, w, m), k)
  BY <1>0, PopOld DEF TaskAt
<1>2. EarlierInv'
  <2> SUFFICES ASSUME NEW t \in Workers, NEW x \in Workers, NEW k \in earlier[t],
                      NEW m \in DOMAIN slots'[x], TaskAt(x, m, k)'
               PROVE  \E g \in Version : \/ Apart(x, m, t, Len(slots[t]) + 1, g)'
                                         \/ Below(x, m, g)' /\ Fresh(g)' /\ taken'[t] = g
    BY <1>0 DEF EarlierInv, Version
  <2>1. PICK n \in Nat : n = Len(slots'[t]) + 1
    BY DEF Pops, PopsOnly, IInv, TypeOK
  <2>2. Old(t, w, n) = Len(slots[t]) + 1
    BY <1>0, <2>1, PopOld
  <2>3. PICK g \in Version : \/ Apart(x, Old(x, w, m), t, Old(t, w, n), g)
                             \/ Below(x, Old(x, w, m), g) /\ Fresh(g) /\ taken[t] = g
    BY <1>0, <1>1, <2>2 DEF EarlierInv
  <2>4. CASE Apart(x, Old(x, w, m), t, Old(t, w, n), g)
    <3>1. Apart(x, m, t, n, g)'
      BY <1>0, <2>4, PopApart
    <3> QED
      BY <2>1, <3>1
  <2>5. CASE Below(x, Old(x, w, m), g) /\ Fresh(g) /\ taken[t] = g
    <3>1. Below(x, m, g)'
      BY <1>0, <2>5, PopBelow
    <3>2. Fresh(g)' /\ taken'[t] = g
      BY <1>0, <2>5 DEF Pops, Fresh, L
    <3> QED
      BY <3>1, <3>2
  <2> QED
    BY <2>3, <2>4, <2>5
<1>3. MustInv'
  <2> SUFFICES ASSUME NEW t \in Workers, NEW x \in Workers, NEW n \in DOMAIN slots'[t],
                      NEW m \in DOMAIN slots'[x], NEW j \in Bodies, NEW k \in Bodies,
                      TaskAt(t, n, j)', TaskAt(x, m, k)', k \in must'[j]
               PROVE  \E g \in Version : Apart(x, m, t, n, g)'
    BY DEF MustInv, Version
  <2>1. PICK g \in Version : Apart(x, Old(x, w, m), t, Old(t, w, n), g)
    BY <1>0, <1>1 DEF MustInv
  <2>2. n \in Nat
    BY <1>0, PopOld
  <2> QED
    BY <1>0, <2>1, <2>2, PopApart
<1> QED
  BY <1>2, <1>3

LEMMA PopStorage ==
  ASSUME NEW t0 \in Workers, NEW w \in Workers, PopsOnly(t0, w)
  PROVE  Levels' /\ Distinct' /\ \A u \in Workers : InLoop(u)' => StepAt(u)'
<1>0. /\ Pops(t0, w) /\ TypeOK /\ Levels /\ Distinct /\ current' = current
      /\ UNCHANGED <<versions, barrier, pool, calls, taken>>
  BY DEF PopsOnly, Pops, IInv, OrderInv
<1>1. ASSUME NEW x \in Workers, NEW m, NEW v, BarrierAt(x, m, v)'
      PROVE  m \in DOMAIN slots'[x] /\ Old(x, w, m) \in DOMAIN slots[x] /\ BarrierAt(x, Old(x, w, m), v)
  BY <1>0, <1>1, PopOld DEF BarrierAt
<1>2. PICK g1 : g1 = slots[w][1].version
  OBVIOUS
<1>3. slots[w][1].kind = "barrier" => BarrierAt(w, 1, g1) /\ g1 \in Version /\ L(g1) <= Drawn
  BY <1>0, <1>2, PopOld, ItemVersions DEF BarrierAt, Levels
<1>4. Levels'
  <2>1. Drawn' = Drawn /\ L(next)' <= Drawn
    BY <1>0, <1>2, <1>3 DEF Drawn, PopsOnly, Levels, L, Ahead
  <2>2. \A x \in Workers : \A n \in DOMAIN slots'[x] :
           slots'[x][n].kind = "barrier" => L(slots'[x][n].version) <= Drawn
    BY <1>0, PopOld DEF Levels
  <2> QED
    BY <1>0, <2>1, <2>2 DEF Levels, L, Ahead
<1>5. Distinct'
  <2>1. \A x, y \in Workers : \A n \in DOMAIN slots'[x], m \in DOMAIN slots'[y], v \in Version :
             BarrierAt(x, n, v)' /\ BarrierAt(y, m, v)' => x = y /\ n = m
    <3> SUFFICES ASSUME NEW x \in Workers, NEW y \in Workers, NEW n \in DOMAIN slots'[x],
                        NEW m \in DOMAIN slots'[y], NEW v \in Version,
                        BarrierAt(x, n, v)', BarrierAt(y, m, v)'
                 PROVE  x = y /\ n = m
      OBVIOUS
    <3>1. x = y /\ Old(x, w, n) = Old(y, w, m)
      BY <1>0, <1>1 DEF Distinct
    <3>2. n \in Nat /\ m \in Nat
      BY <1>0, PopOld
    <3> QED
      BY <3>1, <3>2 DEF Old
  <2>2. /\ \A x, u \in Workers : \A n \in DOMAIN slots'[x] : ~BarrierAt(x, n, taken[u])'
        /\ \A x \in Workers : \A n \in DOMAIN slots'[x] : \A v \in pool : ~BarrierAt(x, n, v)'
    <3>1. \A x, u \in Workers : \A n \in DOMAIN slots'[x] : ~BarrierAt(x, n, taken[u])'
      <4> SUFFICES ASSUME NEW x \in Workers, NEW u \in Workers, NEW n \in DOMAIN slots'[x],
                          BarrierAt(x, n, taken[u])'
                   PROVE  FALSE
        OBVIOUS
      <4>1. Old(x, w, n) \in DOMAIN slots[x] /\ BarrierAt(x, Old(x, w, n), taken[u])
        BY <1>0, PopOld DEF BarrierAt
      <4> QED
        BY <1>0, <4>1 DEF Distinct
    <3> QED
      BY <1>0, <1>1, <3>1 DEF Distinct
\* The version that slot w takes now was that of its first item, and so of none else.
  <2>3. ASSUME NEW y \in Workers, Fresh(E(y))'
        PROVE  /\ E(y)' \notin pool
               /\ \A r \in Workers : taken[r] # E(y)' /\ (r # y => E(r)' # E(y)')
               /\ \A x \in Workers : \A n \in DOMAIN slots'[x] : ~BarrierAt(x, n, E(y))'
    <3>1. PICK v : v = E(y)'
      OBVIOUS
    <3>2. Fresh(v)
      BY <1>0, <2>3, <3>1 DEF Fresh, L
    <3>3. CASE y = w
      <4>1. slots[w][1].kind = "barrier" /\ v = g1
        BY <1>0, <1>2, <3>1, <3>2, <3>3 DEF Pops
      <4>2. BarrierAt(w, 1, v) /\ 1 \in DOMAIN slots[w] /\ v \in Version
        BY <1>0, <1>3, <4>1, PopOld
      <4>3. v \notin pool /\ \A r \in Workers : taken[r] # v
        BY <1>0, <4>2 DEF Distinct
      <4>4. \A r \in Workers : r # w => E(r)' # v
        BY <1>0, <3>2, <4>2 DEF Distinct, Pops
      <4>5. \A x \in Workers : \A n \in DOMAIN slots'[x] : ~BarrierAt(x, n, v)'
        <5> SUFFICES ASSUME NEW x \in Workers, NEW n \in DOMAIN slots'[x], BarrierAt(x, n, v)'
                     PROVE  FALSE
          OBVIOUS
        <5>1. x = w /\ Old(x, w, n) = 1
          BY <1>0, <1>1, <4>2 DEF Distinct
        <5>2. n \in Nat /\ 1 <= n
          BY <1>0, PopOld
        <5> QED
          BY <5>1, <5>2 DEF Old
      <4> QED
        BY <3>1, <3>3, <4>3, <4>4, <4>5 DEF BarrierAt
    <3>4. CASE y # w
      <4>1. v = E(y)
        BY <1>0, <3>1, <3>4 DEF Pops
      <4>2. v \notin pool /\ \A r \in Workers : taken[r] # v /\ (r # y => E(r) # v)
        BY <1>0, <3>2, <4>1 DEF Distinct
      <4>3. \A x \in Workers : \A n \in DOMAIN slots'[x] : ~BarrierAt(x, n, v)'
        BY <1>0, <1>1, <3>2, <4>1 DEF Distinct
      <4>4. E(w)' # v
        BY <1>0, <1>2, <1>3, <3>2, <3>4, <4>1, <4>2, PopOld DEF Distinct, Pops
      <4>5. \A r \in Workers : r # y => E(r)' # v
        BY <1>0, <4>2, <4>4 DEF Pops
      <4> QED
        BY <3>1, <4>2, <4>3, <4>5 DEF BarrierAt
    <3> QED
      BY <3>3, <3>4
  <2> QED
    BY <1>0, <2>1, <2>2, <2>3 DEF Distinct
<1>6. ASSUME NEW u \in Workers, InLoop(u)' PROVE StepAt(u)'
  <2>1. StepAt(u) /\ pos[u] = w /\ pos' = pos /\ step' = step /\ current' = current
    BY <1>0, <1>6 DEF Pops, OrderInv, LoopInv
  <2>2. ASSUME NEW v \in Workers, v < pos[u] PROVE E(v)' = E(v)
    BY <1>0, <2>1, <2>2, SlotFacts DEF Pops
  <2> QED
    BY <2>1, <2>2 DEF StepAt, Fresh, L
<1> QED
  BY <1>4, <1>5, <1>6

\* Thread t looks at slot w, which is open.
LEMMA LookPops ==
  ASSUME IInv, IInv', OrderInv, Yielding = {}, NEW t \in Workers, NEW w \in Workers,
         pos[t] = w, pc[t] = "look", Open(w), slots[w] # <<>>,
         slots' = [slots EXCEPT ![w] = Tail(@)],
         UNCHANGED <<versions, current, loop>>,
         \/ /\ slots[w][1].kind = "barrier" /\ next' = slots[w][1].version
            /\ pc' = [pc EXCEPT ![t] = "after"]
         \/ slots[w][1].kind = "task" /\ next' = next /\ pc' = [pc EXCEPT ![t] = "body"]
  PROVE  Pops(t, w) /\ ~Fresh(E(w)) /\ next = versions[w]
         /\ \A u \in Workers : pc'[u] = "idle" \/ u = t
<1>0. TypeOK /\ TypeOK' /\ Levels /\ LoopInv
  BY DEF IInv, OrderInv
<1>1. \A u \in Workers : InLoop(u) => u = t
  BY Alone DEF InLoop
<1>2. \A u \in Workers : (InLoop(u)' <=> InLoop(u)) /\ pc[u] # "after" /\ (u # t => pc'[u] = "idle")
  BY <1>0, <1>1 DEF InLoop, TypeOK
<1>3. \A x \in Workers : E(x) = versions[x]
  BY <1>2 DEF E
<1>4. ~Fresh(E(w)) /\ next = versions[w]
  BY <1>0, <1>3, OpenFresh DEF LoopInv
<1>5. pos' = pos /\ step' = step /\ current' = current
  BY DEF loop
<1>6. /\ \A x \in Workers : x # w => slots'[x] = slots[x]
      /\ slots'[w] = Tail(slots[w])
  BY <1>0 DEF TypeOK
<1>7. /\ \A x \in Workers : x # w => E(x)' = E(x)
      /\ \/ slots[w][1].kind = "barrier" /\ E(w)' = slots[w][1].version
         \/ slots[w][1].kind = "task" /\ E(w)' = E(w)
  <2>1. pc'[t] = "after" \/ pc'[t] = "body"
    BY <1>0 DEF TypeOK
  <2>2. \A x \in Workers : E(x)' = IF pc'[t] = "after" /\ w = x THEN next' ELSE versions'[x]
    BY <1>2, <1>5 DEF E
  <2>3. pc'[t] = IF slots[w][1].kind = "barrier" THEN "after" ELSE "body"
    BY <1>0 DEF TypeOK
  <2> QED
    BY <1>3, <2>2, <2>3
<1>8. InLoop(t)
  BY DEF InLoop
<1> QED
  BY <1>1, <1>2, <1>4, <1>5, <1>6, <1>7, <1>8 DEF Pops

LEMMA RunTaskOrder ==
  ASSUME IInv, IInv', OrderInv, Yielding = {}, NEW t \in Workers, RunTask(t)
  PROVE  Levels' /\ Distinct' /\ LoopInv' /\ Sents' /\ EarlierInv' /\ MustInv' /\ BarrierOrder'
<1>0. TypeOK /\ TypeOK' /\ ItemsNamed /\ Sents /\ MustInv
  BY DEF IInv, OrderInv
<1>1. PICK w \in Workers : w = pos[t]
  BY <1>0 DEF TypeOK
<1>2. PICK j : j = slots[w][1].task
  OBVIOUS
<1>3. slots[w] # <<>> /\ 1 \in DOMAIN slots[w] /\ Head(slots[w]) = slots[w][1]
  <2>1. slots[w] # <<>>
    BY <1>1 DEF RunTask
  <2> QED
    BY <1>0, <2>1, SlotFacts
<1>4. /\ pc[t] = "look" /\ Open(w) /\ slots[w][1].kind = "task"
      /\ slots' = [slots EXCEPT ![w] = Tail(@)] /\ pc' = [pc EXCEPT ![t] = "body"]
      /\ status' = [status EXCEPT ![j] = "running"]
      /\ UNCHANGED <<versions, current, next, barrier, owner, flushing, pool, calls,
                     loop, taken, earlier, must>>
  BY <1>1, <1>2, <1>3 DEF RunTask
<1>5. /\ Pops(t, w) /\ ~Fresh(E(w)) /\ next = versions[w]
      /\ \A u \in Workers : pc'[u] = "idle" \/ u = t
  BY <1>1, <1>3, <1>4, LookPops
<1>6. j \in Sent /\ j \in Bodies /\ TaskAt(w, 1, j)
  BY <1>0, <1>2, <1>3, <1>4 DEF Sents, Sent, TaskAt
<1>7. /\ status'[j] = "running" /\ \A i \in Bodies : i # j => status'[i] = status[i]
      /\ Sent' = Sent
  BY <1>0, <1>4, <1>6 DEF TypeOK, Sent
<1>8. PopsOnly(t, w)
  BY <1>4, <1>5, <1>7 DEF PopsOnly
<1>9. EarlierInv' /\ MustInv' /\ Levels' /\ Distinct' /\ \A u \in Workers : InLoop(u)' => StepAt(u)'
  BY <1>8, PopPairs, PopStorage
<1>10. LoopInv'
  <2>1. \A u \in Workers : pc'[u] \in {"look", "body"} => next' = versions'[pos'[u]]
    BY <1>1, <1>4, <1>5 DEF loop
  <2> QED
    BY <1>9, <2>1 DEF LoopInv
<1>11. Sents'
  <2>1. /\ \A i \in Bodies : must'[i] \subseteq Sent'
        /\ \A u \in Workers : earlier'[u] \subseteq Sent'
    BY <1>0, <1>4, <1>7 DEF Sents
  <2>2. \A x \in Workers : \A n \in DOMAIN slots'[x] :
          slots'[x][n].kind = "task" => slots'[x][n].task \in Sent'
    BY <1>0, <1>5, <1>7, PopOld DEF Sents
  <2>3. ASSUME NEW i \in Bodies, status'[i] = "queued"
        PROVE  \E x \in Workers : \E n \in DOMAIN slots'[x] : TaskAt(x, n, i)'
    <3>1. i # j
      BY <1>7, <2>3
    <3>2. PICK x \in Workers : \E n \in DOMAIN slots[x] : TaskAt(x, n, i)
      BY <1>0, <1>7, <2>3, <3>1 DEF Sents
    <3>3. PICK n \in DOMAIN slots[x] : TaskAt(x, n, i)
      BY <3>2
    <3>4. x = w => n # 1
      BY <1>2, <3>1, <3>3 DEF TaskAt
    <3>5. PICK k \in DOMAIN slots'[x] : n = Old(x, w, k)
      BY <1>5, <3>4, PopOld
    <3>6. slots'[x][k] = slots[x][n]
      BY <1>5, <3>5, PopOld
    <3> QED
      BY <3>3, <3>6 DEF TaskAt
  <2> QED
    BY <2>1, <2>2, <2>3 DEF Sents
<1>12. BarrierOrder'
  <2> SUFFICES ASSUME NEW i \in Bodies, status'[i] \in {"running", "done"}, NEW k \in must[i],
                      status'[k] = "queued"
               PROVE  FALSE
    BY <1>4 DEF BarrierOrder
  <2>1. k \in Bodies /\ k # j /\ status[k] = "queued"
    BY <1>0, <1>7 DEF TypeOK
  <2>2. CASE i # j
    BY <1>7, <2>1, <2>2 DEF OrderInv, BarrierOrder
  <2>3. CASE i = j
    <3>1. PICK x \in Workers : \E m \in DOMAIN slots[x] : TaskAt(x, m, k)
      BY <1>0, <2>1 DEF Sents
    <3>2. PICK m \in DOMAIN slots[x] : TaskAt(x, m, k)
      BY <3>1
    <3>3. PICK g \in Version : Apart(x, m, w, 1, g)
      BY <1>0, <1>3, <1>6, <2>1, <2>3, <3>2 DEF MustInv
    <3>4. ~Waits(x, w, g)
      BY <1>5 DEF Waits
    <3>5. ~Later(x, w)
      <4>1. pos[t] = w /\ InLoop(t) /\ w \in Nat /\ x \in Nat
        BY <1>0, <1>1, <1>4, SlotFacts DEF InLoop
      <4> QED
        BY <4>1 DEF Later
    <3> QED
      BY <3>3, <3>4, <3>5 DEF Apart
  <2> QED
    BY <2>2, <2>3
<1> QED
  BY <1>9, <1>10, <1>11, <1>12

LEMMA RunBarrierOrder ==
  ASSUME IInv, IInv', OrderInv, Yielding = {}, NEW t \in Workers, RunBarrier(t)
  PROVE  Levels' /\ Distinct' /\ LoopInv' /\ Sents' /\ EarlierInv' /\ MustInv' /\ BarrierOrder'
<1>0. TypeOK /\ TypeOK' /\ Sents
  BY DEF IInv, OrderInv
<1>1. PICK w \in Workers : w = pos[t]
  BY <1>0 DEF TypeOK
<1>2. slots[w] # <<>> /\ 1 \in DOMAIN slots[w] /\ Head(slots[w]) = slots[w][1]
  <2>1. slots[w] # <<>>
    BY <1>1 DEF RunBarrier
  <2> QED
    BY <1>0, <2>1, SlotFacts
<1>3. /\ pc[t] = "look" /\ Open(w) /\ slots[w][1].kind = "barrier" /\ next' = slots[w][1].version
      /\ slots' = [slots EXCEPT ![w] = Tail(@)] /\ pc' = [pc EXCEPT ![t] = "after"]
      /\ UNCHANGED <<versions, current, barrier, owner, flushing, pool, calls, loop,
                     job, taken, history>>
  BY <1>1, <1>2 DEF RunBarrier
<1>4. /\ Pops(t, w)
      /\ \A u \in Workers : pc'[u] = "idle" \/ u = t
  BY <1>1, <1>2, <1>3, LookPops
<1>5. PopsOnly(t, w)
  BY <1>3, <1>4 DEF PopsOnly, history, Sent
<1>6. EarlierInv' /\ MustInv' /\ Levels' /\ Distinct' /\ \A u \in Workers : InLoop(u)' => StepAt(u)'
  BY <1>5, PopPairs, PopStorage
<1>7. LoopInv'
  <2>1. \A u \in Workers : pc'[u] \notin {"look", "body"}
    BY <1>0, <1>3, <1>4 DEF TypeOK
  <2> QED
    BY <1>6, <2>1 DEF LoopInv
<1>8. status' = status /\ must' = must /\ earlier' = earlier /\ Sent' = Sent
  BY <1>3 DEF history, Sent
<1>9. Sents'
  <2>1. \A x \in Workers : \A n \in DOMAIN slots'[x] :
          slots'[x][n].kind = "task" => slots'[x][n].task \in Sent
    BY <1>0, <1>4, PopOld DEF Sents
  <2>2. ASSUME NEW i \in Bodies, status[i] = "queued"
        PROVE  \E x \in Workers : \E n \in DOMAIN slots'[x] : TaskAt(x, n, i)'
    <3>1. PICK x \in Workers : \E n \in DOMAIN slots[x] : TaskAt(x, n, i)
      BY <1>0, <2>2 DEF Sents
    <3>2. PICK n \in DOMAIN slots[x] : TaskAt(x, n, i)
      BY <3>1
    <3>3. x = w => n # 1
      BY <1>3, <3>2 DEF TaskAt
    <3>4. PICK k \in DOMAIN slots'[x] : n = Old(x, w, k)
      BY <1>4, <3>3, PopOld
    <3>5. slots'[x][k] = slots[x][n]
      BY <1>4, <3>4, PopOld
    <3> QED
      BY <3>2, <3>5 DEF TaskAt
  <2> QED
    BY <1>0, <1>8, <2>1, <2>2 DEF Sents
<1>10. BarrierOrder'
  BY <1>8 DEF OrderInv, BarrierOrder
<1> QED
  BY <1>6, <1>7, <1>9, <1>10

(***************************************************************************)
(* The step that leaves a slot                                             *)
(***************************************************************************)
\* The thread in the loop leaves slot w; r is what it has reached in this pass.
Leaves(t0, w, r) ==
  /\ IInv /\ IInv' /\ OrderInv
  /\ pos[t0] = w /\ InLoop(t0) /\ (Fresh(E(w)) \/ slots[w] = <<>>)
  /\ r \in Version /\ r = IF L(E(w)) = L(current) + 1 THEN E(w) ELSE step[t0]
  /\ UNCHANGED <<slots, next, barrier, pool, calls, taken, history>>
  /\ \A x \in Workers : x # w => E(x)' = E(x)
  /\ E(w)' = IF Fresh(E(w)) THEN E(w) ELSE current
  /\ \A u \in Workers : InLoop(u) => u = t0
  /\ \A u \in Workers : InLoop(u)' => u = t0 /\ step'[u] = r
  /\ \/ /\ w # NWorkers /\ current' = current
        /\ \A u \in Workers : InLoop(u)' => pos'[u] = w + 1
     \/ /\ w = NWorkers /\ current' = r
        /\ \A u \in Workers : InLoop(u)' => pos'[u] = 1

\* A thread has reached the current version, or the next one, that a slot it has
\* seen has taken.
LEMMA Reached ==
  ASSUME NEW t0 \in Workers, NEW w \in Workers, NEW r, Leaves(t0, w, r)
  PROVE  /\ \A v \in Version : L(v) \in Nat
         /\ current \in Version /\ \A x \in Workers : E(x) \in Version
         /\ \/ r = current
            \/ /\ Fresh(r) /\ L(r) = L(current) + 1
               /\ \E v \in Workers : v <= w /\ E(v) = r
<1>1. Levels /\ StepAt(t0) /\ IInv
  BY DEF Leaves, OrderInv, LoopInv
<1>2. /\ \A v \in Version : L(v) \in Nat
      /\ current \in Version /\ \A x \in Workers : E(x) \in Version
  BY <1>1, LevelBounds
<1>3. w \in Nat
  BY <1>1, SlotFacts DEF IInv
<1>4. CASE L(E(w)) = L(current) + 1
  <2>1. r = E(w) /\ Fresh(r) /\ L(r) = L(current) + 1
    BY <1>2, <1>4 DEF Leaves, Fresh
  <2> QED
    BY <1>2, <1>3, <2>1
<1>5. CASE L(E(w)) # L(current) + 1
  <2>1. r = step[t0] /\ pos[t0] = w
    BY <1>5 DEF Leaves
  <2>2. \/ r = current
        \/ /\ Fresh(r) /\ L(r) = L(current) + 1
           /\ \E v \in Workers : v < w /\ E(v) = r
    BY <1>1, <2>1 DEF StepAt
  <2>3. \A v \in Workers : v < w => v <= w
    BY <1>1, <1>3, SlotFacts DEF IInv
  <2> QED
    BY <1>2, <2>2, <2>3
<1> QED
  BY <1>4, <1>5

\* What is fresh after the step was fresh before it, and is not what has been reached.
LEMMA FreshAfter ==
  ASSUME NEW t0 \in Workers, NEW w \in Workers, NEW r, Leaves(t0, w, r), NEW g \in Version
  PROVE  /\ Fresh(g)' => Fresh(g)
         /\ Fresh(g) => Fresh(g)' \/ (g = r /\ w = NWorkers)
<1>1. Fresh(g)' <=> L(g) > L(current')
  BY DEF Fresh, L, Ahead
<1>2. L(g) \in Nat /\ L(current) \in Nat /\ r \in Version /\ L(r) \in Nat
  BY Reached DEF Leaves
<1>3. CASE current' = current
  BY <1>1, <1>2, <1>3 DEF Fresh
<1>4. CASE w = NWorkers /\ current' = r /\ L(r) = L(current) + 1
  <2>1. L(g) = L(r) => g = r
    BY <1>2, LevelOne
  <2> QED
    BY <1>1, <1>2, <1>4, <2>1 DEF Fresh
<1> QED
  BY <1>3, <1>4, Reached DEF Leaves

LEMMA LeaveBelow ==
  ASSUME NEW t0 \in Workers, NEW w \in Workers, NEW r, Leaves(t0, w, r),
         NEW x \in Workers, NEW m, NEW g \in Version, Below(x, m, g)
  PROVE  Below(x, m, g)'
<1>1. L(E(x))' < L(g)' \/ ~Fresh(E(x))'
  <2>1. CASE E(x)' = E(x)
    <3>1. PICK v \in Version : v = E(x)
      BY Reached
    <3>2. Fresh(v)' => Fresh(v)
      BY FreshAfter
    <3> QED
      BY <2>1, <3>1, <3>2 DEF Below, Fresh, L
  <2>2. CASE E(x)' # E(x)
    <3>1. E(x)' = current /\ current \in Version
      BY <2>2, Reached DEF Leaves
    <3>2. PICK v \in Version : v = current
      BY <3>1
    <3>3. ~Fresh(v)
      BY <3>2, Reached DEF Fresh
    <3>4. ~Fresh(v)'
      BY <3>3, FreshAfter
    <3> QED
      BY <3>1, <3>2, <3>4 DEF Fresh, L
  <2> QED
    BY <2>1, <2>2
<1>2. slots' = slots
  BY DEF Leaves
<1> QED
  BY <1>1, <1>2 DEF Below, L, Ahead

\* An item that a slot which is left still holds waits for a version that is ahead.
LEMMA HeldBack ==
  ASSUME NEW t0 \in Workers, NEW w \in Workers, NEW r, Leaves(t0, w, r),
         NEW m \in DOMAIN slots[w], NEW g \in Version, Below(w, m, g)
  PROVE  L(g) > L(current) + 1
<1>1. slots[w] # <<>>
  <2>1. DOMAIN slots[w] = 1..Len(slots[w])
    BY SlotFacts DEF Leaves, IInv
  <2> QED
    BY <2>1
<1>2. Fresh(E(w)) /\ E(w) \in Version
  BY <1>1, Reached DEF Leaves
<1> QED
  BY <1>2, Reached DEF Below, Fresh

LEMMA LeaveApart ==
  ASSUME NEW t0 \in Workers, NEW w \in Workers, NEW r, Leaves(t0, w, r),
         NEW x \in Workers, NEW m \in DOMAIN slots[x], NEW t \in Workers, NEW n,
         NEW g \in Version, Apart(x, m, t, n, g)
  PROVE  Apart(x, m, t, n, g)'
<1>0. /\ TypeOK /\ Distinct /\ Below(x, m, g) /\ slots' = slots /\ Below(x, m, g)'
      /\ x \in Nat /\ t \in Nat /\ w \in Nat /\ 1 <= x /\ x <= NWorkers /\ t <= NWorkers
      /\ NWorkers \in Nat
  BY LeaveBelow, SlotFacts, GridAssumption DEF Leaves, IInv, OrderInv, Apart
<1>1. x = w => L(g) > L(current) + 1
  BY <1>0, HeldBack
<1>2. /\ L(g) \in Nat /\ L(current) \in Nat /\ r \in Version /\ L(r) \in Nat
      /\ \/ r = current
         \/ /\ Fresh(r) /\ L(r) = L(current) + 1
            /\ \E v \in Workers : v <= w /\ E(v) = r
  BY Reached DEF Leaves
<1>3. CASE Fresh(g) /\ \E i \in 1..(n - 1) : BarrierAt(t, i, g) /\ (x = t => m < i)
  <2>1. PICK i \in 1..(n - 1) : BarrierAt(t, i, g) /\ (x = t => m < i)
    BY <1>3
  <2>2. g # r
    <3>1. \A v \in Workers : E(v) # g
      <4>1. i \in DOMAIN slots[t]
        BY <2>1 DEF BarrierAt
      <4> QED
        BY <1>0, <1>3, <2>1, <4>1 DEF Distinct
    <3>2. g # current
      BY <1>2, <1>3 DEF Fresh
    <3> QED
      BY <1>2, <3>1, <3>2
  <2>3. Fresh(g)'
    BY <1>3, <2>2, FreshAfter
  <2>4. BarrierAt(t, i, g)'
    BY <1>0, <2>1 DEF BarrierAt
  <2> QED
    BY <1>0, <2>1, <2>3, <2>4 DEF Apart
<1>4. CASE Waits(x, t, g)
  <2>1. /\ Fresh(g) /\ E(t) = g /\ x # t /\ E(t)' = g
        /\ (step[t0] = g => x < t \/ w <= x)
    BY <1>4 DEF Waits, Leaves
  <2>2. \A v \in Workers : E(v) = g => v = t
    BY <1>0, <2>1 DEF Distinct
  <2>3. r = g => L(g) = L(current) + 1 /\ x # w
    BY <1>1, <1>2, <2>1 DEF Fresh
  <2>4. r = g => t = w \/ step[t0] = g
    BY <2>2 DEF Leaves
  <2>5. r = g => x < t \/ w + 1 <= x
    BY <1>0, <2>1, <2>3, <2>4
  <2>6. CASE Fresh(g)'
    <3>1. \A u \in Workers : InLoop(u)' /\ step'[u] = g => x < t \/ pos'[u] <= x
      <4> SUFFICES ASSUME NEW u \in Workers, InLoop(u)', step'[u] = g
                   PROVE  x < t \/ pos'[u] <= x
        OBVIOUS
      <4>1. r = g
        BY DEF Leaves
      <4> QED
        BY <1>0, <2>5, <4>1 DEF Leaves
    <3>2. Waits(x, t, g)'
      BY <2>1, <2>6, <3>1 DEF Waits
    <3> QED
      BY <1>0, <3>2 DEF Apart
  <2>7. CASE ~Fresh(g)'
    <3>1. g = r /\ w = NWorkers
      BY <2>1, <2>7, FreshAfter
    <3>2. x < t
      BY <1>0, <2>5, <3>1
    <3>3. Later(x, t)'
      BY <1>0, <3>1, <3>2 DEF Later, Leaves
    <3> QED
      BY <1>0, <2>7, <3>3 DEF Apart
  <2> QED
    BY <2>6, <2>7
<1>5. CASE ~Fresh(g) /\ Later(x, t)
  <2>1. ~Fresh(g)'
    BY <1>5, FreshAfter
  <2>2. x # w
    BY <1>1, <1>2, <1>5 DEF Fresh
  <2>3. x < t /\ w <= x
    BY <1>5 DEF Later, Leaves
  <2>4. Later(x, t)'
    BY <1>0, <2>2, <2>3 DEF Later, Leaves
  <2> QED
    BY <1>0, <2>1, <2>4 DEF Apart
<1> QED
  BY <1>3, <1>4, <1>5 DEF Apart

LEMMA LeavePairs ==
  ASSUME NEW t0 \in Workers, NEW w \in Workers, NEW r, Leaves(t0, w, r)
  PROVE  EarlierInv' /\ MustInv'
<1>0. /\ EarlierInv /\ MustInv /\ Distinct /\ slots' = slots /\ earlier' = earlier
      /\ must' = must /\ taken' = taken
  BY DEF Leaves, OrderInv, history
<1>1. ASSUME NEW x \in Workers, NEW m, NEW k PROVE TaskAt(x, m, k)' <=> TaskAt(x, m, k)
  BY <1>0 DEF TaskAt
<1>2. EarlierInv'
  <2> SUFFICES ASSUME NEW t \in Workers, NEW x \in Workers, NEW k \in earlier[t],
                      NEW m \in DOMAIN slots[x], TaskAt(x, m, k)'
               PROVE  \E g \in Version : \/ Apart(x, m, t, Len(slots[t]) + 1, g)'
                                         \/ Below(x, m, g)' /\ Fresh(g)' /\ taken'[t] = g
    BY <1>0 DEF EarlierInv, Version
  <2>1. PICK n : n = Len(slots[t]) + 1 /\ n = Len(slots'[t]) + 1
    BY <1>0
  <2>2. PICK g \in Version : \/ Apart(x, m, t, n, g)
                             \/ Below(x, m, g) /\ Fresh(g) /\ taken[t] = g
    BY <1>0, <1>1, <2>1 DEF EarlierInv
  <2>3. CASE Apart(x, m, t, n, g)
    <3>1. Apart(x, m, t, n, g)'
      BY <2>3, LeaveApart
    <3> QED
      BY <2>1, <3>1
  <2>4. CASE Below(x, m, g) /\ Fresh(g) /\ taken[t] = g
    <3>1. Below(x, m, g)'
      BY <2>4, LeaveBelow
    <3>2. g # r
      <4>1. \A v \in Workers : E(v) # g
        BY <1>0, <2>4 DEF Distinct
      <4>2. g # current
        BY <2>4, Reached DEF Fresh
      <4> QED
        BY <4>1, <4>2, Reached
    <3>3. Fresh(g)'
      BY <2>4, <3>2, FreshAfter
    <3> QED
      BY <1>0, <2>4, <3>1, <3>3
  <2> QED
    BY <2>2, <2>3, <2>4
<1>3. MustInv'
  <2> SUFFICES ASSUME NEW t \in Workers, NEW x \in Workers, NEW n \in DOMAIN slots[t],
                      NEW m \in DOMAIN slots[x], NEW j \in Bodies, NEW k \in Bodies,
                      TaskAt(t, n, j)', TaskAt(x, m, k)', k \in must[j]
               PROVE  \E g \in Version : Apart(x, m, t, n, g)'
    BY <1>0 DEF MustInv, Version
  <2>1. PICK g \in Version : Apart(x, m, t, n, g)
    BY <1>0, <1>1 DEF MustInv
  <2> QED
    BY <2>1, LeaveApart
<1> QED
  BY <1>2, <1>3

LEMMA LeaveStorage ==
  ASSUME NEW t0 \in Workers, NEW w \in Workers, NEW r, Leaves(t0, w, r)
  PROVE  /\ Distinct' /\ Sents' /\ BarrierOrder' /\ L(current)' <= Drawn
         /\ \A u \in Workers : InLoop(u)' => StepAt(u)'
<1>0. /\ Distinct /\ Sents /\ BarrierOrder /\ Levels /\ IInv
      /\ UNCHANGED <<slots, taken, pool, status, earlier, must>>
  BY DEF Leaves, OrderInv, history
<1>1. Sents' /\ BarrierOrder'
  BY <1>0 DEF Sents, BarrierOrder, Sent, TaskAt
<1>2. \A y \in Workers : E(y) \in Version /\ current \in Version
  BY Reached
<1>3. ASSUME NEW y \in Workers, Fresh(E(y))' PROVE Fresh(E(y)) /\ E(y)' = E(y)
  <2>1. PICK v \in Version : v = E(y)'
    BY <1>2 DEF Leaves
  <2>2. Fresh(v)
    <3>1. Fresh(v)'
      BY <1>3, <2>1 DEF Fresh, L
    <3> QED
      BY <3>1, FreshAfter
  <2>3. v # current
    BY <2>2, <1>2, Reached DEF Fresh
  <2> QED
    BY <2>1, <2>2, <2>3 DEF Leaves
<1>4. Distinct'
  <2>1. ASSUME NEW y \in Workers, Fresh(E(y))'
        PROVE  /\ E(y)' \notin pool
               /\ \A u \in Workers : taken[u] # E(y)' /\ (u # y => E(u)' # E(y)')
               /\ \A x \in Workers : \A n \in DOMAIN slots[x] : ~BarrierAt(x, n, E(y))
    <3>1. Fresh(E(y)) /\ E(y)' = E(y)
      BY <1>3, <2>1
    <3>2. \A u \in Workers : u # y => E(u)' # E(y)
      <4>1. E(y) # current
        BY <3>1, <1>2, Reached DEF Fresh
      <4>2. \A u \in Workers : E(u)' = E(u) \/ E(u)' = current
        BY DEF Leaves
      <4> QED
        BY <1>0, <3>1, <4>1, <4>2 DEF Distinct
    <3> QED
      BY <1>0, <3>1, <3>2 DEF Distinct
  <2>2. ASSUME NEW y \in Workers, Fresh(E(y))'
        PROVE  \A x \in Workers : \A n \in DOMAIN slots[x] : ~BarrierAt(x, n, E(y))'
    BY <1>0, <1>3, <2>1, <2>2 DEF BarrierAt
  <2>3. \A x \in Workers : \A n, v : BarrierAt(x, n, v)' <=> BarrierAt(x, n, v)
    BY <1>0 DEF BarrierAt
  <2>4. /\ \A x, y \in Workers : \A n \in DOMAIN slots'[x], m \in DOMAIN slots'[y], v \in Version :
             BarrierAt(x, n, v)' /\ BarrierAt(y, m, v)' => x = y /\ n = m
        /\ \A x, u \in Workers : \A n \in DOMAIN slots'[x] : ~BarrierAt(x, n, taken[u])'
        /\ \A x \in Workers : \A n \in DOMAIN slots'[x] : \A v \in pool' : ~BarrierAt(x, n, v)'
        /\ \A a, u \in Workers : a # u => taken'[a] # taken'[u] \/ taken'[a] = -1
        /\ \A a \in Workers : taken'[a] \notin pool'
    BY <1>0, <2>3 DEF Distinct, BarrierAt
  <2> QED
    BY <1>0, <2>1, <2>2, <2>4 DEF Distinct
<1>5. L(current)' <= Drawn
  <2>1. L(current) <= Drawn /\ \A v \in Workers : L(E(v)) <= Drawn
    BY <1>0, LevelBounds
  <2>2. L(current)' = L(current) \/ L(current)' = L(r)
    BY DEF Leaves, L
  <2> QED
    BY <2>1, <2>2, Reached
<1>6. ASSUME NEW u \in Workers, InLoop(u)' PROVE StepAt(u)'
  <2>1. step'[u] = r
    BY <1>6 DEF Leaves
  <2>2. CASE current' = r
    BY <2>1, <2>2 DEF StepAt
  <2>3. CASE r = current /\ current' = current
    BY <2>1, <2>3 DEF StepAt
  <2>4. CASE current' = current /\ r # current /\ pos'[u] = w + 1
    <3>1. PICK v \in Workers : v <= w /\ E(v) = r /\ Fresh(r) /\ L(r) = L(current) + 1
      BY <2>4, Reached
    <3>2. E(v)' = r
      BY <3>1 DEF Leaves
    <3>3. v < w + 1
      BY <1>0, <3>1, SlotFacts DEF IInv
    <3> QED
      BY <2>1, <2>4, <3>1, <3>2, <3>3 DEF StepAt, Fresh, L
  <2> QED
    BY <1>6, <2>2, <2>3, <2>4 DEF Leaves
<1> QED
  BY <1>0, <1>1, <1>4, <1>5, <1>6

LEMMA LeaveSlotOrder ==
  ASSUME IInv, IInv', OrderInv, Yielding = {}, NEW t \in Workers, LeaveSlot(t)
  PROVE  Levels' /\ Distinct' /\ LoopInv' /\ Sents' /\ EarlierInv' /\ MustInv' /\ BarrierOrder'
<1>0. TypeOK /\ TypeOK' /\ Levels
  BY DEF IInv, OrderInv
<1>1. PICK w \in Workers : w = pos[t]
  BY <1>0 DEF TypeOK
<1>2. PICK r : r = IF versions[w] = Plus(current, 1) THEN versions[w] ELSE step[t]
  OBVIOUS
<1>3. /\ pc[t] = "look" /\ (~Open(w) \/ slots[w] = <<>>)
      /\ versions' = [versions EXCEPT ![w] =
                    IF @ # Plus(current, 1) /\ AtLeast(current, @) THEN current ELSE @]
      /\ step' = [step EXCEPT ![t] = r]
      /\ \/ /\ w # NWorkers /\ current' = current /\ pos' = [pos EXCEPT ![t] = w + 1]
            /\ pc' = [pc EXCEPT ![t] = "enter"]
         \/ /\ w = NWorkers /\ current' = r /\ pos' = [pos EXCEPT ![t] = 1]
            /\ pc' = [pc EXCEPT ![t] = IF found[t] THEN "enter" ELSE "idle"]
      /\ UNCHANGED <<slots, next, barrier, pool, calls, job, taken, history>>
  BY <1>1, <1>2 DEF LeaveSlot
<1>4. \A u \in Workers : InLoop(u) => u = t
  BY <1>3, Alone DEF InLoop
<1>5. \A u \in Workers : /\ pc[u] # "after" /\ pc'[u] \notin {"after", "look", "body"}
                         /\ InLoop(u)' => u = t
  BY <1>0, <1>3, <1>4 DEF InLoop, TypeOK
<1>6. \A x \in Workers : E(x) = versions[x] /\ E(x)' = versions'[x]
  BY <1>5 DEF E
<1>7. Open(w) <=> ~Fresh(E(w))
  BY <1>0, <1>6, OpenFresh DEF OrderInv
<1>8. /\ E(w) \in Version /\ current \in Version /\ Modulus \in Nat /\ L(current) \in Nat
      /\ L(E(w)) \in Nat /\ (L(current) + 1 < Modulus)
  <2>1. E(w) \in Version /\ current \in Version /\ Modulus \in Nat /\ L(current) \in Nat
        /\ L(E(w)) \in Nat
    BY <1>0, LevelBounds
  <2>2. L(current) + 1 < Modulus
    <3>1. 2 * Drawn < Modulus /\ Drawn \in Nat /\ L(current) <= Drawn
      BY <1>0, LevelBounds
    <3>2. 2 <= Modulus
      BY ModulusFacts
    <3> QED
      BY <2>1, <3>1, <3>2
  <2> QED
    BY <2>1, <2>2
<1>9. versions[w] = Plus(current, 1) <=> L(E(w)) = L(current) + 1
  <2>1. Plus(current, 1) \in Version /\ L(Plus(current, 1)) = L(current) + 1
    BY <1>8, LevelNext
  <2>2. L(E(w)) = L(Plus(current, 1)) => E(w) = Plus(current, 1)
    BY <1>8, <2>1, LevelOne
  <2> QED
    BY <1>6, <2>1, <2>2
<1>10. E(w)' = IF Fresh(E(w)) THEN E(w) ELSE current
  <2>1. versions'[w] = IF versions[w] # Plus(current, 1) /\ AtLeast(current, versions[w])
                       THEN current ELSE versions[w]
    BY <1>0, <1>3 DEF TypeOK
  <2>2. AtLeast(current, versions[w]) <=> ~Fresh(E(w))
    BY <1>7 DEF Open
  <2>3. versions[w] = Plus(current, 1) => Fresh(E(w))
    BY <1>8, <1>9 DEF Fresh
  <2> QED
    BY <1>6, <2>1, <2>2, <2>3
<1>11. \A x \in Workers : x # w => E(x)' = E(x)
  BY <1>0, <1>3, <1>6 DEF TypeOK
<1>12. Leaves(t, w, r)
  <2>1. r \in Version /\ r = IF L(E(w)) = L(current) + 1 THEN E(w) ELSE step[t]
    <3>1. r = IF L(E(w)) = L(current) + 1 THEN E(w) ELSE step[t]
      BY <1>2, <1>6, <1>9
    <3> QED
      BY <1>0, <1>8, <3>1 DEF TypeOK
  <2>2. InLoop(t) /\ (Fresh(E(w)) \/ slots[w] = <<>>)
    BY <1>3, <1>7 DEF InLoop
  <2>3. \A u \in Workers : InLoop(u)' => u = t /\ step'[u] = r
    BY <1>0, <1>3, <1>5 DEF TypeOK
  <2>4. \/ /\ w # NWorkers /\ current' = current
           /\ \A u \in Workers : InLoop(u)' => pos'[u] = w + 1
        \/ /\ w = NWorkers /\ current' = r
           /\ \A u \in Workers : InLoop(u)' => pos'[u] = 1
    BY <1>0, <1>3, <1>5 DEF TypeOK
  <2>5. UNCHANGED <<slots, next, barrier, pool, calls, taken, history>>
    BY <1>3
  <2> QED
    BY <1>1, <1>4, <1>10, <1>11, <2>1, <2>2, <2>3, <2>4, <2>5 DEF Leaves
<1>13. /\ EarlierInv' /\ MustInv' /\ Distinct' /\ Sents' /\ BarrierOrder' /\ L(current)' <= Drawn
       /\ \A u \in Workers : InLoop(u)' => StepAt(u)'
  BY <1>12, LeavePairs, LeaveStorage
<1>14. LoopInv'
  BY <1>5, <1>13 DEF LoopInv
<1>15. Levels'
  <2>1. Drawn' = Drawn
    BY <1>3 DEF Drawn
  <2>2. \A x \in Workers : L(versions[x])' <= Drawn
    <3>1. L(E(w))' <= Drawn /\ \A x \in Workers : L(E(x)) <= Drawn
      BY <1>0, <1>10, LevelBounds DEF L
    <3> QED
      BY <1>6, <1>11, <3>1 DEF L
  <2> QED
    BY <1>0, <1>3, <1>13, <2>1, <2>2 DEF Levels, L
<1> QED
  BY <1>13, <1>14, <1>15

(***************************************************************************)
(* The order of barriers                                                   *)
(***************************************************************************)
LEMMA InitOrder == Init => OrderInv
<1> SUFFICES ASSUME Init PROVE OrderInv
  OBVIOUS
<1>1. TypeOK /\ L(First) = 0
  <2>1. First \in Version /\ First >= First
    BY WorkerFacts DEF Version
  <2>2. L(First) = First - First
    BY <2>1, LevelOf
  <2> QED
    BY <2>1, <2>2, InitInv DEF IInv, Version
<1>2. \A x \in Workers : slots[x] = <<>> /\ DOMAIN slots[x] = {} /\ E(x) = First /\ ~InLoop(x)
  BY DEF Init, E, InLoop
<1>3. ~Fresh(First)
  BY <1>1 DEF Fresh, Init
<1>4. Levels
  <2>1. Drawn = 0 /\ calls.worker = 0 /\ calls.external = 0
    BY DEF Init, Drawn
  <2> QED
    BY <1>1, <1>2, <2>1, GridAssumption DEF Init, Levels
<1>5. Distinct
  BY <1>2, <1>3 DEF Init, Distinct
<1>6. LoopInv
  BY <1>2 DEF Init, LoopInv
<1>7. Sents /\ Jobs /\ BarrierOrder
  BY <1>2 DEF Init, Sents, Jobs, BarrierOrder
<1>8. EarlierInv /\ MustInv
  BY <1>2 DEF Init, EarlierInv, MustInv
<1> QED
  BY <1>4, <1>5, <1>6, <1>7, <1>8 DEF OrderInv

\* Steps that only flush, suspend or resume.
LEMMA QuietOrder ==
  ASSUME OrderInv, UNCHANGED <<storage, barrier, pool, pc, loop, job, taken, history>>,
         calls'.worker = calls.worker, calls'.external = calls.external
  PROVE  OrderInv'
BY DEF storage, loop, history, OrderInv, Levels, Distinct, LoopInv, Sents, Jobs, EarlierInv,
   MustInv, BarrierOrder, L, Drawn, InLoop, E, BarrierAt, TaskAt, Fresh, StepAt, Below, Later,
   Waits, Apart, Sent

LEMMA StepOrder ==
  ASSUME IInv, IInv', OrderInv, Yielding = {}, [Next]_vars
  PROVE  OrderInv'
<1>1. CASE UNCHANGED vars
  BY <1>1, QuietOrder DEF vars, storage, loop, history
<1>0. CASE Suspend \/ Resume \/ \E t \in Workers : Discard(t)
  <2>1. calls \in [{"worker", "external", "suspend"} -> Nat]
    BY DEF IInv, TypeOK
  <2>2. calls'.worker = calls.worker /\ calls'.external = calls.external
    BY <1>0, <2>1 DEF Suspend, Resume, Discard
  <2> QED
    BY <1>0, <2>2, QuietOrder DEF Suspend, Resume, Discard
<1>2. Next => Jobs' /\ [Next]_vars
  BY JobsStay DEF OrderInv
<1>3. CASE ExternalBarrier
  <2>1. Next
    BY <1>3 DEF Next
  <2> QED
    BY <1>2, <1>3, <2>1, ExternalOrder DEF OrderInv
<1>4. ASSUME NEW t \in Workers,
             \/ \E j \in Bodies : Post(t, j)
             \/ TakeVersion(t) \/ PostBarrier(t)
             \/ \E v \in pool : RunExternal(t, v)
             \/ Execute(t) \/ Yield(t)
      PROVE  OrderInv'
  <2>1. Jobs'
    BY <1>2, <1>4 DEF Next
  <2>2. CASE \E j \in Bodies : Post(t, j)
    <3>1. PICK j \in Bodies : Post(t, j)
      BY <2>2
    <3> QED
      BY <2>1, <3>1, PostOrder DEF OrderInv
  <2>3. CASE TakeVersion(t)
    BY <2>1, <2>3, TakeVersionOrder DEF OrderInv
  <2>4. CASE PostBarrier(t)
    BY <2>1, <2>4, PostBarrierOrder DEF OrderInv
  <2>5. CASE \E v \in pool : RunExternal(t, v)
    <3>1. PICK v \in pool : RunExternal(t, v)
      BY <2>5
    <3> QED
      BY <2>1, <3>1, RunExternalOrder DEF OrderInv
  <2>6. CASE Begin(t) \/ EnterSlot(t) \/ EndBody(t) \/ GoOn(t) \/ StopSuspended(t)
    <3>1. Still /\ LoopInv'
      BY <2>6, StillSteps
    <3> QED
      BY <2>1, <3>1, StillOrder DEF OrderInv
  <2>7. CASE RunTask(t)
    BY <2>1, <2>7, RunTaskOrder DEF OrderInv
  <2>8. CASE RunBarrier(t)
    BY <2>1, <2>8, RunBarrierOrder DEF OrderInv
  <2>9. CASE LeaveSlot(t)
    BY <2>1, <2>9, LeaveSlotOrder DEF OrderInv
\* No body yields, so nobody finds that it has lost the warp.
  <2>10. ~Yield(t)
    BY DEF Yield
  <2>11. ~StopYielded(t)
    BY Alone DEF StopYielded, TakeNext, InLoop
  <2> QED
    BY <1>0, <1>4, <2>2, <2>3, <2>4, <2>5, <2>6, <2>7, <2>8, <2>9, <2>10, <2>11 DEF Execute
<1> QED
  BY <1>0, <1>1, <1>3, <1>4 DEF Next

\* A routine that a thread queues after a barrier is started only when every routine
\* that anybody had queued before that barrier has been started, whatever the number of
\* workers and barriers and wherever the versions wrap around, if no body yields: the
\* finding on queue_barrier shows that with yields it may fail.
THEOREM BarriersKeepOrder == ASSUME Yielding = {} PROVE Spec => []BarrierOrder
<1>1. Yielding = {}
  OBVIOUS
<1>2. Init => IInv /\ OrderInv
  BY InitInv, InitOrder
<1>3. IInv /\ OrderInv /\ [Next]_vars => IInv' /\ OrderInv'
  BY <1>1, StepInv, StepOrder
<1>4. IInv /\ OrderInv => BarrierOrder
  BY DEF OrderInv
<1> QED
  BY <1>2, <1>3, <1>4, PTL DEF Spec
====
