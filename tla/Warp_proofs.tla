---------------------------- MODULE Warp_proofs ----------------------------
(***************************************************************************)
(* Proofs about Warp, for every number of threads and tasks.               *)
(*                                                                         *)
(* The argument: thread_warp names exactly the thread that holds the warp  *)
(* (Control), so at most one thread holds the license to run normal tasks. *)
(* A parallel task that has been released counts in suspend_count; it is   *)
(* released only when the warp has no owner or by the owner before it      *)
(* takes the license, and the license is only taken by an owner that saw   *)
(* suspend_count at zero (Licensed).                                       *)
(***************************************************************************)
EXTENDS Warp, FiniteSetTheorems, TLAPS

\* Accesses inside a call: the thread goes back to ret or to a parallel task.
Inner == {"flush", "flush_xchg", "flush_queue", "yield_xchg", "par_check",
          "par_push", "res_xchg", "shared"}

\* What holds of one thread, given where it is.
ControlAt(t) ==
  /\ owner = t <=> hold[t] \in {"guard", "run"}
  /\ pc[t] \in {"qr_recheck", "ex_recheck", "ex_par", "ex_sus", "ex_pend"} => hold[t] = "guard"
  /\ pc[t] \in {"ex_start", "scan"} => hold[t] = "run"
  /\ pc[t] \in {"body", "after_body"} => hold[t] \in {"run", "gone"}
  /\ pc[t] \in {"idle", "qr_cas", "ex_cas", "ex_tail", "tail_cas", "poll_scan",
                "poll_cas", "poll_resume"} => hold[t] = "none"
  /\ pc[t] = "qr_post" => hold[t] \in {"none", "guard"}
  /\ pc[t] = "yield" => hold[t] # "none"
  /\ pc[t] \in Inner =>
       /\ ret[t] = "body" => hold[t] \in {"run", "gone"}
       /\ ret[t] = "yield" => hold[t] = "guard"
       /\ ret[t] \in {"idle", "ex_tail", "poll_resume"} => hold[t] = "none"
  /\ ret[t] = "body" => pc[t] \in Inner \cup {"body"}
  /\ job[t] # None <=> \/ pc[t] \in {"qr_cas", "qr_recheck", "qr_post", "body"}
                       \/ ret[t] = "body"
  /\ par[t] # None => pc[t] \in {"par_check", "par_push", "shared", "flush",
                                 "flush_xchg", "flush_queue"}
  /\ pc[t] \in {"par_check", "par_push", "shared"} =>
       par[t] # None /\ ret[t] \in {"idle", "body"}
  /\ par[t] # None => ret[t] \in {"idle", "body"}
  /\ pc[t] \in {"poll_scan", "poll_cas"} \/ after[t] = "poll_resume" => t \in Pollers

Control == \A t \in Threads : ControlAt(t)


(***************************************************************************)
(* Types                                                                   *)
(***************************************************************************)
LEMMA SlotFacts ==
  /\ 1 \in Slots
  /\ \A t \in Threads : ~ViaPool(t) => MySlot(t) \in Slots
BY WarpAssumption DEF Slots, Threads, Workers, ViaPool, MySlot

\* Where a call may return to is a place in the code.
LEMMA ReturnFacts == ASSUME TypeOK, NEW t \in Threads
                     PROVE ret[t] \in PCs /\ after[t] \in PCs /\ Back(t) \in PCs
<1>1. {"idle", "body", "yield", "ex_tail", "poll_resume", "shared"} \subseteq PCs
  BY DEF PCs
<1>2. ret[t] \in PCs /\ after[t] \in PCs
  BY <1>1 DEF TypeOK, RetPCs
<1> QED
  BY <1>1, <1>2 DEF Back

LEMMA PCFacts ==
  /\ {"idle", "body", "shared", "qr_cas", "qr_recheck", "qr_post"} \subseteq PCs
  /\ {"flush", "flush_xchg", "flush_queue", "yield", "yield_xchg", "ex_cas"} \subseteq PCs
  /\ {"ex_recheck", "ex_par", "ex_sus", "ex_pend", "ex_start", "scan"} \subseteq PCs
  /\ {"after_body", "ex_tail", "tail_cas", "par_check", "par_push", "res_xchg"} \subseteq PCs
  /\ {"poll_scan", "poll_cas", "poll_resume"} \subseteq PCs
BY DEF PCs

\* Put writes what its variables may hold.
LEMMA PutTypes ==
  ASSUME TypeOK, NEW t \in Threads, NEW j \in Normal,
         NEW to \in {"idle", "body", "yield", "shared"},
         to = "shared" => pc[t] = "shared",
         Put(t, j, to)
  PROVE  /\ storage' \in [Slots -> Seq(Normal)] /\ poolExt' \subseteq Normal
         /\ pc' \in [Threads -> PCs] /\ ret' \in [Threads -> RetPCs]
<1>0. to \in PCs
  BY PCFacts
<1>1. CASE ViaPool(t)
  BY <1>0, <1>1 DEF Put, Goto, TypeOK
<1>2. CASE ~ViaPool(t)
  <2>1. MySlot(t) \in Slots
    BY <1>2, SlotFacts
  <2>2. storage' \in [Slots -> Seq(Normal)]
    <3>1. Append(storage[MySlot(t)], j) \in Seq(Normal)
      BY <2>1 DEF TypeOK
    <3> QED
      BY <1>2, <2>1, <3>1 DEF Put, TypeOK
  <2>3. ret' \in [Threads -> RetPCs]
    BY <1>2 DEF Put, TypeOK, RetPCs
  <2> QED
    BY <1>2, <2>2, <2>3, PCFacts DEF Put, Goto, TypeOK
<1> QED
  BY <1>1, <1>2

\* Every step keeps the types.
LEMMA TypeStep == ASSUME TypeOK, Control, [Next]_vars PROVE TypeOK'
<1>a. CASE UNCHANGED vars
  BY <1>a DEF vars, TypeOK
<1>b. CASE Next
  <2> PICK t \in Threads : Client(t) \/ Internal(t) \/ Resumes(t)
    BY <1>b DEF Next
  <2>0. ControlAt(t) /\ ret[t] \in PCs /\ after[t] \in PCs /\ Back(t) \in PCs
    BY ReturnFacts DEF Control
  <2>c. /\ pc[t] \in {"qr_cas", "qr_recheck", "qr_post", "body"} => job[t] \in Normal
        /\ pc[t] \in {"par_check", "par_push", "shared"} => par[t] \in Parallels
    BY <2>0 DEF ControlAt, TypeOK
  <2>d. Jobs = Normal \cup Parallels /\ Posted \cup Called = Normal
    BY DEF Jobs, Normal
  <2>e. Parallels \cup Raw \cup Pollers = Tokens /\ Pollers \subseteq Threads
    BY WarpAssumption DEF Tokens
  <2> USE PCFacts DEF Goto, Step, Mark, InClient, Put, Preempt, BeginQueue, Resume, RunsPool, pool, thread, scan, TypeOK, HoldStates, RetPCs
  <2>1. ASSUME NEW j \in Posted, Post(t, j) PROVE TypeOK'
    <3>1. j \in Normal /\ Put(t, j, pc[t])
      BY <2>1, <2>d DEF Post
    <3>2. pc[t] \in {"idle", "body", "shared"}
      BY <2>1 DEF Post
    <3>3. /\ storage' \in [Slots -> Seq(Normal)] /\ poolExt' \subseteq Normal
          /\ pc' \in [Threads -> PCs] /\ ret' \in [Threads -> RetPCs]
      BY <3>1, <3>2, PutTypes
    <3> QED
      BY <2>1, <2>d, <3>3 DEF Post
  <2>2. ASSUME NEW j \in Called, QueueRoutine(t, j) PROVE TypeOK'
    BY <2>2, <2>c, <2>d, <2>e DEF QueueRoutine
  <2>3. ASSUME NEW j \in Called, QueueInside(t, j) PROVE TypeOK'
    <3>1. CASE suspended = {}
      BY <2>3, <2>d, <3>1 DEF QueueInside
    <3>2. CASE suspended # {}
      <4>1. j \in Normal /\ Put(t, j, "body")
        BY <2>3, <2>d, <3>2 DEF QueueInside
      <4>2. /\ storage' \in [Slots -> Seq(Normal)] /\ poolExt' \subseteq Normal
            /\ pc' \in [Threads -> PCs] /\ ret' \in [Threads -> RetPCs]
        BY <4>1, PutTypes
      <4> QED
        BY <2>3, <2>d, <3>2, <4>2 DEF QueueInside
    <3> QED
      BY <3>1, <3>2
  <2>4. ASSUME NEW j \in Normal, TakeExternal(t, j) PROVE TypeOK'
    BY <2>4, <2>c, <2>d, <2>e DEF TakeExternal
  <2>5. ASSUME NEW p \in Parallels, QueueParallel(t, p) PROVE TypeOK'
    BY <2>5, <2>c, <2>d, <2>e DEF QueueParallel
  <2>6. ASSUME NEW p \in Parallels, TakeParallel(t, p) PROVE TypeOK'
    BY <2>6, <2>c, <2>d, <2>e DEF TakeParallel
  <2>7. ASSUME NEW s \in Raw, RawSuspend(t, s) PROVE TypeOK'
    BY <2>7, <2>c, <2>d, <2>e DEF RawSuspend
  <2>8. ASSUME NEW s \in Raw, RawResume(t, s) PROVE TypeOK'
    BY <2>8, <2>c, <2>d, <2>e DEF RawResume
  <2>9. CASE QueueCas(t)
    BY ZenonT(30), <2>9, <2>c, <2>d, <2>e DEF QueueCas
  <2>10. CASE QueueRecheck(t)
    <3>1. CASE suspended = {}
      <4>1. job[t] \in Jobs
        BY <2>10, <2>c, <2>d DEF QueueRecheck
      <4>2. status' \in [Jobs -> {"new", "queued", "running", "detached", "done"}]
        BY <2>10, <3>1, <4>1 DEF QueueRecheck
      <4>3. pc' \in [Threads -> PCs] /\ hold' \in [Threads -> HoldStates]
        BY ZenonT(30), <2>10, <3>1 DEF QueueRecheck
      <4> QED
        BY <2>10, <4>2, <4>3 DEF QueueRecheck
    <3>2. CASE suspended # {}
      BY <2>10, <3>2 DEF QueueRecheck
    <3> QED
      BY <3>1, <3>2
  <2>11. CASE QueuePost(t)
    <3> DEFINE to == IF hold[t] = "guard" THEN "yield" ELSE "idle"
    <3>1. job[t] \in Normal /\ Put(t, job[t], to) /\ to \in {"idle", "yield"}
      BY <2>11, <2>c DEF QueuePost
    <3>2. /\ storage' \in [Slots -> Seq(Normal)] /\ poolExt' \subseteq Normal
          /\ pc' \in [Threads -> PCs] /\ ret' \in [Threads -> RetPCs]
      BY <3>1, PutTypes
    <3> QED
      BY <2>11, <3>2 DEF QueuePost
  <2>12. CASE Flush(t)
    BY <2>12, <2>c, <2>d, <2>e, <2>0 DEF Flush
  <2>13. CASE FlushExchange(t)
    BY <2>13, <2>c, <2>d, <2>e, <2>0 DEF FlushExchange
  <2>14. CASE FlushQueue(t)
    BY <2>14, <2>c, <2>d, <2>e, <2>0 DEF FlushQueue
  <2>15. CASE Yield(t)
    BY <2>15, <2>c, <2>d, <2>e, <2>0 DEF Yield
  <2>16. CASE YieldExchange(t)
    BY <2>16, <2>c, <2>d, <2>e, <2>0 DEF YieldExchange
  <2>17. CASE YieldInside(t)
    BY <2>17, <2>c, <2>d, <2>e DEF YieldInside
  <2>18. CASE TakeExecute(t)
    <3>1. execs' \in Nat
      BY <2>18 DEF TakeExecute
    <3>2. pc' \in [Threads -> PCs] /\ after' \in [Threads -> {"idle", "ex_tail", "poll_resume"}]
      BY <2>18 DEF TakeExecute
    <3> QED
      BY <2>18, <3>1, <3>2 DEF TakeExecute
  <2>19. CASE ExecuteCas(t)
    BY ZenonT(30), <2>19, <2>c, <2>d, <2>e DEF ExecuteCas
  <2>20. CASE ExecuteRecheck(t)
    BY <2>20, <2>c, <2>d, <2>e DEF ExecuteRecheck
  <2>21. CASE ExecuteParallel(t)
    BY ZenonT(30), <2>21, <2>c, <2>d, <2>e DEF ExecuteParallel
  <2>22. CASE ExecuteCheck(t)
    BY ZenonT(30), <2>22, <2>c, <2>d, <2>e DEF ExecuteCheck
  <2>23. CASE ExecutePending(t)
    BY <2>23, <2>c, <2>d, <2>e DEF ExecutePending
  <2>24. CASE ExecuteStart(t)
    BY <2>24, <2>c, <2>d, <2>e DEF ExecuteStart
  <2>25. CASE Scan(t)
    <3>0. storage[slot[t]] \in Seq(Normal) /\ slot[t] \in Slots
      OBVIOUS
    <3>1. CASE storage[slot[t]] # <<>>
      <4>1. /\ Head(storage[slot[t]]) \in Normal
            /\ Tail(storage[slot[t]]) \in Seq(Normal)
        BY <3>0, <3>1
      <4> DEFINE j == Head(storage[slot[t]])
      <4>2. /\ job' = [job EXCEPT ![t] = j]
            /\ storage' = [storage EXCEPT ![slot[t]] = Tail(storage[slot[t]])]
            /\ found' = [found EXCEPT ![t] = TRUE]
            /\ status' = [status EXCEPT ![j] = "running"]
            /\ pc' = [pc EXCEPT ![t] = "body"]
            /\ UNCHANGED <<hold, slot, owner, suspended, queueing, parallel, execs,
                            poolPar, poolExt, ret, after, par>>
        BY <2>25, <3>0, <3>1 DEF Scan
      <4> HIDE DEF j
      <4>3. storage' \in [Slots -> Seq(Normal)]
        BY <3>0, <4>1, <4>2
      <4>4. job' \in [Threads -> Normal \cup {None}]
        BY <4>1, <4>2 DEF j
      <4>5. status' \in [Jobs -> {"new", "queued", "running", "detached", "done"}]
        BY <2>d, <4>1, <4>2 DEF j
      <4>6. pc' \in [Threads -> PCs] /\ found' \in [Threads -> BOOLEAN]
        BY <4>2
      <4> QED
        BY <4>2, <4>3, <4>4, <4>5, <4>6
    <3>2. CASE storage[slot[t]] = <<>>
      <4>1. slot' \in [Threads -> Slots]
        BY <2>25, <3>2, SlotFacts DEF Scan
      <4>2. CASE slot[t] + 1 \in Slots
        BY <2>25, <3>2, <4>1, <4>2 DEF Scan
      <4>3. CASE slot[t] + 1 \notin Slots
        <5>1. pc' \in [Threads -> PCs] /\ hold' \in [Threads -> HoldStates]
          <6>1. CASE found[t]
            BY <2>25, <3>2, <4>3, <6>1 DEF Scan
          <6>2. CASE ~found[t]
            <7>1. pc' = [pc EXCEPT ![t] = "yield"] /\ hold' = [hold EXCEPT ![t] = "guard"]
              BY <2>25, <3>2, <4>3, <6>2 DEF Scan
            <7> QED
              BY <7>1
          <6> QED
            BY <6>1, <6>2
        <5>2. found' \in [Threads -> BOOLEAN]
          BY ZenonT(30), <2>25, <3>2, <4>3 DEF Scan
        <5> QED
          BY <2>25, <3>2, <4>1, <4>3, <5>1, <5>2 DEF Scan
      <4> QED
        BY <4>2, <4>3
    <3> QED
      BY <3>1, <3>2
  <2>26. CASE BodyEnd(t)
    BY <2>26, <2>c, <2>d, <2>e DEF BodyEnd
  <2>27. CASE AfterBody(t)
    BY ZenonT(30), <2>27, <2>c, <2>d, <2>e, SlotFacts DEF AfterBody
  <2>28. CASE ExecuteTail(t)
    BY <2>28, <2>c, <2>d, <2>e DEF ExecuteTail
  <2>29. CASE TailCas(t)
    BY ZenonT(30), <2>29, <2>c, <2>d, <2>e DEF TailCas
  <2>30. CASE ParallelCheck(t)
    <3>1. par[t] \in Parallels /\ ret[t] \in PCs
      BY <2>0, <2>c, <2>30 DEF ParallelCheck
    <3>2. CASE owner = None /\ Goto(t, "shared") /\ Mark(par[t], "running") /\ UNCHANGED <<poolPar, par>>
      BY <2>30, <2>d, <3>1, <3>2 DEF ParallelCheck
    <3>3. CASE owner = None /\ poolPar' = poolPar \cup {par[t]}
                 /\ par' = [par EXCEPT ![t] = None] /\ Goto(t, ret[t]) /\ UNCHANGED status
      BY <2>30, <3>1, <3>3 DEF ParallelCheck
    <3>4. CASE owner # None /\ Goto(t, "par_push") /\ UNCHANGED <<poolPar, par, status>>
      BY <2>30, <3>4 DEF ParallelCheck
    <3> QED
      BY <2>30, <3>2, <3>3, <3>4 DEF ParallelCheck
  <2>31. CASE ParallelPush(t)
    BY <2>31, <2>c, <2>d, <2>e DEF ParallelPush
  <2>32. CASE SharedEnd(t)
    BY <2>32, <2>c, <2>d, <2>e, <2>0 DEF SharedEnd
  <2>33. CASE ResumeExchange(t)
    BY <2>33, <2>c, <2>d, <2>e, <2>0 DEF ResumeExchange
  <2>34. CASE PollSuspend(t)
    BY <2>34, <2>c, <2>d, <2>e DEF PollSuspend
  <2>35. CASE PollScan(t)
    BY <2>35, <2>c, <2>d, <2>e DEF PollScan
  <2>36. CASE PollCas(t)
    BY ZenonT(30), <2>36, <2>c, <2>d, <2>e DEF PollCas
  <2>37. CASE PollResume(t)
    BY <2>37, <2>c, <2>d, <2>e DEF PollResume
  <2> QED
    BY <2>1, <2>2, <2>3, <2>4, <2>5, <2>6, <2>7, <2>8, <2>9, <2>10, <2>11, <2>12, <2>13, <2>14, <2>15, <2>16, <2>17, <2>18, <2>19, <2>20, <2>21, <2>22, <2>23, <2>24, <2>25, <2>26, <2>27, <2>28, <2>29, <2>30, <2>31, <2>32, <2>33, <2>34, <2>35, <2>36, <2>37 DEF Client, Internal, Resumes
<1> QED
  BY <1>a, <1>b

(***************************************************************************)
(* Control                                                                 *)
(***************************************************************************)
\* A step of t changes nothing of the other threads.
Local(t) ==
  \A u \in Threads \ {t} :
    /\ pc'[u] = pc[u] /\ ret'[u] = ret[u] /\ after'[u] = after[u]
    /\ hold'[u] = hold[u] /\ job'[u] = job[u] /\ par'[u] = par[u]

\* A step of t takes the warp when it is free, or lets go of it.
OwnerStep(t) ==
  \/ owner' = owner
  \/ owner = None /\ owner' = t
  \/ owner = t /\ owner' = None

LEMMA LocalStep ==
  ASSUME TypeOK, Control, NEW t \in Threads, Client(t) \/ Internal(t) \/ Resumes(t)
  PROVE  Local(t) /\ OwnerStep(t)
<1>0. ControlAt(t)
  BY DEF Control
<1> USE DEF Goto, Step, Mark, InClient, Put, Preempt, BeginQueue, Resume, RunsPool, pool, thread, scan, TypeOK, Local, OwnerStep
<1>1. ASSUME NEW j \in Posted, Post(t, j) PROVE Local(t) /\ OwnerStep(t)
  BY <1>1 DEF Post
<1>2. ASSUME NEW j \in Called, QueueRoutine(t, j) PROVE Local(t) /\ OwnerStep(t)
  BY <1>2 DEF QueueRoutine
<1>3. ASSUME NEW j \in Called, QueueInside(t, j) PROVE Local(t) /\ OwnerStep(t)
  BY <1>3 DEF QueueInside
<1>4. ASSUME NEW j \in Normal, TakeExternal(t, j) PROVE Local(t) /\ OwnerStep(t)
  BY <1>4 DEF TakeExternal
<1>5. ASSUME NEW p \in Parallels, QueueParallel(t, p) PROVE Local(t) /\ OwnerStep(t)
  BY <1>5 DEF QueueParallel
<1>6. ASSUME NEW p \in Parallels, TakeParallel(t, p) PROVE Local(t) /\ OwnerStep(t)
  BY <1>6 DEF TakeParallel
<1>7. ASSUME NEW s \in Raw, RawSuspend(t, s) PROVE Local(t) /\ OwnerStep(t)
  BY <1>7 DEF RawSuspend
<1>8. ASSUME NEW s \in Raw, RawResume(t, s) PROVE Local(t) /\ OwnerStep(t)
  BY <1>8 DEF RawResume
<1>9. CASE QueueCas(t)
  BY <1>9 DEF QueueCas
<1>10. CASE QueueRecheck(t)
  BY <1>10 DEF QueueRecheck
<1>11. CASE QueuePost(t)
  BY <1>11 DEF QueuePost
<1>12. CASE Flush(t)
  BY <1>12 DEF Flush
<1>13. CASE FlushExchange(t)
  BY <1>13 DEF FlushExchange
<1>14. CASE FlushQueue(t)
  BY <1>14 DEF FlushQueue
<1>15. CASE Yield(t)
  BY <1>15 DEF Yield
<1>16. CASE YieldExchange(t)
  BY <1>16 DEF YieldExchange
<1>17. CASE YieldInside(t)
  BY <1>0, <1>17 DEF YieldInside, ControlAt
<1>18. CASE TakeExecute(t)
  BY <1>18 DEF TakeExecute
<1>19. CASE ExecuteCas(t)
  BY <1>19 DEF ExecuteCas
<1>20. CASE ExecuteRecheck(t)
  BY <1>20 DEF ExecuteRecheck
<1>21. CASE ExecuteParallel(t)
  BY <1>21 DEF ExecuteParallel
<1>22. CASE ExecuteCheck(t)
  BY <1>22 DEF ExecuteCheck
<1>23. CASE ExecutePending(t)
  BY <1>23 DEF ExecutePending
<1>24. CASE ExecuteStart(t)
  BY <1>24 DEF ExecuteStart
<1>25. CASE Scan(t)
  BY <1>25 DEF Scan
<1>26. CASE BodyEnd(t)
  BY <1>26 DEF BodyEnd
<1>27. CASE AfterBody(t)
  BY <1>27 DEF AfterBody
<1>28. CASE ExecuteTail(t)
  BY <1>28 DEF ExecuteTail
<1>29. CASE TailCas(t)
  BY <1>29 DEF TailCas
<1>30. CASE ParallelCheck(t)
  BY <1>30 DEF ParallelCheck
<1>31. CASE ParallelPush(t)
  BY <1>31 DEF ParallelPush
<1>32. CASE SharedEnd(t)
  BY <1>32 DEF SharedEnd
<1>33. CASE ResumeExchange(t)
  BY <1>33 DEF ResumeExchange
<1>34. CASE PollSuspend(t)
  BY <1>34 DEF PollSuspend
<1>35. CASE PollScan(t)
  BY <1>35 DEF PollScan
<1>36. CASE PollCas(t)
  BY <1>36 DEF PollCas
<1>37. CASE PollResume(t)
  BY <1>37 DEF PollResume
<1> QED
  BY <1>1, <1>2, <1>3, <1>4, <1>5, <1>6, <1>7, <1>8, <1>9, <1>10, <1>11, <1>12, <1>13, <1>14, <1>15, <1>16, <1>17, <1>18, <1>19, <1>20, <1>21, <1>22, <1>23, <1>24, <1>25, <1>26, <1>27, <1>28, <1>29, <1>30, <1>31, <1>32, <1>33, <1>34, <1>35, <1>36, <1>37 DEF Client, Internal, Resumes

\* What one thread does cannot disturb the control of another.
LEMMA OthersControl ==
  ASSUME Control, NEW t \in Threads, Local(t), OwnerStep(t), NEW u \in Threads \ {t}
  PROVE  ControlAt(u)'
<1>1. ControlAt(u) /\ u # t /\ u # None
  BY WarpAssumption DEF Control
<1>2. /\ pc'[u] = pc[u] /\ ret'[u] = ret[u] /\ after'[u] = after[u]
      /\ hold'[u] = hold[u] /\ job'[u] = job[u] /\ par'[u] = par[u]
  BY DEF Local
<1>3. owner' = u <=> owner = u
  BY <1>1 DEF OwnerStep
<1> QED
  BY <1>1, <1>2, <1>3 DEF ControlAt

LEMMA OwnControl ==
  ASSUME TypeOK, Control, NEW t \in Threads, Client(t) \/ Internal(t) \/ Resumes(t)
  PROVE  ControlAt(t)'
<1>0. ControlAt(t) /\ t # None
  BY WarpAssumption DEF Control
<1>c. /\ ret[t] \in RetPCs /\ after[t] \in {"idle", "ex_tail", "poll_resume"}
      /\ hold[t] \in HoldStates
  BY DEF TypeOK
<1>d. None \notin Normal /\ None \notin Parallels /\ Called \subseteq Normal
  BY WarpAssumption DEF Jobs, Normal
<1> USE DEF Goto, Step, Mark, InClient, Put, Preempt, BeginQueue, Resume, RunsPool, pool, thread, scan
<1>1. ASSUME NEW j \in Posted, Post(t, j) PROVE ControlAt(t)'
  <2>0. pc[t] \in {"idle", "body", "shared"}
    BY <1>1 DEF Post
  <2>1. CASE ViaPool(t)
    <3>1. /\ pc'[t] = pc[t] /\ ret'[t] = ret[t] /\ after'[t] = after[t]
          /\ hold'[t] = hold[t] /\ job'[t] = job[t] /\ par'[t] = par[t] /\ owner' = owner
      BY <1>1, <2>0, <2>1 DEF Post, TypeOK
    <3> QED
      BY <1>0, <1>c, <2>0, <2>1, <3>1 DEF ControlAt, Inner, RetPCs
  <2>2. CASE ~ViaPool(t) /\ pc[t] = "shared"
    <3>1. /\ pc'[t] = "flush" /\ ret'[t] = ret[t] /\ after'[t] = after[t]
          /\ hold'[t] = hold[t] /\ job'[t] = job[t] /\ par'[t] = par[t] /\ owner' = owner
      BY <1>1, <2>0, <2>2 DEF Post, TypeOK
    <3> QED
      BY <1>0, <1>c, <2>0, <2>2, <3>1 DEF ControlAt, Inner, RetPCs
  <2>3. CASE ~ViaPool(t) /\ pc[t] # "shared"
    <3>1. /\ pc'[t] = "flush" /\ ret'[t] = pc[t] /\ after'[t] = after[t]
          /\ hold'[t] = hold[t] /\ job'[t] = job[t] /\ par'[t] = par[t] /\ owner' = owner
      BY <1>1, <2>0, <2>3 DEF Post, TypeOK
    <3> QED
      BY <1>0, <1>c, <2>0, <2>3, <3>1 DEF ControlAt, Inner, RetPCs
  <2> QED
    BY <2>1, <2>2, <2>3
<1>2. ASSUME NEW j \in Called, QueueRoutine(t, j) PROVE ControlAt(t)'
  <2>1. /\ pc[t] = "idle"
        /\ pc'[t] = (IF suspended = {} THEN "qr_cas" ELSE "qr_post") /\ ret'[t] = ret[t] /\ after'[t] = after[t]
        /\ hold'[t] = hold[t] /\ job'[t] = j /\ par'[t] = par[t] /\ owner' = owner
    BY <1>2 DEF QueueRoutine, TypeOK
  <2> QED
    BY <1>0, <1>c, <2>1, <1>d DEF ControlAt, Inner, RetPCs
<1>3. ASSUME NEW j \in Called, QueueInside(t, j) PROVE ControlAt(t)'
  <2>0. pc[t] = "body" /\ hold[t] = "run"
    BY <1>3 DEF QueueInside
  <2>1. CASE suspended = {}
    <3>1. /\ pc'[t] = pc[t] /\ ret'[t] = ret[t] /\ after'[t] = after[t]
          /\ hold'[t] = hold[t] /\ job'[t] = job[t] /\ par'[t] = par[t] /\ owner' = owner
      BY <1>3, <2>0, <2>1 DEF QueueInside, TypeOK
    <3> QED
      BY <1>0, <1>c, <2>0, <2>1, <3>1 DEF ControlAt, Inner, RetPCs
  <2>2. CASE suspended # {} /\ ViaPool(t)
    <3>1. /\ pc'[t] = pc[t] /\ ret'[t] = ret[t] /\ after'[t] = after[t]
          /\ hold'[t] = hold[t] /\ job'[t] = job[t] /\ par'[t] = par[t] /\ owner' = owner
      BY <1>3, <2>0, <2>2 DEF QueueInside, TypeOK
    <3> QED
      BY <1>0, <1>c, <2>0, <2>2, <3>1 DEF ControlAt, Inner, RetPCs
  <2>3. CASE suspended # {} /\ ~ViaPool(t)
    <3>1. /\ pc'[t] = "flush" /\ ret'[t] = "body" /\ after'[t] = after[t]
          /\ hold'[t] = hold[t] /\ job'[t] = job[t] /\ par'[t] = par[t] /\ owner' = owner
      BY <1>3, <2>0, <2>3 DEF QueueInside, TypeOK
    <3> QED
      BY <1>0, <1>c, <2>0, <2>3, <3>1 DEF ControlAt, Inner, RetPCs
  <2> QED
    BY <2>1, <2>2, <2>3
<1>4. ASSUME NEW j \in Normal, TakeExternal(t, j) PROVE ControlAt(t)'
  <2>1. /\ pc[t] = "idle"
        /\ pc'[t] = (IF suspended = {} THEN "qr_cas" ELSE "qr_post") /\ ret'[t] = ret[t] /\ after'[t] = after[t]
        /\ hold'[t] = hold[t] /\ job'[t] = j /\ par'[t] = par[t] /\ owner' = owner
    BY <1>4 DEF TakeExternal, TypeOK
  <2> QED
    BY <1>0, <1>c, <2>1, <1>d DEF ControlAt, Inner, RetPCs
<1>5. ASSUME NEW p \in Parallels, QueueParallel(t, p) PROVE ControlAt(t)'
  <2>1. /\ pc[t] \in {"idle", "body"}
        /\ pc'[t] = "par_check" /\ ret'[t] = pc[t] /\ after'[t] = after[t]
        /\ hold'[t] = hold[t] /\ job'[t] = job[t] /\ par'[t] = p /\ owner' = owner
    BY <1>5 DEF QueueParallel, TypeOK
  <2> QED
    BY <1>0, <1>c, <2>1, <1>d DEF ControlAt, Inner, RetPCs
<1>6. ASSUME NEW p \in Parallels, TakeParallel(t, p) PROVE ControlAt(t)'
  <2>1. /\ pc[t] = "idle"
        /\ pc'[t] = "shared" /\ ret'[t] = "idle" /\ after'[t] = after[t]
        /\ hold'[t] = hold[t] /\ job'[t] = job[t] /\ par'[t] = p /\ owner' = owner
    BY <1>6 DEF TakeParallel, TypeOK
  <2> QED
    BY <1>0, <1>c, <2>1, <1>d DEF ControlAt, Inner, RetPCs
<1>7. ASSUME NEW s \in Raw, RawSuspend(t, s) PROVE ControlAt(t)'
  <2>1. /\ pc[t] \in {"idle", "body"}
        /\ pc'[t] = pc[t] /\ ret'[t] = ret[t] /\ after'[t] = after[t]
        /\ hold'[t] = hold[t] /\ job'[t] = job[t] /\ par'[t] = par[t] /\ owner' = owner
    BY <1>7 DEF RawSuspend, TypeOK
  <2> QED
    BY <1>0, <1>c, <2>1 DEF ControlAt, Inner, RetPCs
<1>8. ASSUME NEW s \in Raw, RawResume(t, s) PROVE ControlAt(t)'
  <2>1. /\ pc[t] \in {"idle", "body"}
        /\ pc'[t] = (IF suspended = {s} THEN "res_xchg" ELSE pc[t]) /\ ret'[t] = pc[t] /\ after'[t] = after[t]
        /\ hold'[t] = hold[t] /\ job'[t] = job[t] /\ par'[t] = par[t] /\ owner' = owner
    BY <1>8 DEF RawResume, TypeOK
  <2> QED
    BY <1>0, <1>c, <2>1 DEF ControlAt, Inner, RetPCs
<1>9. CASE QueueCas(t)
  <2>0. pc[t] = "qr_cas"
    BY <1>9 DEF QueueCas
  <2>1. CASE owner = None
    <3>1. /\ pc'[t] = "qr_recheck" /\ ret'[t] = ret[t] /\ after'[t] = after[t]
          /\ hold'[t] = "guard" /\ job'[t] = job[t] /\ par'[t] = par[t] /\ owner' = t
      BY <1>9, <2>0, <2>1 DEF QueueCas, TypeOK
    <3> QED
      BY <1>0, <1>c, <2>0, <2>1, <3>1 DEF ControlAt, Inner, RetPCs
  <2>2. CASE owner # None
    <3>1. /\ pc'[t] = "qr_post" /\ ret'[t] = ret[t] /\ after'[t] = after[t]
          /\ hold'[t] = hold[t] /\ job'[t] = job[t] /\ par'[t] = par[t] /\ owner' = owner
      BY <1>9, <2>0, <2>2 DEF QueueCas, TypeOK
    <3> QED
      BY <1>0, <1>c, <2>0, <2>2, <3>1 DEF ControlAt, Inner, RetPCs
  <2> QED
    BY <2>1, <2>2
<1>10. CASE QueueRecheck(t)
  <2>0. pc[t] = "qr_recheck"
    BY <1>10 DEF QueueRecheck
  <2>1. CASE suspended = {}
    <3>1. /\ pc'[t] = "body" /\ ret'[t] = ret[t] /\ after'[t] = after[t]
          /\ hold'[t] = "run" /\ job'[t] = job[t] /\ par'[t] = par[t] /\ owner' = owner
      BY <1>10, <2>0, <2>1 DEF QueueRecheck, TypeOK
    <3> QED
      BY <1>0, <1>c, <2>0, <2>1, <3>1 DEF ControlAt, Inner, RetPCs
  <2>2. CASE suspended # {}
    <3>1. /\ pc'[t] = "qr_post" /\ ret'[t] = ret[t] /\ after'[t] = after[t]
          /\ hold'[t] = hold[t] /\ job'[t] = job[t] /\ par'[t] = par[t] /\ owner' = owner
      BY <1>10, <2>0, <2>2 DEF QueueRecheck, TypeOK
    <3> QED
      BY <1>0, <1>c, <2>0, <2>2, <3>1 DEF ControlAt, Inner, RetPCs
  <2> QED
    BY <2>1, <2>2
<1>11. CASE QueuePost(t)
  <2>0. pc[t] = "qr_post"
    BY <1>11 DEF QueuePost
  <2>1. CASE ViaPool(t)
    <3>1. /\ pc'[t] = (IF hold[t] = "guard" THEN "yield" ELSE "idle") /\ ret'[t] = ret[t] /\ after'[t] = after[t]
          /\ hold'[t] = hold[t] /\ job'[t] = None /\ par'[t] = par[t] /\ owner' = owner
      BY <1>11, <2>0, <2>1 DEF QueuePost, TypeOK
    <3> QED
      BY <1>0, <1>c, <2>0, <2>1, <3>1 DEF ControlAt, Inner, RetPCs, HoldStates
  <2>2. CASE ~ViaPool(t)
    <3>1. /\ pc'[t] = "flush" /\ ret'[t] = (IF hold[t] = "guard" THEN "yield" ELSE "idle") /\ after'[t] = after[t]
          /\ hold'[t] = hold[t] /\ job'[t] = None /\ par'[t] = par[t] /\ owner' = owner
      BY <1>11, <2>0, <2>2 DEF QueuePost, TypeOK
    <3> QED
      BY <1>0, <1>c, <2>0, <2>2, <3>1 DEF ControlAt, Inner, RetPCs, HoldStates
  <2> QED
    BY <2>1, <2>2
<1>12. CASE Flush(t)
  <2>1. /\ pc[t] = "flush"
        /\ pc'[t] = (IF queueing # "pending" THEN "flush_xchg" ELSE Back(t)) /\ ret'[t] = ret[t] /\ after'[t] = after[t]
        /\ hold'[t] = hold[t] /\ job'[t] = job[t] /\ par'[t] = par[t] /\ owner' = owner
    BY <1>12 DEF Flush, TypeOK
  <2> QED
    BY <1>0, <1>c, <2>1 DEF ControlAt, Inner, RetPCs, Back
<1>13. CASE FlushExchange(t)
  <2>1. /\ pc[t] = "flush_xchg"
        /\ pc'[t] = (IF queueing = "idle" THEN "flush_queue" ELSE Back(t)) /\ ret'[t] = ret[t] /\ after'[t] = after[t]
        /\ hold'[t] = hold[t] /\ job'[t] = job[t] /\ par'[t] = par[t] /\ owner' = owner
    BY <1>13 DEF FlushExchange, TypeOK
  <2> QED
    BY <1>0, <1>c, <2>1 DEF ControlAt, Inner, RetPCs, Back
<1>14. CASE FlushQueue(t)
  <2>1. /\ pc[t] = "flush_queue"
        /\ pc'[t] = Back(t) /\ ret'[t] = ret[t] /\ after'[t] = after[t]
        /\ hold'[t] = hold[t] /\ job'[t] = job[t] /\ par'[t] = par[t] /\ owner' = owner
    BY <1>14 DEF FlushQueue, TypeOK
  <2> QED
    BY <1>0, <1>c, <2>1 DEF ControlAt, Inner, RetPCs, Back
<1>15. CASE Yield(t)
  <2>0. pc[t] = "yield"
    BY <1>15 DEF Yield
  <2>1. CASE owner = t
    <3>1. /\ pc'[t] = "yield_xchg" /\ ret'[t] = after[t] /\ after'[t] = "idle"
          /\ hold'[t] = "none" /\ job'[t] = job[t] /\ par'[t] = par[t] /\ owner' = None
      BY <1>15, <2>0, <2>1 DEF Yield, TypeOK
    <3> QED
      BY <1>0, <1>c, <2>0, <2>1, <3>1 DEF ControlAt, Inner, RetPCs
  <2>2. CASE owner # t
    <3>1. /\ pc'[t] = (IF after[t] = "ex_tail" THEN "flush" ELSE after[t]) /\ ret'[t] = after[t] /\ after'[t] = "idle"
          /\ hold'[t] = "none" /\ job'[t] = job[t] /\ par'[t] = par[t] /\ owner' = owner
      BY <1>15, <2>0, <2>2 DEF Yield, TypeOK
    <3> QED
      BY <1>0, <1>c, <2>0, <2>2, <3>1 DEF ControlAt, Inner, RetPCs
  <2> QED
    BY <2>1, <2>2
<1>16. CASE YieldExchange(t)
  <2>1. /\ pc[t] = "yield_xchg"
        /\ pc'[t] = (IF queueing = "pending" THEN "flush" ELSE Back(t)) /\ ret'[t] = ret[t] /\ after'[t] = after[t]
        /\ hold'[t] = hold[t] /\ job'[t] = job[t] /\ par'[t] = par[t] /\ owner' = owner
    BY <1>16 DEF YieldExchange, TypeOK
  <2> QED
    BY <1>0, <1>c, <2>1 DEF ControlAt, Inner, RetPCs, Back
<1>17. CASE YieldInside(t)
  <2>1. /\ pc[t] = "body" /\ hold[t] = "run"
        /\ pc'[t] = "yield_xchg" /\ ret'[t] = "body" /\ after'[t] = after[t]
        /\ hold'[t] = "gone" /\ job'[t] = job[t] /\ par'[t] = par[t] /\ owner' = None
    BY <1>17 DEF YieldInside, TypeOK
  <2> QED
    BY <1>0, <1>c, <2>1 DEF ControlAt, Inner, RetPCs
<1>18. CASE TakeExecute(t)
  <2>0. pc[t] = "idle"
    BY <1>18 DEF TakeExecute
  <2>1. CASE suspended = {}
    <3>1. /\ pc'[t] = "ex_cas" /\ ret'[t] = ret[t] /\ after'[t] = "ex_tail"
          /\ hold'[t] = hold[t] /\ job'[t] = job[t] /\ par'[t] = par[t] /\ owner' = owner
      BY <1>18, <2>0, <2>1 DEF TakeExecute, TypeOK
    <3> QED
      BY <1>0, <1>c, <2>0, <2>1, <3>1 DEF ControlAt, Inner, RetPCs
  <2>2. CASE suspended # {}
    <3>1. /\ pc'[t] = "ex_tail" /\ ret'[t] = ret[t] /\ after'[t] = after[t]
          /\ hold'[t] = hold[t] /\ job'[t] = job[t] /\ par'[t] = par[t] /\ owner' = owner
      BY <1>18, <2>0, <2>2 DEF TakeExecute, TypeOK
    <3> QED
      BY <1>0, <1>c, <2>0, <2>2, <3>1 DEF ControlAt, Inner, RetPCs
  <2> QED
    BY <2>1, <2>2
<1>19. CASE ExecuteCas(t)
  <2>0. pc[t] = "ex_cas"
    BY <1>19 DEF ExecuteCas
  <2>1. CASE owner = None
    <3>1. /\ pc'[t] = "ex_recheck" /\ ret'[t] = ret[t] /\ after'[t] = after[t]
          /\ hold'[t] = "guard" /\ job'[t] = job[t] /\ par'[t] = par[t] /\ owner' = t
      BY <1>19, <2>0, <2>1 DEF ExecuteCas, TypeOK
    <3> QED
      BY <1>0, <1>c, <2>0, <2>1, <3>1 DEF ControlAt, Inner, RetPCs
  <2>2. CASE owner # None
    <3>1. /\ pc'[t] = "ex_tail" /\ ret'[t] = ret[t] /\ after'[t] = "idle"
          /\ hold'[t] = hold[t] /\ job'[t] = job[t] /\ par'[t] = par[t] /\ owner' = owner
      BY <1>19, <2>0, <2>2 DEF ExecuteCas, TypeOK
    <3> QED
      BY <1>0, <1>c, <2>0, <2>2, <3>1 DEF ControlAt, Inner, RetPCs
  <2> QED
    BY <2>1, <2>2
<1>20. CASE ExecuteRecheck(t)
  <2>1. /\ pc[t] = "ex_recheck"
        /\ pc'[t] = (IF suspended = {} THEN "ex_par" ELSE "yield") /\ ret'[t] = ret[t] /\ after'[t] = after[t]
        /\ hold'[t] = hold[t] /\ job'[t] = job[t] /\ par'[t] = par[t] /\ owner' = owner
    BY <1>20 DEF ExecuteRecheck, TypeOK
  <2> QED
    BY <1>0, <1>c, <2>1 DEF ControlAt, Inner, RetPCs
<1>21. CASE ExecuteParallel(t)
  <2>0. pc[t] = "ex_par"
    BY <1>21 DEF ExecuteParallel
  <2>1. CASE parallel # {}
    <3>1. /\ pc'[t] = pc[t] /\ ret'[t] = ret[t] /\ after'[t] = after[t]
          /\ hold'[t] = hold[t] /\ job'[t] = job[t] /\ par'[t] = par[t] /\ owner' = owner
      BY <1>21, <2>0, <2>1 DEF ExecuteParallel, TypeOK
    <3> QED
      BY <1>0, <1>c, <2>0, <2>1, <3>1 DEF ControlAt, Inner, RetPCs
  <2>2. CASE parallel = {} /\ after[t] = "poll_resume"
    <3>1. /\ pc'[t] = "ex_start" /\ ret'[t] = ret[t] /\ after'[t] = after[t]
          /\ hold'[t] = "run" /\ job'[t] = job[t] /\ par'[t] = par[t] /\ owner' = owner
      BY <1>21, <2>0, <2>2 DEF ExecuteParallel, TypeOK
    <3> QED
      BY <1>0, <1>c, <2>0, <2>2, <3>1 DEF ControlAt, Inner, RetPCs
  <2>3. CASE parallel = {} /\ after[t] # "poll_resume"
    <3>1. /\ pc'[t] = (IF after[t] = "ex_tail" THEN "ex_sus" ELSE "yield") /\ ret'[t] = ret[t] /\ after'[t] = after[t]
          /\ hold'[t] = hold[t] /\ job'[t] = job[t] /\ par'[t] = par[t] /\ owner' = owner
      BY <1>21, <2>0, <2>3 DEF ExecuteParallel, TypeOK
    <3> QED
      BY <1>0, <1>c, <2>0, <2>3, <3>1 DEF ControlAt, Inner, RetPCs
  <2> QED
    BY <2>1, <2>2, <2>3
<1>22. CASE ExecuteCheck(t)
  <2>0. pc[t] = "ex_sus"
    BY <1>22 DEF ExecuteCheck
  <2>1. CASE suspended = {}
    <3>1. /\ pc'[t] = "ex_start" /\ ret'[t] = ret[t] /\ after'[t] = after[t]
          /\ hold'[t] = "run" /\ job'[t] = job[t] /\ par'[t] = par[t] /\ owner' = owner
      BY <1>22, <2>0, <2>1 DEF ExecuteCheck, TypeOK
    <3> QED
      BY <1>0, <1>c, <2>0, <2>1, <3>1 DEF ControlAt, Inner, RetPCs
  <2>2. CASE suspended # {}
    <3>1. /\ pc'[t] = "ex_pend" /\ ret'[t] = ret[t] /\ after'[t] = after[t]
          /\ hold'[t] = hold[t] /\ job'[t] = job[t] /\ par'[t] = par[t] /\ owner' = owner
      BY <1>22, <2>0, <2>2 DEF ExecuteCheck, TypeOK
    <3> QED
      BY <1>0, <1>c, <2>0, <2>2, <3>1 DEF ControlAt, Inner, RetPCs
  <2> QED
    BY <2>1, <2>2
<1>23. CASE ExecutePending(t)
  <2>1. /\ pc[t] = "ex_pend"
        /\ pc'[t] = "yield" /\ ret'[t] = ret[t] /\ after'[t] = after[t]
        /\ hold'[t] = hold[t] /\ job'[t] = job[t] /\ par'[t] = par[t] /\ owner' = owner
    BY <1>23 DEF ExecutePending, TypeOK
  <2> QED
    BY <1>0, <1>c, <2>1 DEF ControlAt, Inner, RetPCs
<1>24. CASE ExecuteStart(t)
  <2>1. /\ pc[t] = "ex_start"
        /\ pc'[t] = "scan" /\ ret'[t] = ret[t] /\ after'[t] = after[t]
        /\ hold'[t] = hold[t] /\ job'[t] = job[t] /\ par'[t] = par[t] /\ owner' = owner
    BY <1>24 DEF ExecuteStart, TypeOK
  <2> QED
    BY <1>0, <1>c, <2>1 DEF ControlAt, Inner, RetPCs
<1>s. pc[t] = "scan" /\ storage[slot[t]] # <<>> => Head(storage[slot[t]]) # None
  <2>1. storage[slot[t]] \in Seq(Normal)
    BY DEF TypeOK
  <2> QED
    BY <1>d, <2>1
<1>25. CASE Scan(t)
  <2>0. pc[t] = "scan"
    BY <1>25 DEF Scan
  <2>1. CASE storage[slot[t]] # <<>>
    <3>1. /\ pc'[t] = "body" /\ ret'[t] = ret[t] /\ after'[t] = after[t]
          /\ hold'[t] = hold[t] /\ job'[t] = Head(storage[slot[t]]) /\ par'[t] = par[t] /\ owner' = owner
      BY <1>25, <2>0, <2>1 DEF Scan, TypeOK
    <3> QED
      BY <1>0, <1>c, <2>0, <2>1, <3>1, <1>d, <1>s DEF ControlAt, Inner, RetPCs
  <2>2. CASE storage[slot[t]] = <<>> /\ (slot[t] + 1 \in Slots \/ found[t])
    <3>1. /\ pc'[t] = pc[t] /\ ret'[t] = ret[t] /\ after'[t] = after[t]
          /\ hold'[t] = hold[t] /\ job'[t] = job[t] /\ par'[t] = par[t] /\ owner' = owner
      BY <1>25, <2>0, <2>2 DEF Scan, TypeOK
    <3> QED
      BY <1>0, <1>c, <2>0, <2>2, <3>1 DEF ControlAt, Inner, RetPCs
  <2>3. CASE storage[slot[t]] = <<>> /\ slot[t] + 1 \notin Slots /\ ~found[t]
    <3>1. /\ pc'[t] = "yield" /\ ret'[t] = ret[t] /\ after'[t] = after[t]
          /\ hold'[t] = "guard" /\ job'[t] = job[t] /\ par'[t] = par[t] /\ owner' = owner
      BY <1>25, <2>0, <2>3 DEF Scan, TypeOK
    <3> QED
      BY <1>0, <1>c, <2>0, <2>3, <3>1 DEF ControlAt, Inner, RetPCs
  <2> QED
    BY <2>1, <2>2, <2>3
<1>26. CASE BodyEnd(t)
  <2>1. /\ pc[t] = "body"
        /\ pc'[t] = (IF after[t] = "idle" THEN "yield" ELSE "after_body") /\ ret'[t] = "idle" /\ after'[t] = after[t]
        /\ hold'[t] = hold[t] /\ job'[t] = None /\ par'[t] = par[t] /\ owner' = owner
    BY <1>26 DEF BodyEnd, TypeOK
  <2> QED
    BY <1>0, <1>c, <2>1 DEF ControlAt, Inner, RetPCs
<1>27. CASE AfterBody(t)
  <2>0. pc[t] = "after_body"
    BY <1>27 DEF AfterBody
  <2>1. CASE ((after[t] # "poll_resume" /\ suspended # {}) \/ hold[t] = "gone") /\ hold[t] = "run"
    <3>1. /\ pc'[t] = "yield" /\ ret'[t] = ret[t] /\ after'[t] = after[t]
          /\ hold'[t] = "guard" /\ job'[t] = job[t] /\ par'[t] = par[t] /\ owner' = owner
      BY <1>27, <2>0, <2>1 DEF AfterBody, TypeOK
    <3> QED
      BY <1>0, <1>c, <2>0, <2>1, <3>1 DEF ControlAt, Inner, RetPCs, HoldStates
  <2>2. CASE ((after[t] # "poll_resume" /\ suspended # {}) \/ hold[t] = "gone") /\ hold[t] # "run"
    <3>1. /\ pc'[t] = "yield" /\ ret'[t] = ret[t] /\ after'[t] = after[t]
          /\ hold'[t] = hold[t] /\ job'[t] = job[t] /\ par'[t] = par[t] /\ owner' = owner
      BY <1>27, <2>0, <2>2 DEF AfterBody, TypeOK
    <3> QED
      BY <1>0, <1>c, <2>0, <2>2, <3>1 DEF ControlAt, Inner, RetPCs, HoldStates
  <2>3. CASE ~((after[t] # "poll_resume" /\ suspended # {}) \/ hold[t] = "gone")
    <3>1. /\ pc'[t] = "scan" /\ ret'[t] = ret[t] /\ after'[t] = after[t]
          /\ hold'[t] = hold[t] /\ job'[t] = job[t] /\ par'[t] = par[t] /\ owner' = owner
      BY <1>27, <2>0, <2>3 DEF AfterBody, TypeOK
    <3> QED
      BY <1>0, <1>c, <2>0, <2>3, <3>1 DEF ControlAt, Inner, RetPCs, HoldStates
  <2> QED
    BY <2>1, <2>2, <2>3
<1>28. CASE ExecuteTail(t)
  <2>1. /\ pc[t] = "ex_tail"
        /\ pc'[t] = (IF parallel # {} THEN "tail_cas" ELSE "idle") /\ ret'[t] = "idle" /\ after'[t] = "idle"
        /\ hold'[t] = hold[t] /\ job'[t] = job[t] /\ par'[t] = par[t] /\ owner' = owner
    BY <1>28 DEF ExecuteTail, TypeOK
  <2> QED
    BY <1>0, <1>c, <2>1 DEF ControlAt, Inner, RetPCs
<1>29. CASE TailCas(t)
  <2>0. pc[t] = "tail_cas"
    BY <1>29 DEF TailCas
  <2>1. CASE owner = None
    <3>1. /\ pc'[t] = "ex_par" /\ ret'[t] = ret[t] /\ after'[t] = after[t]
          /\ hold'[t] = "guard" /\ job'[t] = job[t] /\ par'[t] = par[t] /\ owner' = t
      BY <1>29, <2>0, <2>1 DEF TailCas, TypeOK
    <3> QED
      BY <1>0, <1>c, <2>0, <2>1, <3>1 DEF ControlAt, Inner, RetPCs
  <2>2. CASE owner # None
    <3>1. /\ pc'[t] = "idle" /\ ret'[t] = ret[t] /\ after'[t] = after[t]
          /\ hold'[t] = hold[t] /\ job'[t] = job[t] /\ par'[t] = par[t] /\ owner' = owner
      BY <1>29, <2>0, <2>2 DEF TailCas, TypeOK
    <3> QED
      BY <1>0, <1>c, <2>0, <2>2, <3>1 DEF ControlAt, Inner, RetPCs
  <2> QED
    BY <2>1, <2>2
<1>30. CASE ParallelCheck(t)
  <2>1. /\ ret'[t] = ret[t] /\ after'[t] = after[t] /\ hold'[t] = hold[t]
        /\ job'[t] = job[t] /\ owner' = owner /\ pc[t] = "par_check"
        /\ \/ pc'[t] = "shared" /\ par'[t] = par[t]
           \/ pc'[t] = ret[t] /\ par'[t] = None
           \/ pc'[t] = "par_push" /\ par'[t] = par[t]
    BY <1>30 DEF ParallelCheck, TypeOK
  <2> QED
    BY <1>0, <1>c, <2>1 DEF ControlAt, Inner, RetPCs
<1>31. CASE ParallelPush(t)
  <2>1. /\ pc[t] = "par_push"
        /\ pc'[t] = "flush" /\ ret'[t] = ret[t] /\ after'[t] = after[t]
        /\ hold'[t] = hold[t] /\ job'[t] = job[t] /\ par'[t] = None /\ owner' = owner
    BY <1>31 DEF ParallelPush, TypeOK
  <2> QED
    BY <1>0, <1>c, <2>1 DEF ControlAt, Inner, RetPCs
<1>32. CASE SharedEnd(t)
  <2>1. /\ pc[t] = "shared"
        /\ pc'[t] = (IF suspended = {par[t]} THEN "res_xchg" ELSE ret[t]) /\ ret'[t] = ret[t] /\ after'[t] = after[t]
        /\ hold'[t] = hold[t] /\ job'[t] = job[t] /\ par'[t] = None /\ owner' = owner
    BY <1>32 DEF SharedEnd, TypeOK
  <2> QED
    BY <1>0, <1>c, <2>1 DEF ControlAt, Inner, RetPCs
<1>33. CASE ResumeExchange(t)
  <2>1. /\ pc[t] = "res_xchg"
        /\ pc'[t] = (IF queueing = "pending" THEN "flush" ELSE ret[t]) /\ ret'[t] = ret[t] /\ after'[t] = after[t]
        /\ hold'[t] = hold[t] /\ job'[t] = job[t] /\ par'[t] = par[t] /\ owner' = owner
    BY <1>33 DEF ResumeExchange, TypeOK
  <2> QED
    BY <1>0, <1>c, <2>1 DEF ControlAt, Inner, RetPCs
<1>34. CASE PollSuspend(t)
  <2>1. /\ pc[t] = "idle" /\ t \in Pollers
        /\ pc'[t] = "poll_scan" /\ ret'[t] = ret[t] /\ after'[t] = after[t]
        /\ hold'[t] = hold[t] /\ job'[t] = job[t] /\ par'[t] = par[t] /\ owner' = owner
    BY <1>34 DEF PollSuspend, TypeOK
  <2> QED
    BY <1>0, <1>c, <2>1 DEF ControlAt, Inner, RetPCs
<1>35. CASE PollScan(t)
  <2>1. /\ pc[t] = "poll_scan" /\ pc'[t] \in {"poll_cas", "poll_resume"}
        /\ ret'[t] = ret[t] /\ after'[t] = after[t] /\ hold'[t] = hold[t]
        /\ job'[t] = job[t] /\ par'[t] = par[t] /\ owner' = owner
    BY <1>35 DEF PollScan, TypeOK
  <2> QED
    BY <1>0, <1>c, <2>1 DEF ControlAt, Inner, RetPCs
<1>36. CASE PollCas(t)
  <2>0. pc[t] = "poll_cas"
    BY <1>36 DEF PollCas
  <2>1. CASE owner = None
    <3>1. /\ pc'[t] = "ex_par" /\ ret'[t] = ret[t] /\ after'[t] = "poll_resume"
          /\ hold'[t] = "guard" /\ job'[t] = job[t] /\ par'[t] = par[t] /\ owner' = t
      BY <1>36, <2>0, <2>1 DEF PollCas, TypeOK
    <3> QED
      BY <1>0, <1>c, <2>0, <2>1, <3>1 DEF ControlAt, Inner, RetPCs
  <2>2. CASE owner # None
    <3>1. /\ pc'[t] = "poll_resume" /\ ret'[t] = ret[t] /\ after'[t] = after[t]
          /\ hold'[t] = hold[t] /\ job'[t] = job[t] /\ par'[t] = par[t] /\ owner' = owner
      BY <1>36, <2>0, <2>2 DEF PollCas, TypeOK
    <3> QED
      BY <1>0, <1>c, <2>0, <2>2, <3>1 DEF ControlAt, Inner, RetPCs
  <2> QED
    BY <2>1, <2>2
<1>37. CASE PollResume(t)
  <2>1. /\ pc[t] = "poll_resume"
        /\ pc'[t] = (IF suspended = {t} THEN "res_xchg" ELSE "idle") /\ ret'[t] = "idle" /\ after'[t] = after[t]
        /\ hold'[t] = hold[t] /\ job'[t] = job[t] /\ par'[t] = par[t] /\ owner' = owner
    BY <1>37 DEF PollResume, TypeOK
  <2> QED
    BY <1>0, <1>c, <2>1 DEF ControlAt, Inner, RetPCs
<1> QED
  BY <1>1, <1>2, <1>3, <1>4, <1>5, <1>6, <1>7, <1>8, <1>9, <1>10, <1>11, <1>12, <1>13, <1>14, <1>15, <1>16, <1>17, <1>18, <1>19, <1>20, <1>21, <1>22, <1>23, <1>24, <1>25, <1>26, <1>27, <1>28, <1>29, <1>30, <1>31, <1>32, <1>33, <1>34, <1>35, <1>36, <1>37 DEF Client, Internal, Resumes

\* Control is kept by every step.
LEMMA ControlStep == ASSUME TypeOK, Control, [Next]_vars PROVE Control'
<1>1. CASE UNCHANGED vars
  BY <1>1 DEF vars, Control, ControlAt
<1>2. CASE Next
  <2> PICK t \in Threads : Client(t) \/ Internal(t) \/ Resumes(t)
    BY <1>2 DEF Next
  <2> QED
    BY LocalStep, OthersControl, OwnControl DEF Control
<1> QED
  BY <1>1, <1>2

LEMMA InitControl == Init => TypeOK /\ Control
<1> SUFFICES ASSUME Init PROVE TypeOK /\ Control
  OBVIOUS
<1>1. TypeOK
  BY SlotFacts DEF Init, TypeOK, PCs, RetPCs, HoldStates
<1>2. Control
  BY WarpAssumption DEF Init, Control, ControlAt, Inner
<1> QED
  BY <1>1, <1>2

\* The variables keep their types, and thread_warp always names the one thread
\* whose preempt guard holds the warp: for any number of threads, tasks and
\* suspends, with strand or grid storage, with or without poll.
THEOREM TypesAndControl == Spec => [](TypeOK /\ Control)
<1>1. TypeOK /\ Control /\ [Next]_vars => (TypeOK /\ Control)'
  BY TypeStep, ControlStep
<1> QED
  BY InitControl, <1>1, PTL DEF Spec

THEOREM TypesCorrect == Spec => []TypeOK
BY TypesAndControl, PTL

---------------------------------------------------------------------------
(***************************************************************************)
(* Warp and the tasks sent to it: normal tasks exclude each other and the  *)
(* parallel ones, every step of the threads is a step of WarpTasks, and    *)
(* each task waits in one place until it runs.                             *)
(***************************************************************************)

\* A running normal task is the task of a thread that holds the license.
Runner == \A j \in RunningNormal : \E t \in Threads : job[t] = j /\ hold[t] = "run"

\* How far the task of a thread has got: in hand, running, or running on
\* after yield().
JobState ==
  \A t \in Threads : job[t] # None =>
    status[job[t]] = IF hold[t] = "run" THEN "running"
                     ELSE IF hold[t] = "gone" THEN "detached" ELSE "queued"

\* No task is in the hands of two threads.
JobOnce == \A t, u \in Threads : job[t] = job[u] /\ job[t] # None => t = u

\* A task in the pool is queued and in nobody's hands.
PoolQueued == \A j \in poolExt : status[j] = "queued" /\ \A t \in Threads : job[t] # j

\* A task in storage is queued, and neither in the pool nor in anyone's hands.
StorageQueued ==
  \A i \in Slots : \A n \in DOMAIN storage[i] :
    /\ status[storage[i][n]] = "queued"
    /\ storage[i][n] \notin poolExt
    /\ \A t \in Threads : job[t] # storage[i][n]

\* No task is twice in storage.
StorageOnce ==
  \A i, k \in Slots : \A n \in DOMAIN storage[i], m \in DOMAIN storage[k] :
    storage[i][n] = storage[k][m] => i = k /\ n = m

NormalInv ==
  Runner /\ JobState /\ JobOnce /\ PoolQueued /\ StorageQueued /\ StorageOnce

\* A parallel task that waits for the owner or in the pool keeps the warp
\* suspended.
ParallelQueued ==
  \A p \in parallel \cup poolPar :
    /\ status[p] = "queued" /\ p \in suspended
    /\ \A t \in Threads : par[t] # p

\* So does one in the hands of a thread, until it has run.
ParState ==
  \A t \in Threads : par[t] # None =>
    /\ par[t] \in suspended
    /\ status[par[t]] = IF pc[t] \in {"par_check", "par_push"} THEN "queued" ELSE "running"

ParOnce == \A t, u \in Threads : par[t] = par[u] /\ par[t] # None => t = u

SharedRunner == \A p \in RunningShared : \E t \in Threads : par[t] = p

\* While a thread holds the license, no parallel task is released.
Licensed ==
  \A t \in Threads :
    hold[t] = "run" /\ after[t] # "poll_resume" => poolPar = {} /\ RunningShared = {}

SharedInv ==
  /\ ParallelQueued /\ ParState /\ ParOnce /\ SharedRunner /\ Licensed
  /\ parallel \cap poolPar = {}

(***************************************************************************)
(* Normal tasks: steps of the same kind                                    *)
(***************************************************************************)
\* The types that the lemmas below use.
LEMMA JobTypes ==
  ASSUME TypeOK
  PROVE  /\ \A t \in Threads : job[t] \in Normal \cup {None}
         /\ \A i \in Slots : \A n \in DOMAIN storage[i] : storage[i][n] \in Normal
         /\ \A j \in poolExt : j \in Normal
         /\ None \notin Normal /\ Normal \cap Parallels = {} /\ None \notin Parallels
BY WarpAssumption DEF TypeOK, Jobs

\* Steps that touch no normal task.
LEMMA NormalFrame ==
  ASSUME TypeOK, NormalInv, UNCHANGED <<storage, poolExt, job, hold>>,
         \A j \in Normal : status'[j] = status[j]
  PROVE  NormalInv'
<1>1. Runner'
  BY JobTypes DEF NormalInv, Runner, RunningNormal
<1>2. JobState'
  BY JobTypes DEF NormalInv, JobState
<1>3. JobOnce' /\ StorageOnce'
  BY DEF NormalInv, JobOnce, StorageOnce
<1>4. PoolQueued' /\ StorageQueued'
  BY JobTypes DEF NormalInv, PoolQueued, StorageQueued
<1> QED
  BY <1>1, <1>2, <1>3, <1>4 DEF NormalInv

\* Steps by which a thread without a running task takes or leaves the warp.
LEMMA HoldFrame ==
  ASSUME TypeOK, NormalInv, NEW t \in Threads, NEW h \in HoldStates,
         UNCHANGED <<storage, poolExt, job, status>>,
         hold' = [hold EXCEPT ![t] = h],
         job[t] = None \/ (hold[t] \notin {"run", "gone"} /\ h \notin {"run", "gone"})
  PROVE  NormalInv'
<1>0. \A u \in Threads : hold'[u] = IF u = t THEN h ELSE hold[u]
  BY DEF TypeOK
<1>1. Runner'
  BY <1>0, JobTypes DEF NormalInv, Runner, RunningNormal
<1>2. JobState'
  BY <1>0, JobTypes DEF NormalInv, JobState
<1>3. JobOnce' /\ StorageOnce' /\ PoolQueued' /\ StorageQueued'
  BY DEF NormalInv, JobOnce, StorageOnce, PoolQueued, StorageQueued
<1> QED
  BY <1>1, <1>2, <1>3 DEF NormalInv

\* The task j is nowhere but in the hands of the thread that puts it away.
Loose(j) ==
  /\ j \notin poolExt
  /\ \A i \in Slots : \A n \in DOMAIN storage[i] : storage[i][n] # j

\* A task that is put into storage or into the pool is only there.
LEMMA PutKeeps ==
  ASSUME TypeOK, NormalInv, NEW t \in Threads, NEW j \in Normal, NEW to,
         Put(t, j, to), Loose(j), UNCHANGED hold,
         status'[j] = "queued", \A k \in Normal \ {j} : status'[k] = status[k],
         status[j] \in {"new", "queued"},
         \A u \in Threads : job'[u] = IF job[u] = j THEN None ELSE job[u]
  PROVE  NormalInv'
<1>0. \A u \in Threads : job'[u] # j /\ job'[u] \in {job[u], None}
  BY JobTypes
<1>1. Runner'
  BY JobTypes DEF NormalInv, Runner, RunningNormal
<1>2. JobState'
  BY <1>0, JobTypes DEF NormalInv, JobState
<1>3. JobOnce'
  BY <1>0 DEF NormalInv, JobOnce
<1>4. CASE ViaPool(t)
  <2>1. poolExt' = poolExt \cup {j} /\ storage' = storage
    BY <1>4 DEF Put
  <2>2. PoolQueued'
    BY <1>0, <2>1, JobTypes DEF NormalInv, PoolQueued
  <2>3. StorageQueued' /\ StorageOnce'
    BY <1>0, <2>1, JobTypes DEF NormalInv, StorageQueued, StorageOnce, Loose
  <2> QED
    BY <1>1, <1>2, <1>3, <2>2, <2>3 DEF NormalInv
<1>5. CASE ~ViaPool(t)
  <2> DEFINE s == MySlot(t)
  <2>0. s \in Slots /\ storage[s] \in Seq(Normal)
    BY <1>5, SlotFacts DEF TypeOK
  <2>1. poolExt' = poolExt /\ storage' = [storage EXCEPT ![s] = Append(storage[s], j)]
    BY <1>5 DEF Put
  <2> HIDE DEF s
  <2>2. \A i \in Slots : storage'[i] = IF i = s THEN Append(storage[s], j) ELSE storage[i]
    BY <2>1 DEF TypeOK
  <2>3. \A i \in Slots : \A n \in DOMAIN storage'[i] :
          \/ n \in DOMAIN storage[i] /\ storage'[i][n] = storage[i][n]
          \/ i = s /\ n = Len(storage[s]) + 1 /\ storage'[i][n] = j
    <3>1. \A n \in DOMAIN Append(storage[s], j) :
            \/ n \in DOMAIN storage[s] /\ Append(storage[s], j)[n] = storage[s][n]
            \/ n = Len(storage[s]) + 1 /\ Append(storage[s], j)[n] = j
      BY <2>0
    <3> QED
      BY <2>0, <2>2, <3>1
  <2>4. PoolQueued'
    BY <1>0, <2>1, JobTypes DEF NormalInv, PoolQueued, Loose
  <2>5. StorageQueued'
    BY <1>0, <2>1, <2>3, JobTypes DEF NormalInv, StorageQueued, Loose
  <2>6. StorageOnce'
    BY <2>3 DEF NormalInv, StorageOnce, Loose
  <2> QED
    BY <1>1, <1>2, <1>3, <2>4, <2>5, <2>6 DEF NormalInv
<1> QED
  BY <1>4, <1>5

\* A task that is new is nowhere.
LEMMA NewIsLoose ==
  ASSUME TypeOK, NormalInv, NEW j \in Normal, status[j] = "new"
  PROVE  Loose(j) /\ \A t \in Threads : job[t] # j
<1>1. Loose(j)
  BY DEF NormalInv, PoolQueued, StorageQueued, Loose
<1>2. \A t \in Threads : job[t] # j
  BY JobTypes DEF NormalInv, JobState
<1> QED
  BY <1>1, <1>2

\* A task in the hands of a thread is nowhere else.
LEMMA HeldIsLoose ==
  ASSUME TypeOK, NormalInv, NEW t \in Threads, job[t] # None
  PROVE  Loose(job[t])
BY DEF NormalInv, PoolQueued, StorageQueued, Loose

\* Steps that move the task of one thread on, with its status.
LEMMA JobFrame ==
  ASSUME TypeOK, NormalInv, NEW t \in Threads, NEW j \in Normal, NEW h \in HoldStates,
         UNCHANGED storage, poolExt' \subseteq poolExt, j \notin poolExt',
         \A i \in Slots : \A n \in DOMAIN storage[i] : storage[i][n] # j,
         \A u \in Threads \ {t} : job[u] # j,
         job[t] \in {None, j},
         \A u \in Threads : job'[u] = IF u = t THEN job'[t] ELSE job[u],
         \A u \in Threads : hold'[u] = IF u = t THEN h ELSE hold[u],
         job'[t] \in {None, j},
         \A k \in Normal \ {j} : status'[k] = status[k],
         job'[t] = j => status'[j] = IF h = "run" THEN "running"
                                     ELSE IF h = "gone" THEN "detached" ELSE "queued",
         job'[t] = None => status'[j] = "done"
  PROVE  NormalInv'
<1>1. Runner'
  BY JobTypes DEF NormalInv, Runner, RunningNormal
<1>2. JobState'
  BY JobTypes DEF NormalInv, JobState
<1>3. JobOnce'
  BY JobTypes DEF NormalInv, JobOnce
<1>4. PoolQueued'
  BY JobTypes DEF NormalInv, PoolQueued
<1>5. StorageQueued' /\ StorageOnce'
  BY JobTypes DEF NormalInv, StorageQueued, StorageOnce
<1> QED
  BY <1>1, <1>2, <1>3, <1>4, <1>5 DEF NormalInv

(***************************************************************************)
(* Normal tasks: every step                                                *)
(***************************************************************************)
\* Every step keeps track of the normal tasks.
LEMMA NormalStep == ASSUME TypeOK, Control, NormalInv, [Next]_vars PROVE NormalInv'
<1>1. CASE UNCHANGED vars
  BY <1>1, NormalFrame DEF vars
<1>2. CASE Next
  <2> PICK t \in Threads : Client(t) \/ Internal(t) \/ Resumes(t)
    BY <1>2 DEF Next
  <2>t. TypeOK' /\ Control'
    BY TypeStep, ControlStep
  <2>c. ControlAt(t)
    BY DEF Control
  <2>n. /\ Posted \subseteq Normal /\ Called \subseteq Normal /\ Normal \subseteq Jobs
        /\ Parallels \subseteq Jobs /\ Normal \cap Parallels = {} /\ None \notin Jobs
    BY WarpAssumption DEF Normal, Jobs
  \* Steps that touch no normal task.
  <2>1. ASSUME UNCHANGED <<storage, poolExt, job, hold, status>> PROVE NormalInv'
    BY <2>1, NormalFrame
  <2>2. CASE \/ Flush(t) \/ FlushExchange(t) \/ FlushQueue(t) \/ YieldExchange(t)
             \/ TakeExecute(t) \/ ExecuteRecheck(t) \/ ExecutePending(t)
             \/ ExecuteStart(t) \/ ExecuteTail(t) \/ ParallelPush(t)
             \/ ResumeExchange(t) \/ PollSuspend(t) \/ PollScan(t) \/ PollResume(t)
    BY <2>1, <2>2 DEF Flush, FlushExchange, FlushQueue, YieldExchange, TakeExecute,
       ExecuteRecheck, ExecutePending, ExecuteStart, ExecuteTail, ParallelPush,
       ResumeExchange, PollSuspend, PollScan, PollResume, thread, pool
  <2>3. CASE \E s \in Raw : RawSuspend(t, s) \/ RawResume(t, s)
    BY <2>1, <2>3 DEF RawSuspend, RawResume, thread, pool
  \* Steps of parallel tasks.
  <2>4. ASSUME NEW p \in Parallels, UNCHANGED <<storage, poolExt, job, hold>>,
               NEW st, status' = [status EXCEPT ![p] = st] \/ status' = status
        PROVE  NormalInv'
    <3>1. \A j \in Normal : status'[j] = status[j]
      BY <2>4, <2>n DEF TypeOK
    <3> QED
      BY <2>4, <3>1, NormalFrame
  <2>5. ASSUME NEW p \in Parallels, QueueParallel(t, p) \/ TakeParallel(t, p) PROVE NormalInv'
    BY <2>4, <2>5 DEF QueueParallel, TakeParallel, Mark, pool
  <2>6. CASE ParallelCheck(t) \/ SharedEnd(t)
    <3>1. par[t] \in Parallels
      BY <2>6, <2>c DEF ParallelCheck, SharedEnd, ControlAt, TypeOK
    <3> QED
      BY <2>4, <2>6, <3>1 DEF ParallelCheck, SharedEnd, Mark, pool
  \* Steps that take or leave the warp.
  <2>7. ASSUME NEW h \in HoldStates, UNCHANGED <<storage, poolExt, job, status>>,
               hold' = [hold EXCEPT ![t] = h] \/ UNCHANGED hold,
               job[t] = None \/ (hold[t] \notin {"run", "gone"} /\ h \notin {"run", "gone"})
        PROVE  NormalInv'
    BY <2>1, <2>7, HoldFrame
  <2>8. CASE QueueCas(t) \/ ExecuteCas(t) \/ TailCas(t) \/ PollCas(t)
    <3>1. hold[t] = "none"
      BY <2>8, <2>c DEF QueueCas, ExecuteCas, TailCas, PollCas, ControlAt
    <3>2. hold' = [hold EXCEPT ![t] = "guard"] \/ UNCHANGED hold
      BY <2>8 DEF QueueCas, ExecuteCas, TailCas, PollCas, Preempt
    <3>3. UNCHANGED <<storage, poolExt, job, status>>
      BY <2>8 DEF QueueCas, ExecuteCas, TailCas, PollCas, pool
    <3> QED
      BY <2>7, <3>1, <3>2, <3>3 DEF HoldStates
  <2>9. CASE Yield(t) \/ ExecuteParallel(t) \/ ExecuteCheck(t) \/ AfterBody(t)
    <3>1. job[t] = None
      BY <2>9, <2>c DEF Yield, ExecuteParallel, ExecuteCheck, AfterBody, ControlAt, Inner
    <3>2. \E h \in HoldStates : hold' = [hold EXCEPT ![t] = h] \/ UNCHANGED hold
      BY <2>9 DEF Yield, ExecuteParallel, ExecuteCheck, AfterBody, HoldStates
    <3>3. UNCHANGED <<storage, poolExt, job, status>>
      BY <2>9 DEF Yield, ExecuteParallel, ExecuteCheck, AfterBody, pool
    <3> QED
      BY <2>7, <3>1, <3>2, <3>3
  \* Steps that move a normal task.
  <2>10. ASSUME NEW j \in Posted \cup Called, NEW to, status[j] = "new", Put(t, j, to),
                status' = [status EXCEPT ![j] = "queued"], UNCHANGED <<job, hold>>
         PROVE  NormalInv'
    <3>1. j \in Normal /\ Loose(j) /\ \A u \in Threads : job[u] # j
      BY <2>10, <2>n, NewIsLoose
    <3>2. status'[j] = "queued" /\ \A k \in Normal \ {j} : status'[k] = status[k]
      BY <2>10, <2>n, <3>1 DEF TypeOK
    <3> QED
      BY <2>10, <3>1, <3>2, PutKeeps
  <2>11. ASSUME NEW j \in Posted, Post(t, j) PROVE NormalInv'
    BY <2>10, <2>11 DEF Post, Mark
  <2>12. ASSUME NEW j \in Called, QueueInside(t, j) PROVE NormalInv'
    <3>1. CASE suspended # {}
      BY <2>10, <2>12, <3>1 DEF QueueInside, Mark
    <3>2. CASE suspended = {}
      <4>1. j \in Normal /\ Loose(j) /\ \A u \in Threads : job[u] # j
        BY <2>12, <2>n, NewIsLoose DEF QueueInside
      <4>2. status' = [status EXCEPT ![j] = "done"] /\ UNCHANGED <<storage, poolExt, job, hold>>
        BY <2>12, <3>2 DEF QueueInside, Mark
      <4>3. \A k \in Normal \ {j} : status'[k] = status[k]
        BY <2>n, <4>1, <4>2 DEF TypeOK
      <4>4. Runner' /\ JobState' /\ JobOnce'
        BY <4>1, <4>2, <4>3, JobTypes DEF NormalInv, Runner, RunningNormal, JobState, JobOnce, TypeOK
      <4>5. PoolQueued' /\ StorageQueued' /\ StorageOnce'
        BY <4>1, <4>2, <4>3, JobTypes DEF NormalInv, PoolQueued, StorageQueued, StorageOnce, Loose
      <4> QED
        BY <4>4, <4>5 DEF NormalInv
    <3> QED
      BY <3>1, <3>2
  <2>13. ASSUME NEW j \in Called, QueueRoutine(t, j) PROVE NormalInv'
    <3>1. j \in Normal /\ Loose(j) /\ \A u \in Threads : job[u] # j
      BY <2>13, <2>n, NewIsLoose DEF QueueRoutine
    <3>2. hold[t] = "none" /\ job[t] = None
      BY <2>13, <2>c DEF QueueRoutine, ControlAt, Inner
    <3>3. /\ job' = [job EXCEPT ![t] = j] /\ status' = [status EXCEPT ![j] = "queued"]
          /\ UNCHANGED <<storage, poolExt, hold>>
      BY <2>13 DEF QueueRoutine, BeginQueue, Mark, pool
    <3>4. status'[j] = "queued" /\ \A k \in Normal \ {j} : status'[k] = status[k]
      BY <2>n, <3>1, <3>3 DEF TypeOK
    <3>5. job'[t] = j /\ \A u \in Threads \ {t} : job'[u] = job[u]
      BY <3>3 DEF TypeOK
    <3> QED
      BY <3>1, <3>2, <3>3, <3>4, <3>5, JobFrame DEF Loose, HoldStates
  <2>14. ASSUME NEW j \in Normal, TakeExternal(t, j) PROVE NormalInv'
    <3>1. status[j] = "queued" /\ \A u \in Threads : job[u] # j
      BY <2>14 DEF TakeExternal, NormalInv, PoolQueued
    <3>2. \A i \in Slots : \A n \in DOMAIN storage[i] : storage[i][n] # j
      BY <2>14 DEF TakeExternal, NormalInv, StorageQueued
    <3>3. hold[t] = "none" /\ job[t] = None
      BY <2>14, <2>c DEF TakeExternal, RunsPool, ControlAt, Inner
    <3>4. /\ job' = [job EXCEPT ![t] = j] /\ poolExt' = poolExt \ {j}
          /\ UNCHANGED <<storage, status, hold>>
      BY <2>14 DEF TakeExternal, BeginQueue
    <3>5. job'[t] = j /\ \A u \in Threads \ {t} : job'[u] = job[u]
      BY <3>4 DEF TypeOK
    <3> QED
      BY <2>n, <3>1, <3>2, <3>3, <3>4, <3>5, JobFrame DEF HoldStates
  <2>15. CASE QueuePost(t)
    <3> DEFINE j == job[t]
    <3>1. j \in Normal /\ hold[t] \in {"none", "guard"}
      BY <2>15, <2>c DEF QueuePost, ControlAt, TypeOK
    <3>2. Loose(j) /\ status[j] = "queued"
      BY <3>1, <2>n, HeldIsLoose DEF NormalInv, JobState
    <3>3. /\ Put(t, j, IF hold[t] = "guard" THEN "yield" ELSE "idle")
          /\ job' = [job EXCEPT ![t] = None] /\ UNCHANGED <<hold, status>>
      BY <2>15 DEF QueuePost
    <3>4. \A u \in Threads : job'[u] = IF job[u] = j THEN None ELSE job[u]
      BY <2>n, <3>1, <3>3 DEF NormalInv, JobOnce, TypeOK
    <3> HIDE DEF j
    <3> QED
      BY <3>1, <3>2, <3>3, <3>4, PutKeeps
  \* The task of t changes its status, and t may stop holding it.
  <2>16. ASSUME NEW h \in HoldStates, NEW st, job[t] \in Normal,
                UNCHANGED <<storage, poolExt>>,
                hold' = [hold EXCEPT ![t] = h],
                status' = [status EXCEPT ![job[t]] = st],
                \/ job' = [job EXCEPT ![t] = None] /\ st = "done"
                \/ /\ UNCHANGED job
                   /\ \/ h = "run" /\ st = "running"
                      \/ h = "gone" /\ st = "detached"
         PROVE  NormalInv'
    <3>1. Loose(job[t]) /\ \A u \in Threads \ {t} : job[u] # job[t]
      BY <2>16, <2>n, HeldIsLoose DEF NormalInv, JobOnce
    <3>2. status'[job[t]] = st /\ \A k \in Normal \ {job[t]} : status'[k] = status[k]
      BY <2>16, <2>n DEF TypeOK
    <3>3. \A u \in Threads : hold'[u] = IF u = t THEN h ELSE hold[u]
      BY <2>16 DEF TypeOK
    <3>4. /\ \A u \in Threads : job'[u] = IF u = t THEN job'[t] ELSE job[u]
          /\ (job'[t] = None /\ st = "done") \/ job'[t] = job[t]
      BY <2>16 DEF TypeOK
    <3>5. job'[t] \in {None, job[t]} /\ (job'[t] = job[t] => st = IF h = "run" THEN "running"
             ELSE IF h = "gone" THEN "detached" ELSE "queued") /\ (job'[t] = None => st = "done")
      BY <2>16, <2>n DEF TypeOK
    <3> QED
      BY <2>16, <3>1, <3>2, <3>3, <3>4, <3>5, JobFrame DEF Loose
  <2>17. CASE QueueRecheck(t)
    <3>1. CASE suspended # {}
      BY <2>1, <2>17, <3>1 DEF QueueRecheck, pool
    <3>2. CASE suspended = {}
      <4>1. job[t] \in Normal
        BY <2>17, <2>c DEF QueueRecheck, ControlAt, TypeOK
      <4>2. /\ UNCHANGED <<storage, poolExt, job>> /\ hold' = [hold EXCEPT ![t] = "run"]
            /\ status' = [status EXCEPT ![job[t]] = "running"]
        BY <2>17, <3>2 DEF QueueRecheck, Mark, pool
      <4> QED
        BY <4>1, <4>2, <2>16 DEF HoldStates
    <3> QED
      BY <3>1, <3>2
  <2>18. CASE YieldInside(t)
    <3>1. job[t] \in Normal
      BY <2>18, <2>c DEF YieldInside, Step, ControlAt, TypeOK
    <3>2. /\ UNCHANGED <<storage, poolExt, job>> /\ hold' = [hold EXCEPT ![t] = "gone"]
          /\ status' = [status EXCEPT ![job[t]] = "detached"]
      BY <2>18 DEF YieldInside, Mark, pool
    <3> QED
      BY <2>16, <3>1, <3>2 DEF HoldStates
  <2>19. CASE BodyEnd(t)
    <3>1. job[t] \in Normal /\ hold[t] \in HoldStates
      BY <2>19, <2>c DEF BodyEnd, Step, ControlAt, TypeOK
    <3>2. /\ UNCHANGED <<storage, poolExt, hold>> /\ job' = [job EXCEPT ![t] = None]
          /\ status' = [status EXCEPT ![job[t]] = "done"]
      BY <2>19 DEF BodyEnd, Mark, pool
    <3>3. hold' = [hold EXCEPT ![t] = hold[t]]
      BY <3>2 DEF TypeOK
    <3> QED
      BY <2>16, <3>1, <3>2, <3>3
  <2>20. CASE Scan(t) /\ storage[slot[t]] = <<>>
    <3>1. job[t] = None
      BY <2>20, <2>c DEF Scan, ControlAt, Inner
    <3>2. (hold' = [hold EXCEPT ![t] = "guard"] \/ UNCHANGED hold)
          /\ UNCHANGED <<storage, poolExt, job, status>>
      BY <2>20 DEF Scan, pool
    <3> QED
      BY <2>7, <3>1, <3>2 DEF HoldStates
  <2>21. CASE Scan(t) /\ storage[slot[t]] # <<>>
    <3> DEFINE s == slot[t]
               j == Head(storage[s])
    <3>1. s \in Slots /\ storage[s] \in Seq(Normal) /\ storage[s] # <<>>
      BY <2>21 DEF TypeOK
    <3>2. j = storage[s][1] /\ 1 \in DOMAIN storage[s] /\ j \in Normal
      BY <3>1
    <3>3. /\ job' = [job EXCEPT ![t] = j] /\ storage' = [storage EXCEPT ![s] = Tail(storage[s])]
          /\ status' = [status EXCEPT ![j] = "running"] /\ UNCHANGED <<poolExt, hold>>
      BY <2>21 DEF Scan, Mark, pool
    <3>4. job[t] = None /\ hold[t] = "run"
      BY <2>21, <2>c DEF Scan, ControlAt, Inner
    <3> HIDE DEF j, s
    <3>5. status[j] = "queued" /\ j \notin poolExt /\ \A u \in Threads : job[u] # j
      BY <3>1, <3>2 DEF NormalInv, StorageQueued
    <3>6. /\ status'[j] = "running" /\ \A k \in Normal \ {j} : status'[k] = status[k]
          /\ job'[t] = j /\ \A u \in Threads \ {t} : job'[u] = job[u]
      BY <2>n, <3>2, <3>3 DEF TypeOK
    <3>7. \A i \in Slots : storage'[i] = IF i = s THEN Tail(storage[s]) ELSE storage[i]
      BY <3>3 DEF TypeOK
    <3>8. \A n \in DOMAIN Tail(storage[s]) :
            n \in Nat /\ n + 1 \in DOMAIN storage[s] /\ n # 0 /\ Tail(storage[s])[n] = storage[s][n + 1]
      BY <3>1
    <3>9. Runner' /\ JobState' /\ JobOnce'
      BY <3>2, <3>3, <3>4, <3>5, <3>6, JobTypes DEF NormalInv, Runner, RunningNormal, JobState, JobOnce
    <3>10. PoolQueued'
      BY <3>3, <3>5, <3>6, JobTypes DEF NormalInv, PoolQueued
    \* What is left in storage was there before, and is not j.
    <3>11. \A i \in Slots : \A n \in DOMAIN storage'[i] :
             \E m \in DOMAIN storage[i] :
               m = (IF i = s THEN n + 1 ELSE n) /\ storage'[i][n] = storage[i][m] /\ storage[i][m] # j
      <4>1. ASSUME NEW i \in Slots, NEW n \in DOMAIN storage'[i], i # s
            PROVE  storage'[i][n] = storage[i][n] /\ n \in DOMAIN storage[i] /\ storage[i][n] # j
        BY <3>1, <3>2, <3>7, <4>1 DEF NormalInv, StorageOnce
      <4>2. ASSUME NEW n \in DOMAIN storage'[s]
            PROVE  n + 1 \in DOMAIN storage[s] /\ storage'[s][n] = storage[s][n + 1] /\ storage[s][n + 1] # j
        <5>1. n \in Nat /\ n # 0 /\ n + 1 \in DOMAIN storage[s] /\ storage'[s][n] = storage[s][n + 1]
          BY <3>1, <3>7, <3>8
        <5>2. n + 1 # 1
          BY <5>1
        <5> QED
          BY <3>1, <3>2, <5>1, <5>2 DEF NormalInv, StorageOnce
      <4> QED
        BY <4>1, <4>2
    <3>12. StorageQueued'
      <4> SUFFICES ASSUME NEW i \in Slots, NEW n \in DOMAIN storage'[i]
                   PROVE  /\ status'[storage'[i][n]] = "queued" /\ storage'[i][n] \notin poolExt'
                          /\ \A u \in Threads : job'[u] # storage'[i][n]
        BY DEF StorageQueued
      <4>1. PICK m \in DOMAIN storage[i] : storage'[i][n] = storage[i][m] /\ storage[i][m] # j
        BY <3>11
      <4>2. storage[i][m] \in Normal
        BY JobTypes
      <4>3. \A u \in Threads : job'[u] # storage[i][m]
        BY <3>6, <4>1 DEF NormalInv, StorageQueued
      <4> QED
        BY <3>3, <3>6, <4>1, <4>2, <4>3 DEF NormalInv, StorageQueued
    <3>13. StorageOnce'
      <4> SUFFICES ASSUME NEW i \in Slots, NEW k \in Slots, NEW n \in DOMAIN storage'[i],
                          NEW m \in DOMAIN storage'[k], storage'[i][n] = storage'[k][m]
                   PROVE  i = k /\ n = m
        BY DEF StorageOnce
      <4>1. \A x \in Slots : \A y \in DOMAIN storage'[x] : y \in Nat
        <5>1. \A x \in Slots : storage'[x] \in Seq(Normal)
          BY <2>t DEF TypeOK
        <5> QED
          BY <5>1
      <4>2. i = k /\ (IF i = s THEN n + 1 ELSE n) = (IF k = s THEN m + 1 ELSE m)
        BY <3>11 DEF NormalInv, StorageOnce
      <4> QED
        BY <4>1, <4>2
    <3> QED
      BY <3>9, <3>10, <3>12, <3>13 DEF NormalInv
  <2> QED
    BY <2>2, <2>3, <2>5, <2>6, <2>8, <2>9, <2>11, <2>12, <2>13, <2>14, <2>15, <2>17, <2>18,
       <2>19, <2>20, <2>21 DEF Client, Internal, Resumes
<1> QED
  BY <1>1, <1>2

(***************************************************************************)
(* Parallel tasks: steps of the same kind                                  *)
(***************************************************************************)
\* A task that is queued but not yet where its owner or a worker finds it.
Queuing == {"par_check", "par_push"}

\* Nothing that counts in suspend_count: no parallel task has been released.
LEMMA Unsuspended ==
  ASSUME TypeOK, SharedInv, suspended = {}
  PROVE  poolPar = {} /\ RunningShared = {}
<1>1. \A p \in Parallels : p # None
  BY WarpAssumption DEF Jobs
<1> QED
  BY <1>1 DEF SharedInv, ParallelQueued, SharedRunner, ParState, RunningShared

\* Steps that touch no parallel task.
LEMMA SharedFrame ==
  ASSUME TypeOK, SharedInv, NEW t \in Threads, Local(t),
         UNCHANGED <<parallel, poolPar, par>>,
         par[t] = None \/ (pc[t] \notin Queuing /\ pc'[t] \notin Queuing),
         \A p \in Parallels : status'[p] = status[p] /\ (p \in suspended => p \in suspended'),
         hold'[t] = "run" => \/ suspended = {} \/ after'[t] = "poll_resume"
                             \/ (hold[t] = "run" /\ after[t] = after'[t])
  PROVE  SharedInv'
<1>0. /\ \A u \in Threads : par[u] \in Parallels \cup {None}
      /\ parallel \subseteq Parallels /\ poolPar \subseteq Parallels
  BY DEF TypeOK
<1>1. ParallelQueued'
  BY <1>0 DEF SharedInv, ParallelQueued
<1>2. ParState'
  BY <1>0 DEF SharedInv, ParState, Local, Queuing
<1>3. ParOnce' /\ SharedRunner' /\ (parallel \cap poolPar = {})'
  BY DEF SharedInv, ParOnce, SharedRunner, RunningShared
<1>4. Licensed'
  <2>1. RunningShared' = RunningShared
    BY DEF RunningShared
  <2> QED
    BY <2>1, Unsuspended DEF SharedInv, Licensed, Local
<1> QED
  BY <1>1, <1>2, <1>3, <1>4 DEF SharedInv

\* Steps that move one parallel task on.
LEMMA ParallelFrame ==
  ASSUME TypeOK, SharedInv, NEW t \in Threads, NEW p \in Parallels, Local(t),
         UNCHANGED <<hold, after>>, par[t] \in {None, p}, par'[t] \in {None, p},
         \A u \in Threads \ {t} : par[u] # p,
         \A q \in Parallels \ {p} : /\ (q \in parallel' <=> q \in parallel)
                                    /\ (q \in poolPar' <=> q \in poolPar)
                                    /\ status'[q] = status[q]
                                    /\ (q \in suspended => q \in suspended'),
         parallel' \subseteq Parallels, poolPar' \subseteq Parallels,
         p \in parallel' \cup poolPar' =>
           status'[p] = "queued" /\ p \in suspended' /\ par'[t] = None,
         p \notin parallel' \cap poolPar',
         par'[t] = p =>
           p \in suspended' /\ status'[p] = IF pc'[t] \in Queuing THEN "queued" ELSE "running",
         status'[p] = "running" => par'[t] = p,
         \/ p \in poolPar \/ status[p] = "running"
         \/ \A u \in Threads : hold[u] # "run"
         \/ p \notin poolPar' /\ status'[p] # "running"
  PROVE  SharedInv'
<1>0. /\ \A u \in Threads : par[u] \in Parallels \cup {None}
      /\ None \notin Parallels
  BY WarpAssumption DEF TypeOK, Jobs
<1>a. \A u \in Threads \ {t} : par'[u] = par[u] /\ pc'[u] = pc[u]
  BY DEF Local
<1>1. ParallelQueued'
  <2> SUFFICES ASSUME NEW q \in parallel' \cup poolPar'
               PROVE  status'[q] = "queued" /\ q \in suspended' /\ \A u \in Threads : par'[u] # q
    BY DEF ParallelQueued
  <2>1. CASE q = p
    BY <1>0, <1>a, <2>1
  <2>2. CASE q # p
    <3>1. q \in Parallels \ {p} /\ q \in parallel \cup poolPar
      BY <2>2
    <3> QED
      BY <1>0, <1>a, <3>1 DEF SharedInv, ParallelQueued
  <2> QED
    BY <2>1, <2>2
<1>2. ParState'
  <2> SUFFICES ASSUME NEW u \in Threads, par'[u] # None
               PROVE  /\ par'[u] \in suspended'
                      /\ status'[par'[u]] = IF pc'[u] \in {"par_check", "par_push"}
                                            THEN "queued" ELSE "running"
    BY DEF ParState
  <2>1. CASE u = t
    BY <2>1 DEF Queuing
  <2>2. CASE u # t
    <3>1. par[u] \in Parallels \ {p} /\ par'[u] = par[u] /\ pc'[u] = pc[u]
      BY <1>0, <1>a, <2>2
    <3> QED
      BY <3>1, <1>0 DEF SharedInv, ParState
  <2> QED
    BY <2>1, <2>2
<1>3. ParOnce'
  BY <1>0, <1>a DEF SharedInv, ParOnce
<1>4. SharedRunner' /\ (parallel \cap poolPar = {})'
  BY <1>0, <1>a DEF SharedInv, SharedRunner, RunningShared
<1>5. Licensed'
  <2> SUFFICES ASSUME NEW u \in Threads, hold[u] = "run", after[u] # "poll_resume"
               PROVE  poolPar' = {} /\ RunningShared' = {}
    BY DEF Licensed
  <2>1. poolPar = {} /\ RunningShared = {}
    BY DEF SharedInv, Licensed
  <2>2. p \notin poolPar' /\ status'[p] # "running"
    BY <2>1 DEF RunningShared
  <2> QED
    BY <2>1, <2>2 DEF RunningShared
<1> QED
  BY <1>1, <1>2, <1>3, <1>4, <1>5 DEF SharedInv

\* A parallel task that is new is nowhere.
LEMMA NewParallel ==
  ASSUME TypeOK, SharedInv, NEW p \in Parallels, status[p] = "new"
  PROVE  p \notin parallel \cup poolPar /\ \A t \in Threads : par[t] # p
<1>1. p \notin parallel \cup poolPar
  BY DEF SharedInv, ParallelQueued
<1>2. p # None
  BY WarpAssumption DEF Jobs
<1> QED
  BY <1>1, <1>2 DEF SharedInv, ParState

\* A parallel task in the hands of a thread is nowhere else.
LEMMA HeldParallel ==
  ASSUME TypeOK, SharedInv, NEW t \in Threads, par[t] # None
  PROVE  /\ par[t] \in Parallels /\ par[t] \notin parallel \cup poolPar
         /\ par[t] \in suspended /\ \A u \in Threads \ {t} : par[u] # par[t]
BY DEF SharedInv, ParallelQueued, ParState, ParOnce, TypeOK

(***************************************************************************)
(* Parallel tasks: every step                                              *)
(***************************************************************************)
\* Every step keeps track of the parallel tasks.
LEMMA SharedStep == ASSUME TypeOK, Control, SharedInv, [Next]_vars PROVE SharedInv'
<1>1. CASE UNCHANGED vars
  <2>1. RunningShared' = RunningShared
    BY <1>1 DEF vars, RunningShared
  <2> QED
    BY <1>1, <2>1 DEF vars, SharedInv, ParallelQueued, ParState, ParOnce, SharedRunner, Licensed
<1>2. CASE Next
  <2> PICK t \in Threads : Client(t) \/ Internal(t) \/ Resumes(t)
    BY <1>2 DEF Next
  <2>l. Local(t) /\ ControlAt(t)
    BY LocalStep DEF Control
  <2>r. /\ Back(t) \notin Queuing /\ ret[t] \notin Queuing /\ after[t] \notin Queuing
    BY DEF TypeOK, RetPCs, Back, Queuing
  <2>n. /\ Posted \subseteq Normal /\ Called \subseteq Normal /\ Normal \cap Parallels = {}
        /\ Normal \subseteq Jobs /\ Parallels \subseteq Jobs
        /\ t \notin Parallels /\ Raw \cap Parallels = {}
    BY WarpAssumption DEF Normal, Jobs
  \* Steps that touch no parallel task.
  <2>1. ASSUME UNCHANGED <<parallel, poolPar, par, suspended>>,
               pc[t] \notin Queuing, pc'[t] \notin Queuing,
               \A p \in Parallels : status'[p] = status[p],
               hold'[t] = "run" => \/ suspended = {}
                                   \/ hold[t] = "run" /\ after[t] = after'[t]
        PROVE  SharedInv'
    BY <2>1, <2>l, SharedFrame
  <2>2. CASE \/ Flush(t) \/ FlushExchange(t) \/ FlushQueue(t) \/ YieldExchange(t)
             \/ ExecuteRecheck(t) \/ ExecutePending(t) \/ ExecuteStart(t)
             \/ ResumeExchange(t)
    <3>1. UNCHANGED <<parallel, poolPar, par, suspended, status, hold, after>>
      BY <2>2 DEF Flush, FlushExchange, FlushQueue, YieldExchange, ExecuteRecheck,
         ExecutePending, ExecuteStart, ResumeExchange, thread, pool
    <3>2. pc[t] \notin Queuing /\ pc'[t] \notin Queuing
      BY <2>2, <2>r DEF Flush, FlushExchange, FlushQueue, YieldExchange, ExecuteRecheck,
         ExecutePending, ExecuteStart, ResumeExchange, Step, Goto, Queuing, TypeOK
    <3> QED
      BY <2>1, <3>1, <3>2
  <2>3. CASE TakeExecute(t) \/ ExecuteTail(t) \/ PollScan(t)
    <3>1. UNCHANGED <<parallel, poolPar, par, suspended, status, hold>>
      BY <2>3 DEF TakeExecute, ExecuteTail, PollScan, thread, pool
    <3>2. pc[t] \notin Queuing /\ pc'[t] \notin Queuing
      BY <2>3 DEF TakeExecute, ExecuteTail, PollScan, RunsPool, Step, Goto, Queuing, TypeOK
    <3>3. hold[t] # "run"
      BY <2>3, <2>l DEF TakeExecute, ExecuteTail, PollScan, RunsPool, Step, ControlAt
    <3> QED
      BY <2>1, <3>1, <3>2, <3>3
  <2>4. CASE QueueCas(t) \/ ExecuteCas(t) \/ TailCas(t) \/ PollCas(t)
    <3>1. UNCHANGED <<parallel, poolPar, par, suspended, status>>
      BY <2>4 DEF QueueCas, ExecuteCas, TailCas, PollCas, pool
    <3>2. pc[t] \notin Queuing /\ pc'[t] \notin Queuing
      BY <2>4 DEF QueueCas, ExecuteCas, TailCas, PollCas, Preempt, Goto, Queuing, TypeOK
    <3>3. hold[t] = "none"
      BY <2>4, <2>l DEF QueueCas, ExecuteCas, TailCas, PollCas, ControlAt
    <3>4. hold'[t] # "run"
      BY <2>4, <3>3 DEF QueueCas, ExecuteCas, TailCas, PollCas, Preempt, TypeOK
    <3> QED
      BY <2>1, <3>1, <3>2, <3>4
  <2>5. CASE Yield(t)
    <3>1. UNCHANGED <<parallel, poolPar, par, suspended, status>> /\ hold'[t] = "none"
      BY <2>5 DEF Yield, pool, TypeOK
    <3>2. pc[t] \notin Queuing /\ pc'[t] \notin Queuing
      BY <2>5, <2>r DEF Yield, Goto, Queuing, TypeOK
    <3> QED
      BY <2>1, <3>1, <3>2
  \* Steps of suspend_count.
  <2>6. ASSUME NEW s \in Tokens \ Parallels, NEW susp,
               suspended' = suspended \cup {s} \/ suspended' = suspended \ {s},
               UNCHANGED <<parallel, poolPar, par, status, hold, after>>,
               pc[t] \notin Queuing, pc'[t] \notin Queuing
        PROVE  SharedInv'
    BY <2>6, <2>l, SharedFrame
  <2>7. CASE PollSuspend(t)
    <3>1. t \in Tokens \ Parallels /\ suspended' = suspended \cup {t}
      BY <2>7, <2>n DEF PollSuspend, Tokens
    <3>2. UNCHANGED <<parallel, poolPar, par, status, hold, after>>
      BY <2>7 DEF PollSuspend, thread, pool
    <3>3. pc[t] \notin Queuing /\ pc'[t] \notin Queuing
      BY <2>7 DEF PollSuspend, Step, Goto, Queuing, TypeOK
    <3> QED
      BY <2>6, <3>1, <3>2, <3>3
  <2>8. CASE PollResume(t)
    <3>1. \A p \in Parallels : p \in suspended => p \in suspended'
      BY <2>8, <2>n DEF PollResume, Resume
    <3>2. UNCHANGED <<parallel, poolPar, par, status, hold, after>>
      BY <2>8 DEF PollResume, thread, pool
    <3>3. pc[t] \notin Queuing /\ pc'[t] \notin Queuing
      BY <2>8 DEF PollResume, Resume, Step, Goto, Queuing, TypeOK
    <3> QED
      BY <2>l, <3>1, <3>2, <3>3, SharedFrame
  <2>9. ASSUME NEW s \in Raw, RawSuspend(t, s) \/ RawResume(t, s) PROVE SharedInv'
    <3>1. \A p \in Parallels : p \in suspended => p \in suspended'
      BY <2>9, <2>n DEF RawSuspend, RawResume, Resume
    <3>2. UNCHANGED <<parallel, poolPar, par, status, hold, after>>
      BY <2>9 DEF RawSuspend, RawResume, thread, pool
    <3>3. pc[t] \notin Queuing /\ pc'[t] \notin Queuing
      BY <2>9 DEF RawSuspend, RawResume, InClient, Resume, Goto, Queuing, TypeOK
    <3> QED
      BY <2>l, <3>1, <3>2, <3>3, SharedFrame
  \* Steps of normal tasks.
  <2>10. ASSUME NEW j \in Normal, NEW st,
                UNCHANGED status \/ status' = [status EXCEPT ![j] = st]
         PROVE  \A p \in Parallels : status'[p] = status[p]
    BY <2>10, <2>n DEF TypeOK
  <2>11. ASSUME NEW j, NEW to, Put(t, j, to), pc[t] \notin Queuing, to \notin Queuing
         PROVE  pc'[t] \notin Queuing
    BY <2>11 DEF Put, Goto, Queuing, TypeOK
  <2>12. ASSUME NEW j \in Posted, Post(t, j) PROVE SharedInv'
    <3>1. UNCHANGED <<parallel, poolPar, par, suspended, hold, after>>
      BY <2>12 DEF Post
    <3>2. pc[t] \notin Queuing /\ pc'[t] \notin Queuing
      BY <2>11, <2>12 DEF Post, InClient, Queuing
    <3>3. \A p \in Parallels : status'[p] = status[p]
      BY <2>10, <2>12, <2>n DEF Post, Mark
    <3> QED
      BY <2>1, <3>1, <3>2, <3>3
  <2>13. ASSUME NEW j \in Called, QueueRoutine(t, j) \/ QueueInside(t, j) PROVE SharedInv'
    <3>1. UNCHANGED <<parallel, poolPar, par, suspended, hold, after>>
      BY <2>13 DEF QueueRoutine, QueueInside, pool
    <3>2. pc[t] \notin Queuing /\ pc'[t] \notin Queuing
      <4>1. CASE QueueRoutine(t, j)
        BY <4>1 DEF QueueRoutine, BeginQueue, Goto, Queuing, TypeOK
      <4>2. CASE QueueInside(t, j) /\ suspended = {}
        BY <4>2 DEF QueueInside, Queuing
      <4>3. CASE QueueInside(t, j) /\ suspended # {}
        BY <2>11, <4>3 DEF QueueInside, Queuing
      <4> QED
        BY <2>13, <4>1, <4>2, <4>3
    <3>3. \A p \in Parallels : status'[p] = status[p]
      <4>1. j \in Normal
        BY <2>n
      <4>2. status' = [status EXCEPT ![j] = "queued"] \/ status' = [status EXCEPT ![j] = "done"]
        BY <2>13 DEF QueueRoutine, QueueInside, Mark
      <4> QED
        BY <2>10, <4>1, <4>2
    <3> QED
      BY <2>1, <3>1, <3>2, <3>3
  <2>14. ASSUME NEW j \in Normal, TakeExternal(t, j) PROVE SharedInv'
    <3>1. UNCHANGED <<parallel, poolPar, par, suspended, status, hold, after>>
      BY <2>14 DEF TakeExternal
    <3>2. pc[t] \notin Queuing /\ pc'[t] \notin Queuing
      BY <2>14 DEF TakeExternal, RunsPool, BeginQueue, Goto, Queuing, TypeOK
    <3> QED
      BY <2>1, <3>1, <3>2
  <2>15. CASE QueuePost(t)
    <3>1. UNCHANGED <<parallel, poolPar, par, suspended, status, hold, after>>
      BY <2>15 DEF QueuePost
    <3>2. pc[t] \notin Queuing
      BY <2>15 DEF QueuePost, Queuing
    <3>3. pc'[t] \notin Queuing
      BY <2>11, <2>15, <3>2 DEF QueuePost, Queuing
    <3> QED
      BY <2>1, <3>1, <3>2, <3>3
  <2>16. CASE QueueRecheck(t) \/ YieldInside(t) \/ BodyEnd(t)
    <3>1. job[t] \in Normal
      BY <2>16, <2>l DEF QueueRecheck, YieldInside, BodyEnd, Step, ControlAt, TypeOK
    <3>2. UNCHANGED <<parallel, poolPar, par, suspended, after>>
      BY <2>16 DEF QueueRecheck, YieldInside, BodyEnd, pool
    <3>3. pc[t] \notin Queuing /\ pc'[t] \notin Queuing
      BY <2>16 DEF QueueRecheck, YieldInside, BodyEnd, Step, Goto, Queuing, TypeOK
    <3>4. \E st : UNCHANGED status \/ status' = [status EXCEPT ![job[t]] = st]
      BY <2>16 DEF QueueRecheck, YieldInside, BodyEnd, Mark
    <3>5. \A p \in Parallels : status'[p] = status[p]
      BY <2>10, <3>1, <3>4
    <3>6. hold'[t] = "run" => suspended = {} \/ hold[t] = "run"
      BY <2>16 DEF QueueRecheck, YieldInside, BodyEnd, TypeOK
    <3> QED
      BY <2>1, <3>2, <3>3, <3>5, <3>6
  <2>17. CASE Scan(t) \/ AfterBody(t)
    <3>1. UNCHANGED <<parallel, poolPar, par, suspended, after>>
      BY <2>17 DEF Scan, AfterBody, pool
    <3>2. pc[t] \notin Queuing /\ pc'[t] \notin Queuing
      BY <2>17 DEF Scan, AfterBody, Goto, Queuing, TypeOK
    <3>3. \A p \in Parallels : status'[p] = status[p]
      <4>1. CASE AfterBody(t) \/ (Scan(t) /\ storage[slot[t]] = <<>>)
        BY <4>1 DEF AfterBody, Scan
      <4>2. CASE Scan(t) /\ storage[slot[t]] # <<>>
        <5>1. storage[slot[t]] \in Seq(Normal) /\ storage[slot[t]] # <<>>
          BY <4>2 DEF TypeOK
        <5>2. Head(storage[slot[t]]) \in Normal
          BY <5>1
        <5>3. status' = [status EXCEPT ![Head(storage[slot[t]])] = "running"]
          BY <4>2 DEF Scan, Mark
        <5> QED
          BY <2>10, <5>2, <5>3
      <4> QED
        BY <2>17, <4>1, <4>2
    <3>4. hold'[t] = "run" => hold[t] = "run"
      BY <2>17 DEF Scan, AfterBody, TypeOK
    <3> QED
      BY <2>1, <3>1, <3>2, <3>3, <3>4
  <2>18. CASE ExecuteCheck(t)
    <3>1. UNCHANGED <<parallel, poolPar, par, suspended, status, after>>
      BY <2>18 DEF ExecuteCheck, pool
    <3>2. pc[t] \notin Queuing /\ pc'[t] \notin Queuing
      BY <2>18 DEF ExecuteCheck, Goto, Queuing, TypeOK
    <3>3. hold'[t] = "run" => suspended = {} \/ hold[t] = "run"
      BY <2>18 DEF ExecuteCheck
    <3> QED
      BY <2>1, <3>1, <3>2, <3>3
  \* Steps of parallel tasks.
  <2>20. CASE ExecuteParallel(t)
    <3>1. owner = t /\ hold[t] = "guard" /\ pc[t] = "ex_par"
      BY <2>20, <2>l DEF ExecuteParallel, ControlAt
    <3>2. \A u \in Threads : hold[u] # "run"
      BY <3>1, WarpAssumption DEF Control, ControlAt
    <3>3. CASE parallel = {}
      <4>1. UNCHANGED <<parallel, poolPar, par, suspended, status, after>>
        BY <2>20, <3>3 DEF ExecuteParallel
      <4>2. pc[t] \notin Queuing /\ pc'[t] \notin Queuing
        BY <2>20, <3>3 DEF ExecuteParallel, Goto, Queuing, TypeOK
      <4>3. hold'[t] = "run" => after'[t] = "poll_resume"
        BY <2>20, <3>1, <3>3, <4>1 DEF ExecuteParallel, TypeOK
      <4> QED
        BY <2>l, <4>1, <4>2, <4>3, SharedFrame
    <3>4. CASE parallel # {}
      <4>1. /\ poolPar' = poolPar \cup parallel /\ parallel' = {}
            /\ UNCHANGED <<par, pc, hold, suspended, status, after>>
        BY <2>20, <3>4 DEF ExecuteParallel
      <4>2. ParallelQueued' /\ ParState' /\ ParOnce' /\ SharedRunner'
        BY <4>1 DEF SharedInv, ParallelQueued, ParState, ParOnce, SharedRunner, RunningShared
      <4>3. Licensed'
        BY <3>2, <4>1 DEF Licensed
      <4> QED
        BY <4>1, <4>2, <4>3 DEF SharedInv
    <3> QED
      BY <3>3, <3>4
  <2>21. ASSUME NEW p \in Parallels, QueueParallel(t, p) PROVE SharedInv'
    <3>1. p \notin parallel \cup poolPar /\ \A u \in Threads : par[u] # p
      BY <2>21, NewParallel DEF QueueParallel
    <3>2. /\ UNCHANGED <<parallel, poolPar, hold, after>> /\ suspended' = suspended \cup {p}
          /\ status' = [status EXCEPT ![p] = "queued"]
      BY <2>21 DEF QueueParallel, Mark, pool
    <3>3. par[t] = None
      BY <2>21, <2>l DEF QueueParallel, InClient, ControlAt
    <3>4. par'[t] = p /\ pc'[t] \in Queuing
      BY <2>21 DEF QueueParallel, Goto, Queuing, TypeOK
    <3>5. status'[p] = "queued" /\ \A q \in Parallels \ {p} : status'[q] = status[q]
      BY <2>n, <3>2 DEF TypeOK
    <3> QED
      BY <2>l, <3>1, <3>2, <3>3, <3>4, <3>5, ParallelFrame DEF TypeOK
  <2>22. ASSUME NEW p \in Parallels, TakeParallel(t, p) PROVE SharedInv'
    <3>1. p \in poolPar /\ p \notin parallel /\ p \in suspended /\ \A u \in Threads : par[u] # p
      BY <2>22 DEF TakeParallel, SharedInv, ParallelQueued
    <3>2. /\ UNCHANGED <<parallel, hold, after, suspended>> /\ poolPar' = poolPar \ {p}
          /\ status' = [status EXCEPT ![p] = "running"]
      BY <2>22 DEF TakeParallel, Mark
    <3>3. par[t] = None
      BY <2>22, <2>l DEF TakeParallel, RunsPool, ControlAt
    <3>4. par'[t] = p /\ pc'[t] \notin Queuing
      BY <2>22 DEF TakeParallel, Goto, Queuing, TypeOK
    <3>5. status'[p] = "running" /\ \A q \in Parallels \ {p} : status'[q] = status[q]
      BY <2>n, <3>2 DEF TypeOK
    <3> QED
      BY <2>l, <3>1, <3>2, <3>3, <3>4, <3>5, ParallelFrame DEF TypeOK
  <2>23. CASE ParallelCheck(t)
    <3> DEFINE p == par[t]
    <3>1. pc[t] \in Queuing /\ p # None
      BY <2>23, <2>l DEF ParallelCheck, Queuing, ControlAt
    <3>2. /\ p \in Parallels /\ p \notin parallel \cup poolPar /\ p \in suspended
          /\ \A u \in Threads \ {t} : par[u] # p
      BY <3>1, HeldParallel
    <3>3. status[p] = "queued"
      BY <3>1 DEF SharedInv, ParState, Queuing
    <3>4. UNCHANGED <<parallel, hold, after, suspended>>
      BY <2>23 DEF ParallelCheck
    <3>5. owner = None => \A u \in Threads : hold[u] # "run"
      BY WarpAssumption DEF Control, ControlAt
    <3>6. p # None
      BY <3>1
    <3> HIDE DEF p
    <3>7. CASE owner = None /\ status' = [status EXCEPT ![p] = "running"] /\ UNCHANGED <<poolPar, par>>
               /\ pc'[t] = "shared"
      <4>1. status'[p] = "running" /\ \A q \in Parallels \ {p} : status'[q] = status[q]
        BY <2>n, <3>2, <3>7 DEF TypeOK
      <4>2. par[t] = p /\ par'[t] = p /\ pc'[t] \notin Queuing
        BY <3>7 DEF Queuing, p
      <4> QED
        BY <2>l, <3>2, <3>4, <3>5, <3>7, <4>1, <4>2, ParallelFrame DEF TypeOK
    <3>8. CASE owner = None /\ UNCHANGED status /\ poolPar' = poolPar \cup {p} /\ par' = [par EXCEPT ![t] = None]
      <4>1. par[t] = p /\ par'[t] = None
        BY <3>8 DEF p, TypeOK
      <4> QED
        BY <2>l, <3>2, <3>3, <3>4, <3>5, <3>6, <3>8, <4>1, ParallelFrame DEF TypeOK
    <3>9. CASE owner # None /\ pc'[t] = "par_push" /\ UNCHANGED <<poolPar, par, status>>
      <4>1. par[t] = p /\ par'[t] = p /\ pc'[t] \in Queuing
        BY <3>9 DEF Queuing, p
      <4> QED
        BY <2>l, <3>2, <3>3, <3>4, <3>9, <4>1, ParallelFrame DEF TypeOK
    <3> QED
      BY <2>23, <3>7, <3>8, <3>9 DEF ParallelCheck, Mark, Goto, TypeOK, p
  <2>24. CASE ParallelPush(t)
    <3> DEFINE p == par[t]
    <3>1. pc[t] \in Queuing /\ p # None
      BY <2>24, <2>l DEF ParallelPush, Step, Queuing, ControlAt
    <3>2. /\ p \in Parallels /\ p \notin parallel \cup poolPar /\ p \in suspended
          /\ \A u \in Threads \ {t} : par[u] # p
      BY <3>1, HeldParallel
    <3>3. status[p] = "queued"
      BY <3>1 DEF SharedInv, ParState, Queuing
    <3>4. /\ UNCHANGED <<poolPar, hold, after, suspended, status>>
          /\ parallel' = parallel \cup {p} /\ par' = [par EXCEPT ![t] = None]
      BY <2>24 DEF ParallelPush, pool
    <3>5. par[t] = p /\ par'[t] = None /\ p # None
      BY <3>1, <3>4 DEF TypeOK
    <3> HIDE DEF p
    <3> QED
      BY <2>l, <3>2, <3>3, <3>4, <3>5, ParallelFrame DEF TypeOK
  <2>25. CASE SharedEnd(t)
    <3> DEFINE p == par[t]
    <3>1. p # None
      BY <2>25, <2>l DEF SharedEnd, ControlAt
    <3>2. /\ p \in Parallels /\ p \notin parallel \cup poolPar
          /\ \A u \in Threads \ {t} : par[u] # p
      BY <3>1, HeldParallel
    <3>4. /\ UNCHANGED <<parallel, poolPar, hold, after>> /\ suspended' = suspended \ {p}
          /\ par' = [par EXCEPT ![t] = None] /\ status' = [status EXCEPT ![p] = "done"]
      BY <2>25 DEF SharedEnd, Resume, Mark, pool
    <3>5. par[t] = p /\ par'[t] = None /\ p # None
      BY <3>1, <3>4 DEF TypeOK
    <3> HIDE DEF p
    <3>6. status'[p] = "done" /\ \A q \in Parallels \ {p} : status'[q] = status[q]
      BY <2>n, <3>2, <3>4 DEF TypeOK
    <3> QED
      BY <2>l, <3>2, <3>4, <3>5, <3>6, ParallelFrame DEF TypeOK
  <2> QED
    BY <2>2, <2>3, <2>4, <2>5, <2>7, <2>8, <2>9, <2>12, <2>13, <2>14, <2>15, <2>16, <2>17,
       <2>18, <2>20, <2>21, <2>22, <2>23, <2>24, <2>25 DEF Client, Internal, Resumes
<1> QED
  BY <1>1, <1>2

(***************************************************************************)
(* The exclusion of tasks                                                  *)
(***************************************************************************)
LEMMA InitTasks == Init => NormalInv /\ SharedInv
<1> SUFFICES ASSUME Init PROVE NormalInv /\ SharedInv
  OBVIOUS
<1>1. /\ \A t \in Threads : job[t] = None /\ par[t] = None /\ hold[t] = "none"
      /\ \A i \in Slots : storage[i] = <<>>
      /\ parallel = {} /\ poolPar = {} /\ poolExt = {}
  BY DEF Init
<1>2. RunningNormal = {} /\ RunningShared = {}
  BY DEF Init, RunningNormal, RunningShared, Jobs
<1>3. NormalInv
  BY <1>1, <1>2 DEF NormalInv, Runner, JobState, JobOnce, PoolQueued, StorageQueued, StorageOnce
<1>4. SharedInv
  BY <1>1, <1>2 DEF SharedInv, ParallelQueued, ParState, ParOnce, SharedRunner, Licensed
<1> QED
  BY <1>3, <1>4

IInv == TypeOK /\ Control /\ NormalInv /\ SharedInv

LEMMA Invariance == Spec => []IInv
<1>1. Init => IInv
  BY InitControl, InitTasks DEF IInv
<1>2. IInv /\ [Next]_vars => IInv'
  BY TypeStep, ControlStep, NormalStep, SharedStep DEF IInv
<1> QED
  BY <1>1, <1>2, PTL DEF Spec

\* The thread that holds the license is the owner of the warp.
LEMMA OneLicense ==
  ASSUME Control
  PROVE  /\ \A t, u \in Threads : hold[t] \in {"guard", "run"} /\ hold[u] = "run" => t = u
         /\ owner = None => \A t \in Threads : hold[t] # "run"
         /\ Pollers = {} => \A t \in Threads : after[t] # "poll_resume"
BY WarpAssumption DEF Control, ControlAt

\* Two normal tasks of a warp never run at the same time, whatever the threads
\* do: queue_routine, posts, parallel tasks, suspends and polls.
THEOREM NormalTasksExclude == Spec => []NormalExclusion
<1>1. IInv => NormalExclusion
  <2> SUFFICES ASSUME IInv, NEW j \in RunningNormal, NEW k \in RunningNormal PROVE j = k
    BY DEF NormalExclusion
  <2>1. PICK t \in Threads : job[t] = j /\ hold[t] = "run"
    BY DEF IInv, NormalInv, Runner
  <2>2. PICK u \in Threads : job[u] = k /\ hold[u] = "run"
    BY DEF IInv, NormalInv, Runner
  <2> QED
    BY <2>1, <2>2, OneLicense DEF IInv
<1> QED
  BY <1>1, Invariance, PTL

\* No parallel task of a warp that nobody polls runs beside a normal one.
THEOREM SharedTasksExclude == Spec => []SharedExclusion
<1>1. IInv => SharedExclusion
  <2> SUFFICES ASSUME IInv, Pollers = {}, NEW j \in RunningNormal PROVE RunningShared = {}
    BY DEF SharedExclusion
  <2>1. PICK t \in Threads : job[t] = j /\ hold[t] = "run"
    BY DEF IInv, NormalInv, Runner
  <2> QED
    BY <2>1, OneLicense DEF IInv, SharedInv, Licensed
<1> QED
  BY <1>1, Invariance, PTL

(***************************************************************************)
(* The refinement of WarpTasks                                             *)
(***************************************************************************)
\* While the warp has no licensed thread, no normal task runs.
LEMMA NoRunner ==
  ASSUME IInv, \A t \in Threads : hold[t] = "run" => job[t] = None
  PROVE  RunningNormal = {}
<1>1. \A j \in RunningNormal : j # None
  BY WarpAssumption DEF RunningNormal, Jobs
<1> QED
  BY <1>1 DEF IInv, NormalInv, Runner

LEMMA TaskStep == ASSUME IInv, Pollers = {}, [Next]_vars PROVE [Abstract!Next]_status
<1>1. CASE UNCHANGED vars
  BY <1>1 DEF vars
<1>2. CASE Next
  <2> PICK t \in Threads : Client(t) \/ Internal(t) \/ Resumes(t)
    BY <1>2 DEF Next
  <2>c. TypeOK /\ Control /\ NormalInv /\ SharedInv /\ ControlAt(t)
    BY DEF IInv, Control
  <2>n. Posted \subseteq Normal /\ Called \subseteq Normal /\ None \notin Normal
        /\ Abstract!Tasks = Normal \cup Parallels
    BY WarpAssumption DEF Normal, Jobs, Abstract!Tasks
  <2>r. /\ Abstract!Running(Normal) = RunningNormal
        /\ Abstract!Running(Normal \cup Parallels) = RunningNormal \cup RunningShared
    BY DEF Abstract!Running, Abstract!Is, RunningNormal, RunningShared
  \* Steps that change no task.
  <2>1. CASE \/ QueueCas(t) \/ QueuePost(t) \/ Flush(t) \/ FlushExchange(t)
             \/ FlushQueue(t) \/ Yield(t) \/ YieldExchange(t) \/ TakeExecute(t)
             \/ ExecuteCas(t) \/ ExecuteRecheck(t) \/ ExecuteParallel(t)
             \/ ExecuteCheck(t) \/ ExecutePending(t) \/ ExecuteStart(t)
             \/ AfterBody(t) \/ ExecuteTail(t) \/ TailCas(t) \/ ParallelPush(t)
             \/ ResumeExchange(t) \/ PollScan(t) \/ PollCas(t) \/ PollResume(t)
             \/ PollSuspend(t)
    BY <2>1 DEF QueueCas, QueuePost, Flush, FlushExchange, FlushQueue, Yield,
       YieldExchange, TakeExecute, ExecuteCas, ExecuteRecheck, ExecuteParallel,
       ExecuteCheck, ExecutePending, ExecuteStart, AfterBody, ExecuteTail, TailCas,
       ParallelPush, ResumeExchange, PollScan, PollCas, PollResume, PollSuspend
  <2>2. ASSUME NEW s \in Raw, RawSuspend(t, s) \/ RawResume(t, s) PROVE UNCHANGED status
    BY <2>2 DEF RawSuspend, RawResume
  <2>3. ASSUME NEW j \in Normal, TakeExternal(t, j) PROVE UNCHANGED status
    BY <2>3 DEF TakeExternal
  \* A task is sent.
  <2>4. ASSUME NEW j \in Normal \cup Parallels, status[j] = "new", Mark(j, "queued")
        PROVE  Abstract!Next
    BY <2>4, <2>n DEF Mark, Abstract!Next, Abstract!Send, Abstract!Change
  <2>5. ASSUME NEW j \in Posted, Post(t, j) PROVE Abstract!Next
    BY <2>4, <2>5, <2>n DEF Post
  <2>6. ASSUME NEW j \in Called, QueueRoutine(t, j) PROVE Abstract!Next
    BY <2>4, <2>6, <2>n DEF QueueRoutine
  <2>7. ASSUME NEW p \in Parallels, QueueParallel(t, p) PROVE Abstract!Next
    BY <2>4, <2>7 DEF QueueParallel
  <2>8. ASSUME NEW j \in Called, QueueInside(t, j) PROVE Abstract!Next
    <3>1. CASE suspended # {}
      BY <2>4, <2>8, <2>n, <3>1 DEF QueueInside
    <3>2. CASE suspended = {}
      <4>1. job[t] \in Normal /\ hold[t] = "run"
        BY <2>8, <2>c DEF QueueInside, ControlAt, TypeOK
      <4>2. job[t] \in RunningNormal
        BY <2>c, <2>n, <4>1 DEF NormalInv, JobState, RunningNormal
      <4>3. j \in Normal /\ status[j] = "new" /\ status' = [status EXCEPT ![j] = "done"]
        BY <2>8, <2>n, <3>2 DEF QueueInside, Mark
      <4> QED
        BY <2>n, <2>r, <4>2, <4>3 DEF Abstract!Next, Abstract!RunInside, Abstract!Change
    <3> QED
      BY <3>1, <3>2
  \* A normal task starts.
  <2>9. ASSUME NEW j \in Normal, RunningNormal = {}, RunningShared = {},
               status[j] = "queued", status' = [status EXCEPT ![j] = "running"]
        PROVE  Abstract!Next
    <3>1. Abstract!Running(Abstract!Tasks) = {}
      BY <2>9, <2>n, <2>r
    <3> QED
      BY <2>9, <2>n, <3>1 DEF Abstract!Next, Abstract!StartExclusive, Abstract!Change
  <2>10. CASE QueueRecheck(t)
    <3>1. CASE suspended # {}
      BY <2>10, <3>1 DEF QueueRecheck
    <3>2. CASE suspended = {}
      <4>1. job[t] \in Normal /\ hold[t] = "guard"
        BY <2>10, <2>c DEF QueueRecheck, ControlAt, TypeOK
      <4>2. RunningNormal = {}
        BY <2>c, <4>1, OneLicense, NoRunner
      <4>3. RunningShared = {}
        BY <2>c, <3>2, Unsuspended
      <4>4. status[job[t]] = "queued"
        BY <2>c, <2>n, <4>1 DEF NormalInv, JobState
      <4>5. status' = [status EXCEPT ![job[t]] = "running"]
        BY <2>10, <3>2 DEF QueueRecheck, Mark
      <4> QED
        BY <2>9, <4>1, <4>2, <4>3, <4>4, <4>5
    <3> QED
      BY <3>1, <3>2
  <2>11. CASE Scan(t)
    <3>1. CASE storage[slot[t]] = <<>>
      BY <2>11, <3>1 DEF Scan
    <3>2. CASE storage[slot[t]] # <<>>
      <4> DEFINE j == Head(storage[slot[t]])
      <4>1. slot[t] \in Slots /\ storage[slot[t]] \in Seq(Normal) /\ storage[slot[t]] # <<>>
        BY <2>c, <3>2 DEF TypeOK
      <4>2. j = storage[slot[t]][1] /\ 1 \in DOMAIN storage[slot[t]] /\ j \in Normal
        BY <4>1
      <4>3. status' = [status EXCEPT ![j] = "running"]
        BY <2>11, <3>2 DEF Scan, Mark
      <4> HIDE DEF j
      <4>4. status[j] = "queued"
        BY <2>c, <4>1, <4>2 DEF NormalInv, StorageQueued
      <4>5. hold[t] = "run" /\ job[t] = None /\ after[t] # "poll_resume"
        BY <2>11, <2>c, OneLicense DEF Scan, ControlAt, Inner
      <4>6. RunningNormal = {}
        BY <2>c, <4>5, OneLicense, NoRunner
      <4>7. RunningShared = {}
        BY <2>c, <4>5 DEF SharedInv, Licensed
      <4> QED
        BY <2>9, <4>2, <4>3, <4>4, <4>6, <4>7
    <3> QED
      BY <3>1, <3>2
  \* A parallel task starts.
  <2>12. ASSUME NEW p \in Parallels, \A u \in Threads : hold[u] # "run",
                status[p] = "queued", status' = [status EXCEPT ![p] = "running"]
         PROVE  Abstract!Next
    <3>1. RunningNormal = {}
      BY <2>12, NoRunner
    <3> QED
      BY <2>12, <2>n, <2>r, <3>1 DEF Abstract!Next, Abstract!StartShared, Abstract!Change
  <2>13. CASE ParallelCheck(t)
    <3>1. par[t] \in Parallels /\ status[par[t]] = "queued"
      BY <2>13, <2>c DEF ParallelCheck, ControlAt, SharedInv, ParState, TypeOK
    <3>2. CASE UNCHANGED status
      BY <3>2
    <3>3. CASE owner = None /\ status' = [status EXCEPT ![par[t]] = "running"]
      BY <2>c, <2>12, <3>1, <3>3, OneLicense
    <3> QED
      BY <2>13, <3>2, <3>3 DEF ParallelCheck, Mark
  <2>14. ASSUME NEW p \in Parallels, TakeParallel(t, p) PROVE Abstract!Next
    <3>1. p \in poolPar /\ status[p] = "queued"
      BY <2>14, <2>c DEF TakeParallel, SharedInv, ParallelQueued
    <3>2. \A u \in Threads : hold[u] # "run"
      BY <2>c, <3>1, OneLicense DEF SharedInv, Licensed
    <3> QED
      BY <2>12, <2>14, <3>1, <3>2 DEF TakeParallel, Mark
  \* A task ends, or lets go of the warp.
  <2>15. CASE YieldInside(t)
    <3>1. job[t] \in Normal /\ job[t] \in Yielding /\ hold[t] = "run"
      BY <2>15, <2>c DEF YieldInside, Step, ControlAt, TypeOK
    <3>2. status[job[t]] = "running"
      BY <2>c, <2>n, <3>1 DEF NormalInv, JobState
    <3> QED
      BY <2>15, <2>n, <3>1, <3>2 DEF YieldInside, Mark, Abstract!Next, Abstract!Detach, Abstract!Change
  <2>16. CASE BodyEnd(t)
    <3>1. job[t] \in Normal /\ hold[t] \in {"run", "gone"}
      BY <2>16, <2>c DEF BodyEnd, Step, ControlAt, TypeOK
    <3>2. status[job[t]] \in {"running", "detached"}
      BY <2>c, <2>n, <3>1 DEF NormalInv, JobState
    <3> QED
      BY <2>16, <2>n, <3>1, <3>2 DEF BodyEnd, Mark, Abstract!Next, Abstract!Finish, Abstract!Change
  <2>17. CASE SharedEnd(t)
    <3>1. par[t] \in Parallels /\ status[par[t]] = "running"
      BY <2>17, <2>c DEF SharedEnd, ControlAt, SharedInv, ParState, TypeOK
    <3> QED
      BY <2>17, <2>n, <3>1 DEF SharedEnd, Mark, Abstract!Next, Abstract!Finish, Abstract!Change
  <2> QED
    BY <2>1, <2>2, <2>3, <2>5, <2>6, <2>7, <2>8, <2>10, <2>11, <2>13, <2>14, <2>15, <2>16, <2>17
       DEF Client, Internal, Resumes
<1> QED
  BY <1>1, <1>2

\* The threads of a warp that nobody polls keep what WarpTasks promises: every
\* step of theirs starts, ends or detaches tasks only as it allows.
THEOREM Refinement == ASSUME Pollers = {} PROVE Spec => RefinesTasks
<1>1. Init => Abstract!Init
  BY DEF Init, Abstract!Init, Abstract!Tasks, Jobs
<1>2. IInv /\ [Next]_vars => [Abstract!Next]_status
  BY TaskStep
<1> QED
  BY <1>1, <1>2, Invariance, PTL DEF Spec, RefinesTasks, Abstract!Spec

(***************************************************************************)
(* No task is lost                                                         *)
(***************************************************************************)
InStorage(j) == \E i \in Slots : \E n \in DOMAIN storage[i] : storage[i][n] = j
InHand(j) == \E t \in Threads : job[t] = j

\* A normal task that was sent is somewhere until it runs.
NormalWaits ==
  \A j \in Normal : status[j] = "queued" => j \in poolExt \/ InHand(j) \/ InStorage(j)

\* So is a parallel one.
ParallelWaits ==
  \A p \in Parallels : status[p] = "queued" =>
    p \in parallel \cup poolPar \/ \E t \in Threads : par[t] = p

\* Steps after which no more tasks are queued, and those that are where they were.
LEMMA WaitsFrame ==
  ASSUME NormalWaits, UNCHANGED <<storage, poolExt, job>>,
         \A j \in Normal : status'[j] = "queued" => status[j] = "queued"
  PROVE  NormalWaits'
BY DEF NormalWaits, InStorage, InHand

\* A task that is put away is in storage or in the pool.
LEMMA PutWaits ==
  ASSUME TypeOK, NormalWaits, NEW t \in Threads, NEW j \in Normal, NEW to, Put(t, j, to),
         \A k \in Normal \ {j} : status'[k] = "queued" => status[k] = "queued",
         \A u \in Threads : job[u] # j => job'[u] = job[u]
  PROVE  NormalWaits'
<1> SUFFICES ASSUME NEW k \in Normal, status'[k] = "queued"
             PROVE  k \in poolExt' \/ InHand(k)' \/ InStorage(k)'
  BY DEF NormalWaits
<1>1. k # j => k \in poolExt \/ InHand(k) \/ InStorage(k)
  BY DEF NormalWaits
<1>2. k # j /\ InHand(k) => InHand(k)'
  BY DEF InHand
<1>3. CASE ViaPool(t)
  BY <1>1, <1>2, <1>3 DEF Put, InStorage
<1>4. CASE ~ViaPool(t)
  <2> DEFINE s == MySlot(t)
  <2>0. s \in Slots /\ storage[s] \in Seq(Normal)
    BY <1>4, SlotFacts DEF TypeOK
  <2>1. poolExt' = poolExt /\ storage' = [storage EXCEPT ![s] = Append(storage[s], j)]
    BY <1>4 DEF Put
  <2> HIDE DEF s
  <2>2. \A i \in Slots : storage'[i] = IF i = s THEN Append(storage[s], j) ELSE storage[i]
    BY <2>1 DEF TypeOK
  <2>3. /\ Len(storage[s]) + 1 \in DOMAIN storage'[s] /\ storage'[s][Len(storage[s]) + 1] = j
        /\ \A n \in DOMAIN storage[s] : n \in DOMAIN storage'[s] /\ storage'[s][n] = storage[s][n]
    <3>1. storage'[s] = Append(storage[s], j)
      BY <2>0, <2>2
    <3>2. /\ Len(storage[s]) + 1 \in DOMAIN Append(storage[s], j)
          /\ Append(storage[s], j)[Len(storage[s]) + 1] = j
      BY <2>0
    <3>3. \A n \in DOMAIN storage[s] :
            n \in DOMAIN Append(storage[s], j) /\ Append(storage[s], j)[n] = storage[s][n]
      BY <2>0
    <3> QED
      BY <3>1, <3>2, <3>3
  <2>4. InStorage(j)'
    BY <2>0, <2>3 DEF InStorage
  <2>5. InStorage(k) => InStorage(k)'
    BY <2>2, <2>3 DEF InStorage
  <2> QED
    BY <1>1, <1>2, <2>1, <2>4, <2>5
<1> QED
  BY <1>3, <1>4

\* Every step keeps the normal tasks that are queued.
LEMMA NormalWaitsStep ==
  ASSUME TypeOK, Control, NormalInv, NormalWaits, [Next]_vars PROVE NormalWaits'
<1>1. CASE UNCHANGED vars
  BY <1>1, WaitsFrame DEF vars
<1>2. CASE Next
  <2> PICK t \in Threads : Client(t) \/ Internal(t) \/ Resumes(t)
    BY <1>2 DEF Next
  <2>c. ControlAt(t)
    BY DEF Control
  <2>n. /\ Posted \subseteq Normal /\ Called \subseteq Normal /\ Normal \subseteq Jobs
        /\ Parallels \subseteq Jobs /\ Normal \cap Parallels = {} /\ None \notin Jobs
    BY WarpAssumption DEF Normal, Jobs
  \* Steps that change the status of nobody, or of a task that is not queued then.
  <2>1. ASSUME UNCHANGED <<storage, poolExt, job, status>> PROVE NormalWaits'
    BY <2>1, WaitsFrame
  <2>2. CASE \/ Flush(t) \/ FlushExchange(t) \/ FlushQueue(t) \/ YieldExchange(t)
             \/ TakeExecute(t) \/ ExecuteRecheck(t) \/ ExecutePending(t)
             \/ ExecuteStart(t) \/ ExecuteTail(t) \/ ParallelPush(t)
             \/ ResumeExchange(t) \/ PollSuspend(t) \/ PollScan(t) \/ PollResume(t)
    BY <2>1, <2>2 DEF Flush, FlushExchange, FlushQueue, YieldExchange, TakeExecute,
       ExecuteRecheck, ExecutePending, ExecuteStart, ExecuteTail, ParallelPush,
       ResumeExchange, PollSuspend, PollScan, PollResume, thread, pool
  <2>3. CASE \/ QueueCas(t) \/ ExecuteCas(t) \/ TailCas(t) \/ PollCas(t) \/ Yield(t)
             \/ ExecuteParallel(t) \/ ExecuteCheck(t) \/ AfterBody(t)
             \/ \E s \in Raw : RawSuspend(t, s) \/ RawResume(t, s)
    BY <2>1, <2>3 DEF QueueCas, ExecuteCas, TailCas, PollCas, Yield, ExecuteParallel,
       ExecuteCheck, AfterBody, RawSuspend, RawResume, thread, pool
  <2>4. ASSUME NEW k \in Jobs, NEW st, st # "queued" \/ k \in Parallels,
               UNCHANGED <<storage, poolExt, job>>, status' = [status EXCEPT ![k] = st]
        PROVE  NormalWaits'
    <3>1. \A j \in Normal : status'[j] = "queued" => status[j] = "queued"
      BY <2>4, <2>n DEF TypeOK
    <3> QED
      BY <2>4, <3>1, WaitsFrame
  <2>5. ASSUME NEW p \in Parallels, QueueParallel(t, p) \/ TakeParallel(t, p) PROVE NormalWaits'
    BY <2>n, <2>4, <2>5 DEF QueueParallel, TakeParallel, Mark, pool
  <2>6. CASE ParallelCheck(t) \/ SharedEnd(t)
    <3>1. par[t] \in Parallels
      BY <2>6, <2>c DEF ParallelCheck, SharedEnd, ControlAt, TypeOK
    <3> QED
      BY <2>1, <2>n, <2>4, <2>6, <3>1 DEF ParallelCheck, SharedEnd, Mark, pool
  <2>7. CASE QueueRecheck(t) \/ YieldInside(t)
    <3>1. job[t] \in Jobs
      BY <2>7, <2>c, <2>n DEF QueueRecheck, YieldInside, Step, ControlAt, TypeOK
    <3> QED
      BY <2>1, <2>4, <2>7, <3>1 DEF QueueRecheck, YieldInside, Mark, pool
  \* Steps that move a normal task.
  <2>8. ASSUME NEW j \in Posted \cup Called, NEW to, Put(t, j, to),
               status' = [status EXCEPT ![j] = "queued"], UNCHANGED job
        PROVE  NormalWaits'
    <3>1. \A k \in Normal \ {j} : status'[k] = "queued" => status[k] = "queued"
      BY <2>8, <2>n DEF TypeOK
    <3> QED
      BY <2>8, <2>n, <3>1, PutWaits
  <2>9. ASSUME NEW j \in Posted, Post(t, j) PROVE NormalWaits'
    BY <2>8, <2>9 DEF Post, Mark
  <2>10. ASSUME NEW j \in Called, QueueInside(t, j) PROVE NormalWaits'
    BY <2>4, <2>8, <2>10, <2>n DEF QueueInside, Mark
  <2>11. CASE QueuePost(t)
    <3> DEFINE j == job[t]
    <3>1. j \in Normal /\ Put(t, j, IF hold[t] = "guard" THEN "yield" ELSE "idle")
      BY <2>11, <2>c DEF QueuePost, ControlAt, TypeOK
    <3>2. \A u \in Threads : job[u] # j => job'[u] = job[u]
      BY <2>11 DEF QueuePost, TypeOK
    <3>3. \A k \in Normal \ {j} : status'[k] = "queued" => status[k] = "queued"
      BY <2>11 DEF QueuePost
    <3> HIDE DEF j
    <3> QED
      BY <3>1, <3>2, <3>3, PutWaits
  \* Thread t, that has no task, takes one.
  <2>12. ASSUME NEW j \in Normal, job[t] = None, job' = [job EXCEPT ![t] = j],
                poolExt \ {j} \subseteq poolExt', UNCHANGED storage,
                \A k \in Normal \ {j} : status'[k] = status[k]
         PROVE  NormalWaits'
    <3>1. InHand(j)' /\ \A k \in Normal : InHand(k) => InHand(k)'
      BY <2>12, <2>n DEF InHand, TypeOK
    <3> QED
      BY <2>12, <3>1 DEF NormalWaits, InStorage
  <2>13. ASSUME NEW j \in Called, QueueRoutine(t, j) PROVE NormalWaits'
    <3>1. job[t] = None
      BY <2>13, <2>c DEF QueueRoutine, ControlAt, Inner
    <3>2. job' = [job EXCEPT ![t] = j] /\ UNCHANGED <<poolExt, storage>>
      BY <2>13 DEF QueueRoutine, BeginQueue, pool
    <3>3. \A k \in Normal \ {j} : status'[k] = status[k]
      BY <2>13, <2>n DEF QueueRoutine, Mark, TypeOK
    <3> QED
      BY <2>n, <2>12, <3>1, <3>2, <3>3
  <2>14. ASSUME NEW j \in Normal, TakeExternal(t, j) PROVE NormalWaits'
    <3>1. job[t] = None
      BY <2>14, <2>c DEF TakeExternal, RunsPool, ControlAt, Inner
    <3> QED
      BY <2>12, <2>14, <3>1 DEF TakeExternal, BeginQueue
  <2>15. CASE BodyEnd(t)
    <3>1. job[t] \in Normal
      BY <2>15, <2>c DEF BodyEnd, Step, ControlAt, TypeOK
    <3>2. \A u \in Threads : u # t => job'[u] = job[u]
      BY <2>15 DEF BodyEnd, TypeOK
    <3>3. \A k \in Normal : status'[k] = "queued" => k # job[t] /\ status[k] = "queued"
      BY <2>15, <2>n, <3>1 DEF BodyEnd, Mark, TypeOK
    <3>4. UNCHANGED <<storage, poolExt>>
      BY <2>15 DEF BodyEnd, pool
    <3> QED
      BY <3>2, <3>3, <3>4 DEF NormalWaits, InStorage, InHand
  <2>16. CASE Scan(t) /\ storage[slot[t]] = <<>>
    BY <2>1, <2>16 DEF Scan, pool
  <2>17. CASE Scan(t) /\ storage[slot[t]] # <<>>
    <3> DEFINE s == slot[t]
    <3>1. s \in Slots /\ storage[s] \in Seq(Normal) /\ storage[s] # <<>>
      BY <2>17 DEF TypeOK
    <3>2. /\ storage' = [storage EXCEPT ![s] = Tail(storage[s])]
          /\ job' = [job EXCEPT ![t] = Head(storage[s])] /\ UNCHANGED poolExt
          /\ status' = [status EXCEPT ![Head(storage[s])] = "running"]
      BY <2>17 DEF Scan, Mark, pool
    <3> HIDE DEF s
    <3>3. job[t] = None
      BY <2>17, <2>c DEF Scan, ControlAt, Inner
    <3>4. Head(storage[s]) = storage[s][1] /\ Head(storage[s]) \in Normal
      BY <3>1
    <3> SUFFICES ASSUME NEW k \in Normal, status'[k] = "queued"
                 PROVE  k \in poolExt' \/ InHand(k)' \/ InStorage(k)'
      BY DEF NormalWaits
    <3>5. k # storage[s][1] /\ status[k] = "queued"
      BY <2>n, <3>2, <3>4 DEF TypeOK
    <3>6. InHand(k) => InHand(k)'
      BY <2>n, <3>2, <3>3 DEF InHand, TypeOK
    <3>7. InStorage(k) => InStorage(k)'
      <4> SUFFICES ASSUME NEW i \in Slots, NEW n \in DOMAIN storage[i], storage[i][n] = k
                   PROVE  InStorage(k)'
        BY DEF InStorage
      <4>1. CASE i # s
        <5>1. storage'[i] = storage[i]
          BY <3>2, <4>1 DEF TypeOK
        <5> QED
          BY <5>1 DEF InStorage
      <4>2. CASE i = s
        <5>1. n \in 1..Len(storage[s]) /\ n # 1
          BY <3>1, <3>5, <4>2
        <5>2. storage'[s] = Tail(storage[s])
          BY <3>1, <3>2 DEF TypeOK
        <5>3. n - 1 \in DOMAIN storage'[s] /\ storage'[s][n - 1] = storage[s][n]
          BY <3>1, <5>1, <5>2
        <5> QED
          BY <3>1, <4>2, <5>3 DEF InStorage
      <4> QED
        BY <4>1, <4>2
    <3> QED
      BY <3>2, <3>5, <3>6, <3>7 DEF NormalWaits
  <2> QED
    BY <2>2, <2>3, <2>5, <2>6, <2>7, <2>9, <2>10, <2>11, <2>13, <2>14, <2>15, <2>16, <2>17
       DEF Client, Internal, Resumes
<1> QED
  BY <1>1, <1>2

\* Steps of threads that touch no parallel task.
LEMMA ParallelWaitsFrame ==
  ASSUME ParallelWaits, UNCHANGED <<parallel, poolPar, par>>,
         \A p \in Parallels : status'[p] = "queued" => status[p] = "queued"
  PROVE  ParallelWaits'
BY DEF ParallelWaits

\* Every step keeps the parallel tasks that are queued.
LEMMA ParallelWaitsStep ==
  ASSUME TypeOK, Control, SharedInv, ParallelWaits, [Next]_vars PROVE ParallelWaits'
<1>1. CASE UNCHANGED vars
  BY <1>1, ParallelWaitsFrame DEF vars
<1>2. CASE Next
  <2> PICK t \in Threads : Client(t) \/ Internal(t) \/ Resumes(t)
    BY <1>2 DEF Next
  <2>c. ControlAt(t)
    BY DEF Control
  <2>n. /\ Posted \subseteq Normal /\ Called \subseteq Normal /\ Normal \subseteq Jobs
        /\ Parallels \subseteq Jobs /\ Normal \cap Parallels = {} /\ None \notin Jobs
    BY WarpAssumption DEF Normal, Jobs
  \* Steps that touch no parallel task.
  <2>1. ASSUME UNCHANGED <<parallel, poolPar, par, status>> PROVE ParallelWaits'
    BY <2>1, ParallelWaitsFrame
  <2>2. CASE \/ Flush(t) \/ FlushExchange(t) \/ FlushQueue(t) \/ YieldExchange(t)
             \/ TakeExecute(t) \/ ExecuteRecheck(t) \/ ExecutePending(t)
             \/ ExecuteStart(t) \/ ExecuteTail(t)
             \/ ResumeExchange(t) \/ PollSuspend(t) \/ PollScan(t) \/ PollResume(t)
    BY <2>1, <2>2 DEF Flush, FlushExchange, FlushQueue, YieldExchange, TakeExecute,
       ExecuteRecheck, ExecutePending, ExecuteStart, ExecuteTail,
       ResumeExchange, PollSuspend, PollScan, PollResume, thread, pool
  <2>3. CASE \/ QueueCas(t) \/ ExecuteCas(t) \/ TailCas(t) \/ PollCas(t) \/ Yield(t)
             \/ QueuePost(t) \/ ExecuteCheck(t) \/ AfterBody(t)
             \/ \E j \in Normal : TakeExternal(t, j)
             \/ \E s \in Raw : RawSuspend(t, s) \/ RawResume(t, s)
    BY <2>1, <2>3 DEF QueueCas, ExecuteCas, TailCas, PollCas, Yield, QueuePost, TakeExternal,
       ExecuteCheck, AfterBody, RawSuspend, RawResume, thread, pool
  <2>4. ASSUME NEW j \in Normal, NEW st, UNCHANGED <<parallel, poolPar, par>>,
               status' = [status EXCEPT ![j] = st] \/ UNCHANGED status
        PROVE  ParallelWaits'
    <3>1. \A p \in Parallels : status'[p] = "queued" => status[p] = "queued"
      BY <2>4, <2>n DEF TypeOK
    <3> QED
      BY <2>4, <3>1, ParallelWaitsFrame
  <2>5. CASE QueueRecheck(t) \/ YieldInside(t) \/ BodyEnd(t)
    <3>1. job[t] \in Normal
      BY <2>5, <2>c, <2>n DEF QueueRecheck, YieldInside, BodyEnd, Step, ControlAt, TypeOK
    <3> QED
      BY <2>4, <2>5, <3>1 DEF QueueRecheck, YieldInside, BodyEnd, Mark, pool
  <2>6. ASSUME NEW j \in Posted, Post(t, j) PROVE ParallelWaits'
    BY <2>4, <2>6, <2>n DEF Post, Mark
  <2>7. ASSUME NEW j \in Called, QueueRoutine(t, j) \/ QueueInside(t, j) PROVE ParallelWaits'
    BY <2>4, <2>7, <2>n DEF QueueRoutine, QueueInside, Mark, pool
  <2>8. CASE Scan(t)
    <3>1. CASE storage[slot[t]] = <<>>
      BY <2>1, <2>8, <3>1 DEF Scan, pool
    <3>2. CASE storage[slot[t]] # <<>>
      <4>1. Head(storage[slot[t]]) \in Normal
        BY <3>2 DEF TypeOK
      <4> QED
        BY <2>4, <2>8, <3>2, <4>1 DEF Scan, Mark, pool
    <3> QED
      BY <3>1, <3>2
  \* Steps that move parallel tasks.
  <2>9. CASE ExecuteParallel(t)
    BY <2>9 DEF ExecuteParallel, ParallelWaits
  <2>10. ASSUME NEW p \in Parallels, QueueParallel(t, p) PROVE ParallelWaits'
    <3>1. par[t] = None
      BY <2>10, <2>c DEF QueueParallel, InClient, ControlAt
    <3>2. /\ par'[t] = p /\ \A u \in Threads : u # t => par'[u] = par[u]
          /\ UNCHANGED <<parallel, poolPar>>
          /\ \A q \in Parallels \ {p} : status'[q] = status[q]
      BY <2>10, <2>n DEF QueueParallel, Mark, pool, TypeOK
    <3> QED
      BY <2>n, <3>1, <3>2 DEF ParallelWaits
  <2>11. CASE ParallelCheck(t)
    <3>1. par[t] \in Parallels
      BY <2>11, <2>c DEF ParallelCheck, ControlAt, TypeOK
    <3>2. \A u \in Threads : u # t => par'[u] = par[u]
      BY <2>11 DEF ParallelCheck, TypeOK
    <3>3. /\ \A q \in Parallels : status'[q] = "queued" => status[q] = "queued"
          /\ poolPar \subseteq poolPar' /\ UNCHANGED parallel
          /\ par'[t] = par[t] \/ par[t] \in poolPar'
      BY <2>11, <2>n, <3>1 DEF ParallelCheck, Mark, TypeOK
    <3> QED
      BY <3>2, <3>3 DEF ParallelWaits
  <2>12. CASE ParallelPush(t)
    <3>1. \A u \in Threads : u # t => par'[u] = par[u]
      BY <2>12 DEF ParallelPush, TypeOK
    <3> QED
      BY <2>12, <3>1 DEF ParallelPush, ParallelWaits, pool
  <2>13. ASSUME NEW p \in Parallels, TakeParallel(t, p) PROVE ParallelWaits'
    <3>1. par[t] = None
      BY <2>13, <2>c DEF TakeParallel, RunsPool, ControlAt
    <3>2. /\ \A u \in Threads : u # t => par'[u] = par[u]
          /\ poolPar' = poolPar \ {p} /\ UNCHANGED parallel
          /\ \A q \in Parallels : status'[q] = "queued" => q # p /\ status[q] = "queued"
      BY <2>13, <2>n DEF TakeParallel, Mark, TypeOK
    <3> QED
      BY <2>n, <3>1, <3>2 DEF ParallelWaits
  <2>14. CASE SharedEnd(t)
    <3>1. par[t] \in Parallels
      BY <2>14, <2>c DEF SharedEnd, ControlAt, TypeOK
    <3>2. /\ \A u \in Threads : u # t => par'[u] = par[u]
          /\ UNCHANGED <<parallel, poolPar>>
          /\ \A q \in Parallels : status'[q] = "queued" => q # par[t] /\ status[q] = "queued"
      BY <2>14, <2>n, <3>1 DEF SharedEnd, Mark, pool, TypeOK
    <3> QED
      BY <3>2 DEF ParallelWaits
  <2> QED
    BY <2>2, <2>3, <2>5, <2>6, <2>7, <2>8, <2>9, <2>10, <2>11, <2>12, <2>13, <2>14
       DEF Client, Internal, Resumes
<1> QED
  BY <1>1, <1>2

\* A set with one element.
LEMMA Single == ASSUME NEW S, NEW c, \A a : a \in S <=> a = c PROVE S = {c}
OBVIOUS

\* Where a task may wait, one alternative for each kind of place.
LEMMA PlaceFacts ==
  ASSUME NEW j \in Jobs, NEW a
  PROVE  a \in Places(j) <=>
           \/ \E i \in Slots : \E n \in DOMAIN storage[i] :
                storage[i][n] = j /\ a = <<"storage", i, n>>
           \/ \E t \in Threads : Queues(t, j) /\ a = <<"thread", t, 0>>
           \/ j \in parallel /\ a = <<"parallel", 0, 0>>
           \/ j \in poolPar \cup poolExt /\ a = <<"pool", 0, 0>>
<1>1. \A i \in Slots : a \in InSlot(j, i) <=> \E n \in DOMAIN storage[i] :
                          storage[i][n] = j /\ a = <<"storage", i, n>>
  BY DEF InSlot
<1>2. a \in InHands(j) <=> \E t \in Threads : Queues(t, j) /\ a = <<"thread", t, 0>>
  BY DEF InHands
<1>3. a \in InParallel(j) <=> j \in parallel /\ a = <<"parallel", 0, 0>>
  BY DEF InParallel
<1>4. a \in InPool(j) <=> j \in poolPar \cup poolExt /\ a = <<"pool", 0, 0>>
  BY DEF InPool
<1>5. a \in Places(j) <=> \/ \E i \in Slots : a \in InSlot(j, i)
                          \/ a \in InHands(j) \/ a \in InParallel(j) \/ a \in InPool(j)
  BY DEF Places, InSlots
<1> QED
  BY <1>1, <1>2, <1>3, <1>4, <1>5

\* The task of a thread is queued exactly while the thread is about to queue it.
LEMMA HandFacts ==
  ASSUME IInv, NEW t \in Threads
  PROVE  /\ job[t] # None =>
              (pc[t] \in {"qr_cas", "qr_recheck", "qr_post"} <=> status[job[t]] = "queued")
         /\ par[t] # None =>
              (pc[t] \in {"par_check", "par_push"} <=> status[par[t]] = "queued")
<1>1. ControlAt(t) /\ JobState /\ ParState
  BY DEF IInv, Control, NormalInv, SharedInv
<1>2. hold[t] \in HoldStates
  BY DEF IInv, TypeOK
<1>3. ASSUME job[t] # None
      PROVE  pc[t] \in {"qr_cas", "qr_recheck", "qr_post"} <=> hold[t] \notin {"run", "gone"}
  BY <1>1, <1>3 DEF ControlAt, Inner
<1>4. job[t] # None => (status[job[t]] = "queued" <=> hold[t] \notin {"run", "gone"})
  BY <1>1 DEF JobState
<1> QED
  BY <1>1, <1>3, <1>4 DEF ParState

\* A queued task waits in one place, and no other task does in any.
LEMMA OnePlace ==
  ASSUME IInv, NormalWaits, ParallelWaits, NEW j \in Jobs
  PROVE  /\ status[j] = "queued" => \E a : Places(j) = {a}
         /\ status[j] # "queued" => Places(j) = {}
<1>0. /\ j # None /\ (j \in Normal \/ j \in Parallels) /\ Normal \cap Parallels = {}
      /\ parallel \subseteq Parallels /\ poolPar \subseteq Parallels /\ poolExt \subseteq Normal
      /\ \A t \in Threads : job[t] \in Normal \cup {None} /\ par[t] \in Parallels \cup {None}
      /\ \A i \in Slots : \A n \in DOMAIN storage[i] : storage[i][n] \in Normal
  BY WarpAssumption, JobTypes DEF Jobs, IInv, TypeOK
<1>1. ASSUME NEW a \in Places(j) PROVE status[j] = "queued"
  BY <1>0, <1>1, PlaceFacts, HandFacts
     DEF IInv, NormalInv, SharedInv, PoolQueued, StorageQueued, ParallelQueued, Queues
<1>2. ASSUME status[j] = "queued", j \in Normal PROVE \E a : Places(j) = {a}
  <2>1. j \notin parallel \cup poolPar /\ \A t \in Threads : par[t] # j
    BY <1>0, <1>2
  <2>2. CASE j \in poolExt
    <3>1. /\ \A t \in Threads : job[t] # j
          /\ \A i \in Slots : \A n \in DOMAIN storage[i] : storage[i][n] # j
      BY <2>2 DEF IInv, NormalInv, PoolQueued, StorageQueued
    <3>2. \A a : a \in Places(j) <=> a = <<"pool", 0, 0>>
      BY <2>1, <2>2, <3>1, PlaceFacts DEF Queues
    <3>3. Places(j) = {<<"pool", 0, 0>>}
      BY <3>2, Single
    <3> QED
      BY <3>3
  <2>3. CASE InHand(j)
    <3>1. PICK t \in Threads : job[t] = j
      BY <2>3 DEF InHand
    <3>2. /\ j \notin poolExt /\ \A u \in Threads : job[u] = j => u = t
          /\ \A i \in Slots : \A n \in DOMAIN storage[i] : storage[i][n] # j
      BY <1>0, <3>1 DEF IInv, NormalInv, PoolQueued, StorageQueued, JobOnce
    <3>3. pc[t] \in {"qr_cas", "qr_recheck", "qr_post"}
      BY <1>0, <1>2, <3>1, HandFacts
    <3>4. \A a : a \in Places(j) <=> a = <<"thread", t, 0>>
      BY <2>1, <3>1, <3>2, <3>3, PlaceFacts DEF Queues
    <3>5. Places(j) = {<<"thread", t, 0>>}
      BY <3>4, Single
    <3> QED
      BY <3>5
  <2>4. CASE InStorage(j)
    <3>1. PICK i \in Slots : \E n \in DOMAIN storage[i] : storage[i][n] = j
      BY <2>4 DEF InStorage
    <3>2. PICK n \in DOMAIN storage[i] : storage[i][n] = j
      BY <3>1
    <3>3. /\ j \notin poolExt /\ \A t \in Threads : job[t] # j
          /\ \A k \in Slots : \A m \in DOMAIN storage[k] : storage[k][m] = j => k = i /\ m = n
      BY <3>2 DEF IInv, NormalInv, PoolQueued, StorageQueued, StorageOnce
    <3>4. \A a : a \in Places(j) <=> a = <<"storage", i, n>>
      BY <2>1, <3>2, <3>3, PlaceFacts DEF Queues
    <3>5. Places(j) = {<<"storage", i, n>>}
      BY <3>4, Single
    <3> QED
      BY <3>5
  <2> QED
    BY <1>2, <2>2, <2>3, <2>4 DEF NormalWaits
<1>3. ASSUME status[j] = "queued", j \in Parallels PROVE \E a : Places(j) = {a}
  <2>1. /\ j \notin poolExt /\ \A t \in Threads : job[t] # j
        /\ \A i \in Slots : \A n \in DOMAIN storage[i] : storage[i][n] # j
    BY <1>0, <1>3
  <2>2. CASE j \in parallel \cup poolPar
    <3>1. /\ \A t \in Threads : par[t] # j
          /\ ~(j \in parallel /\ j \in poolPar)
      BY <2>2 DEF IInv, SharedInv, ParallelQueued
    <3>2. CASE j \in parallel
      <4>1. \A a : a \in Places(j) <=> a = <<"parallel", 0, 0>>
        BY <2>1, <3>1, <3>2, PlaceFacts DEF Queues
      <4>2. Places(j) = {<<"parallel", 0, 0>>}
        BY <4>1, Single
      <4> QED
        BY <4>2
    <3>3. CASE j \in poolPar
      <4>1. \A a : a \in Places(j) <=> a = <<"pool", 0, 0>>
        BY <2>1, <3>1, <3>3, PlaceFacts DEF Queues
      <4>2. Places(j) = {<<"pool", 0, 0>>}
        BY <4>1, Single
      <4> QED
        BY <4>2
    <3> QED
      BY <2>2, <3>2, <3>3
  <2>3. CASE \E t \in Threads : par[t] = j
    <3>1. PICK t \in Threads : par[t] = j
      BY <2>3
    <3>2. j \notin parallel \cup poolPar /\ \A u \in Threads : par[u] = j => u = t
      BY <1>0, <3>1 DEF IInv, SharedInv, ParallelQueued, ParOnce
    <3>3. pc[t] \in {"par_check", "par_push"}
      BY <1>0, <1>3, <3>1, HandFacts
    <3>4. \A a : a \in Places(j) <=> a = <<"thread", t, 0>>
      BY <2>1, <3>1, <3>2, <3>3, PlaceFacts DEF Queues
    <3>5. Places(j) = {<<"thread", t, 0>>}
      BY <3>4, Single
    <3> QED
      BY <3>5
  <2> QED
    BY <1>3, <2>2, <2>3 DEF ParallelWaits
<1> QED
  BY <1>0, <1>1, <1>2, <1>3

\* A task that was sent waits in exactly one place until its body starts, and no task
\* that is not queued waits anywhere: no task is lost and none is run twice, whatever
\* the threads do, polls and suspends included.
THEOREM EachWaitsOnce == Spec => []NothingLost
<1>1. Init => IInv /\ NormalWaits /\ ParallelWaits
  <2>1. Init => NormalWaits /\ ParallelWaits
    BY DEF Init, NormalWaits, ParallelWaits, Jobs
  <2> QED
    BY <2>1, InitControl, InitTasks DEF IInv
<1>2. IInv /\ NormalWaits /\ ParallelWaits /\ [Next]_vars =>
        IInv' /\ NormalWaits' /\ ParallelWaits'
  BY TypeStep, ControlStep, NormalStep, SharedStep, NormalWaitsStep, ParallelWaitsStep DEF IInv
<1>3. IInv /\ NormalWaits /\ ParallelWaits => NothingLost
  <2> SUFFICES ASSUME IInv, NormalWaits, ParallelWaits, NEW j \in Jobs
               PROVE  Cardinality(Places(j)) = IF status[j] = "queued" THEN 1 ELSE 0
    BY DEF NothingLost, WaitsOnce
  <2> QED
    BY OnePlace, FS_Singleton, FS_EmptySet
<1> QED
  BY <1>1, <1>2, <1>3, PTL DEF Spec
====
