----------------------------- MODULE Awaitables -----------------------------
(***************************************************************************)
(* Coroutines that move between warps (src/src/iris_coroutine.h):          *)
(* iris_awaitable_t runs a function on a warp and comes back, iris_switch_t *)
(* goes to a warp or to a pair of warps, iris_select_t goes to the first of  *)
(* several warps that is free.                                             *)
(*                                                                         *)
(* A warp is what WarpTasks promises of it: a job posted to it starts when   *)
(* nobody holds it, a parallel one holds the others off.  An execution is a   *)
(* thread in a task, in a coroutine, or in the await_suspend of a coroutine   *)
(* that may have gone on on another thread.  Coroutines do one thing after    *)
(* the other, each with an object of its own: round[c] tells them apart.     *)
(*                                                                         *)
(* Exceptions and the profiler's fibers are left out.  A call that looks at  *)
(* its object after the coroutine has gone on finds what was there before.   *)
(***************************************************************************)
EXTENDS Naturals, Sequences, FiniteSets

CONSTANTS
  Warps,
  NoWarp,         \* no warp
  Coroutines,
  Awaits,       \* what each may await: target, early, parallel
  Switches,     \* its switches: target, other, parallelTarget, parallelOther
  Selectors,    \* coroutines that may select a warp
  Candidates,   \* the range of warps of a select
  MaxAwaits     \* bound: awaits of each coroutine

AwaitCalls ==
  {a \in [target : Warps \cup {NoWarp}, early : BOOLEAN, parallel : BOOLEAN] :
     a.target = NoWarp => ~a.parallel}
SwitchCalls ==
  {s \in [target : Warps \cup {NoWarp}, other : Warps \cup {NoWarp},
         parallelTarget : BOOLEAN, parallelOther : BOOLEAN] :
     (s.target = NoWarp => ~s.parallelTarget) /\ (s.target = s.other => s.target = NoWarp)}

ASSUME AwaitablesAssumption ==
  /\ NoWarp \notin Warps
  /\ Awaits \in [Coroutines -> SUBSET AwaitCalls]
  /\ Switches \in [Coroutines -> SUBSET SwitchCalls]
  /\ Selectors \subseteq Coroutines
  /\ Candidates \in Seq(Warps) /\ Candidates # <<>>
  /\ MaxAwaits \in [Coroutines -> Nat]

VARIABLES
  jobs,       \* closures that wait on a warp or in the worker
  execs,      \* executions
  round,      \* of each coroutine: the awaits that it has come back from
  flags,     \* of the awaitable of this round: dispatched, waited, completed
  caller,     \* of the awaitable: the warp to come back to
  open,       \* of the select: the shared handle is still there
  asked       \* history: the warps that this round asks for, and which of them in parallel

awaitableVars == <<jobs, execs, round, flags, caller, open, asked>>

(***************************************************************************)
(* Warps, jobs and executions                                              *)
(***************************************************************************)
\* A job: what it does, for which await of which coroutine, on which warp, and
\* whether it is a parallel one.
Job(does, x, w, shared, switch) ==
  [does |-> does, who |-> x.who, round |-> x.round, on |-> w, shared |-> shared,
   switch |-> switch]

NoSwitch ==
  [target |-> NoWarp, other |-> NoWarp, parallelTarget |-> FALSE, parallelOther |-> FALSE]

Busy(w) == \E x \in execs : w \in x.holds

\* suspend() is called when a parallel job is made, not when it starts.
Suspended(w) == (\E j \in jobs : j.shared /\ j.on = w) \/ (\E x \in execs : w \in x.shares)

Vacant(w) == ~Busy(w) /\ ~Suspended(w)

CanStart(j) ==
  \/ j.on = NoWarp
  \/ j.shared /\ (j.does = "func" \/ ~Busy(j.on))
  \/ ~j.shared /\ Vacant(j.on)

Only(w) == {w} \ {NoWarp}

Execution(j, at) ==
  [who |-> j.who, round |-> j.round, at |-> at, on |-> j.on,
   holds |-> IF j.shared THEN {} ELSE Only(j.on),
   shares |-> IF j.shared THEN {j.on} ELSE {},
   worker |-> TRUE, n |-> 0, early |-> FALSE, switch |-> j.switch]

\* The warp that get_current() gives: a parallel job has none of its own.
Current(x) == IF x.on \in x.holds THEN x.on ELSE NoWarp

Starts(j, y) == jobs' = jobs \ {j} /\ execs' = execs \cup {y}
Becomes(x, y) == execs' = (execs \ {x}) \cup {y}
Ends(x) == execs' = execs \ {x}

\* The call that x was in returns; a warp is given up only after that.
Leaves(x) ==
  IF x.holds \cup x.shares = {} THEN Ends(x) ELSE Becomes(x, [x EXCEPT !.at = "leave"])
Post(j) == jobs' = jobs \cup {j}

Stands(x, label) == x \in execs /\ x.at = label

\* The coroutine is resumed, in the execution y.
User(y) == [y EXCEPT !.at = "user", !.round = @ + 1, !.early = FALSE, !.switch = NoSwitch]

GoesOn(c) ==
  /\ round' = [round EXCEPT ![c] = @ + 1]
  /\ flags' = [flags EXCEPT ![c] = {}]
  /\ open' = [open EXCEPT ![c] = FALSE]
  /\ UNCHANGED <<caller, asked>>

coroutineVars == <<round, flags, caller, open, asked>>

AwaitablesInit ==
  /\ jobs = {}
  /\ execs = {[who |-> c, round |-> 0, at |-> "user", on |-> NoWarp, holds |-> {}, shares |-> {},
               worker |-> FALSE, n |-> 0, early |-> FALSE, switch |-> NoSwitch] : c \in Coroutines}
  /\ round = [c \in Coroutines |-> 0]
  /\ flags = [c \in Coroutines |-> {}]
  /\ caller = [c \in Coroutines |-> NoWarp]
  /\ open = [c \in Coroutines |-> FALSE]
  /\ asked = [c \in Coroutines |-> [all |-> {}, parallel |-> {}]]

Asks(c, W, P) == asked' = [asked EXCEPT ![c] = [all |-> W, parallel |-> P]]

\* The code of a coroutine that may begin something.
MayCall(x) == Stands(x, "user") /\ ~x.early /\ round[x.who] < MaxAwaits[x.who]

LeaveCall(x) == Stands(x, "leave") /\ Ends(x) /\ UNCHANGED <<jobs, coroutineVars>>

\* The coroutine returns.
ReturnCaller(x) ==
  /\ Stands(x, "user") /\ round[x.who] = MaxAwaits[x.who]
  /\ Ends(x)
  /\ UNCHANGED <<jobs, coroutineVars>>

(***************************************************************************)
(* iris_awaitable_t                                                        *)
(***************************************************************************)
\* dispatch(): the function runs at once on the same warp, else it is posted.
DispatchTo(x, a, bits) ==
  /\ caller' = [caller EXCEPT ![x.who] = Current(x)]
  /\ IF a.target = Current(x)
     THEN /\ flags' = [flags EXCEPT ![x.who] = bits \cup {"dispatched", "completed"}]
          /\ UNCHANGED jobs
     ELSE /\ flags' = [flags EXCEPT ![x.who] = bits \cup {"dispatched"}]
          /\ Post(Job("func", x, a.target, a.parallel, NoSwitch))

DispatchEarly(x, a) ==
  /\ MayCall(x) /\ a.early
  /\ DispatchTo(x, a, {})
  /\ Becomes(x, [x EXCEPT !.early = TRUE])
  /\ Asks(x.who, Only(Current(x)), {})
  /\ UNCHANGED <<round, open>>

\* co_await of what was dispatched early: await_ready, then await_suspend.
AwaitEarly(x) ==
  /\ Stands(x, "user") /\ x.early
  /\ IF "completed" \in flags[x.who]
     THEN /\ Becomes(x, User(x))
          /\ GoesOn(x.who)
     ELSE /\ Becomes(x, [x EXCEPT !.at = "suspend"])
          /\ UNCHANGED coroutineVars
  /\ UNCHANGED jobs

\* Mutant: the answer of fetch_or is not looked at.
MarkWaitedBlind(x) ==
  /\ Stands(x, "suspend")
  /\ flags' = [flags EXCEPT ![x.who] = @ \cup {"waited"}]
  /\ Becomes(x, [x EXCEPT !.at = "dispatch"])
  /\ UNCHANGED <<jobs, round, caller, open, asked>>

\* await_suspend marks that it waits ...
MarkWaited(x) ==
  /\ Stands(x, "suspend")
  /\ flags' = [flags EXCEPT ![x.who] = @ \cup {"waited"}]
  /\ Becomes(x, [x EXCEPT !.at = IF "completed" \in flags[x.who] THEN "answer" ELSE "dispatch"])
  /\ UNCHANGED <<jobs, round, caller, open, asked>>

\* ... and calls dispatch(), which looks at the status and leaves.
LateDispatch(x) ==
  /\ Stands(x, "dispatch")
  /\ Leaves(x)
  /\ UNCHANGED <<jobs, coroutineVars>>

\* co_await of what was not dispatched.
Await(x, a) ==
  /\ MayCall(x) /\ ~a.early
  /\ Asks(x.who, Only(Current(x)), {})
  /\ IF a.target = Current(x)
     THEN /\ Becomes(x, User(x))
          /\ round' = [round EXCEPT ![x.who] = @ + 1]
          /\ UNCHANGED <<jobs, flags, caller, open>>
     ELSE /\ DispatchTo(x, a, {"waited"})
          /\ Leaves(x)
          /\ UNCHANGED <<round, open>>

StartFunc(j) ==
  /\ j \in jobs /\ j.does = "func" /\ CanStart(j)
  /\ Starts(j, Execution(j, "func"))
  /\ UNCHANGED coroutineVars

\* The function returns; the parallel one lets go of the warp.
FuncReturns(x) ==
  /\ Stands(x, "func")
  /\ Becomes(x, [x EXCEPT !.at = "complete", !.shares = {}])
  /\ UNCHANGED <<jobs, coroutineVars>>

\* Mutant: the function always resumes the coroutine.
CompleteAlways(x) ==
  /\ Stands(x, "complete")
  /\ flags' = [flags EXCEPT ![x.who] = @ \cup {"completed"}]
  /\ Becomes(x, [x EXCEPT !.at = "answer"])
  /\ UNCHANGED <<jobs, round, caller, open, asked>>

Complete(x) ==
  /\ Stands(x, "complete")
  /\ flags' = [flags EXCEPT ![x.who] = @ \cup {"completed"}]
  /\ IF "waited" \in flags[x.who] THEN Becomes(x, [x EXCEPT !.at = "answer"]) ELSE Leaves(x)
  /\ UNCHANGED <<jobs, round, caller, open, asked>>

\* resume_one: back to the warp of dispatch(), or to the worker.
Answer(x) ==
  /\ Stands(x, "answer")
  /\ Post(Job("resume", x, caller[x.who], FALSE, NoSwitch))
  /\ Leaves(x)
  /\ UNCHANGED coroutineVars

ResumeCoroutine(j) ==
  /\ j \in jobs /\ j.does = "resume" /\ CanStart(j)
  /\ Starts(j, User(Execution(j, "user")))
  /\ GoesOn(j.who)

(***************************************************************************)
(* iris_select_t                                                           *)
(***************************************************************************)
Select(x) ==
  /\ MayCall(x) /\ x.who \in Selectors /\ Current(x) = NoWarp
  /\ open' = [open EXCEPT ![x.who] = TRUE]
  /\ Becomes(x, [x EXCEPT !.at = "post", !.n = 1])
  /\ Asks(x.who, {}, {})
  /\ UNCHANGED <<jobs, round, flags, caller>>

PostCandidate(x) ==
  /\ Stands(x, "post")
  /\ Post(Job("candidate", x, Candidates[x.n], FALSE, NoSwitch))
  /\ Becomes(x, [x EXCEPT !.at = "taken"])
  /\ UNCHANGED coroutineVars

StillThere(y) == open[y.who] /\ y.round = round[y.who]

\* The look at the shared handle.
LookTaken(x) ==
  /\ Stands(x, "taken")
  /\ IF StillThere(x) THEN Becomes(x, [x EXCEPT !.at = "end"]) ELSE Ends(x)
  /\ UNCHANGED <<jobs, coroutineVars>>

\* p != end: the loop reads a member of the object.
LookEnd(x) ==
  /\ Stands(x, "end")
  /\ IF x.n < Len(Candidates)
     THEN Becomes(x, [x EXCEPT !.at = "post", !.n = @ + 1])
     ELSE Ends(x)
  /\ UNCHANGED <<jobs, coroutineVars>>

\* The first candidate takes the handle by exchange and resumes the coroutine.
CandidateWins(j) ==
  /\ j \in jobs /\ j.does = "candidate" /\ CanStart(j)
  /\ StillThere(j)
  /\ Starts(j, User(Execution(j, "user")))
  /\ GoesOn(j.who)

CandidateLoses(j) ==
  /\ j \in jobs /\ j.does = "candidate" /\ CanStart(j)
  /\ ~StillThere(j)
  /\ jobs' = jobs \ {j}
  /\ UNCHANGED <<execs, coroutineVars>>

(***************************************************************************)
(* iris_switch_t                                                           *)
(***************************************************************************)
\* await_ready: nothing to do.
Stays(x, s) ==
  /\ ~s.parallelTarget /\ ~s.parallelOther
  /\ IF Current(x) = s.target
     THEN s.other \in {NoWarp, Current(x)}
     ELSE s.target = NoWarp /\ Current(x) = s.other

SwitchAsks(x, s) ==
  Asks(x.who, {s.target, s.other} \ {NoWarp},
       (IF s.parallelTarget THEN {s.target} ELSE {})
         \cup (IF s.parallelOther THEN Only(s.other) ELSE {}))

SwitchStays(x, s) ==
  /\ MayCall(x) /\ Stays(x, s)
  /\ SwitchAsks(x, s)
  /\ Becomes(x, User(x))
  /\ round' = [round EXCEPT ![x.who] = @ + 1]
  /\ UNCHANGED <<jobs, flags, caller, open>>

\* await_suspend.  A missing target is taken from the other, without its flag.
Oriented(s) == IF s.target = NoWarp THEN [s EXCEPT !.target = s.other, !.other = NoWarp] ELSE s

\* On a thread of the worker, queue_routine_parallel of a warp that nobody runs
\* goes on in the same thread, which still holds the warp it comes from.
Inline(x, s) == s.parallelTarget /\ x.worker /\ ~Busy(s.target)

Switch(x, s) ==
  /\ MayCall(x) /\ ~Stays(x, s)
  /\ SwitchAsks(x, s)
  /\ LET t == Oriented(s)
     IN IF Inline(x, t)
        THEN /\ Becomes(x, [x EXCEPT !.at = "handler", !.shares = @ \cup {t.target}, !.switch = t])
             /\ UNCHANGED jobs
        ELSE /\ Post(Job("switch", x, t.target, t.parallelTarget /\ x.worker, t))
             /\ Leaves(x)
  /\ UNCHANGED <<round, flags, caller, open>>

StartHandler(j) ==
  /\ j \in jobs /\ j.does = "switch" /\ CanStart(j)
  /\ Starts(j, Execution(j, "handler"))
  /\ UNCHANGED coroutineVars

\* handler(): the other warp is had as well ...
HandlerOne(x) ==
  /\ Stands(x, "handler") /\ x.switch.other = NoWarp
  /\ Becomes(x, User(x))
  /\ GoesOn(x.who)
  /\ UNCHANGED jobs

HandlerShares(x) ==
  LET w == x.switch.other
  IN /\ Stands(x, "handler") /\ w # NoWarp /\ x.switch.parallelOther
     /\ ~Busy(w)
     /\ Becomes(x, User([x EXCEPT !.shares = @ \cup {w}]))
     /\ GoesOn(x.who)
     /\ UNCHANGED jobs

\* Mutant: the other warp is taken although somebody has it.
HandlerTakes(x) ==
  LET w == x.switch.other
  IN /\ Stands(x, "handler") /\ w # NoWarp /\ ~x.switch.parallelOther
     /\ Becomes(x, User([x EXCEPT !.holds = @ \cup {w}, !.on = w]))
     /\ GoesOn(x.who)
     /\ UNCHANGED jobs

HandlerPreempts(x) ==
  LET w == x.switch.other
  IN /\ Stands(x, "handler") /\ w # NoWarp /\ ~x.switch.parallelOther
     /\ Vacant(w) \/ (w = Current(x) /\ ~Suspended(w))
     /\ Becomes(x, User([x EXCEPT !.holds = @ \cup {w}, !.on = w]))
     /\ GoesOn(x.who)
     /\ UNCHANGED jobs

\* ... or else the two change places, and it is tried from the other side.
Swapped(s) == [target |-> s.other, other |-> s.target,
               parallelTarget |-> s.parallelOther, parallelOther |-> s.parallelTarget]

HandlerSwaps(x) ==
  LET s == x.switch
      w == s.other
  IN /\ Stands(x, "handler") /\ w # NoWarp
     /\ IF s.parallelOther THEN Busy(w) ELSE ~Vacant(w) /\ (w = Current(x) => Suspended(w))
     /\ Post(Job("switch", x, w, s.parallelOther, Swapped(s)))
     /\ Leaves(x)
     /\ UNCHANGED coroutineVars

(***************************************************************************)
(* Next                                                                    *)
(***************************************************************************)
Step(x) ==
  \/ LeaveCall(x) \/ ReturnCaller(x) \/ AwaitEarly(x) \/ MarkWaited(x) \/ LateDispatch(x)
  \/ FuncReturns(x) \/ Complete(x) \/ Answer(x)
  \/ PostCandidate(x) \/ LookTaken(x) \/ LookEnd(x)
  \/ HandlerOne(x) \/ HandlerShares(x) \/ HandlerPreempts(x) \/ HandlerSwaps(x)

Start(j) ==
  StartFunc(j) \/ ResumeCoroutine(j) \/ CandidateWins(j) \/ CandidateLoses(j) \/ StartHandler(j)

StartClosure(x) ==
  \/ \E a \in Awaits[x.who] : DispatchEarly(x, a) \/ Await(x, a)
  \/ Select(x)
  \/ \E s \in Switches[x.who] : SwitchStays(x, s) \/ Switch(x, s)

AwaitablesNext ==
  \/ \E x \in execs : Step(x) \/ StartClosure(x)
  \/ \E j \in jobs : Start(j)

AwaitablesSpec == AwaitablesInit /\ [][AwaitablesNext]_awaitableVars

\* Threads go on, the code of a coroutine does not run for ever, and a job whose
\* warp is free again and again has its turn, since the warp runs jobs in order.
StepsOf(c) == \E x \in execs : x.who = c /\ (Step(x) \/ StartClosure(x))
StartsOf(c) == \E j \in jobs : j.who = c /\ Start(j)

(***************************************************************************)
(* Properties                                                              *)
(***************************************************************************)
AwaitablesTypeOK ==
  /\ jobs \subseteq [does : {"func", "resume", "candidate", "switch"}, who : Coroutines,
                     round : Nat, on : Warps \cup {NoWarp}, shared : BOOLEAN,
                     switch : [target : Warps \cup {NoWarp}, other : Warps \cup {NoWarp},
                               parallelTarget : BOOLEAN, parallelOther : BOOLEAN]]
  /\ \A x \in execs :
       /\ x.who \in Coroutines /\ x.round \in 0..MaxAwaits[x.who] /\ x.n \in 0..Len(Candidates)
       /\ x.at \in {"user", "suspend", "dispatch", "func", "complete", "answer", "post",
                    "taken", "end", "handler", "leave"}
       /\ x.holds \subseteq Warps /\ x.shares \subseteq Warps /\ x.on \in Warps \cup {NoWarp}
       /\ x.early \in BOOLEAN /\ x.worker \in BOOLEAN
  /\ \A c \in Coroutines : round[c] \in 0..MaxAwaits[c]
  /\ flags \in [Coroutines -> SUBSET {"dispatched", "waited", "completed"}]
  /\ caller \in [Coroutines -> Warps \cup {NoWarp}]
  /\ open \in [Coroutines -> BOOLEAN]

Runs(c) == {x \in execs : x.who = c /\ x.at = "user"}

\* What will resume the coroutine c, each on its own.
WaysBack(c) ==
  {j \in jobs : j.who = c /\ j.does \in {"resume", "switch"}}
    \cup {x \in execs : x.who = c /\ x.at \in {"suspend", "answer", "handler"}}
    \cup {y \in jobs \cup execs :
            /\ y.who = c /\ "waited" \in flags[c]
            /\ y \in jobs => y.does = "func"
            /\ y \in execs => y.at \in {"func", "complete"}}
    \cup {k \in {c} :
            \/ \E j \in jobs : j.who = c /\ j.does = "candidate" /\ StillThere(j)
            \/ \E x \in execs : x.who = c /\ x.at = "post" /\ StillThere(x)}

\* A coroutine runs in one thread, or exactly one thing is under way that will
\* resume it: the awaiting side and the completing side never both do it, and
\* never leave it to each other.
OneWayBack ==
  \A c \in Coroutines :
    \/ Cardinality(Runs(c)) = 1 /\ WaysBack(c) = {}
    \/ Runs(c) = {} /\ Cardinality(WaysBack(c)) = 1
    \/ Runs(c) = {} /\ WaysBack(c) = {} /\ round[c] = MaxAwaits[c]

\* A coroutine that comes back has the warps that it asked for, alone where it
\* asked to be alone, whatever became of the roles of target and other.
HasWhatItAsked ==
  \A x \in execs :
    x.at = "user" /\ ~x.early =>
      /\ asked[x.who].all \subseteq x.holds \cup x.shares
      /\ asked[x.who].all \ asked[x.who].parallel \subseteq x.holds
      /\ \A y \in execs \ {x} :
           /\ x.holds \cap y.holds = {}
           /\ y.at = "user" => x.holds \cap y.shares = {}

\* Waiting for the function of an awaitable, for a warp, or for any warp of a
\* range comes to an end.  (Waiting for two warps at once need not.)
Suspends(c) == Runs(c) = {} /\ round[c] < MaxAwaits[c]
ComesBack ==
  []<>(\A c \in Coroutines : Suspends(c) => Cardinality(asked[c].all) = 2)
=============================================================================
