---------------------------- MODULE RoundBarrier ----------------------------
(***************************************************************************)
(* iris_barrier_t (src/src/iris_coroutine.h): participants arrive, the last  *)
(* one of a round wakes all.  A participant that leaves for good calls        *)
(* release(1), which counts as its arrival and shrinks the rounds to come.    *)
(*                                                                         *)
(* Once its handle is in handles[], a coroutine may be resumed although the    *)
(* await_suspend that put it there has not returned; so a call is a process   *)
(* of its own, and the pc of a participant is that of the coroutine.  Calls    *)
(* are told apart by the round of their participant.                         *)
(*                                                                         *)
(* complete() is entered by one call at a time if all is well.  reset(), and   *)
(* dispatch(), an arrival of a thread that does not suspend, are left out.     *)
(***************************************************************************)
EXTENDS Sync

CONSTANTS
  Participants,
  Leavers,      \* participants that may leave
  Serial,       \* calls do not overlap in a round that somebody leaves
  MaxRounds     \* bound: arrivals of each participant

ASSUME BarrierAssumption ==
  /\ Participants \subseteq Actors /\ Participants # {} /\ IsFiniteSet(Participants)
  /\ Leavers \subseteq Participants
  /\ Nobody \notin Actors
  /\ Serial \in BOOLEAN
  /\ MaxRounds \in Nat

VARIABLES
  maxAwait,   \* max_await_count
  slotCount,  \* slot_count
  committed,  \* commit_count
  released,   \* release_await_count
  slots,      \* handles: the coroutine in each entry, or Nobody
  calls,      \* calls of await_suspend and release that have not returned
  completed,  \* history: how often complete() has run
  arrived, passed, gone   \* history: the rounds of each participant

barrierVars == <<maxAwait, slotCount, committed, released, slots, calls, completed,
                 arrived, passed, gone>>

rounds == <<arrived, passed, gone>>

Size == Cardinality(Participants)

Call == [who : Participants, round : 0..MaxRounds, n : 0..Size, woken : SUBSET Participants,
         at : {"write", "commit", "compare", "reset", "slot", "shrink", "gather",
               "wake"}]

BarrierTypeOK ==
  /\ \A c \in Participants : pc[c] \in {"idle", "suspended", "gone"}
  /\ maxAwait \in 0..Size /\ slotCount \in 0..Size /\ committed \in 0..Size
  /\ released \in 0..Size
  /\ slots \in [0..(Size - 1) -> Participants \cup {Nobody}]
  /\ calls \subseteq Call
  /\ completed \in Nat
  /\ arrived \in [Participants -> 0..MaxRounds] /\ passed \in [Participants -> 0..MaxRounds]
  /\ gone \subseteq Participants

BarrierInit ==
  /\ maxAwait = Size
  /\ slotCount = 0 /\ committed = 0 /\ released = 0
  /\ slots = [i \in 0..(Size - 1) |-> Nobody]
  /\ calls = {}
  /\ completed = 0
  /\ arrived = [c \in Participants |-> 0]
  /\ passed = [c \in Participants |-> 0]
  /\ gone = {}

\* The call x goes on as y, or returns.
Proceed(x, y) == calls' = (calls \ {x}) \cup {y}
Return(x) == calls' = calls \ {x}

NewCall(c, label, n) ==
  calls' = calls \cup {[who |-> c, round |-> arrived[c], at |-> label, n |-> n, woken |-> {}]}

(***************************************************************************)
(* await_suspend and release                                               *)
(***************************************************************************)
\* Participants on one warp call one after the other.
InTurn == Serial => calls = {}

\* Takes an entry of handles.
Arrive(c) ==
  /\ At(c, "idle") /\ arrived[c] < MaxRounds
  /\ released > 0 => InTurn
  /\ slotCount' = slotCount + 1
  /\ NewCall(c, "write", slotCount)
  /\ arrived' = [arrived EXCEPT ![c] = @ + 1]
  /\ Goto(c, "suspended")
  /\ UNCHANGED <<posted, mutex, maxAwait, committed, released, slots, completed, passed, gone>>

WriteHandle(x) ==
  /\ x.at = "write"
  /\ slots' = [slots EXCEPT ![x.n] = x.who]
  /\ Proceed(x, [x EXCEPT !.at = "commit"])
  /\ UNCHANGED <<syncVars, maxAwait, slotCount, committed, released, completed, rounds>>

\* release(1) counts itself, and commits without a handle.
Leave(c) ==
  /\ c \in Leavers /\ At(c, "idle")
  /\ InTurn
  /\ released' = released + 1
  /\ NewCall(c, "commit", 0)
  /\ gone' = gone \cup {c}
  /\ Goto(c, "gone")
  /\ UNCHANGED <<posted, mutex, maxAwait, slotCount, committed, slots, completed, arrived, passed>>

Commit(x) ==
  /\ x.at = "commit"
  /\ committed' = committed + 1
  /\ Proceed(x, [x EXCEPT !.at = "compare", !.n = committed])
  /\ UNCHANGED <<syncVars, maxAwait, slotCount, released, slots, completed, rounds>>

\* Mutant: those that leave are taken off at once, beside their own arrival.
CompareLess(x) ==
  /\ x.at = "compare"
  /\ IF x.n + 1 >= maxAwait - released
     THEN Proceed(x, [x EXCEPT !.at = "reset"]) ELSE Return(x)
  /\ UNCHANGED <<syncVars, maxAwait, slotCount, committed, released, slots, completed, rounds>>

\* The last one to commit completes the round.
Compare(x) ==
  /\ x.at = "compare"
  /\ IF x.n + 1 = maxAwait THEN Proceed(x, [x EXCEPT !.at = "reset"]) ELSE Return(x)
  /\ UNCHANGED <<syncVars, maxAwait, slotCount, committed, released, slots, completed, rounds>>

(***************************************************************************)
(* complete                                                                *)
(***************************************************************************)
ResetCommit(x) ==
  /\ x.at = "reset"
  /\ committed' = 0
  /\ Proceed(x, [x EXCEPT !.at = "slot"])
  /\ UNCHANGED <<syncVars, maxAwait, slotCount, released, slots, completed, rounds>>

ResetSlots(x) ==
  /\ x.at = "slot"
  /\ slotCount' = 0
  /\ Proceed(x, [x EXCEPT !.at = "shrink"])
  /\ UNCHANGED <<syncVars, maxAwait, committed, released, slots, completed, rounds>>

\* Mutant: the rounds to come still wait for those that left.
ShrinkNot(x) ==
  /\ x.at = "shrink"
  /\ released' = 0
  /\ Proceed(x, [x EXCEPT !.at = "gather", !.n = maxAwait])
  /\ UNCHANGED <<syncVars, maxAwait, slotCount, committed, slots, completed, rounds>>

\* max_await_count loses those that were released.
Shrink(x) ==
  /\ x.at = "shrink"
  /\ maxAwait' = maxAwait - released
  /\ released' = 0
  /\ Proceed(x, [x EXCEPT !.at = "gather", !.n = maxAwait])
  /\ UNCHANGED <<syncVars, slotCount, committed, slots, completed, rounds>>

\* The callback, and the snapshot of the handles.
Gather(x) ==
  /\ x.at = "gather"
  /\ completed' = completed + 1
  /\ LET entries == {i \in DOMAIN slots : i < x.n /\ slots[i] # Nobody}
     IN /\ slots' = [i \in DOMAIN slots |-> IF i < x.n THEN Nobody ELSE slots[i]]
        /\ Proceed(x, [x EXCEPT !.at = "wake", !.woken = {slots[i] : i \in entries}])
  /\ UNCHANGED <<syncVars, maxAwait, slotCount, committed, released, rounds>>

Wake(x) ==
  /\ x.at = "wake"
  /\ posted' = posted \cup x.woken
  /\ Return(x)
  /\ UNCHANGED <<pc, mutex, maxAwait, slotCount, committed, released, slots, completed, rounds>>

ResumeParticipant(c) ==
  /\ Resumed(c, "idle")
  /\ passed' = [passed EXCEPT ![c] = @ + 1]
  /\ UNCHANGED <<mutex, maxAwait, slotCount, committed, released, slots, calls, completed,
                 arrived, gone>>

CallStep(x) ==
  \/ WriteHandle(x) \/ Commit(x) \/ Compare(x)
  \/ ResetCommit(x) \/ ResetSlots(x) \/ Shrink(x) \/ Gather(x) \/ Wake(x)

BarrierInternal(c) ==
  \/ \E x \in calls : x.who = c /\ CallStep(x)
  \/ ResumeParticipant(c)

Takes(c) == Arrive(c) \/ Leave(c)

BarrierNext == \E c \in Participants : Takes(c) \/ BarrierInternal(c)

BarrierSpec == SyncInit /\ BarrierInit /\ [][BarrierNext]_<<syncVars, barrierVars>>

(***************************************************************************)
(* Properties                                                              *)
(***************************************************************************)
\* A round is completed once: complete(), with its callback, has run no more
\* often than everybody who still takes part has arrived.
OnceARound == \A c \in Participants \ gone : completed <= arrived[c]

\* Nobody who waits at the barrier is forgotten while all others go on.
EverybodyGoesOn == []<>(\A c \in Participants : ~At(c, "suspended"))

Promise == INSTANCE Rounds

\* Nobody passes before everybody has arrived or left.
RefinesRounds == Promise!Spec
=============================================================================
