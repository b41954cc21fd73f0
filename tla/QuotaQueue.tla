----------------------------- MODULE QuotaQueue -----------------------------
(***************************************************************************)
(* iris_quota_t (src/src/iris_common.h) and iris_quota_queue_t              *)
(* (src/src/iris_coroutine.h).  The amounts of a request are taken kind by   *)
(* kind with a compare-exchange each; a request that fails gives back what it *)
(* has taken, kind by kind, and waits in the queue if it was made by          *)
(* co_await guard().                                                        *)
(*                                                                         *)
(* A user makes one request at a time and holds what it is granted as a      *)
(* resource_t, of which it may release parts.  Merging two resources and      *)
(* move(), which takes the amounts out of the library, are left out.         *)
(***************************************************************************)
EXTENDS Sync, FiniteSetsExt

CONSTANTS
  Users,      \* coroutines that co_await guard()
  Tryers,     \* threads that call acquire() and go on if it fails
  Kinds,      \* 1..n
  Total,      \* initial amounts
  Request,    \* what each user or tryer asks for
  MaxRequests   \* bound: requests of each of them

Clients == Users \cup Tryers

ASSUME QuotaAssumption ==
  /\ Clients \subseteq Actors /\ IsFiniteSet(Clients) /\ Users \cap Tryers = {}
  /\ Nobody \notin Actors
  /\ Kinds \subseteq Nat /\ IsFiniteSet(Kinds)
  /\ Total \in [Kinds -> Nat]
  /\ Request \in [Clients -> [Kinds -> Nat]]
  /\ MaxRequests \in Nat

VARIABLES
  quantities,
  inLine,    \* users that wait, with their requests, first come first
  mode,       \* what the acquire of a client is part of
  got,        \* kinds that it has taken so far
  held,       \* kinds that the client's resource has
  requests

quotaVars == <<quantities, inLine, mode, got, held, requests>>

Modes == {"guard", "try", "retry", "wake"}

QuotaTypeOK ==
  /\ \A c \in Clients :
       pc[c] \in {"idle", "take", "back", "lock", "suspended", "hold", "give", "walk"}
  /\ quantities \in [Kinds -> Nat]
  /\ inLine \in Seq(Users)
  /\ mode \in [Clients -> Modes]
  /\ got \in [Clients -> SUBSET Kinds] /\ held \in [Clients -> SUBSET Kinds]
  /\ requests \in [Clients -> 0..MaxRequests]

QuotaInit ==
  /\ quantities = Total
  /\ inLine = <<>>
  /\ mode = [c \in Clients |-> "guard"]
  /\ got = [c \in Clients |-> {}]
  /\ held = [c \in Clients |-> {}]
  /\ requests = [c \in Clients |-> 0]

Asked(c) == {k \in Kinds : Request[c][k] > 0}

\* Whose request the acquire of c serves: release() asks for the first waiter.
Served(c) == IF mode[c] = "wake" THEN Head(inLine) ELSE c

(***************************************************************************)
(* iris_quota_t::acquire                                                   *)
(***************************************************************************)
Begin(c, m) ==
  /\ mode' = [mode EXCEPT ![c] = m]
  /\ got' = [got EXCEPT ![c] = {}]

\* guard() of a coroutine, acquire() of a thread.
Acquire(c) ==
  /\ At(c, "idle") /\ requests[c] < MaxRequests
  /\ requests' = [requests EXCEPT ![c] = @ + 1]
  /\ Begin(c, IF c \in Users THEN "guard" ELSE "try")
  /\ Goto(c, "take")
  /\ UNCHANGED <<posted, mutex, quantities, inLine, held>>

\* What c takes the quantities for, and what it has still to take.
Missing(c) == Asked(Served(c)) \ got[c]

\* One kind, by compare-exchange.
TakeKind(c) ==
  /\ At(c, "take") /\ Missing(c) # {}
  /\ LET k == Min(Missing(c))
         m == Request[Served(c)][k]
     IN IF quantities[k] < m
        THEN Goto(c, "back") /\ UNCHANGED <<quantities, got>>
        ELSE /\ quantities' = [quantities EXCEPT ![k] = @ - m]
             /\ got' = [got EXCEPT ![c] = @ \cup {k}]
             /\ UNCHANGED pc
  /\ UNCHANGED <<posted, mutex, inLine, mode, held, requests>>

\* Mutant: a failed request returns nothing of what it has taken.
GiveNothing(c) ==
  /\ At(c, "back") /\ got[c] # {}
  /\ got' = [got EXCEPT ![c] = {}]
  /\ UNCHANGED <<quantities, pc, posted, mutex, inLine, mode, held, requests>>

\* Mutant: a failed request returns all that it asked for, taken or not.
GiveBackAsked(c) ==
  /\ At(c, "back") /\ got[c] # {}
  /\ quantities' = [k \in Kinds |-> quantities[k] + Request[Served(c)][k]]
  /\ got' = [got EXCEPT ![c] = {}]
  /\ UNCHANGED <<pc, posted, mutex, inLine, mode, held, requests>>

\* A failed request returns one kind, by fetch_add.
GiveBack(c) ==
  /\ At(c, "back") /\ got[c] # {}
  /\ LET k == Min(got[c])
     IN /\ quantities' = [quantities EXCEPT ![k] = @ + Request[Served(c)][k]]
        /\ got' = [got EXCEPT ![c] = @ \ {k}]
  /\ UNCHANGED <<pc, posted, mutex, inLine, mode, held, requests>>

(***************************************************************************)
(* What the callers of acquire do with its result                          *)
(***************************************************************************)
Taken(c) == At(c, "take") /\ Missing(c) = {}
Failed(c) == At(c, "back") /\ got[c] = {}

Keep(c, v) ==
  /\ held' = [held EXCEPT ![v] = Asked(v)]
  /\ got' = [got EXCEPT ![c] = {}]

\* guard() or acquire() has the amounts at once.
Granted(c) ==
  /\ Taken(c) /\ mode[c] \in {"guard", "try"}
  /\ Keep(c, c)
  /\ Goto(c, "hold")
  /\ UNCHANGED <<posted, mutex, quantities, inLine, mode, requests>>

Refused(c) ==
  /\ Failed(c) /\ mode[c] \in {"guard", "try"}
  /\ Goto(c, IF mode[c] = "try" THEN "idle" ELSE "lock")
  /\ UNCHANGED <<posted, mutex, quantities, inLine, mode, got, held, requests>>

\* acquire_queued: ask once more under the lock.
AcquireQueued(c) ==
  /\ At(c, "lock") /\ Lock(c)
  /\ Begin(c, "retry")
  /\ Goto(c, "take")
  /\ UNCHANGED <<posted, quantities, inLine, held, requests>>

RetryGranted(c) ==
  /\ Taken(c) /\ mode[c] = "retry"
  /\ Keep(c, c)
  /\ Unlock(c) /\ DispatchHandle(c)
  /\ Goto(c, "suspended")
  /\ UNCHANGED <<quantities, inLine, mode, requests>>

RetryRefused(c) ==
  /\ Failed(c) /\ mode[c] = "retry"
  /\ inLine' = Append(inLine, c)
  /\ Unlock(c)
  /\ Goto(c, "suspended")
  /\ UNCHANGED <<posted, quantities, mode, got, held, requests>>

Resume(c) ==
  /\ Resumed(c, "hold")
  /\ UNCHANGED <<mutex, quotaVars>>

(***************************************************************************)
(* release                                                                 *)
(***************************************************************************)
\* resource_t::release, clear, or the destructor: c gives the kinds got[c].
Release(c) ==
  /\ At(c, "hold")
  /\ \E K \in (SUBSET held[c]) \ {{}} : got' = [got EXCEPT ![c] = K]
  /\ Goto(c, "give")
  /\ UNCHANGED <<posted, mutex, quantities, inLine, mode, held, requests>>

\* Mutant: release() does not look at the queue.
ReleaseQuietly(c) ==
  /\ At(c, "give")
  /\ quantities' = [k \in Kinds |-> quantities[k] + IF k \in got[c] THEN Request[c][k] ELSE 0]
  /\ held' = [held EXCEPT ![c] = @ \ got[c]]
  /\ got' = [got EXCEPT ![c] = {}]
  /\ Goto(c, IF held[c] = got[c] THEN "idle" ELSE "hold")
  /\ UNCHANGED <<posted, mutex, inLine, mode, requests>>

ReleaseKind(c) ==
  /\ At(c, "give")
  /\ LET k == Min(got[c])
     IN /\ quantities' = [quantities EXCEPT ![k] = @ + Request[c][k]]
        /\ held' = [held EXCEPT ![c] = @ \ {k}]
        /\ got' = [got EXCEPT ![c] = @ \ {k}]
        /\ Goto(c, IF got[c] = {k} THEN "walk" ELSE "give")
  /\ UNCHANGED <<posted, mutex, inLine, mode, requests>>

\* The caller of release() goes on.
Over(c) == Goto(c, IF held[c] = {} THEN "idle" ELSE "hold")

\* Under the lock, ask for the first waiter.
Walk(c) ==
  /\ At(c, "walk")
  /\ IF inLine = <<>>
     THEN mutex = Nobody /\ Over(c) /\ UNCHANGED <<mutex, mode, got>>
     ELSE Lock(c) /\ Begin(c, "wake") /\ Goto(c, "take")
  /\ UNCHANGED <<posted, quantities, inLine, held, requests>>

WakeGranted(c) ==
  /\ Taken(c) /\ mode[c] = "wake"
  /\ Keep(c, Head(inLine))
  /\ inLine' = Tail(inLine)
  /\ Unlock(c) /\ DispatchHandle(Head(inLine))
  /\ Goto(c, "walk")
  /\ UNCHANGED <<quantities, mode, requests>>

WakeRefused(c) ==
  /\ Failed(c) /\ mode[c] = "wake"
  /\ Unlock(c) /\ Over(c)
  /\ UNCHANGED <<posted, quantities, inLine, mode, got, held, requests>>

\* The steps that a client takes by itself once it has called.
QuotaInternal(c) ==
  \/ TakeKind(c) \/ GiveBack(c) \/ Granted(c) \/ Refused(c)
  \/ AcquireQueued(c) \/ RetryGranted(c) \/ RetryRefused(c) \/ Resume(c)
  \/ Release(c) \/ ReleaseKind(c) \/ Walk(c) \/ WakeGranted(c) \/ WakeRefused(c)

QuotaNext == \E c \in Clients : Acquire(c) \/ QuotaInternal(c)

QuotaSpec == SyncInit /\ QuotaInit /\ [][QuotaNext]_<<syncVars, quotaVars>>

(***************************************************************************)
(* Properties                                                              *)
(***************************************************************************)
Quiet ==
  /\ \A c \in Clients : At(c, "idle") \/ At(c, "hold") \/ At(c, "suspended")
  /\ posted = {} /\ mutex = Nobody

\* What a client has of a kind: in its resource, and in a request that is under way.
Has(c, k) ==
  (IF k \in held[c] THEN Request[c][k] ELSE 0)
    + (IF k \in got[c] /\ pc[c] \in {"take", "back"} THEN Request[Served(c)][k] ELSE 0)

\* Nothing is created or destroyed by requests that fail half way.
Conserved ==
  \A k \in Kinds : quantities[k] + SumFunction([c \in Clients |-> Has(c, k)]) = Total[k]

\* When everything has come to rest and nobody has any of the quota, nobody
\* waits for it ("so we cannot miss a waiter that is in the middle of pushing").
NobodyForgotten ==
  Quiet /\ (\A c \in Clients : held[c] = {}) => inLine = <<>>

\* Somebody who waits is granted its request: users make a bounded number of
\* requests, so nobody waits for ever if again and again nobody waits.
EventuallyGranted == []<>(\A u \in Users : ~At(u, "suspended"))

Bank == INSTANCE Quota WITH Users <- Clients

\* Requests are granted as a whole, and only if the whole of it is free.
RefinesQuota == Bank!Spec
=============================================================================
