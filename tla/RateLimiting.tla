---------------------------- MODULE RateLimiting ----------------------------
(***************************************************************************)
(* HandleRateLimiting (pkg/http/mux/internal/mux): the requests of one     *)
(* rate-limiting key, served concurrently, share the map entry of that key *)
(* (RateLimitingConfiguration.Lookup), the limiter it points to, and the   *)
(* limiter's cleanup timer.  Only the map's creation and the cleanup hold  *)
(* the lookup's mutex; a request reads and writes the entry and the timer  *)
(* field without it.                                                       *)
(*                                                                         *)
(* A limiter is named by the request that creates it, and a cleanup timer  *)
(* by the request that arms it.  Of the limiter itself (see RateLimiter)   *)
(* only the claims it counts are kept.                                     *)
(*                                                                         *)
(* Two regimes are considered.  In "serial" a request meets no other in    *)
(* the handler and no cleanup, neither one that runs nor one that waits to *)
(* run, and callbacks are as late as they may be.                          *)
(* In "timely" requests and cleanups race, and nothing is more than Lag    *)
(* seconds late: a handler ends within Lag seconds of its request, and a   *)
(* callback runs within Lag seconds of being due.                          *)
(***************************************************************************)
EXTENDS Integers, FiniteSets

CONSTANTS
  Requests,     \* the requests that carry the key
  Size,         \* NumRequests
  Expiry,       \* NumSecondsExpiration
  Nil,          \* no limiter, no timer, no time
  Regimes,      \* the regimes considered: "serial" and "timely"
  Lag,          \* how late, in seconds, anything is in the regime "timely"
  LastArrival,  \* bound: no request arrives later
  MaxTime       \* bound: the last second of the clock

ASSUME RequestAssumption == IsFiniteSet(Requests)
ASSUME SizeAssumption == Size \in Nat \ {0}
ASSUME TimeAssumption ==
  /\ Expiry \in Nat \ {0}
  /\ Lag \in Nat
  /\ LastArrival \in Nat
  /\ MaxTime \in Nat
ASSUME NilAssumption == Nil \notin Requests \cup Int

VARIABLES
  regime,     \* how requests and callbacks are scheduled
  now,
  table,      \* Lookup.Map[key]
  pc,         \* where each request is in the handler
  mine,       \* timerRateLimiter: the limiter each request works with
  enteredAt,  \* when each request in the handler entered it
  claimedAt,  \* history: when each request called Claim
  holders,    \* limiter -> the requests whose claims it counts
  timer,      \* limiter -> its Timer field
  armedAt     \* cleanup timer -> when it was armed; Nil once stopped or run

vars == <<regime, now, table, pc, mine, enteredAt, claimedAt, holders, timer, armedAt>>

Stages == {"idle", "lookup", "store", "stop", "arm", "claim", "granted", "refused"}
MaybeRequest == Requests \cup {Nil}
MaybeTime == Nat \cup {Nil}

TypeOK ==
  /\ regime \in Regimes
  /\ now \in Nat
  /\ table \in MaybeRequest
  /\ pc \in [Requests -> Stages]
  /\ mine \in [Requests -> MaybeRequest]
  /\ enteredAt \in [Requests -> MaybeTime]
  /\ claimedAt \in [Requests -> MaybeTime]
  /\ holders \in [Requests -> SUBSET Requests]
  /\ timer \in [Requests -> MaybeRequest]
  /\ armedAt \in [Requests -> MaybeTime]
  /\ \A r \in Requests :
       /\ pc[r] \in {"stop", "arm", "claim", "granted", "refused"} => mine[r] # Nil
       /\ holders[r] \subseteq {q \in Requests : mine[q] = r}

Init ==
  /\ regime \in Regimes
  /\ now = 0
  /\ table = Nil
  /\ pc = [r \in Requests |-> "idle"]
  /\ mine = [r \in Requests |-> Nil]
  /\ enteredAt = [r \in Requests |-> Nil]
  /\ claimedAt = [r \in Requests |-> Nil]
  /\ holders = [l \in Requests |-> {}]
  /\ timer = [l \in Requests |-> Nil]
  /\ armedAt = [r \in Requests |-> Nil]

-----------------------------------------------------------------------------
Serving(r) == pc[r] \notin {"idle", "granted", "refused"}

Alone == \A q \in Requests : ~Serving(q)

Move(r, from, to) == pc[r] = from /\ pc' = [pc EXCEPT ![r] = to]

\* Fault: the cleanup is set for the expiry, not for twice the expiry.
CleanUpDueAtExpiry(t) == armedAt[t] + Expiry

\* The instant the cleanup timer t is set for.
CleanUpDue(t) == armedAt[t] + 2 * Expiry

\* The callback of the cleanup timer t may run.
CleanUpReady(t) == armedAt[t] # Nil /\ now >= CleanUpDue(t)

\* The handler is entered; the map is made if there is none.
Arrive(r) ==
  /\ Move(r, "idle", "lookup")
  /\ now <= LastArrival
  /\ regime = "serial" => Alone /\ \A t \in Requests : ~CleanUpReady(t)
  /\ enteredAt' = [enteredAt EXCEPT ![r] = now]
  /\ UNCHANGED <<regime, now, table, mine, claimedAt, holders, timer, armedAt>>

\* The map is read: the entry is there.
Find(r) ==
  /\ table # Nil
  /\ Move(r, "lookup", "stop")
  /\ mine' = [mine EXCEPT ![r] = table]
  /\ UNCHANGED <<regime, now, table, enteredAt, claimedAt, holders, timer, armedAt>>

\* The map is read: the entry is missing.
Miss(r) ==
  /\ table = Nil
  /\ Move(r, "lookup", "store")
  /\ UNCHANGED <<regime, now, table, mine, enteredAt, claimedAt, holders, timer, armedAt>>

\* The request stores a limiter of its own, over whatever is there by now.
Create(r) ==
  /\ Move(r, "store", "stop")
  /\ mine' = [mine EXCEPT ![r] = r]
  /\ table' = r
  /\ UNCHANGED <<regime, now, enteredAt, claimedAt, holders, timer, armedAt>>

\* Timer.Stop, which comes too late for a timer whose callback has started.  Nothing
\* holds such a timer any more, and its callback may still drop a later limiter's entry.
StopTimer(r) ==
  LET t == timer[mine[r]]
  IN  /\ Move(r, "stop", "arm")
      /\ \/ armedAt' = [q \in Requests |-> IF q = t THEN Nil ELSE armedAt[q]]
         \/ regime # "serial" /\ t # Nil /\ CleanUpReady(t) /\ UNCHANGED armedAt
      /\ UNCHANGED <<regime, now, table, mine, enteredAt, claimedAt, holders, timer>>

\* A new cleanup timer, stored in the limiter's Timer field.
ArmTimer(r) ==
  /\ Move(r, "arm", "claim")
  /\ timer' = [timer EXCEPT ![mine[r]] = r]
  /\ armedAt' = [armedAt EXCEPT ![r] = now]
  /\ UNCHANGED <<regime, now, table, mine, enteredAt, claimedAt, holders>>

\* Claim, under the limiter's mutex; a full limiter answers 429.
Claim(r) ==
  LET full == Cardinality(holders[mine[r]]) = Size
  IN  /\ Move(r, "claim", IF full THEN "refused" ELSE "granted")
      /\ claimedAt' = [claimedAt EXCEPT ![r] = now]
      /\ holders' = [holders EXCEPT ![mine[r]] = IF full THEN @ ELSE @ \cup {r}]
      /\ enteredAt' = [enteredAt EXCEPT ![r] = Nil]
      /\ UNCHANGED <<regime, now, table, mine, timer, armedAt>>

\* Fault: the slot is held until the expiry itself.
ReleaseDueAtExpiry(r) == claimedAt[r] + Expiry

\* The instant the claim of r gives its slot back.
ReleaseDue(r) == claimedAt[r] + Expiry - 1

\* The callback of r's claim.
Release(r) ==
  /\ pc[r] = "granted"
  /\ r \in holders[mine[r]]
  /\ now >= ReleaseDue(r)
  /\ holders' = [holders EXCEPT ![mine[r]] = @ \ {r}]
  /\ UNCHANGED <<regime, now, table, pc, mine, enteredAt, claimedAt, timer, armedAt>>

\* Fault: the cleanup does not look whether the limiter is in use.
CleanUpAlways(t) ==
  /\ CleanUpReady(t)
  /\ regime = "serial" => Alone
  /\ armedAt' = [armedAt EXCEPT ![t] = Nil]
  /\ table' = Nil
  /\ UNCHANGED <<regime, now, pc, mine, enteredAt, claimedAt, holders, timer>>

\* The cleanup callback: drop the key's entry if the limiter counts no claim.
\* The entry may by now be another limiter's.
CleanUp(t) ==
  /\ CleanUpReady(t)
  /\ regime = "serial" => Alone
  /\ armedAt' = [armedAt EXCEPT ![t] = Nil]
  /\ table' = IF holders[mine[t]] = {} THEN Nil ELSE table
  /\ UNCHANGED <<regime, now, pc, mine, enteredAt, claimedAt, holders, timer>>

OnTime ==
  \A r \in Requests :
    /\ Serving(r) => now < enteredAt[r] + Lag
    /\ pc[r] = "granted" /\ r \in holders[mine[r]] => now < ReleaseDue(r) + Lag
    /\ armedAt[r] # Nil => now < CleanUpDue(r) + Lag

Tick ==
  /\ now < MaxTime
  /\ regime = "timely" => OnTime
  /\ now' = now + 1
  /\ UNCHANGED <<regime, table, pc, mine, enteredAt, claimedAt, holders, timer, armedAt>>

Handle(r) ==
  \/ Find(r) \/ Miss(r) \/ Create(r) \/ StopTimer(r) \/ ArmTimer(r) \/ Claim(r)

Next ==
  \/ \E r \in Requests : Arrive(r) \/ Handle(r) \/ Release(r) \/ CleanUp(r)
  \/ Tick

Spec == Init /\ [][Next]_vars

(***************************************************************************)
(* Handlers run, callbacks run once they are due, and the clock advances.  *)
(***************************************************************************)
FairSpec ==
  /\ Spec
  /\ WF_vars(Tick)
  /\ \A r \in Requests :
       WF_vars(Handle(r)) /\ WF_vars(Release(r)) /\ WF_vars(CleanUp(r))

-----------------------------------------------------------------------------
GrantedBetween(from, to) ==
  {r \in Requests : pc[r] = "granted" /\ from < claimedAt[r] /\ claimedAt[r] <= to}

\* "A claim beyond capacity must be limited": no more than Size requests of one
\* key are let through in a span one second shorter than the expiry.  It fails once
\* requests race: HandleRateLimiting reads the map and stores into it in two steps.
KeyLimit ==
  \A t \in 0 .. now : Cardinality(GrantedBetween(t - (Expiry - 1), t)) <= Size

\* While requests and cleanups do not race the key's limit stands, through the
\* expiry, cleanup and re-creation of its limiter and however late its callbacks.
SerialKeyLimit == regime = "serial" => KeyLimit

\* No request is turned away without cause by a timely scheduler: a 429 means that
\* Size requests of the key were let through within the expiry (and the scheduler's
\* delay), even when requests and cleanups race; and what they share stays well formed.
RefusedForCause ==
  /\ TypeOK
  /\ \A r \in Requests :
       regime = "timely" /\ pc[r] = "refused" =>
         Cardinality(GrantedBetween(claimedAt[r] - (Expiry - 1) - Lag - 1, claimedAt[r])) >= Size

\* The map does not grow for ever under a timely scheduler: once the key's requests
\* stop, its entry goes and stays away.
EntryExpires == regime = "timely" => <>[](table = Nil)
=============================================================================
