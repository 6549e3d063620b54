---------------------------- MODULE RateLimiter ----------------------------
(***************************************************************************)
(* One rate limiter (pkg/http/mux/types/rate_limiting): a ring of Size     *)
(* slots, each holding the expiry of the claim that filled it, and one     *)
(* runtime timer per claim that empties the slot a second before that      *)
(* expiry.  Time is counted in seconds.                                    *)
(*                                                                         *)
(* A timer callback runs on a goroutine of its own, at or after the        *)
(* instant it is due, and then waits for the limiter's mutex: callbacks    *)
(* that are due together may run in any order.  The ring is designed for   *)
(* the regime "prompt", in which they run in the order of their claims,    *)
(* each within the second it is due in; nothing in the code imposes it.    *)
(***************************************************************************)
EXTENDS Integers, Sequences, FiniteSets

CONSTANTS
  Size,       \* len(Bucket)
  Expiry,     \* NumSecondsExpiry
  Nil,        \* a nil *time.Time
  Regimes,    \* the regimes considered: "any" and "prompt"
  MaxTime,    \* bound: the last second of the clock; the last claims are
              \* granted early enough for their callbacks to fall due by then
  MaxClaims   \* bound: how many claims are granted

ASSUME SizeAssumption   == Size \in Nat \ {0}
ASSUME ExpiryAssumption == Expiry \in Nat
ASSUME BoundAssumption  == MaxTime \in Nat /\ MaxClaims \in Nat
ASSUME NilAssumption    == Nil \notin Int /\ Nil \notin [until : Int, granted : Nat]

VARIABLES
  regime,          \* how the runtime treats callbacks, "any" or "prompt"
  now,             \* the clock
  Bucket,          \* slot -> expiry of the claim that filled it, or Nil
  insertionIndex,  \* the slot the next claim takes
  NumOccupied,     \* the limiter's count of claims that hold a slot
  pending,         \* claims whose AfterFunc callback has not run
  claims,          \* history: when each claim was granted, and its slot
  refusal          \* history: what the last refused Claim returned

vars == <<regime, now, Bucket, insertionIndex, NumOccupied, pending, claims, refusal>>

Slots == 0 .. Size - 1

\* A refused Claim: the expiry the caller was handed, and how many claims had
\* been granted by then.
Refusal == [until : Int \cup {Nil}, granted : Nat]

TypeOK ==
  /\ regime \in Regimes
  /\ now \in Nat
  /\ Bucket \in [Slots -> Int \cup {Nil}]
  /\ insertionIndex \in Slots
  /\ NumOccupied \in Int
  /\ claims \in Seq([at : Nat, slot : Slots])
  /\ pending \in SUBSET DOMAIN claims
  /\ refusal \in Refusal \cup {Nil}

Init ==
  /\ regime \in Regimes
  /\ now = 0
  /\ Bucket = [s \in Slots |-> Nil]
  /\ insertionIndex = 0
  /\ NumOccupied = 0
  /\ pending = {}
  /\ claims = <<>>
  /\ refusal = Nil

-----------------------------------------------------------------------------
\* Fault: a full ring is noticed one claim late.
FullLate == NumOccupied > Size

\* Claim finds every slot counted as taken.
Full == NumOccupied = Size

\* Claim, refused: every slot is counted as taken.
Refuse ==
  /\ Full
  /\ refusal' = [until |-> Bucket[insertionIndex], granted |-> Len(claims)]
  /\ UNCHANGED <<regime, now, Bucket, insertionIndex, NumOccupied, pending, claims>>

\* The slot after the one the next claim takes.
NextIndex == (insertionIndex + 1) % Size

\* Claim, granted: fill the slot at the insertion index and arm its timer.
Grant ==
  /\ ~Full
  /\ Len(claims) < MaxClaims
  /\ now + Expiry <= MaxTime
  /\ Bucket' = [Bucket EXCEPT ![insertionIndex] = now + Expiry]
  /\ insertionIndex' = NextIndex
  /\ NumOccupied' = NumOccupied + 1
  /\ claims' = Append(claims, [at |-> now, slot |-> insertionIndex])
  /\ pending' = pending \cup {Len(claims) + 1}
  /\ UNCHANGED <<regime, now, refusal>>

\* Fault: the timer is set two seconds before the expiry.
DueTwoEarly(i) == claims[i].at + Expiry - 2

\* Fault: the timer is set for the expiry itself.
DueAtExpiry(i) == claims[i].at + Expiry

\* The instant the timer of claim i is set for.
Due(i) == claims[i].at + Expiry - 1

\* The AfterFunc callback of claim i.
Release(i) ==
  /\ i \in pending
  /\ now >= Due(i)
  /\ regime = "prompt" => \A j \in pending : i <= j
  /\ Bucket' = [Bucket EXCEPT ![claims[i].slot] = Nil]
  /\ NumOccupied' = NumOccupied - 1
  /\ pending' = pending \ {i}
  /\ UNCHANGED <<regime, now, insertionIndex, claims, refusal>>

Tick ==
  /\ now < MaxTime
  /\ regime = "prompt" => \A i \in pending : now < Due(i)
  /\ now' = now + 1
  /\ UNCHANGED <<regime, Bucket, insertionIndex, NumOccupied, pending, claims, refusal>>

Next ==
  \/ Refuse
  \/ Grant
  \/ \E i \in DOMAIN claims : Release(i)
  \/ Tick

Spec == Init /\ [][Next]_vars

(***************************************************************************)
(* The runtime's clock advances, and it runs every callback that is due.   *)
(***************************************************************************)
Fairness ==
  /\ WF_vars(Tick)
  /\ \A i \in 1 .. MaxClaims : WF_vars(i \in DOMAIN claims /\ Release(i))

FairSpec == Spec /\ Fairness

-----------------------------------------------------------------------------
(* What Claim promises its callers.                                        *)

\* The count Claim compares with the ring's length is the number of claims
\* whose callback has still to run, and never exceeds the ring.
Occupancy ==
  /\ NumOccupied = Cardinality(pending)
  /\ NumOccupied <= Size

\* The claims granted in the Expiry - 1 seconds that end at t.
GrantedInWindow(t) ==
  {i \in DOMAIN claims : t - (Expiry - 1) < claims[i].at /\ claims[i].at <= t}

\* "A claim beyond capacity must be limited": Claim never grants more than Size
\* claims in a span one second shorter than the expiry, however late or out of
\* order the callbacks run.
WindowLimit == \A t \in 0 .. now : Cardinality(GrantedInWindow(t)) <= Size

\* A refused Claim hands back the expiry that HandleRateLimiting formats as
\* Retry-After, through a pointer it does not check: it may not be nil.  It can be
\* when callbacks run out of order.
NeverBlindRefusal == refusal # Nil => refusal.until # Nil

\* Retry-After is honest while callbacks are prompt: a refused caller that comes
\* back at the instant it was told, with no claim granted in between, finds a free
\* slot.
RetryHonoured ==
  regime = "prompt" /\ refusal # Nil /\ refusal.granted = Len(claims) /\ now >= refusal.until => ~Full

\* A limiter that refuses does not do so for ever: callbacks give slots back.
RefusalsEnd == Full ~> ~Full
=============================================================================
