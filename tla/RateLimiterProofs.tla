------------------------- MODULE RateLimiterProofs -------------------------
(***************************************************************************)
(* The rate limiter keeps its limit for every ring size, every expiry and  *)
(* every order and delay of its callbacks.                                 *)
(***************************************************************************)
EXTENDS RateLimiter, FiniteSetTheorems, TLAPS

USE SizeAssumption, ExpiryAssumption, BoundAssumption, NilAssumption

\* No claim lies in the future, and a claim whose timer is not due still holds
\* its place in the count.
RecentArePending ==
  \A i \in DOMAIN claims : claims[i].at <= now /\ (now < Due(i) => i \in pending)

\* The inductive invariant.  WindowLimit alone is not inductive: a grant keeps
\* it only because the window that ends now is inside pending.
IInv ==
  /\ TypeOK
  /\ IsFiniteSet(pending)
  /\ Occupancy
  /\ RecentArePending
  /\ WindowLimit

-----------------------------------------------------------------------------
\* A set inside a finite set of at most Size elements has at most Size.
LEMMA SubsetBound ==
  ASSUME NEW S, NEW W \in SUBSET S, IsFiniteSet(S), Cardinality(S) <= Size
  PROVE  Cardinality(W) <= Size
<1>1. IsFiniteSet(W) /\ Cardinality(W) <= Cardinality(S)
  BY FS_Subset
<1>2. Cardinality(W) \in Nat /\ Cardinality(S) \in Nat
  BY <1>1, FS_CardinalityType
<1> QED
  BY <1>1, <1>2

\* What a claim of the history looks like.
LEMMA ClaimType ==
  ASSUME TypeOK, NEW i \in DOMAIN claims
  PROVE  claims[i].at \in Nat /\ claims[i].slot \in Slots
<1> DEFINE Claim == [at : Nat, slot : Slots]
<1>1. claims \in Seq(Claim)
  BY DEF TypeOK
<1>2. claims[i] \in Claim
  <2> HIDE DEF Claim
  <2> QED
    BY <1>1
<1> QED
  BY <1>2

LEMMA InitIInv == Init => IInv
<1> SUFFICES ASSUME Init PROVE IInv
  OBVIOUS
<1>1. TypeOK
  BY DEF Init, TypeOK, Slots
<1>2. IsFiniteSet(pending) /\ Cardinality(pending) = 0
  BY FS_EmptySet DEF Init
<1>3. Occupancy
  BY <1>2 DEF Init, Occupancy
<1>4. RecentArePending
  BY DEF Init, RecentArePending
<1>5. WindowLimit
  <2>1. ASSUME NEW t \in 0 .. now PROVE GrantedInWindow(t) = {}
    BY DEF Init, GrantedInWindow
  <2> QED
    BY <2>1, FS_EmptySet DEF WindowLimit
<1> QED
  BY <1>1, <1>2, <1>3, <1>4, <1>5 DEF IInv

\* Granting a claim keeps the invariant.
LEMMA GrantIInv == IInv /\ Grant => IInv'
<1> SUFFICES ASSUME IInv, Grant PROVE IInv'
  OBVIOUS
<1> DEFINE n == Len(claims) + 1
<1>1. /\ claims' \in Seq([at : Nat, slot : Slots])
      /\ DOMAIN claims' = DOMAIN claims \cup {n}
      /\ n \notin DOMAIN claims
      /\ claims'[n] = [at |-> now, slot |-> insertionIndex]
      /\ \A i \in DOMAIN claims : claims'[i] = claims[i]
  BY DEF IInv, TypeOK, Grant
<1>2. insertionIndex' \in Slots
  BY DEF IInv, TypeOK, Grant, Slots, NextIndex
<1>3. TypeOK'
  BY <1>1, <1>2 DEF IInv, TypeOK, Grant
<1>4. /\ IsFiniteSet(pending')
      /\ Cardinality(pending') = Cardinality(pending) + 1
  <2>1. n \notin pending
    BY <1>1 DEF IInv, TypeOK
  <2> QED
    BY <2>1, FS_AddElement DEF IInv, Grant
<1>5. Occupancy'
  BY <1>4 DEF IInv, TypeOK, Occupancy, Grant, Full
<1>6. RecentArePending'
  <2> SUFFICES ASSUME NEW i \in DOMAIN claims'
               PROVE  claims'[i].at <= now /\ (now < Due(i)' => i \in pending')
    BY DEF RecentArePending, Grant
  <2>1. CASE i = n
    BY <2>1, <1>1 DEF IInv, TypeOK, Grant
  <2>2. CASE i \in DOMAIN claims
    BY <2>2, <1>1 DEF IInv, RecentArePending, Due, Grant
  <2> QED
    BY <2>1, <2>2, <1>1
<1>7. WindowLimit'
  <2> SUFFICES ASSUME NEW t \in 0 .. now
               PROVE  Cardinality(GrantedInWindow(t)') <= Size
    BY DEF WindowLimit, Grant
  <2>1. CASE t = now
    <3>1. ASSUME NEW i \in DOMAIN claims', now - (Expiry - 1) < claims'[i].at
          PROVE  i \in pending'
      <4>1. claims'[i].at \in Nat /\ now' = now /\ now \in Nat
        BY <1>1, ClaimType DEF IInv, TypeOK, Grant
      <4>2. now < claims'[i].at + Expiry - 1
        BY <3>1, <4>1
      <4> QED
        BY <4>1, <4>2, <1>6 DEF RecentArePending, Due
    <3>2. GrantedInWindow(t)' \in SUBSET pending'
      BY <2>1, <3>1 DEF GrantedInWindow
    <3> QED
      BY <3>2, <1>4, <1>5, SubsetBound DEF Occupancy
  <2>2. CASE t < now
    <3>1. GrantedInWindow(t)' = GrantedInWindow(t)
      BY <2>2, <1>1 DEF GrantedInWindow, IInv, TypeOK, Grant
    <3> QED
      BY <3>1 DEF IInv, WindowLimit
  <2> QED
    BY <2>1, <2>2 DEF IInv, TypeOK
<1> QED
  BY <1>3, <1>4, <1>5, <1>6, <1>7 DEF IInv

\* Running a callback keeps the invariant.
LEMMA ReleaseIInv ==
  ASSUME IInv, NEW i \in DOMAIN claims, Release(i)
  PROVE  IInv'
<1>1. claims[i].at \in Nat /\ claims[i].slot \in Slots
  BY ClaimType DEF IInv
<1>2. TypeOK'
  BY <1>1 DEF IInv, TypeOK, Release
<1>3. /\ IsFiniteSet(pending')
      /\ Cardinality(pending') = Cardinality(pending) - 1
  BY FS_RemoveElement DEF IInv, Release
<1>4. Occupancy'
  BY <1>3 DEF IInv, TypeOK, Occupancy, Release
<1>5. RecentArePending'
  <2>1. now \in Nat /\ ~(now < Due(i)) /\ now' = now /\ claims' = claims
    BY <1>1 DEF IInv, TypeOK, Release, Due
  <2> QED
    BY <2>1 DEF IInv, RecentArePending, Due, Release
<1>6. WindowLimit'
  BY DEF IInv, WindowLimit, GrantedInWindow, Release
<1> QED
  BY <1>2, <1>3, <1>4, <1>5, <1>6 DEF IInv

\* The passing of a second keeps the invariant: the window it opens holds only
\* claims whose timers are not yet due.
LEMMA TickIInv ==
  ASSUME IInv, Tick
  PROVE  IInv'
<1>1. now \in Nat /\ now' = now + 1 /\ claims' = claims /\ pending' = pending
  BY DEF IInv, TypeOK, Tick
<1>2. TypeOK'
  BY DEF IInv, TypeOK, Tick
<1>3. Occupancy' /\ IsFiniteSet(pending')
  BY DEF IInv, Occupancy, Tick
<1>4. RecentArePending'
  <2> SUFFICES ASSUME NEW i \in DOMAIN claims
               PROVE  claims[i].at <= now + 1 /\ (now + 1 < Due(i) => i \in pending)
    BY <1>1 DEF RecentArePending, Due
  <2> QED
    BY <1>1, ClaimType DEF IInv, RecentArePending, Due
<1>5. WindowLimit'
  <2> SUFFICES ASSUME NEW t \in 0 .. now + 1
               PROVE  Cardinality(GrantedInWindow(t)) <= Size
    BY <1>1 DEF WindowLimit, GrantedInWindow
  <2>1. CASE t \in 0 .. now
    BY <2>1 DEF IInv, WindowLimit
  <2>2. CASE t = now + 1
    <3>1. ASSUME NEW i \in DOMAIN claims, t - (Expiry - 1) < claims[i].at
          PROVE  i \in pending
      BY <3>1, <2>2, <1>1, ClaimType DEF IInv, RecentArePending, Due
    <3>2. GrantedInWindow(t) \in SUBSET pending
      BY <3>1 DEF GrantedInWindow
    <3> QED
      BY <3>2, SubsetBound DEF IInv, Occupancy
  <2> QED
    BY <2>1, <2>2, <1>1
<1> QED
  BY <1>2, <1>3, <1>4, <1>5 DEF IInv

LEMMA RefuseIInv ==
  ASSUME IInv, Refuse
  PROVE  IInv'
<1>1. Len(claims) \in Nat /\ Bucket[insertionIndex] \in Int \cup {Nil}
  BY DEF IInv, TypeOK
<1>2. TypeOK'
  BY <1>1 DEF IInv, TypeOK, Refuse, Refusal
<1>3. IsFiniteSet(pending') /\ Occupancy' /\ RecentArePending' /\ WindowLimit'
  BY DEF IInv, Occupancy, RecentArePending, WindowLimit, GrantedInWindow, Due, Refuse
<1> QED
  BY <1>2, <1>3 DEF IInv

LEMMA NextIInv == IInv /\ [Next]_vars => IInv'
<1> SUFFICES ASSUME IInv, [Next]_vars PROVE IInv'
  OBVIOUS
<1>1. CASE Refuse
  BY <1>1, RefuseIInv
<1>2. CASE Grant
  BY <1>2, GrantIInv
<1>3. CASE \E i \in DOMAIN claims : Release(i)
  BY <1>3, ReleaseIInv
<1>4. CASE Tick
  BY <1>4, TickIInv
<1>5. CASE UNCHANGED vars
  BY <1>5 DEF IInv, TypeOK, Occupancy, RecentArePending, WindowLimit,
              GrantedInWindow, Due, vars
<1> QED
  BY <1>1, <1>2, <1>3, <1>4, <1>5 DEF Next

LEMMA Invariance == Spec => []IInv
<1> QED
  BY InitIInv, NextIInv, PTL DEF Spec

-----------------------------------------------------------------------------
\* Every state a limiter reaches is well formed: the insertion index stays
\* inside the ring and the history inside its type (Claim and its callbacks).
THEOREM TypeCorrect == Spec => []TypeOK
<1>1. IInv => TypeOK
  BY DEF IInv
<1> QED
  BY <1>1, Invariance, PTL

\* NumOccupied counts the claims whose AfterFunc callback has not run and never
\* exceeds the length of the ring.
THEOREM OccupancyCorrect == Spec => []Occupancy
<1>1. IInv => Occupancy
  BY DEF IInv
<1> QED
  BY <1>1, Invariance, PTL

\* Claim grants at most Size claims in any span of Expiry - 1 seconds.
THEOREM WindowLimitCorrect == Spec => []WindowLimit
<1>1. IInv => WindowLimit
  BY DEF IInv
<1> QED
  BY <1>1, Invariance, PTL

-----------------------------------------------------------------------------
(* Retry-After, while callbacks are prompt *)

\* The slot of a claim granted back claims ago, the last one being one ago.
SlotBack(back) ==
  IF back <= insertionIndex THEN insertionIndex - back ELSE insertionIndex - back + Size

\* The last Size claims went to the slots in their order, the oldest of them to the
\* one the next claim takes.
InOrder ==
  \A i \in DOMAIN claims :
    Len(claims) + 1 - i <= Size => claims[i].slot = SlotBack(Len(claims) + 1 - i)

\* While callbacks are prompt no second passes a timer by, the claims still held are
\* the latest, each slot says when its claim expires, and a refused caller was told
\* when the oldest of them does.
PromptInv ==
  regime = "prompt" =>
    /\ \A i \in pending : now <= Due(i)
    /\ \A i \in pending : i .. Len(claims) \subseteq pending
    /\ \A i \in pending : Bucket[claims[i].slot] = claims[i].at + Expiry
    /\ refusal # Nil =>
         /\ refusal.granted <= Len(claims)
         /\ refusal.granted = Len(claims) =>
              /\ Size <= Len(claims)
              /\ refusal.until = claims[Len(claims) + 1 - Size].at + Expiry

RetryInv == InOrder /\ PromptInv

\* The slot after the last is the first.
LEMMA NextSlot ==
  ASSUME TypeOK
  PROVE  NextIndex = IF insertionIndex + 1 = Size THEN 0 ELSE insertionIndex + 1
<1>1. ASSUME NEW x \in 0 .. Size - 1 PROVE x % Size = x
  BY SMTT(30)
<1>2. Size % Size = 0
  BY SMTT(30)
<1> QED
  BY <1>1, <1>2 DEF NextIndex, TypeOK, Slots

\* As many claims are held as were granted since the oldest of them.
LEMMA HeldAreLatest ==
  ASSUME IInv, PromptInv, regime = "prompt", NEW i \in pending
  PROVE  i \in 1 .. Len(claims) /\ Len(claims) + 1 - i <= NumOccupied /\ NumOccupied <= Size
<1>1. i \in 1 .. Len(claims) /\ Len(claims) \in Nat
  BY DEF IInv, TypeOK
<1>2. i .. Len(claims) \in SUBSET pending
  BY DEF PromptInv
<1>3. Cardinality(i .. Len(claims)) = Len(claims) - i + 1
  BY <1>1, FS_Interval
<1>4. Cardinality(i .. Len(claims)) <= Cardinality(pending)
  BY <1>2, FS_Subset DEF IInv
<1> QED
  BY <1>1, <1>3, <1>4 DEF IInv, Occupancy, TypeOK

\* A full ring holds the last Size claims.
LEMMA FullHoldsOldest ==
  ASSUME IInv, PromptInv, regime = "prompt", Full
  PROVE  Size <= Len(claims) /\ Len(claims) + 1 - Size \in pending
<1> DEFINE oldest == Len(claims) + 1 - Size
<1>1. Len(claims) \in Nat /\ pending \in SUBSET (1 .. Len(claims)) /\ Cardinality(pending) = Size
  BY DEF IInv, TypeOK, Occupancy, Full
<1>2. ASSUME NEW a \in 1 .. Len(claims) + 1, pending \in SUBSET (a .. Len(claims))
      PROVE  Size <= Len(claims) - a + 1
  <2>1. IsFiniteSet(a .. Len(claims)) /\ Cardinality(a .. Len(claims)) = Len(claims) - a + 1
    <3>1. a \in Int /\ Len(claims) \in Int /\ a <= Len(claims) + 1
      BY <1>1
    <3>2. /\ IsFiniteSet(a .. Len(claims))
          /\ Cardinality(a .. Len(claims)) = IF a > Len(claims) THEN 0 ELSE Len(claims) - a + 1
      BY <3>1, FS_Interval
    <3> QED
      BY <3>1, <3>2
  <2>2. Cardinality(pending) <= Cardinality(a .. Len(claims))
    BY <1>2, <2>1, FS_Subset
  <2> QED
    BY <1>1, <2>1, <2>2
<1>3. 1 \in 1 .. Len(claims) + 1 /\ pending \in SUBSET (1 .. Len(claims))
  BY <1>1
<1>4. Size <= Len(claims)
  BY <1>1, <1>2, <1>3
<1>5. ASSUME oldest \notin pending PROVE FALSE
  <2>1. \A i \in pending : oldest + 1 <= i
    BY <1>1, <1>4, <1>5 DEF PromptInv
  <2>2. oldest + 1 \in 1 .. Len(claims) + 1 /\ oldest + 1 \in Int
    BY <1>1, <1>4
  <2>3. pending \in SUBSET (oldest + 1 .. Len(claims))
    BY <1>1, <2>1, <2>2
  <2>4. Size <= Len(claims) - (oldest + 1) + 1
    BY <1>2, <2>2, <2>3
  <2> QED
    BY <1>1, <2>4
<1> QED
  BY <1>4, <1>5

LEMMA GrantRetry == ASSUME Expiry > 0, IInv, RetryInv, Grant PROVE RetryInv'
<1> DEFINE n == Len(claims) + 1
<1>1. /\ Len(claims) \in Nat /\ Len(claims') = n
      /\ DOMAIN claims = 1 .. Len(claims) /\ DOMAIN claims' = DOMAIN claims \cup {n}
      /\ claims'[n] = [at |-> now, slot |-> insertionIndex]
      /\ \A i \in DOMAIN claims : claims'[i] = claims[i]
  BY DEF IInv, TypeOK, Grant
<1>2. /\ insertionIndex \in 0 .. Size - 1
      /\ insertionIndex' = IF insertionIndex + 1 = Size THEN 0 ELSE insertionIndex + 1
  BY NextSlot DEF IInv, TypeOK, Slots, Grant
<1>3. InOrder'
  <2> SUFFICES ASSUME NEW i \in DOMAIN claims', n + 1 - i <= Size
               PROVE  claims'[i].slot = IF n + 1 - i <= insertionIndex' THEN insertionIndex' - (n + 1 - i)
                                        ELSE insertionIndex' - (n + 1 - i) + Size
    BY <1>1 DEF InOrder, SlotBack
  <2>1. CASE i = n
    BY <1>1, <1>2, <2>1
  <2>2. CASE i \in DOMAIN claims
    <3>1. n - i <= Size /\ i \in 1 .. Len(claims)
      BY <1>1, <2>2
    <3>2. claims[i].slot = IF n - i <= insertionIndex THEN insertionIndex - (n - i)
                           ELSE insertionIndex - (n - i) + Size
      BY <1>1, <2>2, <3>1 DEF RetryInv, InOrder, SlotBack
    <3> QED
      BY <1>1, <1>2, <2>2, <3>1, <3>2
  <2> QED
    BY <1>1, <2>1, <2>2
<1>4. PromptInv'
  <2> SUFFICES ASSUME regime = "prompt" PROVE PromptInv'
    BY DEF PromptInv, Grant
  <2>1. pending' = pending \cup {n} /\ pending \subseteq DOMAIN claims /\ now' = now /\ now \in Nat
    BY DEF IInv, TypeOK, Grant
  <2>2. \A i \in pending' : now' <= Due(i)'
    BY <1>1, <2>1 DEF RetryInv, PromptInv, Due
  <2>3. \A i \in pending' : i .. Len(claims') \subseteq pending'
    BY <1>1, <2>1 DEF RetryInv, PromptInv
  <2>4. \A i \in pending' : Bucket'[claims'[i].slot] = claims'[i].at + Expiry
    <3>1. Bucket' = [Bucket EXCEPT ![insertionIndex] = now + Expiry] /\ Bucket \in [Slots -> Int \cup {Nil}]
      BY DEF IInv, TypeOK, Grant
    <3>2. ASSUME NEW i \in pending PROVE claims[i].slot # insertionIndex /\ claims[i].slot \in Slots
      <4>1. /\ i \in 1 .. Len(claims) /\ Len(claims) + 1 - i <= NumOccupied
            /\ NumOccupied \in Int /\ NumOccupied < Size
        BY HeldAreLatest DEF RetryInv, IInv, TypeOK, Grant, Full
      <4>2. claims[i].slot = SlotBack(Len(claims) + 1 - i)
        BY <1>1, <4>1 DEF RetryInv, InOrder
      <4> QED
        BY <1>1, <1>2, <4>1, <4>2 DEF SlotBack, Slots
    <3>3. ASSUME NEW i \in pending PROVE Bucket'[claims'[i].slot] = claims'[i].at + Expiry
      BY <1>1, <2>1, <3>1, <3>2 DEF RetryInv, PromptInv
    <3> QED
      BY <1>1, <1>2, <2>1, <3>1, <3>3 DEF Slots
  <2>5. refusal # Nil => refusal.granted <= Len(claims)
    BY DEF RetryInv, PromptInv
  <2>6. refusal # Nil => refusal.granted \in Nat
    BY DEF IInv, TypeOK, Refusal
  <2>7. UNCHANGED refusal
    BY DEF Grant
  <2>8. refusal' # Nil => refusal'.granted < Len(claims')
    BY <1>1, <2>5, <2>6, <2>7
  <2> HIDE DEF n
  <2> QED
    BY <1>1, <2>2, <2>3, <2>4, <2>6, <2>7, <2>8 DEF PromptInv
<1> QED
  BY <1>3, <1>4 DEF RetryInv

\* Claims granted at different places have different slots.
LEMMA SlotsDiffer ==
  ASSUME TypeOK, NEW a \in 1 .. Size, NEW b \in 1 .. Size, a # b
  PROVE  SlotBack(a) # SlotBack(b)
<1>1. insertionIndex \in 0 .. Size - 1
  BY DEF TypeOK, Slots
<1> QED
  BY <1>1 DEF SlotBack

LEMMA ReleaseRetry ==
  ASSUME IInv, RetryInv, NEW i \in DOMAIN claims, Release(i)
  PROVE  RetryInv'
<1>1. UNCHANGED <<regime, now, insertionIndex, claims, refusal>> /\ pending' = pending \ {i}
  BY DEF Release
<1>2. InOrder'
  BY <1>1 DEF RetryInv, InOrder, SlotBack
<1>3. PromptInv'
  <2> SUFFICES ASSUME regime = "prompt" PROVE PromptInv'
    BY <1>1 DEF PromptInv
  <2>1. i \in pending /\ \A j \in pending : i <= j
    BY DEF Release
  <2>2. \A j \in pending' : j .. Len(claims) \subseteq pending'
    BY <1>1, <2>1 DEF RetryInv, PromptInv, IInv, TypeOK
  <2>3. ASSUME NEW j \in pending' PROVE Bucket'[claims[j].slot] = claims[j].at + Expiry
    <3>1. /\ j \in 1 .. Len(claims) /\ Len(claims) + 1 - j <= Size
          /\ i \in 1 .. Len(claims) /\ Len(claims) + 1 - i <= Size
          /\ i < j
      <4>1. j \in pending /\ i \in pending /\ i # j /\ i <= j
        BY <1>1, <2>1
      <4>2. /\ j \in 1 .. Len(claims) /\ Len(claims) + 1 - j <= NumOccupied
            /\ i \in 1 .. Len(claims) /\ Len(claims) + 1 - i <= NumOccupied
            /\ NumOccupied <= Size
        BY <4>1, HeldAreLatest DEF RetryInv
      <4>3. Len(claims) \in Nat /\ NumOccupied \in Int
        BY DEF IInv, TypeOK
      <4> QED
        BY <4>1, <4>2, <4>3
    <3>2. /\ claims[j].slot = SlotBack(Len(claims) + 1 - j)
          /\ claims[i].slot = SlotBack(Len(claims) + 1 - i)
      <4>1. j \in DOMAIN claims
        BY <1>1 DEF IInv, TypeOK
      <4>2. \A k \in DOMAIN claims :
              Len(claims) + 1 - k <= Size => claims[k].slot = SlotBack(Len(claims) + 1 - k)
        BY DEF RetryInv, InOrder
      <4> QED
        BY <3>1, <4>1, <4>2
    <3>3. claims[i].slot # claims[j].slot
      <4> DEFINE back(k) == Len(claims) + 1 - k
      <4>1. TypeOK /\ Len(claims) \in Nat
        BY DEF IInv, TypeOK
      <4>2. back(i) \in 1 .. Size /\ back(j) \in 1 .. Size /\ back(i) # back(j)
        BY <3>1, <4>1
      <4> QED
        BY <3>2, <4>1, <4>2, SlotsDiffer
    <3>4. Bucket' = [Bucket EXCEPT ![claims[i].slot] = Nil] /\ claims[j].slot \in Slots
      BY <3>1, ClaimType DEF Release, IInv
    <3>5. Bucket'[claims[j].slot] = Bucket[claims[j].slot]
      BY <3>3, <3>4 DEF IInv, TypeOK
    <3>6. j \in pending
      BY <1>1
    <3> QED
      BY <3>5, <3>6 DEF RetryInv, PromptInv
  <2> QED
    BY <1>1, <2>2, <2>3 DEF RetryInv, PromptInv, Due
<1> QED
  BY <1>2, <1>3 DEF RetryInv

LEMMA RefuseRetry == ASSUME IInv, RetryInv, Refuse PROVE RetryInv'
<1>1. /\ UNCHANGED <<regime, now, Bucket, insertionIndex, NumOccupied, pending, claims>>
      /\ refusal' = [until |-> Bucket[insertionIndex], granted |-> Len(claims)]
  BY DEF Refuse
<1>2. InOrder'
  BY <1>1 DEF RetryInv, InOrder, SlotBack
<1>3. PromptInv'
  <2> SUFFICES ASSUME regime = "prompt" PROVE PromptInv'
    BY <1>1 DEF PromptInv
  <2> DEFINE oldest == Len(claims) + 1 - Size
  <2>1. Size <= Len(claims) /\ oldest \in pending /\ oldest \in DOMAIN claims
    BY FullHoldsOldest DEF Refuse, RetryInv, IInv, TypeOK
  <2>2. claims[oldest].slot = insertionIndex
    <3>1. /\ Len(claims) \in Nat /\ insertionIndex \in 0 .. Size - 1
          /\ Len(claims) + 1 - oldest = Size
      BY DEF IInv, TypeOK, Slots
    <3>2. claims[oldest].slot = SlotBack(Size)
      BY <2>1, <3>1 DEF RetryInv, InOrder
    <3> QED
      BY <3>1, <3>2 DEF SlotBack
  <2>3. Bucket[insertionIndex] = claims[oldest].at + Expiry
    BY <2>1, <2>2 DEF RetryInv, PromptInv
  <2> QED
    BY <1>1, <2>1, <2>3 DEF RetryInv, PromptInv, Due
<1> QED
  BY <1>2, <1>3 DEF RetryInv

LEMMA TickRetry == ASSUME IInv, RetryInv, Tick PROVE RetryInv'
<1>1. /\ UNCHANGED <<regime, Bucket, insertionIndex, NumOccupied, pending, claims, refusal>>
      /\ now' = now + 1
  BY DEF Tick
<1>2. InOrder'
  BY <1>1 DEF RetryInv, InOrder, SlotBack
<1>3. regime = "prompt" => \A i \in pending : now' <= Due(i)
  <2> SUFFICES ASSUME regime = "prompt", NEW i \in pending PROVE now' <= Due(i)
    OBVIOUS
  <2>1. now < Due(i) /\ now \in Nat /\ claims[i].at \in Nat
    BY ClaimType DEF Tick, IInv, TypeOK
  <2> QED
    BY <1>1, <2>1 DEF Due
<1> QED
  BY <1>1, <1>2, <1>3 DEF RetryInv, PromptInv, Due

\* While callbacks run within the second they are due in and in order, a caller that
\* comes back when it was told finds a free slot.  A limiter whose claims expire as
\* they are made (Expiry = 0) has no such second.
THEOREM RetryHonouredCorrect == ASSUME Expiry > 0 PROVE Spec => []RetryHonoured
<1>1. Init => RetryInv
  <2> SUFFICES ASSUME Init PROVE RetryInv
    OBVIOUS
  <2> QED
    BY DEF Init, RetryInv, InOrder, PromptInv
<1>2. IInv /\ RetryInv /\ [Next]_vars => RetryInv'
  <2> SUFFICES ASSUME IInv, RetryInv, [Next]_vars PROVE RetryInv'
    OBVIOUS
  <2>1. CASE UNCHANGED vars
    BY <2>1 DEF RetryInv, InOrder, PromptInv, SlotBack, Due, vars
  <2> QED
    BY <2>1, GrantRetry, ReleaseRetry, RefuseRetry, TickRetry DEF Next
<1>3. IInv /\ RetryInv => RetryHonoured
  <2> SUFFICES ASSUME IInv, RetryInv, regime = "prompt", refusal # Nil,
                      refusal.granted = Len(claims), now >= refusal.until, Full
               PROVE  FALSE
    BY DEF RetryHonoured
  <2> DEFINE oldest == Len(claims) + 1 - Size
  <2>1. oldest \in pending /\ oldest \in DOMAIN claims
    BY FullHoldsOldest DEF RetryInv, IInv, TypeOK
  <2>2. refusal.until = claims[oldest].at + Expiry
    BY DEF RetryInv, PromptInv
  <2>3. now <= claims[oldest].at + Expiry - 1
    BY <2>1 DEF RetryInv, PromptInv, Due
  <2>4. now \in Nat /\ claims[oldest].at \in Nat
    BY <2>1, ClaimType DEF IInv, TypeOK
  <2> QED
    BY <2>2, <2>3, <2>4
<1> QED
  BY <1>1, <1>2, <1>3, Invariance, PTL DEF Spec
=============================================================================
