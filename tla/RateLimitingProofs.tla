-------------------------- MODULE RateLimitingProofs --------------------------
(***************************************************************************)
(* HandleRateLimiting for any number of requests, any limit and any        *)
(* expiry: a key's limit stands while its requests meet neither one        *)
(* another nor a cleanup, and a request that is turned away has a cause    *)
(* even when they do.                                                      *)
(***************************************************************************)
EXTENDS RateLimiting, FiniteSetTheorems, TLAPS

Granted(q) == pc[q] = "granted"

\* A limiter counts claims of requests that it let through, no more than it may; and it
\* counts each until its callback is due.
Counting ==
  /\ TypeOK
  /\ \A r \in Requests : pc[r] \in {"granted", "refused"} => claimedAt[r] \in 0 .. now
  /\ \A l \in Requests : Cardinality(holders[l]) <= Size
  /\ \A l \in Requests : \A q \in holders[l] : Granted(q)
  /\ \A r \in Requests : Granted(r) /\ now < ReleaseDue(r) => r \in holders[mine[r]]

\* While a request meets no other and no cleanup, the key has one limiter: a claim is
\* counted by the one in the map, and the one timer armed is that limiter's.
OneLimiter ==
  /\ \A p, q \in Requests : Serving(p) /\ Serving(q) => p = q
  /\ \A r \in Requests : pc[r] = "store" => table = Nil
  /\ \A r \in Requests : pc[r] \in {"stop", "arm", "claim"} => mine[r] = table
  /\ \A l \in Requests : holders[l] # {} => table = l
  /\ \A t \in Requests : armedAt[t] # Nil =>
       mine[t] # Nil /\ mine[t] = table /\ timer[mine[t]] = t
  /\ \A r, t \in Requests : pc[r] = "arm" => armedAt[t] = Nil

\* A timely callback is not later than Lag.
Timely ==
  \A r \in Requests : Granted(r) /\ r \in holders[mine[r]] => now <= ReleaseDue(r) + Lag

KeyInv ==
  /\ Counting
  /\ regime = "serial" => OneLimiter /\ KeyLimit
  /\ regime = "timely" => Timely /\ RefusedForCause

USE RequestAssumption, SizeAssumption, TimeAssumption, NilAssumption

----------------------------------------------------------------------------
(* Counting *)

LEMMA OneMore ==
  ASSUME NEW S, NEW x, IsFiniteSet(S), Cardinality(S) <= Size, Cardinality(S) # Size
  PROVE  Cardinality(S \cup {x}) <= Size
<1>1. Cardinality(S) \in Nat
  BY FS_CardinalityType
<1>2. Cardinality(S \cup {x}) \in {Cardinality(S), Cardinality(S) + 1}
  BY FS_AddElement
<1> QED
  BY <1>1, <1>2

LEMMA OneLess ==
  ASSUME NEW S, NEW x, IsFiniteSet(S), Cardinality(S) <= Size
  PROVE  Cardinality(S \ {x}) <= Size
<1>1. Cardinality(S) \in Nat
  BY FS_CardinalityType
<1>2. Cardinality(S \ {x}) \in {Cardinality(S), Cardinality(S) - 1}
  BY FS_RemoveElement
<1> QED
  BY <1>1, <1>2

LEMMA InitCounting == Init => Counting
<1> SUFFICES ASSUME Init PROVE Counting
  OBVIOUS
<1>1. TypeOK
  BY DEF Init, TypeOK, Stages, MaybeRequest, MaybeTime
<1>2. \A l \in Requests : Cardinality(holders[l]) = 0
  BY FS_EmptySet DEF Init
<1> QED
  BY <1>1, <1>2 DEF Init, Counting, Granted

\* Claims are never taken back, and made at the instant.
LEMMA StepClaims ==
  ASSUME TypeOK, [Next]_vars
  PROVE  /\ UNCHANGED regime
         /\ now' = now \/ (now' = now + 1 /\ UNCHANGED <<pc, claimedAt, holders, mine>>)
         /\ \A q \in Requests : pc[q] \in {"granted", "refused"} =>
              pc'[q] = pc[q] /\ claimedAt'[q] = claimedAt[q]
         /\ \A q \in Requests :
              pc'[q] \in {"granted", "refused"} /\ pc[q] \notin {"granted", "refused"} =>
                claimedAt'[q] = now /\ now' = now
<1>1. CASE UNCHANGED vars
  BY <1>1 DEF vars
<1>2. CASE Tick
  BY <1>2 DEF Tick
<1>3. ASSUME NEW r \in Requests, Arrive(r) \/ Find(r) \/ Miss(r) \/ Create(r) \/ StopTimer(r) \/ ArmTimer(r)
      PROVE  /\ UNCHANGED <<regime, now, claimedAt>>
             /\ \E stage \in Stages \ {"granted", "refused"} :
                  pc' = [pc EXCEPT ![r] = stage] /\ pc[r] \notin {"granted", "refused"}
  BY <1>3 DEF Arrive, Find, Miss, Create, StopTimer, ArmTimer, Move, Stages
<1>4. ASSUME NEW r \in Requests, Release(r) \/ CleanUp(r)
      PROVE  UNCHANGED <<regime, now, pc, claimedAt>>
  BY <1>4 DEF Release, CleanUp
<1>5. ASSUME NEW r \in Requests, Claim(r)
      PROVE  /\ UNCHANGED <<regime, now>> /\ claimedAt' = [claimedAt EXCEPT ![r] = now]
             /\ \E stage \in Stages : pc' = [pc EXCEPT ![r] = stage] /\ pc[r] = "claim"
  BY <1>5 DEF Claim, Move, Stages
<1>6. pc \in [Requests -> Stages] /\ claimedAt \in [Requests -> MaybeTime]
  BY DEF TypeOK
<1>7. ASSUME NEW r \in Requests, Arrive(r) \/ Handle(r) \/ Release(r) \/ CleanUp(r)
      PROVE  /\ UNCHANGED <<regime, now>>
             /\ \A q \in Requests : pc[q] \in {"granted", "refused"} =>
                  pc'[q] = pc[q] /\ claimedAt'[q] = claimedAt[q]
             /\ \A q \in Requests :
                  pc'[q] \in {"granted", "refused"} /\ pc[q] \notin {"granted", "refused"} =>
                    claimedAt'[q] = now
  <2>1. CASE Claim(r)
    BY <1>5, <1>6, <2>1
  <2>2. CASE Release(r) \/ CleanUp(r)
    BY <1>4, <2>2
  <2>3. CASE Arrive(r) \/ Find(r) \/ Miss(r) \/ Create(r) \/ StopTimer(r) \/ ArmTimer(r)
    BY <1>3, <1>6, <2>3
  <2> QED
    BY <1>7, <2>1, <2>2, <2>3 DEF Handle
<1> QED
  BY <1>1, <1>2, <1>7 DEF Next

LEMMA NextType == Counting /\ [Next]_vars => TypeOK'
<1> SUFFICES ASSUME Counting, [Next]_vars PROVE TypeOK'
  OBVIOUS
<1>0. TypeOK /\ \A l \in Requests : \A q \in holders[l] : pc[q] = "granted"
  BY DEF Counting, Granted
<1> USE <1>0 DEF TypeOK, Stages, MaybeRequest, MaybeTime
<1>1. CASE UNCHANGED vars
  BY <1>1 DEF vars
<1>2. CASE Tick
  BY <1>2 DEF Tick
<1>3. ASSUME NEW r \in Requests, Arrive(r) \/ Find(r) \/ Miss(r) PROVE TypeOK'
  BY <1>3 DEF Arrive, Find, Miss, Move
<1>4. ASSUME NEW r \in Requests, Create(r) PROVE TypeOK'
  BY <1>4 DEF Create, Move
<1>5. ASSUME NEW r \in Requests, StopTimer(r) PROVE TypeOK'
  BY <1>5 DEF StopTimer, Move
<1>6. ASSUME NEW r \in Requests, ArmTimer(r) PROVE TypeOK'
  BY <1>6 DEF ArmTimer, Move
<1>7. ASSUME NEW r \in Requests, Claim(r) PROVE TypeOK'
  <2>1. \E stage \in {"granted", "refused"} : pc' = [pc EXCEPT ![r] = stage] /\ pc[r] = "claim"
    BY <1>7 DEF Claim, Move
  <2>2. \E counted \in {holders[mine[r]], holders[mine[r]] \cup {r}} :
          holders' = [holders EXCEPT ![mine[r]] = counted]
    BY <1>7 DEF Claim
  <2>3. UNCHANGED <<regime, now, table, mine, timer, armedAt>>
        /\ claimedAt' = [claimedAt EXCEPT ![r] = now] /\ enteredAt' = [enteredAt EXCEPT ![r] = Nil]
    BY <1>7 DEF Claim
  <2>4. mine[r] \in Requests
    BY <2>1
  <2> QED
    BY <2>1, <2>2, <2>3, <2>4
<1>8. ASSUME NEW r \in Requests, Release(r) PROVE TypeOK'
  BY <1>8 DEF Release
<1>9. ASSUME NEW r \in Requests, CleanUp(r) PROVE TypeOK'
  BY <1>9 DEF CleanUp
<1> QED
  BY <1>1, <1>2, <1>3, <1>4, <1>5, <1>6, <1>7, <1>8, <1>9 DEF Next, Handle

\* What becomes of the claims a limiter counts: a claim is added where there is room, or
\* one that is due is taken away.
LEMMA StepHolders ==
  ASSUME Counting, [Next]_vars
  PROVE  \/ UNCHANGED holders
         \/ \E r \in Requests :
              /\ Claim(r) /\ pc[r] = "claim" /\ mine[r] \in Requests /\ UNCHANGED mine
              /\ Cardinality(holders[mine[r]]) # Size /\ pc'[r] = "granted"
              /\ holders' = [holders EXCEPT ![mine[r]] = @ \cup {r}]
         \/ \E r \in Requests :
              /\ Release(r) /\ Granted(r) /\ mine[r] \in Requests
              /\ now >= ReleaseDue(r) /\ UNCHANGED <<now, pc, mine, claimedAt>>
              /\ holders' = [holders EXCEPT ![mine[r]] = @ \ {r}]
<1>1. TypeOK
  BY DEF Counting
<1>2. CASE UNCHANGED vars \/ Tick
  BY <1>2 DEF vars, Tick
<1>3. ASSUME NEW r \in Requests,
             Arrive(r) \/ Find(r) \/ Miss(r) \/ Create(r) \/ StopTimer(r) \/ ArmTimer(r) \/ CleanUp(r)
      PROVE  UNCHANGED holders
  BY <1>3 DEF Arrive, Find, Miss, Create, StopTimer, ArmTimer, CleanUp
<1>4. ASSUME NEW r \in Requests, Claim(r), holders' # holders
      PROVE  /\ pc[r] = "claim" /\ mine[r] \in Requests /\ UNCHANGED mine
             /\ Cardinality(holders[mine[r]]) # Size /\ pc'[r] = "granted"
             /\ holders' = [holders EXCEPT ![mine[r]] = @ \cup {r}]
  <2>1. pc[r] = "claim" /\ UNCHANGED mine
    BY <1>4 DEF Claim, Move
  <2>2. mine[r] \in Requests
    BY <1>1, <2>1 DEF TypeOK, MaybeRequest
  <2>3. Cardinality(holders[mine[r]]) # Size
    <3> SUFFICES ASSUME Cardinality(holders[mine[r]]) = Size PROVE FALSE
      OBVIOUS
    <3>1. holders' = [holders EXCEPT ![mine[r]] = @]
      BY <1>4 DEF Claim
    <3> QED
      BY <1>1, <1>4, <3>1 DEF TypeOK
  <2> QED
    BY <1>1, <1>4, <2>1, <2>2, <2>3 DEF Claim, Move, TypeOK
<1>5. ASSUME NEW r \in Requests, Release(r)
      PROVE  /\ Granted(r) /\ mine[r] \in Requests
             /\ now >= ReleaseDue(r) /\ UNCHANGED <<now, pc, mine, claimedAt>>
             /\ holders' = [holders EXCEPT ![mine[r]] = @ \ {r}]
  <2>1. pc[r] = "granted"
    BY <1>5 DEF Release
  <2>2. mine[r] \in Requests
    BY <1>1, <2>1 DEF TypeOK, MaybeRequest
  <2> QED
    BY <1>5, <2>1, <2>2 DEF Release, Granted
<1> QED
  BY <1>2, <1>3, <1>4, <1>5 DEF Next, Handle

\* Once let through or turned away, a request keeps its limiter.
LEMMA StepMine ==
  ASSUME Counting, [Next]_vars, NEW q \in Requests,
         pc[q] \in {"stop", "arm", "claim", "granted", "refused"}
  PROVE  mine'[q] = mine[q]
<1>1. TypeOK
  BY DEF Counting
<1>2. CASE UNCHANGED vars \/ Tick
  BY <1>2 DEF vars, Tick
<1>3. ASSUME NEW r \in Requests, Arrive(r) \/ Handle(r) \/ Release(r) \/ CleanUp(r)
      PROVE  mine'[q] = mine[q]
  <2>1. CASE Find(r) \/ Create(r)
    BY <1>1, <2>1 DEF Find, Create, Move, TypeOK
  <2>2. CASE ~ (Find(r) \/ Create(r))
    BY <1>3, <2>2 DEF Handle, Arrive, Miss, StopTimer, ArmTimer, Claim, Release, CleanUp
  <2> QED
    BY <2>1, <2>2
<1> QED
  BY <1>2, <1>3 DEF Next

LEMMA NextCounting == Counting /\ [Next]_vars => Counting'
<1> SUFFICES ASSUME Counting, [Next]_vars PROVE Counting'
  OBVIOUS
<1>1. TypeOK /\ TypeOK'
  BY NextType DEF Counting
<1>2. now \in Nat /\ now' \in Nat /\ holders \in [Requests -> SUBSET Requests]
      /\ pc \in [Requests -> Stages] /\ mine \in [Requests -> MaybeRequest]
  BY <1>1 DEF TypeOK
<1>3. ASSUME NEW r \in Requests, pc'[r] \in {"granted", "refused"} PROVE claimedAt'[r] \in 0 .. now'
  <2>1. CASE pc[r] \in {"granted", "refused"}
    <3>1. claimedAt'[r] = claimedAt[r] /\ claimedAt[r] \in 0 .. now
      BY <1>1, <2>1, StepClaims DEF Counting
    <3>2. now' = now \/ now' = now + 1
      BY <1>1, StepClaims
    <3> QED
      BY <1>2, <3>1, <3>2
  <2>2. CASE pc[r] \notin {"granted", "refused"}
    BY <1>1, <1>2, <1>3, <2>2, StepClaims
  <2> QED
    BY <2>1, <2>2
<1>4. ASSUME NEW l \in Requests PROVE Cardinality(holders'[l]) <= Size
  <2>1. Cardinality(holders[l]) <= Size /\ IsFiniteSet(holders[l]) /\ Cardinality(holders[l]) \in Nat
    BY <1>2, FS_Subset, FS_CardinalityType DEF Counting
  <2>2. CASE holders'[l] = holders[l]
    BY <2>1, <2>2
  <2>3. ASSUME NEW r \in Requests, holders'[l] = holders[l] \cup {r}, Cardinality(holders[l]) # Size
        PROVE  Cardinality(holders'[l]) <= Size
    BY <2>1, <2>3, OneMore
  <2>4. ASSUME NEW r \in Requests, holders'[l] = holders[l] \ {r}
        PROVE  Cardinality(holders'[l]) <= Size
    BY <2>1, <2>4, OneLess
  <2>5. UNCHANGED holders \/ \E r \in Requests :
          \/ /\ mine[r] \in Requests /\ Cardinality(holders[mine[r]]) # Size
             /\ holders' = [holders EXCEPT ![mine[r]] = @ \cup {r}]
          \/ mine[r] \in Requests /\ holders' = [holders EXCEPT ![mine[r]] = @ \ {r}]
    BY StepHolders
  <2> QED
    BY <1>2, <2>2, <2>3, <2>4, <2>5
<1>5. ASSUME NEW l \in Requests, NEW q \in holders'[l] PROVE Granted(q)'
  <2>1. q \in Requests
    BY <1>1 DEF TypeOK
  <2>2. CASE q \in holders[l]
    BY <1>1, <2>1, <2>2, StepClaims DEF Counting, Granted
  <2>3. CASE q \notin holders[l]
    BY <1>2, <1>5, <2>3, StepHolders DEF Granted
  <2> QED
    BY <2>2, <2>3
<1>6. ASSUME NEW r \in Requests, Granted(r)', now' < ReleaseDue(r)' PROVE r \in holders'[mine'[r]]
  <2>1. CASE Granted(r)
    <3>1. claimedAt'[r] = claimedAt[r] /\ mine'[r] = mine[r] /\ claimedAt[r] \in Nat /\ now <= now'
      BY <1>1, <1>2, <2>1, StepClaims, StepMine DEF Granted, Counting
    <3>2. now < ReleaseDue(r)
      BY <1>2, <1>6, <3>1 DEF ReleaseDue
    <3>3. r \in holders[mine[r]] /\ mine[r] \in Requests
      BY <1>1, <2>1, <3>2 DEF Counting, Granted, TypeOK, MaybeRequest
    <3>4. ASSUME NEW q \in Requests, now >= ReleaseDue(q) PROVE q # r
      BY <1>2, <3>1, <3>2, <3>4 DEF ReleaseDue
    <3> QED
      BY <1>2, <3>1, <3>3, <3>4, StepHolders
  <2>2. CASE ~ Granted(r)
    <3>1. pc[r] \notin {"granted", "refused"}
      BY <1>1, <1>6, <2>2, StepClaims DEF Granted
    <3>2. Claim(r)
      <4>1. CASE UNCHANGED vars \/ Tick
        BY <1>6, <2>2, <4>1 DEF vars, Tick, Granted
      <4>2. ASSUME NEW q \in Requests, Release(q) \/ CleanUp(q) PROVE FALSE
        BY <1>6, <2>2, <4>2 DEF Release, CleanUp, Granted
      <4>3. ASSUME NEW q \in Requests, Arrive(q) \/ Find(q) \/ Miss(q) \/ Create(q) \/ StopTimer(q) \/ ArmTimer(q)
            PROVE  FALSE
        BY <1>2, <1>6, <2>2, <4>3 DEF Arrive, Find, Miss, Create, StopTimer, ArmTimer, Move, Granted
      <4>4. ASSUME NEW q \in Requests, Claim(q) PROVE q = r
        BY <1>2, <1>6, <2>2, <4>4 DEF Claim, Move, Granted
      <4> QED
        BY <4>1, <4>2, <4>3, <4>4 DEF Next, Handle
    <3>3. pc[r] = "claim" /\ UNCHANGED mine /\ pc' = [pc EXCEPT ![r] = IF Cardinality(holders[mine[r]]) = Size
             THEN "refused" ELSE "granted"]
      BY <3>2 DEF Claim, Move
    <3>4. Cardinality(holders[mine[r]]) # Size /\ mine[r] \in Requests
      BY <1>1, <1>2, <1>6, <3>3 DEF Granted, TypeOK, MaybeRequest
    <3> QED
      BY <1>2, <3>2, <3>3, <3>4 DEF Claim
  <2> QED
    BY <2>1, <2>2
<1> QED
  BY <1>1, <1>3, <1>4, <1>5, <1>6 DEF Counting

----------------------------------------------------------------------------
(* One limiter, while requests meet neither one another nor a cleanup *)

LEMMA NextOneLimiter ==
  ASSUME Counting, OneLimiter, regime = "serial", [Next]_vars
  PROVE  OneLimiter'
<1>1. /\ pc \in [Requests -> Stages] /\ mine \in [Requests -> MaybeRequest] /\ table \in MaybeRequest
      /\ holders \in [Requests -> SUBSET Requests] /\ timer \in [Requests -> MaybeRequest]
      /\ armedAt \in [Requests -> MaybeTime] /\ now \in Nat /\ Nil \notin Requests /\ Nil \notin Nat
      /\ \A r \in Requests : pc[r] \in {"stop", "arm", "claim", "granted", "refused"} => mine[r] # Nil
  BY DEF Counting, TypeOK
<1> USE DEF Stages, MaybeRequest, MaybeTime
<1>2. CASE UNCHANGED vars
  BY <1>2 DEF vars, OneLimiter, Serving
<1>3. CASE Tick
  BY <1>3 DEF Tick, OneLimiter, Serving
<1>4. ASSUME NEW r \in Requests, Arrive(r) PROVE OneLimiter'
  BY <1>1, <1>4 DEF Arrive, Move, Alone, OneLimiter, Serving
<1>5. ASSUME NEW r \in Requests, Find(r) PROVE OneLimiter'
  BY <1>1, <1>5 DEF Find, Move, OneLimiter, Serving
<1>6. ASSUME NEW r \in Requests, Miss(r) PROVE OneLimiter'
  BY <1>1, <1>6 DEF Miss, Move, OneLimiter, Serving
<1>7. ASSUME NEW r \in Requests, Create(r) PROVE OneLimiter'
  <2>1. /\ table = Nil /\ table' = r /\ \A l \in Requests : holders'[l] = {}
        /\ \A t \in Requests : armedAt'[t] = Nil
    BY <1>1, <1>7 DEF Create, Move, OneLimiter
  <2>2. \A q \in Requests \ {r} : ~ Serving(q) /\ pc'[q] = pc[q]
    BY <1>1, <1>7 DEF Create, Move, OneLimiter, Serving
  <2>3. pc'[r] = "stop" /\ mine'[r] = r
    BY <1>1, <1>7 DEF Create, Move
  <2> QED
    BY <2>1, <2>2, <2>3 DEF OneLimiter, Serving
<1>8. ASSUME NEW r \in Requests, StopTimer(r) PROVE OneLimiter'
  <2>1. mine[r] = table /\ armedAt' = [q \in Requests |-> IF q = timer[mine[r]] THEN Nil ELSE armedAt[q]]
    BY <1>8 DEF StopTimer, Move, OneLimiter
  <2>2. \A t \in Requests : armedAt'[t] = Nil
    BY <1>1, <2>1 DEF OneLimiter
  <2>3. pc' = [pc EXCEPT ![r] = "arm"] /\ pc[r] = "stop" /\ UNCHANGED <<table, mine, holders, timer>>
    BY <1>8 DEF StopTimer, Move
  <2> QED
    BY <1>1, <2>1, <2>2, <2>3 DEF OneLimiter, Serving
<1>9. ASSUME NEW r \in Requests, ArmTimer(r) PROVE OneLimiter'
  <2>1. pc[r] = "arm" /\ pc' = [pc EXCEPT ![r] = "claim"] /\ UNCHANGED <<table, mine, holders>>
        /\ timer' = [timer EXCEPT ![mine[r]] = r] /\ armedAt' = [armedAt EXCEPT ![r] = now]
    BY <1>9 DEF ArmTimer, Move
  <2>2. mine[r] = table /\ mine[r] \in Requests /\ \A t \in Requests : armedAt[t] = Nil
    BY <1>1, <2>1 DEF OneLimiter
  <2>3. \A q \in Requests \ {r} : ~ Serving(q)
    BY <2>1 DEF OneLimiter, Serving
  <2> QED
    BY <1>1, <2>1, <2>2, <2>3 DEF OneLimiter, Serving
<1>10. ASSUME NEW r \in Requests, Claim(r) PROVE OneLimiter'
  <2>1. /\ pc[r] = "claim" /\ UNCHANGED <<table, mine, timer, armedAt>>
        /\ \E stage \in {"granted", "refused"} : pc' = [pc EXCEPT ![r] = stage]
        /\ \A l \in Requests : l # mine[r] => holders'[l] = holders[l]
    BY <1>1, <1>10 DEF Claim, Move
  <2>2. mine[r] = table
    BY <2>1 DEF OneLimiter
  <2> QED
    BY <1>1, <2>1, <2>2 DEF OneLimiter, Serving
<1>11. ASSUME NEW r \in Requests, Release(r) PROVE OneLimiter'
  BY <1>1, <1>11 DEF Release, OneLimiter, Serving
<1>12. ASSUME NEW t \in Requests, CleanUp(t) PROVE OneLimiter'
  <2>1. /\ armedAt[t] # Nil /\ UNCHANGED <<pc, mine, holders, timer>>
        /\ armedAt' = [armedAt EXCEPT ![t] = Nil] /\ \A q \in Requests : ~ Serving(q)
        /\ table' = IF holders[mine[t]] = {} THEN Nil ELSE table
    BY <1>12 DEF CleanUp, CleanUpReady, Alone
  <2>2. \A q \in Requests : armedAt'[q] = Nil
    BY <1>1, <2>1 DEF OneLimiter
  <2>3. \A l \in Requests : holders'[l] # {} => table' = l
    BY <1>1, <2>1 DEF OneLimiter
  <2>4. \A q \in Requests : pc'[q] \notin {"store", "stop", "arm", "claim"} /\ ~ Serving(q)'
    BY <2>1 DEF Serving
  <2> QED
    BY <2>2, <2>3, <2>4 DEF OneLimiter
<1> QED
  BY <1>2, <1>3, <1>4, <1>5, <1>6, <1>7, <1>8, <1>9, <1>10, <1>11, <1>12 DEF Next, Handle

----------------------------------------------------------------------------
(* What is let through in a span *)

LEMMA WindowFinite ==
  ASSUME NEW from, NEW to
  PROVE  IsFiniteSet(GrantedBetween(from, to))
  BY FS_Subset DEF GrantedBetween

\* The claims let through in the span that ends now are all counted by one limiter.
LEMMA RecentCounted ==
  ASSUME Counting, OneLimiter
  PROVE  Cardinality(GrantedBetween(now - (Expiry - 1), now)) <= Size
<1> DEFINE W == GrantedBetween(now - (Expiry - 1), now)
<1>1. ASSUME NEW q \in W PROVE q \in holders[table] /\ table \in Requests
  <2>1. /\ q \in Requests /\ Granted(q) /\ now - (Expiry - 1) < claimedAt[q]
        /\ claimedAt[q] \in Nat /\ now \in Nat
    BY DEF GrantedBetween, Granted, Counting, TypeOK
  <2>2. now < ReleaseDue(q)
    BY <2>1 DEF ReleaseDue
  <2>3. q \in holders[mine[q]] /\ mine[q] \in Requests
    BY <2>1, <2>2 DEF Counting, Granted, TypeOK, MaybeRequest
  <2> QED
    BY <2>3 DEF OneLimiter
<1>2. CASE W = {}
  BY <1>2, FS_EmptySet
<1>3. CASE W # {}
  <2>1. table \in Requests /\ W \in SUBSET holders[table]
    BY <1>1, <1>3
  <2>2. IsFiniteSet(holders[table]) /\ Cardinality(holders[table]) <= Size
    BY <2>1, FS_Subset DEF Counting, TypeOK
  <2>3. Cardinality(W) <= Cardinality(holders[table])
    BY <2>1, <2>2, FS_Subset
  <2>4. Cardinality(W) \in Nat /\ Cardinality(holders[table]) \in Nat
    BY <2>2, WindowFinite, FS_CardinalityType
  <2> QED
    BY <2>2, <2>3, <2>4
<1> QED
  BY <1>2, <1>3

\* A span that has passed gains no claim.
LEMMA PastWindow ==
  ASSUME Counting, [Next]_vars, NEW from \in Int, NEW to \in Int, to < now'
  PROVE  GrantedBetween(from, to)' \subseteq GrantedBetween(from, to)
<1> SUFFICES ASSUME NEW q \in GrantedBetween(from, to)' PROVE q \in GrantedBetween(from, to)
  OBVIOUS
<1>1. q \in Requests /\ pc'[q] = "granted" /\ from < claimedAt'[q] /\ claimedAt'[q] <= to
  BY DEF GrantedBetween
<1>2. TypeOK /\ now \in Nat
  BY DEF Counting, TypeOK
<1>3. pc[q] \in {"granted", "refused"}
  <2> SUFFICES ASSUME pc[q] \notin {"granted", "refused"} PROVE FALSE
    OBVIOUS
  <2>1. claimedAt'[q] = now /\ now' = now
    BY <1>1, <1>2, StepClaims
  <2> QED
    BY <1>1, <1>2, <2>1
<1> QED
  BY <1>1, <1>2, <1>3, StepClaims DEF GrantedBetween

LEMMA NextKeyLimit ==
  ASSUME Counting, KeyLimit, [Next]_vars, OneLimiter'
  PROVE  KeyLimit'
<1> SUFFICES ASSUME NEW t \in 0 .. now'
             PROVE  Cardinality(GrantedBetween(t - (Expiry - 1), t)') <= Size
  BY DEF KeyLimit, GrantedBetween
<1>1. Counting' /\ now \in Nat /\ now' \in Nat
  BY NextCounting, NextType DEF Counting, TypeOK
<1>2. CASE t = now'
  <2>1. (Cardinality(GrantedBetween(now - (Expiry - 1), now)) <= Size)'
    BY <1>1, RecentCounted, PTL
  <2> QED
    BY <1>2, <2>1 DEF GrantedBetween
<1>3. CASE t # now'
  <2>1. t < now' /\ t \in 0 .. now /\ t - (Expiry - 1) \in Int
    BY <1>1, <1>3, StepClaims DEF Counting
  <2>2. GrantedBetween(t - (Expiry - 1), t)' \in SUBSET GrantedBetween(t - (Expiry - 1), t)
    BY <2>1, PastWindow
  <2>3. Cardinality(GrantedBetween(t - (Expiry - 1), t)') <= Cardinality(GrantedBetween(t - (Expiry - 1), t))
    BY <2>2, WindowFinite, FS_Subset
  <2>4. Cardinality(GrantedBetween(t - (Expiry - 1), t)') \in Nat
        /\ Cardinality(GrantedBetween(t - (Expiry - 1), t)) \in Nat
    BY <2>2, WindowFinite, FS_Subset, FS_CardinalityType
  <2>5. Cardinality(GrantedBetween(t - (Expiry - 1), t)) <= Size
    BY <2>1 DEF KeyLimit
  <2> QED
    BY <2>3, <2>4, <2>5
<1> QED
  BY <1>2, <1>3

----------------------------------------------------------------------------
(* A request that is turned away, while callbacks are timely *)

LEMMA NextTimely ==
  ASSUME Counting, regime = "timely", Timely, [Next]_vars
  PROVE  Timely'
<1> SUFFICES ASSUME NEW q \in Requests, Granted(q)', q \in holders'[mine'[q]]
             PROVE  now' <= ReleaseDue(q)' + Lag
  BY DEF Timely
<1>1. TypeOK /\ now \in Nat /\ now' \in Nat
  BY NextType DEF Counting, TypeOK
<1>2. CASE Granted(q)
  <2>1. claimedAt'[q] = claimedAt[q] /\ mine'[q] = mine[q] /\ claimedAt[q] \in Nat
    BY <1>1, <1>2, StepClaims, StepMine DEF Granted, Counting
  <2>2. q \in holders[mine[q]]
    <3>1. mine[q] \in Requests /\ holders \in [Requests -> SUBSET Requests]
      BY <1>1, <1>2 DEF Granted, TypeOK, MaybeRequest
    <3>2. ASSUME NEW r \in Requests, pc[r] = "claim" PROVE r # q
      BY <1>2, <3>2 DEF Granted
    <3> QED
      BY <2>1, <3>1, <3>2, StepHolders
  <2>3. CASE Tick
    <3>1. now < ReleaseDue(q) + Lag /\ now' = now + 1
      BY <1>2, <2>2, <2>3 DEF Tick, OnTime, Granted
    <3> QED
      BY <1>1, <2>1, <3>1 DEF ReleaseDue
  <2>4. CASE ~ Tick
    <3>1. now' = now
      BY <2>4 DEF Next, vars, Handle, Arrive, Find, Miss, Create, StopTimer, ArmTimer, Claim, Release, CleanUp
    <3> QED
      BY <1>2, <2>1, <2>2, <3>1 DEF Timely, ReleaseDue
  <2> QED
    BY <2>3, <2>4
<1>3. CASE ~ Granted(q)
  <2>1. claimedAt'[q] = now /\ now' = now
    BY <1>1, <1>3, StepClaims DEF Granted
  <2> QED
    BY <1>1, <2>1 DEF ReleaseDue
<1> QED
  BY <1>2, <1>3

\* A claim is refused by a limiter that counts as many as it may.
LEMMA StepRefused ==
  ASSUME Counting, [Next]_vars, NEW r \in Requests, pc'[r] = "refused", pc[r] # "refused"
  PROVE  /\ mine[r] \in Requests /\ Cardinality(holders[mine[r]]) = Size
         /\ claimedAt'[r] = now /\ now' = now
<1>1. TypeOK
  BY DEF Counting
<1>2. Claim(r)
  <2>1. CASE UNCHANGED vars \/ Tick
    BY <2>1 DEF vars, Tick
  <2>2. ASSUME NEW q \in Requests, Release(q) \/ CleanUp(q) PROVE FALSE
    BY <2>2 DEF Release, CleanUp
  <2>3. ASSUME NEW q \in Requests, Arrive(q) \/ Find(q) \/ Miss(q) \/ Create(q) \/ StopTimer(q) \/ ArmTimer(q)
        PROVE  FALSE
    BY <1>1, <2>3 DEF Arrive, Find, Miss, Create, StopTimer, ArmTimer, Move, TypeOK
  <2>4. ASSUME NEW q \in Requests, Claim(q) PROVE q = r
    BY <1>1, <2>4 DEF Claim, Move, TypeOK
  <2> QED
    BY <2>1, <2>2, <2>3, <2>4 DEF Next, Handle
<1>3. pc[r] = "claim" /\ Cardinality(holders[mine[r]]) = Size
  BY <1>1, <1>2 DEF Claim, Move, TypeOK
<1>4. claimedAt'[r] = now /\ now' = now
  BY <1>1, <1>2 DEF Claim, TypeOK
<1> QED
  BY <1>1, <1>3, <1>4 DEF TypeOK, MaybeRequest

LEMMA NextRefused ==
  ASSUME Counting, regime = "timely", Timely, RefusedForCause, [Next]_vars
  PROVE  RefusedForCause'
<1>1. TypeOK /\ TypeOK' /\ now \in Nat
  BY NextType DEF Counting, TypeOK
<1> SUFFICES ASSUME NEW r \in Requests, pc'[r] = "refused"
             PROVE  Cardinality(GrantedBetween(claimedAt[r] - (Expiry - 1) - Lag - 1, claimedAt[r])') >= Size
  BY <1>1 DEF RefusedForCause
<1> DEFINE at == claimedAt'[r]
           from == at - (Expiry - 1) - Lag - 1
           W == {q \in Requests : pc'[q] = "granted" /\ from < claimedAt'[q] /\ claimedAt'[q] <= at}
<1>2. GrantedBetween(claimedAt[r] - (Expiry - 1) - Lag - 1, claimedAt[r])' = W
  BY DEF GrantedBetween
<1>3. ASSUME NEW S \in SUBSET W, Cardinality(S) >= Size PROVE Cardinality(W) >= Size
  <2>1. IsFiniteSet(W)
    BY FS_Subset
  <2>2. Cardinality(S) <= Cardinality(W) /\ IsFiniteSet(S)
    BY <2>1, FS_Subset
  <2>3. Cardinality(S) \in Nat /\ Cardinality(W) \in Nat
    BY <2>1, <2>2, FS_CardinalityType
  <2> QED
    BY <1>3, <2>2, <2>3
<1>4. \A q \in Requests : Granted(q) => pc'[q] = "granted" /\ claimedAt'[q] = claimedAt[q]
  BY <1>1, StepClaims DEF Granted
<1>5. CASE pc[r] = "refused"
  <2>1. at = claimedAt[r]
    BY <1>1, <1>5, StepClaims
  <2>2. GrantedBetween(claimedAt[r] - (Expiry - 1) - Lag - 1, claimedAt[r]) \in SUBSET W
    BY <1>4, <2>1 DEF GrantedBetween, Granted
  <2>3. Cardinality(GrantedBetween(claimedAt[r] - (Expiry - 1) - Lag - 1, claimedAt[r])) >= Size
    BY <1>5 DEF RefusedForCause
  <2> QED
    BY <1>2, <1>3, <2>2, <2>3
<1>6. CASE pc[r] # "refused"
  <2>1. mine[r] \in Requests /\ Cardinality(holders[mine[r]]) = Size /\ at = now
    BY <1>6, StepRefused
  <2>2. ASSUME NEW q \in holders[mine[r]] PROVE q \in W
    <3>1. q \in Requests /\ mine[q] = mine[r] /\ Granted(q)
      BY <1>1, <2>1 DEF Counting, TypeOK
    <3>2. claimedAt[q] \in Nat /\ claimedAt[q] <= now
      BY <1>1, <3>1 DEF Counting, Granted
    <3>3. now <= claimedAt[q] + Expiry - 1 + Lag
      BY <3>1 DEF Timely, ReleaseDue
    <3>4. from < claimedAt[q]
      BY <1>1, <2>1, <3>2, <3>3
    <3> QED
      BY <1>4, <2>1, <3>1, <3>2, <3>4
  <2>3. Size >= Size
    OBVIOUS
  <2> QED
    BY <1>2, <1>3, <2>1, <2>2, <2>3
<1> QED
  BY <1>5, <1>6

----------------------------------------------------------------------------
(* The invariant, and what follows from it *)

LEMMA InitKeyInv == Init => KeyInv
<1> SUFFICES ASSUME Init PROVE KeyInv
  OBVIOUS
<1>1. Counting
  BY InitCounting
<1>2. OneLimiter
  BY DEF Init, OneLimiter, Serving
<1>3. \A from, to : GrantedBetween(from, to) = {}
  BY DEF Init, GrantedBetween
<1>4. KeyLimit
  BY <1>3, FS_EmptySet DEF KeyLimit
<1>5. Timely /\ RefusedForCause
  BY <1>1 DEF Init, Timely, Granted, RefusedForCause, Counting
<1> QED
  BY <1>1, <1>2, <1>4, <1>5 DEF KeyInv

LEMMA NextKeyInv == KeyInv /\ [Next]_vars => KeyInv'
<1> SUFFICES ASSUME KeyInv, [Next]_vars PROVE KeyInv'
  OBVIOUS
<1>1. Counting /\ Counting'
  BY NextCounting DEF KeyInv
<1>2. regime' = regime
  BY <1>1, StepClaims DEF Counting
<1>3. CASE regime = "serial"
  <2>1. OneLimiter'
    BY <1>1, <1>3, NextOneLimiter DEF KeyInv
  <2>2. KeyLimit'
    BY <1>1, <1>3, <2>1, NextKeyLimit DEF KeyInv
  <2> QED
    BY <1>1, <1>2, <1>3, <2>1, <2>2 DEF KeyInv
<1>4. CASE regime = "timely"
  <2>1. Timely' /\ RefusedForCause'
    BY <1>1, <1>4, NextTimely, NextRefused DEF KeyInv
  <2> QED
    BY <1>1, <1>2, <1>4, <2>1 DEF KeyInv
<1>5. CASE regime \notin {"serial", "timely"}
  BY <1>1, <1>2, <1>5 DEF KeyInv
<1> QED
  BY <1>3, <1>4, <1>5

THEOREM KeyInvariant == Spec => []KeyInv
  BY InitKeyInv, NextKeyInv, PTL DEF Spec

\* While a key's requests meet neither one another nor a cleanup, no more than Size of
\* them are let through in any span one second shorter than the expiry: through the
\* expiry, cleanup and re-creation of the limiter, and however late its callbacks run.
THEOREM SerialKeyLimitCorrect == Spec => []SerialKeyLimit
<1>1. KeyInv => SerialKeyLimit
  BY DEF KeyInv, SerialKeyLimit
<1> QED
  BY <1>1, KeyInvariant, PTL

\* Under a timely scheduler HandleRateLimiting answers 429 only when Size requests of the
\* key were let through within the expiry and the delay, even when requests and cleanups
\* race; and what they share stays well formed under every scheduler.
THEOREM RefusedForCauseCorrect == Spec => []RefusedForCause
<1>1. KeyInv => RefusedForCause
  BY DEF KeyInv, Counting, RefusedForCause
<1> QED
  BY <1>1, KeyInvariant, PTL
=============================================================================
