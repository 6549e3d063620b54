--------------------------- MODULE KeyHandlerProofs ---------------------------
(***************************************************************************)
(* The JSON Web Key handler, for any number of callers, keys and seconds:  *)
(* what it caches, what its callers saw, and what follows for the answers  *)
(* and the fetches.                                                        *)
(***************************************************************************)
EXTENDS KeyHandler, TLAPS

\* The goroutines whose call is in progress.
Active == {c \in Callers : pc[c] # "idle"}

\* Types, and the times that are known not to be ahead of the clock.
KeyTypes ==
  /\ TypeOK
  /\ publishedSince \in [KeyIds -> MaybeTime]
  /\ snapshotAt \in [Callers -> MaybeTime]
  /\ snapshotTook \in [Callers -> Nat]
  /\ held \in [Callers -> SUBSET KeyIds]
  /\ keysFetchedAt # Nil => keysFetchedAt <= now
  /\ attemptAt # Nil => attemptAt <= now
  /\ keysMutex # Nil => attemptAt # Nil

\* A call has seen what is cached, and what it was handed.
CallInv ==
  /\ \A c \in Active : keyId[c] \in KeyIds /\ keys \subseteq held[c] /\ snapshot[c] \subseteq held[c]
  /\ \A c \in Callers : pc[c] = "idle" => snapshot[c] = {}
  /\ \A c \in Callers : snapshotAt[c] # Nil => snapshotAt[c] <= now
  /\ \A c \in Callers : pc[c] \in {"lookup", "store"} => snapshotAt[c] # Nil
  /\ \A c \in Callers : pc[c] = "store" => keyId[c] \in snapshot[c]

\* Without overlap, verifiers of an old set are gone before anyone looks.
AloneInv ==
  regime = "alone" =>
    /\ \A c, d \in Active : c = d
    /\ (\A c \in Callers : pc[c] # "record") => verifiers \subseteq keys
    /\ \A c \in Callers : pc[c] \in {"lookup", "store"} => snapshot[c] \subseteq keys

\* When every fetch succeeds, the last one begun and done is recorded.
SoundInv ==
  regime = "sound" /\ keysMutex = Nil /\ attemptAt # Nil =>
    keysFetchedAt # Nil /\ keysFetchedAt >= attemptAt

\* What is published and not cached has been published since the fetch that is
\* recorded began, at the earliest; the same goes for the fetch in progress and the
\* set that it is about to receive, or has cached and is about to record.
PublishedInv ==
  /\ \A k \in KeyIds : publishedSince[k] = Nil <=> k \notin published
  /\ \A k \in published : publishedSince[k] <= now
  /\ keysMutex # Nil /\ keysFetchedAt # Nil => attemptAt >= keysFetchedAt
  /\ \A k \in published \ keys :
       /\ keysFetchedAt # Nil => publishedSince[k] >= keysFetchedAt - fetchTook
       /\ (\E c \in Callers : pc[c] = "record") => publishedSince[k] >= attemptAt
  /\ \A k \in published \ incoming :
       (\E c \in Callers : pc[c] = "receive") => publishedSince[k] >= attemptAt

KeyInv == KeyTypes /\ CallInv /\ AloneInv /\ SoundInv /\ PublishedInv

\* What a call that looks a second time does not find was not published for long.
AbsentInv ==
  \A c \in Callers : pc[c] = "lookup" /\ unknown[c] =>
    \A k \in published \ snapshot[c] :
      publishedSince[k] > snapshotAt[c] - snapshotTook[c] - Interval

-----------------------------------------------------------------------------
\* Types are kept.
LEMMA TypesStep ==
  ASSUME KeyTypes, CallInv, [Next]_vars
  PROVE  KeyTypes'
<1> USE TimeAssumption, NilAssumption DEF KeyTypes, TypeOK, CallInv, Active, MaybeTime, Stages, Fetching, endpoint, cache, fetching, result
<1>1. ASSUME NEW c \in Callers, \E k \in KeyIds : Call(c, k) PROVE KeyTypes'
  <2>1. PICK k \in KeyIds : Call(c, k)
    BY <1>1
  <2>2. keyId' \in [Callers -> KeyIds \cup {Nil}] /\ held' \in [Callers -> SUBSET KeyIds]
    BY <2>1 DEF Call
  <2>3. pc' \in [Callers -> Stages]
    BY <2>1 DEF Call, Move
  <2>4. \A d \in Callers : pc'[d] = pc[d] \/ (d = c /\ pc[d] = "idle" /\ pc'[d] = "getKeys")
    BY <2>1 DEF Call, Move
  <2>5. \A d \in Callers : d # c => keyId'[d] = keyId[d]
    BY <2>1 DEF Call
  <2>6. UNCHANGED <<regime, now, endpoint, cache, fetching, unknown, result>>
    BY <2>1 DEF Call
  <2>7. \A d \in Callers :
          /\ pc'[d] \in Fetching <=> keysMutex' = d
          /\ pc'[d] = "store" => keyId'[d] \in snapshot'[d]
    <3> SUFFICES ASSUME NEW d \in Callers
                 PROVE  /\ pc'[d] \in Fetching <=> keysMutex' = d
                        /\ pc'[d] = "store" => keyId'[d] \in snapshot'[d]
      OBVIOUS
    <3>1. CASE pc'[d] = pc[d] /\ d # c
      BY <2>5, <2>6, <3>1
    <3>2. CASE d = c
      BY <2>1, <2>6, <3>2 DEF Call, Move
    <3> QED
      BY <2>4, <3>1, <3>2
  <2> QED
    BY <2>2, <2>3, <2>6, <2>7
<1>2. ASSUME NEW c \in Callers, GetCached(c) PROVE KeyTypes'
  BY <1>2 DEF GetCached, HandOut, Move
<1>3. ASSUME NEW c \in Callers, StartFetch(c) PROVE KeyTypes'
  BY <1>3 DEF StartFetch, Move
<1>4. ASSUME NEW c \in Callers, FetchFails(c) PROVE KeyTypes'
  BY <1>4 DEF FetchFails, Return, Move, Witness
<1>5. ASSUME NEW c \in Callers, FetchUndated(c) PROVE KeyTypes'
  BY <1>5 DEF FetchUndated, Return, Move, Replace, Witness
<1>6. ASSUME NEW c \in Callers, \E maxAge \in MaxAges : FetchDated(c, maxAge) PROVE KeyTypes'
  BY <1>6 DEF FetchDated, Move, Replace, Witness
<1>7. ASSUME NEW c \in Callers, RecordFetch(c) PROVE KeyTypes'
  BY <1>7 DEF RecordFetch, HandOut, Move
<1>8. ASSUME NEW c \in Callers, LookupHit(c) PROVE KeyTypes'
  BY <1>8 DEF LookupHit, Return, Move, Witness
<1>9. ASSUME NEW c \in Callers, Build(c) PROVE KeyTypes'
  BY <1>9 DEF Build, Move
<1>10. ASSUME NEW c \in Callers, BuildFails(c) PROVE KeyTypes'
  BY <1>10 DEF BuildFails, Return, Move, Witness
<1>11. ASSUME NEW c \in Callers, Store(c) PROVE KeyTypes'
  BY <1>11 DEF Store, Return, Move, Witness
<1>12. ASSUME NEW c \in Callers, LookAgain(c) PROVE KeyTypes'
  BY <1>12 DEF LookAgain, Move
<1>13. ASSUME NEW c \in Callers, GiveUp(c) PROVE KeyTypes'
  BY <1>13 DEF GiveUp, Return, Move, Witness
<1>14. CASE Rotate
  BY <1>14 DEF Rotate
<1>15. CASE Tick
  BY <1>15 DEF Tick
<1>16. CASE UNCHANGED vars
  BY <1>16 DEF vars
<1>17. ASSUME NEW c \in Callers, Respond(c) PROVE KeyTypes'
  BY <1>17 DEF Respond, Move
<1> QED
  BY <1>1, <1>2, <1>3, <1>4, <1>5, <1>6, <1>7, <1>8, <1>9, <1>10,
     <1>11, <1>12, <1>13, <1>14, <1>15, <1>16, <1>17
     DEF Next, OwnStep, FetchStep

\* A call goes on seeing what is cached.
LEMMA CallStep ==
  ASSUME KeyTypes, CallInv, [Next]_vars
  PROVE  CallInv'
<1> USE TimeAssumption, NilAssumption DEF KeyTypes, TypeOK, CallInv, Active, MaybeTime, endpoint, cache, fetching, result
<1>1. ASSUME NEW c \in Callers, \E k \in KeyIds : Call(c, k) PROVE CallInv'
  <2>1. PICK k \in KeyIds : Call(c, k)
    BY <1>1
  <2>2. /\ pc[c] = "idle" /\ pc' = [pc EXCEPT ![c] = "getKeys"] /\ keyId' = [keyId EXCEPT ![c] = k]
        /\ held' = [held EXCEPT ![c] = keys]
        /\ UNCHANGED <<keys, snapshot, snapshotAt, now>>
    BY <2>1 DEF Call, Move
  <2>3. snapshot[c] \subseteq keys
    BY <2>2
  <2>4. \A d \in Active' : keyId'[d] \in KeyIds /\ keys' \subseteq held'[d] /\ snapshot'[d] \subseteq held'[d]
    BY <2>2, <2>3
  <2> QED
    BY <2>2, <2>4
<1>2. ASSUME NEW c \in Callers, GetCached(c) PROVE CallInv'
  BY <1>2 DEF GetCached, HandOut, Move
<1>3. ASSUME NEW c \in Callers, StartFetch(c) PROVE CallInv'
  BY <1>3 DEF StartFetch, Move
<1>4. ASSUME NEW c \in Callers, FetchFails(c) PROVE CallInv'
  BY <1>4 DEF FetchFails, Return, Move, Witness
<1>5. ASSUME NEW c \in Callers, FetchUndated(c) PROVE CallInv'
  BY <1>5 DEF FetchUndated, Return, Move, Replace, Witness
<1>6. ASSUME NEW c \in Callers, \E maxAge \in MaxAges : FetchDated(c, maxAge) PROVE CallInv'
  BY <1>6 DEF FetchDated, Move, Replace, Witness
<1>7. ASSUME NEW c \in Callers, RecordFetch(c) PROVE CallInv'
  BY <1>7 DEF RecordFetch, HandOut, Move
<1>8. ASSUME NEW c \in Callers, LookupHit(c) PROVE CallInv'
  BY <1>8 DEF LookupHit, Return, Move, Witness
<1>9. ASSUME NEW c \in Callers, Build(c) PROVE CallInv'
  BY <1>9 DEF Build, Move
<1>10. ASSUME NEW c \in Callers, BuildFails(c) PROVE CallInv'
  BY <1>10 DEF BuildFails, Return, Move, Witness
<1>11. ASSUME NEW c \in Callers, Store(c) PROVE CallInv'
  BY <1>11 DEF Store, Return, Move, Witness
<1>12. ASSUME NEW c \in Callers, LookAgain(c) PROVE CallInv'
  BY <1>12 DEF LookAgain, Move
<1>13. ASSUME NEW c \in Callers, GiveUp(c) PROVE CallInv'
  BY <1>13 DEF GiveUp, Return, Move, Witness
<1>14. CASE Rotate
  BY <1>14 DEF Rotate
<1>15. CASE Tick
  BY <1>15 DEF Tick
<1>16. CASE UNCHANGED vars
  BY <1>16 DEF vars
<1>17. ASSUME NEW c \in Callers, Respond(c) PROVE CallInv'
  BY <1>17 DEF Respond, Move
<1> QED
  BY <1>1, <1>2, <1>3, <1>4, <1>5, <1>6, <1>7, <1>8, <1>9, <1>10,
     <1>11, <1>12, <1>13, <1>14, <1>15, <1>16, <1>17
     DEF Next, OwnStep, FetchStep

\* Calls that do not overlap leave no old verifier.
LEMMA AloneStep ==
  ASSUME KeyTypes, CallInv, AloneInv, [Next]_vars
  PROVE  AloneInv'
<1> USE TimeAssumption, NilAssumption DEF KeyTypes, TypeOK, CallInv, AloneInv, Active, MaybeTime, endpoint, cache, fetching, result
<1>1. ASSUME NEW c \in Callers, \E k \in KeyIds : Call(c, k) PROVE AloneInv'
  BY <1>1 DEF Call, Move
<1>2. ASSUME NEW c \in Callers, GetCached(c) PROVE AloneInv'
  BY <1>2 DEF GetCached, HandOut, Move
<1>3. ASSUME NEW c \in Callers, StartFetch(c) PROVE AloneInv'
  BY <1>3 DEF StartFetch, Move
<1>4. ASSUME NEW c \in Callers, FetchFails(c) PROVE AloneInv'
  BY <1>4 DEF FetchFails, Return, Move, Witness
<1>5. ASSUME NEW c \in Callers, FetchUndated(c) PROVE AloneInv'
  BY <1>5 DEF FetchUndated, Return, Move, Replace, Witness
<1>6. ASSUME NEW c \in Callers, \E maxAge \in MaxAges : FetchDated(c, maxAge) PROVE AloneInv'
  BY <1>6 DEF FetchDated, Move, Replace, Witness
<1>7. ASSUME NEW c \in Callers, RecordFetch(c) PROVE AloneInv'
  BY <1>7 DEF RecordFetch, HandOut, Move
<1>8. ASSUME NEW c \in Callers, LookupHit(c) PROVE AloneInv'
  BY <1>8 DEF LookupHit, Return, Move, Witness
<1>9. ASSUME NEW c \in Callers, Build(c) PROVE AloneInv'
  BY <1>9 DEF Build, Move
<1>10. ASSUME NEW c \in Callers, BuildFails(c) PROVE AloneInv'
  BY <1>10 DEF BuildFails, Return, Move, Witness
<1>11. ASSUME NEW c \in Callers, Store(c) PROVE AloneInv'
  BY <1>11 DEF Store, Return, Move, Witness
<1>12. ASSUME NEW c \in Callers, LookAgain(c) PROVE AloneInv'
  BY <1>12 DEF LookAgain, Move
<1>13. ASSUME NEW c \in Callers, GiveUp(c) PROVE AloneInv'
  BY <1>13 DEF GiveUp, Return, Move, Witness
<1>14. CASE Rotate
  BY <1>14 DEF Rotate
<1>15. CASE Tick
  BY <1>15 DEF Tick
<1>16. CASE UNCHANGED vars
  BY <1>16 DEF vars
<1>17. ASSUME NEW c \in Callers, Respond(c) PROVE AloneInv'
  BY <1>17 DEF Respond, Move
<1> QED
  BY <1>1, <1>2, <1>3, <1>4, <1>5, <1>6, <1>7, <1>8, <1>9, <1>10,
     <1>11, <1>12, <1>13, <1>14, <1>15, <1>16, <1>17
     DEF Next, OwnStep, FetchStep

\* A fetch that succeeds is recorded.
LEMMA SoundStep ==
  ASSUME KeyTypes, CallInv, SoundInv, [Next]_vars
  PROVE  SoundInv'
<1> USE TimeAssumption, NilAssumption DEF KeyTypes, TypeOK, SoundInv, MaybeTime, endpoint, cache, fetching, result
<1>1. ASSUME NEW c \in Callers, \E k \in KeyIds : Call(c, k) PROVE SoundInv'
  BY <1>1 DEF Call, Move
<1>2. ASSUME NEW c \in Callers, GetCached(c) PROVE SoundInv'
  BY <1>2 DEF GetCached, HandOut, Move
<1>3. ASSUME NEW c \in Callers, StartFetch(c) PROVE SoundInv'
  BY <1>3 DEF StartFetch, Move
<1>4. ASSUME NEW c \in Callers, FetchFails(c) PROVE SoundInv'
  BY <1>4 DEF FetchFails, Return, Move, Witness
<1>5. ASSUME NEW c \in Callers, FetchUndated(c) PROVE SoundInv'
  BY <1>5 DEF FetchUndated, Return, Move, Replace, Witness
<1>6. ASSUME NEW c \in Callers, \E maxAge \in MaxAges : FetchDated(c, maxAge) PROVE SoundInv'
  BY <1>6 DEF FetchDated, Move, Replace, Witness
<1>7. ASSUME NEW c \in Callers, RecordFetch(c) PROVE SoundInv'
  BY <1>7 DEF RecordFetch, HandOut, Move
<1>8. ASSUME NEW c \in Callers, LookupHit(c) PROVE SoundInv'
  BY <1>8 DEF LookupHit, Return, Move, Witness
<1>9. ASSUME NEW c \in Callers, Build(c) PROVE SoundInv'
  BY <1>9 DEF Build, Move
<1>10. ASSUME NEW c \in Callers, BuildFails(c) PROVE SoundInv'
  BY <1>10 DEF BuildFails, Return, Move, Witness
<1>11. ASSUME NEW c \in Callers, Store(c) PROVE SoundInv'
  BY <1>11 DEF Store, Return, Move, Witness
<1>12. ASSUME NEW c \in Callers, LookAgain(c) PROVE SoundInv'
  BY <1>12 DEF LookAgain, Move
<1>13. ASSUME NEW c \in Callers, GiveUp(c) PROVE SoundInv'
  BY <1>13 DEF GiveUp, Return, Move, Witness
<1>14. CASE Rotate
  BY <1>14 DEF Rotate
<1>15. CASE Tick
  BY <1>15 DEF Tick
<1>16. CASE UNCHANGED vars
  BY <1>16 DEF vars
<1>17. ASSUME NEW c \in Callers, Respond(c) PROVE SoundInv'
  BY <1>17 DEF Respond, Move
<1> QED
  BY <1>1, <1>2, <1>3, <1>4, <1>5, <1>6, <1>7, <1>8, <1>9, <1>10,
     <1>11, <1>12, <1>13, <1>14, <1>15, <1>16, <1>17
     DEF Next, OwnStep, FetchStep

\* Fetches keep up with what is published.
LEMMA PublishedStep ==
  ASSUME KeyTypes, CallInv, PublishedInv, [Next]_vars
  PROVE  PublishedInv'
<1> USE TimeAssumption, NilAssumption DEF KeyTypes, TypeOK, PublishedInv, Fetching, MaybeTime, endpoint, cache, fetching, result
<1>1. ASSUME NEW c \in Callers, \E k \in KeyIds : Call(c, k) PROVE PublishedInv'
  BY <1>1 DEF Call, Move
<1>2. ASSUME NEW c \in Callers, GetCached(c) PROVE PublishedInv'
  BY <1>2 DEF GetCached, HandOut, Move
<1>3. ASSUME NEW c \in Callers, StartFetch(c) PROVE PublishedInv'
  BY <1>3 DEF StartFetch, Move
<1>4. ASSUME NEW c \in Callers, FetchFails(c) PROVE PublishedInv'
  BY <1>4 DEF FetchFails, Return, Move, Witness
<1>5. ASSUME NEW c \in Callers, FetchUndated(c) PROVE PublishedInv'
  BY <1>5 DEF FetchUndated, Return, Move, Replace, Witness
<1>6. ASSUME NEW c \in Callers, \E maxAge \in MaxAges : FetchDated(c, maxAge) PROVE PublishedInv'
  BY <1>6 DEF FetchDated, Move, Replace, Witness
<1>7. ASSUME NEW c \in Callers, RecordFetch(c) PROVE PublishedInv'
  BY <1>7 DEF RecordFetch, HandOut, Move
<1>8. ASSUME NEW c \in Callers, LookupHit(c) PROVE PublishedInv'
  BY <1>8 DEF LookupHit, Return, Move, Witness
<1>9. ASSUME NEW c \in Callers, Build(c) PROVE PublishedInv'
  BY <1>9 DEF Build, Move
<1>10. ASSUME NEW c \in Callers, BuildFails(c) PROVE PublishedInv'
  BY <1>10 DEF BuildFails, Return, Move, Witness
<1>11. ASSUME NEW c \in Callers, Store(c) PROVE PublishedInv'
  BY <1>11 DEF Store, Return, Move, Witness
<1>12. ASSUME NEW c \in Callers, LookAgain(c) PROVE PublishedInv'
  BY <1>12 DEF LookAgain, Move
<1>13. ASSUME NEW c \in Callers, GiveUp(c) PROVE PublishedInv'
  BY <1>13 DEF GiveUp, Return, Move, Witness
<1>14. CASE Rotate
  BY <1>14 DEF Rotate
<1>15. CASE Tick
  BY <1>15 DEF Tick
<1>16. CASE UNCHANGED vars
  BY <1>16 DEF vars
<1>17. ASSUME NEW c \in Callers, Respond(c) PROVE PublishedInv'
  BY <1>17 DEF Respond, Move
<1> QED
  BY <1>1, <1>2, <1>3, <1>4, <1>5, <1>6, <1>7, <1>8, <1>9, <1>10,
     <1>11, <1>12, <1>13, <1>14, <1>15, <1>16, <1>17
     DEF Next, OwnStep, FetchStep

\* What a second look does not find stays young.
LEMMA AbsentStep ==
  ASSUME Interval > 0, KeyInv, AbsentInv, [Next]_vars
  PROVE  AbsentInv'
<1> USE TimeAssumption, NilAssumption DEF KeyInv, KeyTypes, TypeOK, CallInv, PublishedInv, AbsentInv, Active, MaybeTime, endpoint, cache, fetching, result
<1>1. ASSUME NEW c \in Callers, \E k \in KeyIds : Call(c, k) PROVE AbsentInv'
  BY <1>1 DEF Call, Move
<1>2. ASSUME NEW c \in Callers, GetCached(c) PROVE AbsentInv'
  <2>1. unknown[c] => keysFetchedAt # Nil /\ now - keysFetchedAt < Interval
    BY <1>2 DEF GetCached, MustFetch, RefetchAllowed
  <2>2. /\ snapshot' = [snapshot EXCEPT ![c] = keys] /\ snapshotAt' = [snapshotAt EXCEPT ![c] = now]
        /\ snapshotTook' = [snapshotTook EXCEPT ![c] = fetchTook]
        /\ pc' = [pc EXCEPT ![c] = "lookup"] /\ UNCHANGED <<unknown, published, publishedSince, now>>
    BY <1>2 DEF GetCached, HandOut, Move
  <2>3. \A k \in published \ keys : unknown[c] => publishedSince[k] > now - fetchTook - Interval
    BY <2>1
  <2> QED
    BY <2>2, <2>3
<1>3. ASSUME NEW c \in Callers, StartFetch(c) PROVE AbsentInv'
  BY <1>3 DEF StartFetch, Move
<1>4. ASSUME NEW c \in Callers, FetchFails(c) PROVE AbsentInv'
  BY <1>4 DEF FetchFails, Return, Move, Witness
<1>5. ASSUME NEW c \in Callers, FetchUndated(c) PROVE AbsentInv'
  BY <1>5 DEF FetchUndated, Return, Move, Replace, Witness
<1>6. ASSUME NEW c \in Callers, \E maxAge \in MaxAges : FetchDated(c, maxAge) PROVE AbsentInv'
  BY <1>6 DEF FetchDated, Move, Replace, Witness
<1>7. ASSUME NEW c \in Callers, RecordFetch(c) PROVE AbsentInv'
  BY <1>7 DEF RecordFetch, HandOut, Move
<1>8. ASSUME NEW c \in Callers, LookupHit(c) PROVE AbsentInv'
  BY <1>8 DEF LookupHit, Return, Move, Witness
<1>9. ASSUME NEW c \in Callers, Build(c) PROVE AbsentInv'
  BY <1>9 DEF Build, Move
<1>10. ASSUME NEW c \in Callers, BuildFails(c) PROVE AbsentInv'
  BY <1>10 DEF BuildFails, Return, Move, Witness
<1>11. ASSUME NEW c \in Callers, Store(c) PROVE AbsentInv'
  BY <1>11 DEF Store, Return, Move, Witness
<1>12. ASSUME NEW c \in Callers, LookAgain(c) PROVE AbsentInv'
  BY <1>12 DEF LookAgain, Move
<1>13. ASSUME NEW c \in Callers, GiveUp(c) PROVE AbsentInv'
  BY <1>13 DEF GiveUp, Return, Move, Witness
<1>14. CASE Rotate
  BY <1>14 DEF Rotate
<1>15. CASE Tick
  BY <1>15 DEF Tick
<1>16. CASE UNCHANGED vars
  BY <1>16 DEF vars
<1>17. ASSUME NEW c \in Callers, Respond(c) PROVE AbsentInv'
  BY <1>17 DEF Respond, Move
<1> QED
  BY <1>1, <1>2, <1>3, <1>4, <1>5, <1>6, <1>7, <1>8, <1>9, <1>10,
     <1>11, <1>12, <1>13, <1>14, <1>15, <1>16, <1>17
     DEF Next, OwnStep, FetchStep

-----------------------------------------------------------------------------
\* The invariant.
LEMMA KeyInvariant == Spec => []KeyInv
<1> USE TimeAssumption, NilAssumption, RegimeAssumption
<1>1. Init => KeyInv
  <2> SUFFICES ASSUME Init PROVE KeyInv
    OBVIOUS
  <2>1. KeyTypes
    BY DEF Init, KeyTypes, TypeOK, Stages, Fetching, MaybeTime
  <2>2. CallInv /\ AloneInv /\ SoundInv
    BY DEF Init, CallInv, AloneInv, SoundInv, Active
  <2>3. PublishedInv
    BY DEF Init, PublishedInv
  <2> QED
    BY <2>1, <2>2, <2>3 DEF KeyInv
<1>2. KeyInv /\ [Next]_vars => KeyInv'
  BY TypesStep, CallStep, AloneStep, SoundStep, PublishedStep DEF KeyInv
<1> QED
  BY <1>1, <1>2, PTL DEF Spec

\* The mutex is held by the caller that fetches, by nobody else and by nobody when
\* no caller fetches, on every path out of a fetch.
THEOREM TypeCorrect == Spec => []TypeOK
<1>1. KeyInv => TypeOK
  BY DEF KeyInv, KeyTypes
<1> QED
  BY <1>1, KeyInvariant, PTL

\* Callers of an endpoint that answers do not fetch an unexpired set twice within the
\* configured interval, however many they are.
THEOREM SoundRefetchSpacedCorrect == Spec => SoundRefetchSpaced
<1>1. ASSUME KeyInv, regime = "sound", NEW c \in Callers PROVE Spaced(c)
  <2> SUFFICES ASSUME StartFetch(c), ~Expired, attemptAt # Nil
               PROVE  now - attemptAt >= Interval
    BY DEF Spaced
  <2>1. keysMutex = Nil /\ RefetchAllowed
    BY DEF StartFetch, MustFetch
  <2>2. keysFetchedAt # Nil /\ keysFetchedAt >= attemptAt
    BY <1>1, <2>1 DEF KeyInv, SoundInv
  <2>3. now - keysFetchedAt >= Interval
    BY <2>1, <2>2 DEF RefetchAllowed
  <2> QED
    BY <1>1, <2>2, <2>3, TimeAssumption DEF KeyInv, KeyTypes, TypeOK, MaybeTime
<1>2. KeyInv => [regime = "sound" => \A c \in Callers : Spaced(c)]_vars
  BY <1>1
<1> QED
  BY <1>2, KeyInvariant, PTL DEF SoundRefetchSpaced

\* A call that no other call overlaps is handed a verifier only for a key id that a
\* set cached during the call names, whichever fetches fail.
THEOREM LoneVerifierFromTheSetCorrect == Spec => LoneVerifierFromTheSet
<1>1. ASSUME KeyInv, regime = "alone", NEW c \in Callers PROVE FoundInTheSet(c)
  <2>1. ASSUME LookupHit(c) PROVE keyId[c] \in held[c]
    <3>1. pc[c] = "lookup" /\ keyId[c] \in verifiers
      BY <2>1 DEF LookupHit, Return, Move
    <3>2. c \in Active /\ \A d \in Callers : pc[d] # "record"
      BY <1>1, <3>1 DEF KeyInv, AloneInv, Active
    <3> QED
      BY <1>1, <3>1, <3>2 DEF KeyInv, AloneInv, CallInv
  <2>2. ASSUME Store(c) PROVE keyId[c] \in held[c]
    BY <1>1, <2>2 DEF Store, Return, Move, KeyInv, CallInv, Active
  <2> QED
    BY <2>1, <2>2 DEF FoundInTheSet
<1>2. KeyInv => [regime = "alone" => \A c \in Callers : FoundInTheSet(c)]_vars
  BY <1>1
<1> QED
  BY <1>2, KeyInvariant, PTL DEF LoneVerifierFromTheSet

\* A key id is reported absent only when it was not published for the whole refetch
\* interval and the time the last recorded fetch took, however long that was.  Within
\* one second a set may be fetched and then change, so that an interval of no second
\* at all promises nothing.
THEOREM AbsentIsRecentCorrect ==
  ASSUME Interval > 0 PROVE Spec => AbsentIsRecent
<1>1. Init => AbsentInv
  BY DEF Init, AbsentInv
<1>2. KeyInv /\ AbsentInv /\ [Next]_vars => AbsentInv'
  BY AbsentStep
<1>3. ASSUME KeyInv, AbsentInv, NEW c \in Callers, GiveUp(c)
      PROVE  \/ publishedSince[keyId[c]] = Nil
             \/ publishedSince[keyId[c]] > snapshotAt[c] - snapshotTook[c] - Interval
  <2>1. pc[c] = "lookup" /\ unknown[c] /\ keyId[c] \notin snapshot[c] /\ keyId[c] \in KeyIds
    BY <1>3 DEF GiveUp, Return, Move, Missing, KeyInv, CallInv, Active
  <2> QED
    BY <1>3, <2>1 DEF AbsentInv, KeyInv, PublishedInv
<1>4. KeyInv /\ AbsentInv =>
        [\A c \in Callers :
           GiveUp(c) => \/ publishedSince[keyId[c]] = Nil
                        \/ publishedSince[keyId[c]] > snapshotAt[c] - snapshotTook[c] - Interval]_vars
  BY <1>3
<1> QED
  BY <1>1, <1>2, <1>4, KeyInvariant, PTL DEF Spec, AbsentIsRecent

\* What callers are told agrees with the sets they saw.
THEOREM AnsweredFromTheSetCorrect ==
  ASSUME Interval > 0 PROVE Spec => AnsweredFromTheSet
BY LoneVerifierFromTheSetCorrect, AbsentIsRecentCorrect DEF AnsweredFromTheSet

=============================================================================
