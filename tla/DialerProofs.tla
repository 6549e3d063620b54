---------------------------- MODULE DialerProofs ----------------------------
(***************************************************************************)
(* For any number of dialers, dials and lives of tokens and certificates:  *)
(* what Dialer's runs check of the entry's information, its mutex and the  *)
(* connections.                                                            *)
(***************************************************************************)
EXTENDS Dialer, FiniteSetTheorems, TLAPS

\* The goroutines are finitely many, and none of them is nobody.
Setting == IsFiniteSet(Dialers) /\ Nil \notin Dialers

Info == [id : Nat, expiry : Nat]
Requesting == {"settings", "token", "certificate"}

Typed ==
  /\ now \in 0 .. MaxTime /\ dials \in 0 .. MaxDials
  /\ fetches \in Nat /\ causes \in Nat /\ distrusted \in Nat
  /\ sockets \in Int /\ handed \in Nat
  /\ info \in Info /\ info.id <= fetches
  /\ using \in [Dialers -> Info] /\ draft \in [Dialers -> Info]
  /\ pc \in [Dialers -> Stages] /\ cancelled \in [Dialers -> BOOLEAN]
  /\ start \in [Dialers -> [at : Nat, distrusted : Nat]]
  /\ mutex \in Dialers \union {Nil}

\* The mutex is its holder's, and a fetch in progress is the last one begun, after
\* all that is distrusted.
Held ==
  /\ \A d \in Dialers : mutex = d <=> pc[d] \in Fetching
  /\ \A d \in Dialers : pc[d] \in Requesting => draft[d].id = fetches /\ distrusted < fetches

\* The entry never holds what is distrusted, and no dial uses what was distrusted
\* when it began.
Trusted ==
  /\ distrusted <= fetches
  /\ info # None => distrusted < info.id
  /\ \A d \in Dialers : start[d].distrusted <= distrusted
  /\ FreshAfterFailure

\* A dial that did not fetch took information that was fresh at some time since it
\* began.
Valid ==
  /\ \A d \in Dialers : start[d].at <= now
  /\ \A d \in Dialers : pc[d] \in {"connect", "handshake"} =>
       draft[d] # None \/ start[d].at + Buffer < using[d].expiry

IInv == Typed /\ Held /\ Trusted /\ Valid

----------------------------------------------------------------------------
\* The invariant holds at the start.
LEMMA InitInv == ASSUME Setting PROVE Init => IInv
<1> SUFFICES ASSUME Init PROVE IInv
  OBVIOUS
<1>1. None \in Info /\ Unbegun \in [at : Nat, distrusted : Nat]
  BY DEF None, Unbegun, Info
<1> QED
  BY <1>1, LifeAssumption DEF Setting, Init, IInv, Typed, Held, Trusted, Valid, FreshAfterFailure,
     Stages, Fetching, Requesting, None, Unbegun

\* The constants, and the records that mean nothing.
LEMMA Constants ==
  /\ Buffer \in Nat /\ CertLife \in Nat /\ TokenLives \subseteq Nat
  /\ MaxDials \in Nat /\ MaxTime \in Nat
  /\ None \in Info /\ None.id = 0 /\ None.expiry = 0
  /\ Unbegun \in [at : Nat, distrusted : Nat] /\ Unbegun.at = 0 /\ Unbegun.distrusted = 0
BY LifeAssumption DEF None, Unbegun, Info

\* A dial's step keeps the types.
LEMMA TypedStep ==
  ASSUME Setting, IInv, NEW d \in Dialers, Dial(d) \/ DialStep(d) \/ Cancel(d)
  PROVE  Typed'
<1> USE Constants DEF Setting, IInv, Typed, Held, Stages, Requesting, Fetching, ghosts, dialing, Goto
<1>1. CASE Dial(d)
  BY <1>1 DEF Dial
<1>2. CASE Lock(d)
  BY <1>2 DEF Lock
<1>3. CASE UseCached(d)
  BY <1>3 DEF UseCached, Proceed, Fresh
<1>4. CASE BeginFetch(d)
  <2>1. [None EXCEPT !.id = fetches + 1] \in Info
    BY DEF Info
  <2> QED
    BY <1>4, <2>1 DEF BeginFetch, Learn, Info
<1>5. CASE GetConnectSettings(d)
  BY <1>5 DEF GetConnectSettings
<1>6. CASE Token(d)
  <2>1. PICK life \in TokenLives :
          draft' = [draft EXCEPT ![d] = [draft[d] EXCEPT !.expiry = IF life = 0 THEN 0 ELSE now + life]]
    BY <1>6 DEF Token, Learn
  <2>2. [draft[d] EXCEPT !.expiry = IF life = 0 THEN 0 ELSE now + life] \in Info
    BY DEF Info
  <2> QED
    BY <1>6, <2>1, <2>2 DEF Token, Learn
<1>7. CASE GenerateEphemeralCert(d)
  <2>1. info' \in Info /\ info'.id = draft[d].id
    BY <1>7 DEF GenerateEphemeralCert, Earlier, Info
  <2>2. using' = [using EXCEPT ![d] = info'] /\ UNCHANGED fetches
    BY <1>7 DEF GenerateEphemeralCert, Proceed
  <2>3. draft[d].id = fetches
    BY <1>7 DEF GenerateEphemeralCert
  <2> QED
    BY <1>7, <2>1, <2>2, <2>3 DEF GenerateEphemeralCert, Proceed
<1>8. CASE FetchFails(d)
  BY <1>8 DEF FetchFails, Return
<1>9. CASE Connect(d)
  BY <1>9 DEF Connect
<1>10. CASE ConnectFails(d)
  BY <1>10 DEF ConnectFails, Return
<1>11. CASE Handshake(d)
  BY <1>11 DEF Handshake, Return
<1>12. CASE HandshakeFails(d)
  BY <1>12 DEF HandshakeFails
<1>13. CASE GiveUp(d)
  BY <1>13 DEF GiveUp, Return
<1>14. CASE Distrust(d)
  BY <1>14 DEF Distrust
<1>15. CASE Invalidate(d)
  BY <1>15 DEF Invalidate, Return
<1>16. CASE Cancel(d)
  BY <1>16 DEF Cancel
<1> QED
  BY <1>1, <1>2, <1>3, <1>4, <1>5, <1>6, <1>7, <1>8,
     <1>9, <1>10, <1>11, <1>12, <1>13, <1>14, <1>15, <1>16 DEF DialStep, OwnStep, FetchStep, ConnectionStep

\* It keeps the mutex with its holder.
LEMMA HeldStep ==
  ASSUME Setting, IInv, NEW d \in Dialers, Dial(d) \/ DialStep(d) \/ Cancel(d)
  PROVE  Held'
<1> USE Constants DEF Setting, IInv, Typed, Held, Trusted, Stages, Requesting, Fetching, ghosts, dialing, Goto
<1>1. CASE Dial(d)
  BY <1>1 DEF Dial
<1>2. CASE Lock(d)
  BY <1>2 DEF Lock
<1>3. CASE UseCached(d)
  BY <1>3 DEF UseCached, Proceed, Fresh
<1>4. CASE BeginFetch(d)
  BY <1>4 DEF BeginFetch, Learn
<1>5. CASE GetConnectSettings(d)
  BY <1>5 DEF GetConnectSettings
<1>6. CASE Token(d)
  BY <1>6 DEF Token, Learn
<1>7. CASE GenerateEphemeralCert(d)
  BY <1>7 DEF GenerateEphemeralCert, Proceed, Earlier
<1>8. CASE FetchFails(d)
  BY <1>8 DEF FetchFails, Return
<1>9. CASE Connect(d)
  BY <1>9 DEF Connect
<1>10. CASE ConnectFails(d)
  BY <1>10 DEF ConnectFails, Return
<1>11. CASE Handshake(d)
  BY <1>11 DEF Handshake, Return
<1>12. CASE HandshakeFails(d)
  BY <1>12 DEF HandshakeFails
<1>13. CASE GiveUp(d)
  BY <1>13 DEF GiveUp, Return
<1>14. CASE Distrust(d)
  BY <1>14 DEF Distrust
<1>15. CASE Invalidate(d)
  BY <1>15 DEF Invalidate, Return
<1>16. CASE Cancel(d)
  BY <1>16 DEF Cancel
<1> QED
  BY <1>1, <1>2, <1>3, <1>4, <1>5, <1>6, <1>7, <1>8,
     <1>9, <1>10, <1>11, <1>12, <1>13, <1>14, <1>15, <1>16 DEF DialStep, OwnStep, FetchStep, ConnectionStep

\* It puts nothing distrusted into the entry, nor uses it.
LEMMA TrustedStep ==
  ASSUME Setting, IInv, NEW d \in Dialers, Dial(d) \/ DialStep(d) \/ Cancel(d)
  PROVE  Trusted'
<1> USE Constants DEF Setting, IInv, Typed, Held, Trusted, Stages, Requesting, Fetching, FreshAfterFailure, ghosts, dialing, Goto
<1>1. CASE Dial(d)
  BY <1>1 DEF Dial
<1>2. CASE Lock(d)
  BY <1>2 DEF Lock
<1>3. CASE UseCached(d)
  <2>1. /\ distrusted < info.id /\ start[d].distrusted <= distrusted
        /\ using' = [using EXCEPT ![d] = info] /\ pc' = [pc EXCEPT ![d] = "connect"]
        /\ UNCHANGED <<info, start, distrusted, fetches>>
    BY <1>3 DEF UseCached, Proceed, Fresh
  <2>2. \A e \in Dialers \ {d} : using'[e] = using[e] /\ pc'[e] = pc[e]
    BY <2>1
  <2>3. using'[d] = info
    BY <2>1
  <2>4. start[d].distrusted < info.id
    <3>1. start[d].distrusted \in Nat /\ info.id \in Nat
      BY DEF Info
    <3> QED
      BY <2>1, <3>1
  <2>5. FreshAfterFailure'
    BY <2>1, <2>2, <2>3, <2>4
  <2> QED
    BY <2>1, <2>5
<1>4. CASE BeginFetch(d)
  BY <1>4 DEF BeginFetch, Learn
<1>5. CASE GetConnectSettings(d)
  BY <1>5 DEF GetConnectSettings
<1>6. CASE Token(d)
  BY <1>6 DEF Token, Learn
<1>7. CASE GenerateEphemeralCert(d)
  BY <1>7 DEF GenerateEphemeralCert, Proceed, Earlier
<1>8. CASE FetchFails(d)
  BY <1>8 DEF FetchFails, Return
<1>9. CASE Connect(d)
  BY <1>9 DEF Connect
<1>10. CASE ConnectFails(d)
  BY <1>10 DEF ConnectFails, Return
<1>11. CASE Handshake(d)
  BY <1>11 DEF Handshake, Return
<1>12. CASE HandshakeFails(d)
  BY <1>12 DEF HandshakeFails
<1>13. CASE GiveUp(d)
  BY <1>13 DEF GiveUp, Return
<1>14. CASE Distrust(d)
  BY <1>14 DEF Distrust
<1>15. CASE Invalidate(d)
  BY <1>15 DEF Invalidate, Return
<1>16. CASE Cancel(d)
  BY <1>16 DEF Cancel
<1> QED
  BY <1>1, <1>2, <1>3, <1>4, <1>5, <1>6, <1>7, <1>8,
     <1>9, <1>10, <1>11, <1>12, <1>13, <1>14, <1>15, <1>16 DEF DialStep, OwnStep, FetchStep, ConnectionStep

\* It uses what was fresh, or fetched.
LEMMA ValidStep ==
  ASSUME Setting, IInv, NEW d \in Dialers, Dial(d) \/ DialStep(d) \/ Cancel(d)
  PROVE  Valid'
<1> USE Constants DEF Setting, IInv, Typed, Held, Trusted, Valid, Stages, Requesting, Fetching, ghosts, dialing, Goto
<1>1. CASE Dial(d)
  BY <1>1 DEF Dial
<1>2. CASE Lock(d)
  BY <1>2 DEF Lock
<1>3. CASE UseCached(d)
  <2>1. /\ now + Buffer < info.expiry /\ start[d].at <= now
        /\ using' = [using EXCEPT ![d] = info] /\ pc' = [pc EXCEPT ![d] = "connect"]
        /\ UNCHANGED <<now, start, draft>>
    BY <1>3 DEF UseCached, Proceed, Fresh
  <2>2. \A e \in Dialers \ {d} : using'[e] = using[e] /\ pc'[e] = pc[e]
    BY <2>1
  <2>3. using'[d] = info /\ info \in Info
    BY <2>1
  <2>4. start[d].at + Buffer < info.expiry
    <3>1. start[d].at \in Nat /\ info.expiry \in Nat
      BY DEF Info
    <3> QED
      BY <2>1, <3>1
  <2> QED
    BY <2>1, <2>2, <2>3, <2>4
<1>4. CASE BeginFetch(d)
  BY <1>4 DEF BeginFetch, Learn
<1>5. CASE GetConnectSettings(d)
  BY <1>5 DEF GetConnectSettings
<1>6. CASE Token(d)
  BY <1>6 DEF Token, Learn
<1>7. CASE GenerateEphemeralCert(d)
  BY <1>7 DEF GenerateEphemeralCert, Proceed, Earlier
<1>8. CASE FetchFails(d)
  BY <1>8 DEF FetchFails, Return
<1>9. CASE Connect(d)
  BY <1>9 DEF Connect
<1>10. CASE ConnectFails(d)
  BY <1>10 DEF ConnectFails, Return
<1>11. CASE Handshake(d)
  BY <1>11 DEF Handshake, Return
<1>12. CASE HandshakeFails(d)
  BY <1>12 DEF HandshakeFails
<1>13. CASE GiveUp(d)
  BY <1>13 DEF GiveUp, Return
<1>14. CASE Distrust(d)
  BY <1>14 DEF Distrust
<1>15. CASE Invalidate(d)
  BY <1>15 DEF Invalidate, Return
<1>16. CASE Cancel(d)
  BY <1>16 DEF Cancel
<1> QED
  BY <1>1, <1>2, <1>3, <1>4, <1>5, <1>6, <1>7, <1>8,
     <1>9, <1>10, <1>11, <1>12, <1>13, <1>14, <1>15, <1>16 DEF DialStep, OwnStep, FetchStep, ConnectionStep

\* The clock keeps it.
LEMMA TickInv == ASSUME Setting, IInv, Tick PROVE IInv'
BY Constants DEF Tick, IInv, Typed, Held, Trusted, Valid, FreshAfterFailure, dialing, ghosts

\* The invariant, for any number of dialers.
THEOREM Invariant == ASSUME Setting PROVE Spec => []IInv
<1>1. Init => IInv
  BY InitInv
<1>2. IInv /\ [Next]_vars => IInv'
  <2> SUFFICES ASSUME IInv, [Next]_vars PROVE IInv'
    OBVIOUS
  <2>1. CASE \E d \in Dialers : Dial(d) \/ DialStep(d) \/ Cancel(d)
    BY <2>1, TypedStep, HeldStep, TrustedStep, ValidStep DEF IInv
  <2>2. CASE Tick
    BY <2>2, TickInv
  <2>3. CASE UNCHANGED vars
    BY <2>3 DEF IInv, Typed, Held, Trusted, Valid, FreshAfterFailure, vars, dialing, ghosts
  <2> QED
    BY <2>1, <2>2, <2>3 DEF Next
<1> QED
  BY <1>1, <1>2, PTL DEF Spec

\* No dial begun after a failed handshake was reported uses what was distrusted then,
\* be it the entry's or somebody's fetch in progress.
THEOREM FreshAfterFailureCorrect == ASSUME Setting PROVE Spec => []FreshAfterFailure
<1>1. IInv => FreshAfterFailure
  BY DEF IInv, Trusted
<1> QED
  BY <1>1, Invariant, PTL

\* A dial that took the entry's information and no longer than the refresh buffer
\* shakes hands before it runs out.
THEOREM ValidInHandshakeCorrect == ASSUME Setting PROVE Spec => []ValidInHandshake
<1>1. IInv => ValidInHandshake
  <2> SUFFICES ASSUME IInv, NEW d \in Dialers, pc[d] = "handshake", draft[d] = None,
                      now <= start[d].at + Buffer
               PROVE  now < using[d].expiry
    BY DEF ValidInHandshake
  <2>1. start[d].at + Buffer < using[d].expiry
    BY DEF IInv, Valid
  <2>2. now \in Int /\ start[d].at \in Int /\ Buffer \in Int /\ using[d].expiry \in Int
    BY Constants DEF IInv, Typed, Info
  <2> QED
    BY <2>1, <2>2
<1> QED
  BY <1>1, Invariant, PTL

----------------------------------------------------------------------------
\* How many dials are at some of the stages.
At(S) == {d \in Dialers : pc[d] \in S}
Count(S) == Cardinality(At(S))

\* Those that have not come to fetch yet, shake hands, are to drop the information.
Unfetched == Count({"lock", "check"})
Shaking == Count({"handshake"})
Dropping == Count({"drop"})

\* The information there is, or the fetch in progress, is the one fetch that may have
\* had no cause yet.
Uncaused == IF info # None \/ (\E d \in Dialers : pc[d] \in Requesting) THEN 1 ELSE 0

CountInv ==
  /\ fetches + Unfetched <= dials
  /\ sockets = handed + Shaking
  /\ fetches + Dropping <= causes + Uncaused

\* A dial that goes from a stage to another is counted there and no longer here.
LEMMA CountMove ==
  ASSUME Setting, Typed, NEW d \in Dialers, NEW to, pc' = [pc EXCEPT ![d] = to], NEW S
  PROVE  /\ Count(S) \in Nat /\ Count(S)' \in Nat
         /\ Count(S)' = Count(S) + (IF to \in S THEN 1 ELSE 0) - (IF pc[d] \in S THEN 1 ELSE 0)
<1>1. IsFiniteSet(At(S)) /\ Count(S) \in Nat
  <2>1. At(S) \subseteq Dialers
    BY DEF At
  <2> QED
    BY <2>1, FS_Subset, FS_CardinalityType DEF Setting, Count
<1>2. At(S)' = IF to \in S THEN At(S) \union {d} ELSE At(S) \ {d}
  BY DEF At, Typed
<1>3. d \in At(S) <=> pc[d] \in S
  BY DEF At
<1>4. CASE to \in S
  <2>1. Cardinality(At(S) \union {d}) = IF d \in At(S) THEN Count(S) ELSE Count(S) + 1
    BY <1>1, FS_AddElement DEF Count
  <2>2. Count(S)' = Cardinality(At(S) \union {d})
    BY <1>2, <1>4 DEF Count
  <2> QED
    BY <1>1, <1>3, <1>4, <2>1, <2>2
<1>5. CASE to \notin S
  <2>1. Cardinality(At(S) \ {d}) = IF d \in At(S) THEN Count(S) - 1 ELSE Count(S)
    BY <1>1, FS_RemoveElement DEF Count
  <2>2. Count(S)' = Cardinality(At(S) \ {d})
    BY <1>2, <1>5 DEF Count
  <2>3. d \in At(S) => Count(S) > 0
    BY <1>1, FS_EmptySet DEF Count
  <2> QED
    BY <1>1, <1>3, <1>5, <2>1, <2>2, <2>3
<1> QED
  BY <1>4, <1>5

\* The three counts, after a dial has left a stage for another.
Moves(d) == pc' = [pc EXCEPT ![d] = pc'[d]]
Counted(d) ==
  /\ Unfetched \in Nat /\ Shaking \in Nat /\ Dropping \in Nat
  /\ Unfetched' = Unfetched + (IF pc'[d] \in {"lock", "check"} THEN 1 ELSE 0)
                            - (IF pc[d] \in {"lock", "check"} THEN 1 ELSE 0)
  /\ Shaking' = Shaking + (IF pc'[d] = "handshake" THEN 1 ELSE 0)
                        - (IF pc[d] = "handshake" THEN 1 ELSE 0)
  /\ Dropping' = Dropping + (IF pc'[d] = "drop" THEN 1 ELSE 0)
                          - (IF pc[d] = "drop" THEN 1 ELSE 0)

\* Every move is counted.
LEMMA CountsMove == ASSUME Setting, Typed, NEW d \in Dialers, Moves(d) PROVE Counted(d)
<1>1. \A S : /\ Count(S) \in Nat
            /\ Count(S)' = Count(S) + (IF pc'[d] \in S THEN 1 ELSE 0) - (IF pc[d] \in S THEN 1 ELSE 0)
  BY CountMove DEF Moves
<1> QED
  BY <1>1 DEF Counted, Unfetched, Shaking, Dropping

\* A move into no fetch and out of none leaves the uncaused fetch what it is.
LEMMA UncausedMove ==
  ASSUME Typed, NEW d \in Dialers, NEW to, pc' = [pc EXCEPT ![d] = to], UNCHANGED info,
         pc[d] \in Requesting <=> to \in Requesting
  PROVE  Uncaused' = Uncaused
<1>1. \A e \in Dialers : pc'[e] \in Requesting <=> pc[e] \in Requesting
  BY DEF Typed
<1> QED
  BY <1>1 DEF Uncaused

\* At the start nothing is counted.
LEMMA CountInit == ASSUME Setting PROVE Init => CountInv
<1> SUFFICES ASSUME Init PROVE CountInv
  OBVIOUS
<1>1. At({"lock", "check"}) = {} /\ At({"handshake"}) = {} /\ At({"drop"}) = {}
  BY DEF Init, At
<1>2. Unfetched = 0 /\ Shaking = 0 /\ Dropping = 0
  BY <1>1, FS_EmptySet DEF Unfetched, Shaking, Dropping, Count
<1> QED
  BY <1>2 DEF Init, CountInv, Uncaused

\* One more cause pays for the fetch that had none.
LEMMA OneMore ==
  ASSUME NEW f \in Int, NEW n \in Int, NEW c \in Int, NEW u \in {0, 1}, NEW v \in {0, 1},
         f + n <= c + u
  PROVE  f + n <= c + 1 + v
OBVIOUS

\* A dial's step keeps the counts.
LEMMA CountStep ==
  ASSUME Setting, IInv, CountInv, NEW d \in Dialers, Dial(d) \/ DialStep(d) \/ Cancel(d)
  PROVE  CountInv'
<1> USE DEF CountInv
<1>0. /\ fetches \in Nat /\ causes \in Nat /\ dials \in Nat /\ sockets \in Int /\ handed \in Nat
      /\ Uncaused \in {0, 1} /\ Uncaused' \in {0, 1} /\ Typed
  BY DEF IInv, Typed, Uncaused
<1>1. CASE Dial(d)
  <2>1. /\ pc[d] = "idle" /\ pc' = [pc EXCEPT ![d] = "lock"]
        /\ dials' = dials + 1 /\ UNCHANGED <<info, fetches, causes, sockets, handed>>
    BY <1>1 DEF Dial, ghosts
  <2>2. Uncaused' = Uncaused
    BY <1>0, <2>1, UncausedMove DEF Requesting
  <2>3. pc'[d] = "lock" /\ Moves(d)
    BY <1>0, <2>1 DEF Typed, Moves
  <2>4. Counted(d)
    BY <1>0, <2>3, CountsMove
  <2> QED
    BY <1>0, <2>1, <2>2, <2>3, <2>4 DEF Counted
<1>2. CASE Lock(d)
  <2>1. /\ pc[d] = "lock" /\ pc' = [pc EXCEPT ![d] = "check"]
        /\ UNCHANGED <<info, fetches, causes, dials, sockets, handed>>
    BY <1>2 DEF Lock, Goto, ghosts
  <2>2. Uncaused' = Uncaused
    BY <1>0, <2>1, UncausedMove DEF Requesting
  <2>3. pc'[d] = "check" /\ Moves(d)
    BY <1>0, <2>1 DEF Typed, Moves
  <2>4. Counted(d)
    BY <1>0, <2>3, CountsMove
  <2> QED
    BY <1>0, <2>1, <2>2, <2>3, <2>4 DEF Counted
<1>3. CASE UseCached(d)
  <2>1. /\ pc[d] = "check" /\ pc' = [pc EXCEPT ![d] = "connect"]
        /\ UNCHANGED <<info, fetches, causes, dials, sockets, handed>>
    BY <1>3 DEF UseCached, Proceed, ghosts
  <2>2. Uncaused' = Uncaused
    BY <1>0, <2>1, UncausedMove DEF Requesting
  <2>3. pc'[d] = "connect" /\ Moves(d)
    BY <1>0, <2>1 DEF Typed, Moves
  <2>4. Counted(d)
    BY <1>0, <2>3, CountsMove
  <2> QED
    BY <1>0, <2>1, <2>2, <2>3, <2>4 DEF Counted
<1>4. CASE BeginFetch(d)
  <2>1. /\ pc[d] = "check" /\ pc' = [pc EXCEPT ![d] = "settings"]
        /\ fetches' = fetches + 1 /\ causes' = (IF info = None THEN causes ELSE causes + 1)
        /\ UNCHANGED <<info, dials, sockets, handed>>
    BY <1>4 DEF BeginFetch, Learn
  <2>2. Uncaused' = 1 /\ (info = None => Uncaused = 0)
    <3>1. pc'[d] \in Requesting
      BY <1>0, <2>1 DEF Typed, Requesting
    <3>2. \A e \in Dialers : pc[e] \notin Requesting
      BY <2>1 DEF IInv, Held, Requesting, Fetching
    <3> QED
      BY <3>1, <3>2 DEF Uncaused
  <2>3. pc'[d] = "settings" /\ Moves(d)
    BY <1>0, <2>1 DEF Typed, Moves
  <2>4. Counted(d)
    BY <1>0, <2>3, CountsMove
  <2> QED
    BY <1>0, <2>1, <2>2, <2>3, <2>4 DEF Counted
<1>5. CASE GetConnectSettings(d)
  <2>1. /\ pc[d] = "settings" /\ pc' = [pc EXCEPT ![d] = "token"]
        /\ UNCHANGED <<info, fetches, causes, dials, sockets, handed>>
    BY <1>5 DEF GetConnectSettings, Goto, ghosts
  <2>2. Uncaused' = Uncaused
    BY <1>0, <2>1, UncausedMove DEF Requesting
  <2>3. pc'[d] = "token" /\ Moves(d)
    BY <1>0, <2>1 DEF Typed, Moves
  <2>4. Counted(d)
    BY <1>0, <2>3, CountsMove
  <2> QED
    BY <1>0, <2>1, <2>2, <2>3, <2>4 DEF Counted
<1>6. CASE Token(d)
  <2>1. /\ pc[d] = "token" /\ pc' = [pc EXCEPT ![d] = "certificate"]
        /\ UNCHANGED <<info, fetches, causes, dials, sockets, handed>>
    BY <1>6 DEF Token, Learn, ghosts
  <2>2. Uncaused' = Uncaused
    BY <1>0, <2>1, UncausedMove DEF Requesting
  <2>3. pc'[d] = "certificate" /\ Moves(d)
    BY <1>0, <2>1 DEF Typed, Moves
  <2>4. Counted(d)
    BY <1>0, <2>3, CountsMove
  <2> QED
    BY <1>0, <2>1, <2>2, <2>3, <2>4 DEF Counted
<1>7. CASE GenerateEphemeralCert(d)
  <2>1. /\ pc[d] = "certificate" /\ pc' = [pc EXCEPT ![d] = "connect"]
        /\ UNCHANGED <<fetches, causes, dials, sockets, handed>>
    BY <1>7 DEF GenerateEphemeralCert, Proceed, ghosts
  <2>2. Uncaused' = 1 /\ Uncaused = 1
    <3>1. info'.id = fetches /\ fetches > 0
      BY <1>7, Constants DEF GenerateEphemeralCert, IInv, Held, Typed, Requesting, Info
    <3>2. info' # None
      BY <3>1, Constants
    <3> QED
      BY <2>1, <3>2 DEF Uncaused, Requesting
  <2>3. pc'[d] = "connect" /\ Moves(d)
    BY <1>0, <2>1 DEF Typed, Moves
  <2>4. Counted(d)
    BY <1>0, <2>3, CountsMove
  <2> QED
    BY <1>0, <2>1, <2>2, <2>3, <2>4 DEF Counted
<1>8. CASE FetchFails(d)
  <2>1. /\ pc[d] \in Requesting /\ pc' = [pc EXCEPT ![d] = "idle"]
        /\ causes' = causes + 1 /\ UNCHANGED <<info, fetches, dials, sockets, handed>>
    BY <1>8 DEF FetchFails, Return, Requesting
  <2>2. pc[d] \notin {"lock", "check", "handshake", "drop"}
    BY <2>1 DEF Requesting
  <2>3. pc'[d] = "idle" /\ Moves(d)
    BY <1>0, <2>1 DEF Typed, Moves
  <2>4. Counted(d)
    BY <1>0, <2>3, CountsMove
  <2>5. /\ Unfetched' = Unfetched /\ Shaking' = Shaking /\ Dropping' = Dropping
        /\ Unfetched \in Nat /\ Shaking \in Nat /\ Dropping \in Nat
    BY <2>2, <2>3, <2>4 DEF Counted
  <2>6. causes' = causes + 1 /\ UNCHANGED <<fetches, dials, sockets, handed>>
    BY <2>1
  <2>7. fetches + Dropping <= causes + 1 + Uncaused'
    <3>1. fetches \in Int /\ causes \in Int /\ Dropping \in Int
      BY <1>0, <2>5
    <3>2. Uncaused \in {0, 1} /\ Uncaused' \in {0, 1}
      BY <1>0
    <3>3. fetches + Dropping <= causes + Uncaused
      OBVIOUS
    <3> QED
      BY <3>1, <3>2, <3>3, OneMore, Zenon
  <2> QED
    BY <2>5, <2>6, <2>7
<1>9. CASE Connect(d)
  <2>1. /\ pc[d] = "connect" /\ pc' = [pc EXCEPT ![d] = "handshake"]
        /\ sockets' = sockets + 1 /\ UNCHANGED <<info, fetches, causes, dials, handed>>
    BY <1>9 DEF Connect, Goto, ghosts
  <2>2. Uncaused' = Uncaused
    BY <1>0, <2>1, UncausedMove DEF Requesting
  <2>3. pc'[d] = "handshake" /\ Moves(d)
    BY <1>0, <2>1 DEF Typed, Moves
  <2>4. Counted(d)
    BY <1>0, <2>3, CountsMove
  <2> QED
    BY <1>0, <2>1, <2>2, <2>3, <2>4 DEF Counted
<1>10. CASE ConnectFails(d)
  <2>1. /\ pc[d] = "connect" /\ pc' = [pc EXCEPT ![d] = "idle"]
        /\ UNCHANGED <<info, fetches, causes, dials, sockets, handed>>
    BY <1>10 DEF ConnectFails, Return, ghosts
  <2>2. Uncaused' = Uncaused
    BY <1>0, <2>1, UncausedMove DEF Requesting
  <2>3. pc'[d] = "idle" /\ Moves(d)
    BY <1>0, <2>1 DEF Typed, Moves
  <2>4. Counted(d)
    BY <1>0, <2>3, CountsMove
  <2> QED
    BY <1>0, <2>1, <2>2, <2>3, <2>4 DEF Counted
<1>11. CASE Handshake(d)
  <2>1. /\ pc[d] = "handshake" /\ pc' = [pc EXCEPT ![d] = "idle"]
        /\ handed' = handed + 1 /\ UNCHANGED <<info, fetches, causes, dials, sockets>>
    BY <1>11 DEF Handshake, Return, ghosts
  <2>2. Uncaused' = Uncaused
    BY <1>0, <2>1, UncausedMove DEF Requesting
  <2>3. pc'[d] = "idle" /\ Moves(d)
    BY <1>0, <2>1 DEF Typed, Moves
  <2>4. Counted(d)
    BY <1>0, <2>3, CountsMove
  <2> QED
    BY <1>0, <2>1, <2>2, <2>3, <2>4 DEF Counted
<1>12. CASE HandshakeFails(d)
  <2>1. /\ pc[d] = "handshake" /\ pc' = [pc EXCEPT ![d] = "decide"]
        /\ sockets' = sockets - 1 /\ UNCHANGED <<info, fetches, causes, dials, handed>>
    BY <1>12 DEF HandshakeFails, Goto, ghosts
  <2>2. Uncaused' = Uncaused
    BY <1>0, <2>1, UncausedMove DEF Requesting
  <2>3. pc'[d] = "decide" /\ Moves(d)
    BY <1>0, <2>1 DEF Typed, Moves
  <2>4. Counted(d)
    BY <1>0, <2>3, CountsMove
  <2> QED
    BY <1>0, <2>1, <2>2, <2>3, <2>4 DEF Counted
<1>13. CASE GiveUp(d)
  <2>1. /\ pc[d] = "decide" /\ pc' = [pc EXCEPT ![d] = "idle"]
        /\ UNCHANGED <<info, fetches, causes, dials, sockets, handed>>
    BY <1>13 DEF GiveUp, Return, ghosts
  <2>2. Uncaused' = Uncaused
    BY <1>0, <2>1, UncausedMove DEF Requesting
  <2>3. pc'[d] = "idle" /\ Moves(d)
    BY <1>0, <2>1 DEF Typed, Moves
  <2>4. Counted(d)
    BY <1>0, <2>3, CountsMove
  <2> QED
    BY <1>0, <2>1, <2>2, <2>3, <2>4 DEF Counted
<1>14. CASE Distrust(d)
  <2>1. /\ pc[d] = "decide" /\ pc' = [pc EXCEPT ![d] = "drop"]
        /\ causes' = causes + 1 /\ UNCHANGED <<info, fetches, dials, sockets, handed>>
    BY <1>14 DEF Distrust, Goto, ghosts
  <2>2. Uncaused' = Uncaused
    BY <1>0, <2>1, UncausedMove DEF Requesting
  <2>3. pc'[d] = "drop" /\ Moves(d)
    BY <1>0, <2>1 DEF Typed, Moves
  <2>4. Counted(d)
    BY <1>0, <2>3, CountsMove
  <2> QED
    BY <1>0, <2>1, <2>2, <2>3, <2>4 DEF Counted
<1>15. CASE Invalidate(d)
  <2>1. /\ pc[d] = "drop" /\ pc' = [pc EXCEPT ![d] = "idle"]
        /\ info' = None /\ mutex = Nil /\ UNCHANGED <<fetches, causes, dials, sockets, handed>>
    BY <1>15 DEF Invalidate, Return
  <2>2. Uncaused' = 0
    <3>1. \A e \in Dialers : pc[e] \notin Requesting
      BY <2>1 DEF Setting, IInv, Held, Requesting, Fetching
    <3>2. \A e \in Dialers : pc'[e] \notin Requesting
      BY <1>0, <2>1, <3>1 DEF Typed, Requesting
    <3> QED
      BY <2>1, <3>2 DEF Uncaused
  <2>3. pc'[d] = "idle" /\ Moves(d)
    BY <1>0, <2>1 DEF Typed, Moves
  <2>4. Counted(d)
    BY <1>0, <2>3, CountsMove
  <2> QED
    BY <1>0, <2>1, <2>2, <2>3, <2>4 DEF Counted
<1>16. CASE Cancel(d)
  BY <1>16 DEF Cancel, ghosts, Unfetched, Shaking, Dropping, Count, At, Uncaused
<1> QED
  BY <1>1, <1>2, <1>3, <1>4, <1>5, <1>6, <1>7, <1>8,
     <1>9, <1>10, <1>11, <1>12, <1>13, <1>14, <1>15, <1>16 DEF DialStep, OwnStep, FetchStep, ConnectionStep

\* The counts, for any number of dialers.
THEOREM CountInvariant == ASSUME Setting PROVE Spec => []CountInv
<1>1. Init => CountInv
  BY CountInit
<1>2. IInv /\ CountInv /\ [Next]_vars => CountInv'
  <2> SUFFICES ASSUME IInv, CountInv, [Next]_vars PROVE CountInv'
    OBVIOUS
  <2>1. CASE \E d \in Dialers : Dial(d) \/ DialStep(d) \/ Cancel(d)
    BY <2>1, CountStep
  <2>2. CASE Tick
    BY <2>2 DEF Tick, dialing, ghosts, CountInv, Unfetched, Shaking, Dropping, Count, At, Uncaused
  <2>3. CASE UNCHANGED vars
    BY <2>3 DEF vars, dialing, ghosts, CountInv, Unfetched, Shaking, Dropping, Count, At, Uncaused
  <2> QED
    BY <2>1, <2>2, <2>3 DEF Next
<1> QED
  BY <1>1, <1>2, Invariant, PTL DEF Spec

\* Each fetch but the first has a cause of its own; the mutex is the fetching dial's;
\* and of the connections opened those in a handshake and those handed out are left.
THEOREM FetchesForCauseCorrect == ASSUME Setting PROVE Spec => []FetchesForCause
<1>1. IInv /\ CountInv => FetchesForCause
  <2> SUFFICES ASSUME IInv, CountInv PROVE FetchesForCause
    OBVIOUS
  <2>1. \A S : Count(S) \in Nat
    <3> SUFFICES ASSUME NEW S PROVE Cardinality(At(S)) \in Nat
      BY DEF Count
    <3>1. At(S) \subseteq Dialers
      BY DEF At
    <3> QED
      BY <3>1, FS_Subset, FS_CardinalityType DEF Setting
  <2>2. Unfetched \in Nat /\ Dropping \in Nat /\ Uncaused \in {0, 1}
    BY <2>1 DEF Unfetched, Dropping, Uncaused
  <2>3. fetches \in 0 .. MaxDials /\ fetches <= 1 + causes
    BY <2>2, Constants DEF IInv, Typed, CountInv
  <2>4. sockets = handed + Cardinality({d \in Dialers : pc[d] = "handshake"})
    <3>1. At({"handshake"}) = {d \in Dialers : pc[d] = "handshake"}
      BY DEF At
    <3> QED
      BY <3>1 DEF CountInv, Shaking, Count
  <2> QED
    BY <2>3, <2>4 DEF IInv, Typed, Held, Info, FetchesForCause, TypeOK
<1> QED
  BY <1>1, Invariant, CountInvariant, PTL
=============================================================================
