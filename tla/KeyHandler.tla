----------------------------- MODULE KeyHandler -----------------------------
(***************************************************************************)
(* The JSON Web Key handler (pkg/json/jose/jwk/types/key_handler): callers *)
(* of GetNamedVerifier share a cached key set, refreshed under keysMutex   *)
(* from an endpoint whose set rotates, and a cache of the verifiers built  *)
(* from it, guarded by a mutex of its own.                                 *)
(*                                                                         *)
(* A key set is the set of key ids it names; a verifier is known by the    *)
(* key id it was built for.  Time is counted in seconds.                   *)
(*                                                                         *)
(* Three regimes are considered.  In "alone" calls do not overlap and a    *)
(* response always says how long its set may be cached.  In "sound" calls  *)
(* overlap, and the endpoint always answers with such a response.  In      *)
(* "any" calls overlap, fetches fail, and responses may lack an expiry.    *)
(***************************************************************************)
EXTENDS Integers, FiniteSets

CONSTANTS
  Callers,       \* goroutines that call GetNamedVerifier
  KeyIds,        \* key ids that tokens and key sets name
  Interval,      \* config.UnknownKeyIdRefetchInterval
  MaxAges,       \* how long the endpoint lets a set be cached: by max-age, or by
                 \* an Expires date, which may lie in the past
  Regimes,       \* the regimes considered: "alone", "sound" and "any"
  Nil,           \* no time, no caller
  MaxTime,       \* bound: the last second of the clock
  MaxCalls,      \* bound: how many calls each caller makes
  MaxRotations   \* bound: how often the endpoint's set changes

ASSUME TimeAssumption ==
  /\ Interval \in Nat
  /\ MaxAges \subseteq Int
  /\ MaxTime \in Nat
ASSUME RegimeAssumption == Regimes \subseteq {"alone", "sound", "any"}
ASSUME BoundAssumption == MaxCalls \in Nat /\ MaxRotations \in Nat
ASSUME NilAssumption == Nil \notin Callers \cup KeyIds \cup Int

VARIABLES
  regime,          \* how callers and the endpoint behave
  now,
  published,       \* the endpoint's key set
  publishedSince,  \* history: key id -> since when published without a break
  rotations,       \* history: how often the endpoint's set has changed
  keys,            \* Handler.keys
  keysExpiresAt,   \* Handler.keysExpiresAt
  keysFetchedAt,   \* Handler.keysFetchedAt
  verifiers,       \* the key ids of Handler.keyIdToVerifier
  keysMutex,       \* the caller that holds Handler.keysMutex
  incoming,        \* the set in the response that its holder is about to receive
  pc,              \* where each caller is
  keyId,           \* the key id each caller asks for
  unknown,         \* whether the caller's getKeys is its second, after a miss
  snapshot,        \* the key set getKeys returned to the caller
  snapshotAt,      \* history: when it did
  snapshotTook,    \* history: how long the last recorded fetch had taken by then
  held,            \* history: key ids of every set cached during the call
  calls,           \* how many calls each caller has made
  attemptAt,       \* history: when the last fetch began
  fetchTook        \* history: how long the last recorded fetch took

endpoint == <<published, publishedSince, rotations>>
cache == <<keys, keysExpiresAt, keysFetchedAt, verifiers>>
result == <<snapshot, snapshotAt, snapshotTook>>
fetching == <<keysMutex, incoming, attemptAt, fetchTook>>
vars == <<regime, now, endpoint, cache, fetching, pc, keyId, unknown, result, held, calls>>

Stages == {"idle", "getKeys", "fetch", "receive", "record", "lookup", "store"}
Fetching == {"fetch", "receive", "record"}
MaybeTime == Nat \cup {Nil}

\* The lock is held exactly by the caller that fetches, and a caller that builds a
\* verifier found its key in its snapshot.
TypeOK ==
  /\ regime \in Regimes
  /\ now \in Nat
  /\ published \in SUBSET KeyIds /\ keys \in SUBSET KeyIds
  /\ verifiers \in SUBSET KeyIds /\ incoming \in SUBSET KeyIds
  /\ keysExpiresAt \in Int \cup {Nil} /\ keysFetchedAt \in MaybeTime
  /\ pc \in [Callers -> Stages]
  /\ keyId \in [Callers -> KeyIds \cup {Nil}]
  /\ unknown \in [Callers -> BOOLEAN]
  /\ snapshot \in [Callers -> SUBSET KeyIds]
  /\ attemptAt \in MaybeTime /\ fetchTook \in Nat
  /\ \A c \in Callers :
       /\ pc[c] \in Fetching <=> keysMutex = c
       /\ pc[c] = "store" => keyId[c] \in snapshot[c]

Init ==
  /\ regime \in Regimes
  /\ now = 0
  /\ published \in SUBSET KeyIds
  /\ publishedSince = [k \in KeyIds |-> IF k \in published THEN 0 ELSE Nil]
  /\ rotations = 0
  /\ keys = {} /\ keysExpiresAt = Nil /\ keysFetchedAt = Nil /\ verifiers = {}
  /\ keysMutex = Nil /\ incoming = {}
  /\ pc = [c \in Callers |-> "idle"]
  /\ keyId = [c \in Callers |-> Nil]
  /\ unknown = [c \in Callers |-> FALSE]
  /\ snapshot = [c \in Callers |-> {}]
  /\ snapshotAt = [c \in Callers |-> Nil]
  /\ snapshotTook = [c \in Callers |-> 0]
  /\ held = [c \in Callers |-> {}]
  /\ calls = [c \in Callers |-> 0]
  /\ attemptAt = Nil /\ fetchTook = 0

-----------------------------------------------------------------------------
Move(c, from, to) == pc[c] = from /\ pc' = [pc EXCEPT ![c] = to]

\* The call of c returns; its locals are gone.
Return(c, from) ==
  /\ Move(c, from, "idle")
  /\ keyId' = [keyId EXCEPT ![c] = Nil]
  /\ unknown' = [unknown EXCEPT ![c] = FALSE]
  /\ snapshot' = [snapshot EXCEPT ![c] = {}]
  /\ snapshotAt' = [snapshotAt EXCEPT ![c] = Nil]
  /\ snapshotTook' = [snapshotTook EXCEPT ![c] = 0]
  /\ UNCHANGED <<regime, now, endpoint, calls, attemptAt, fetchTook>>

\* getKeys returns the cached set, of which the last recorded fetch took some time.
HandOut(c, took) ==
  /\ snapshot' = [snapshot EXCEPT ![c] = keys]
  /\ snapshotAt' = [snapshotAt EXCEPT ![c] = now]
  /\ snapshotTook' = [snapshotTook EXCEPT ![c] = took]

\* History: the calls that go on have seen the set being cached.
Witness(set) ==
  held' = [c \in Callers |-> IF pc'[c] = "idle" THEN {} ELSE held[c] \cup set]

\* GetNamedVerifier is called.
Call(c, k) ==
  /\ Move(c, "idle", "getKeys")
  /\ calls[c] < MaxCalls
  /\ regime = "alone" => \A other \in Callers : pc[other] = "idle"
  /\ calls' = [calls EXCEPT ![c] = @ + 1]
  /\ keyId' = [keyId EXCEPT ![c] = k]
  /\ held' = [held EXCEPT ![c] = keys]
  /\ UNCHANGED <<regime, now, endpoint, cache, fetching, unknown, result>>

Expired == keysExpiresAt = Nil \/ (keysExpiresAt # Nil /\ keysExpiresAt < now)

\* Fault: a key id the set lacks is always worth a fetch.
RefetchAlways == TRUE

\* The last fetch is old enough for a key id the set lacks to be worth another.
RefetchAllowed ==
  keysFetchedAt = Nil \/ (keysFetchedAt # Nil /\ now - keysFetchedAt >= Interval)

MustFetch(c) == Expired \/ (unknown[c] /\ RefetchAllowed)

\* getKeys takes keysMutex and finds the cached set good enough.
GetCached(c) ==
  /\ keysMutex = Nil
  /\ ~MustFetch(c)
  /\ Move(c, "getKeys", "lookup")
  /\ HandOut(c, fetchTook)
  /\ UNCHANGED <<regime, now, endpoint, cache, fetching, keyId, unknown, held, calls>>

\* getKeys takes keysMutex and goes to fetch, with the mutex held.
StartFetch(c) ==
  /\ keysMutex = Nil
  /\ MustFetch(c)
  /\ Move(c, "getKeys", "fetch")
  /\ keysMutex' = c
  /\ attemptAt' = now
  /\ UNCHANGED <<regime, now, endpoint, cache, incoming, fetchTook, keyId, unknown, result,
                 held, calls>>

\* The endpoint answers with the set it publishes; the response is on its way.
Respond(c) ==
  /\ Move(c, "fetch", "receive")
  /\ incoming' = published
  /\ UNCHANGED <<regime, now, endpoint, cache, keysMutex, attemptAt, fetchTook, keyId, unknown,
                 result, held, calls>>

\* Fault: the error path of a fetch keeps keysMutex.
FetchFailsLocked(c) ==
  /\ regime # "sound"
  /\ \E from \in {"fetch", "receive"} : Return(c, from)
  /\ Witness({})
  /\ incoming' = {}
  /\ UNCHANGED <<cache, keysMutex>>

\* fetchKeys fails before it has a key set: the request, its body or "keys".
FetchFails(c) ==
  /\ regime # "sound"
  /\ \E from \in {"fetch", "receive"} : Return(c, from)
  /\ Witness({})
  /\ incoming' = {} /\ keysMutex' = Nil
  /\ UNCHANGED cache

\* The cached set is replaced by the one received, while other calls go on.
Replace ==
  /\ keys' = incoming /\ incoming' = {}
  /\ Witness(incoming)

\* The set is replaced, then the freshness headers turn out to be unusable.
FetchUndated(c) ==
  /\ regime = "any"
  /\ Return(c, "receive")
  /\ Replace
  /\ keysMutex' = Nil
  /\ UNCHANGED <<keysExpiresAt, keysFetchedAt, verifiers>>

\* The set is replaced, and is good for maxAge seconds.
FetchDated(c, maxAge) ==
  /\ Move(c, "receive", "record")
  /\ Replace
  /\ keysExpiresAt' = now + maxAge
  /\ UNCHANGED <<regime, now, endpoint, keysFetchedAt, verifiers, keysMutex, attemptAt,
                 fetchTook, keyId, unknown, result, calls>>

\* Fault: the verifiers of the replaced set are kept.
RecordFetchKeeping(c) ==
  /\ Move(c, "record", "lookup")
  /\ keysFetchedAt' = now /\ fetchTook' = now - attemptAt
  /\ keysMutex' = Nil
  /\ HandOut(c, fetchTook')
  /\ UNCHANGED <<regime, now, endpoint, keys, keysExpiresAt, verifiers, incoming, attemptAt,
                 keyId, unknown, held, calls>>

\* The verifiers of the replaced set are dropped, the fetch is recorded as of now,
\* however long its response has taken, and getKeys returns the new set.
RecordFetch(c) ==
  /\ Move(c, "record", "lookup")
  /\ verifiers' = {}
  /\ keysFetchedAt' = now /\ fetchTook' = now - attemptAt
  /\ keysMutex' = Nil
  /\ HandOut(c, fetchTook')
  /\ UNCHANGED <<regime, now, endpoint, keys, keysExpiresAt, incoming, attemptAt, keyId,
                 unknown, held, calls>>

\* lookup finds a cached verifier.
LookupHit(c) ==
  /\ keyId[c] \in verifiers
  /\ Return(c, "lookup")
  /\ Witness({})
  /\ UNCHANGED <<cache, keysMutex, incoming>>

\* lookup finds the key in the caller's set and builds its verifier, ...
Build(c) ==
  /\ keyId[c] \notin verifiers
  /\ keyId[c] \in snapshot[c]
  /\ Move(c, "lookup", "store")
  /\ UNCHANGED <<regime, now, endpoint, cache, fetching, keyId, unknown, result, held, calls>>

\* ... or finds that the key cannot be made into one.
BuildFails(c) ==
  /\ keyId[c] \notin verifiers
  /\ keyId[c] \in snapshot[c]
  /\ Return(c, "lookup")
  /\ Witness({})
  /\ UNCHANGED <<cache, keysMutex, incoming>>

\* The verifier is cached and returned.
Store(c) ==
  /\ Return(c, "store")
  /\ Witness({})
  /\ verifiers' = verifiers \cup {keyId[c]}
  /\ UNCHANGED <<keys, keysExpiresAt, keysFetchedAt, keysMutex, incoming>>

Missing(c) == keyId[c] \notin verifiers \cup snapshot[c]

\* A first miss sends the caller back for the set.
LookAgain(c) ==
  /\ Missing(c)
  /\ ~unknown[c]
  /\ Move(c, "lookup", "getKeys")
  /\ unknown' = [unknown EXCEPT ![c] = TRUE]
  /\ UNCHANGED <<regime, now, endpoint, cache, fetching, keyId, result, held, calls>>

\* A second miss is final: nil.
GiveUp(c) ==
  /\ Missing(c)
  /\ unknown[c]
  /\ Return(c, "lookup")
  /\ Witness({})
  /\ UNCHANGED <<cache, keysMutex, incoming>>

\* The endpoint publishes another set.
Rotate ==
  /\ rotations < MaxRotations
  /\ rotations' = rotations + 1
  /\ published' \in SUBSET KeyIds \ {published}
  /\ publishedSince' = [k \in KeyIds |->
       CASE k \notin published'                    -> Nil
         [] k \in published' /\ k \in published    -> publishedSince[k]
         [] k \in published' /\ k \notin published -> now]
  /\ UNCHANGED <<regime, now, cache, fetching, pc, keyId, unknown, result, held, calls>>

\* Time passes anywhere, also while a request, its response or its recording is under way.
Tick ==
  /\ now < MaxTime
  /\ now' = now + 1
  /\ UNCHANGED <<regime, endpoint, cache, fetching, pc, keyId, unknown, result, held, calls>>

\* The steps of a fetch: how long they take is up to the network and the endpoint.
FetchStep(c) ==
  \/ Respond(c) \/ FetchFails(c) \/ FetchUndated(c)
  \/ \E maxAge \in MaxAges : FetchDated(c, maxAge)

\* The steps that the goroutine takes by itself.
OwnStep(c) ==
  \/ GetCached(c) \/ StartFetch(c) \/ RecordFetch(c)
  \/ LookupHit(c) \/ Build(c) \/ BuildFails(c) \/ Store(c) \/ LookAgain(c) \/ GiveUp(c)

Next ==
  \/ \E c \in Callers : OwnStep(c) \/ FetchStep(c) \/ \E k \in KeyIds : Call(c, k)
  \/ Rotate
  \/ Tick

Spec == Init /\ [][Next]_vars

(***************************************************************************)
(* Goroutines run.  Nothing says that a fetch ends: the default client has *)
(* no timeout and a caller's context need not have a deadline.  Calls      *)
(* being bounded, keysMutex is in the end free for good or held for ever,  *)
(* so that weak fairness is enough for a caller that waits for it.         *)
(***************************************************************************)
FairSpec == Spec /\ \A c \in Callers : WF_vars(OwnStep(c))

-----------------------------------------------------------------------------
\* "GetNamedVerifier returns the verifier for the key the set names keyId, or nil
\* when the set holds no such key": a verifier is returned only for a key id that a
\* set cached at some moment of the call named.  It fails when a verifier of the old
\* set is cached after the set was replaced, and when the set was replaced by a
\* response that turned out to be undated.
FoundInTheSet(c) == LookupHit(c) \/ Store(c) => keyId[c] \in held[c]
VerifierFromTheSet == [][\A c \in Callers : FoundInTheSet(c)]_vars

\* The same, for calls that do not overlap and responses that are dated, whichever
\* of the fetches fail: no verifier outlives the set it was built from.
LoneVerifierFromTheSet ==
  [][regime = "alone" => \A c \in Callers : FoundInTheSet(c)]_vars

\* "... since the key may be one rotated in since the cached copy was fetched": nil
\* is returned only for a key id that the endpoint did not publish, without a break,
\* for the refetch interval before the set was handed out and, before that, for as
\* long as the last recorded fetch took.  The interval counts from the end of the
\* fetch, and the set may be as old as its beginning.
AbsentIsRecent ==
  [][\A c \in Callers :
       GiveUp(c) =>
         \/ publishedSince[keyId[c]] = Nil
         \/ publishedSince[keyId[c]] > snapshotAt[c] - snapshotTook[c] - Interval]_vars

\* What a call that is not overlapped by another is told agrees with a set it saw,
\* and what any call is told is absent was not there for long.
AnsweredFromTheSet == LoneVerifierFromTheSet /\ AbsentIsRecent

\* "A miss sends the handler back for the set once more, no more often than the
\* configured interval": an unexpired set is not fetched again within the interval
\* of the last fetch, whoever made it.  It fails when fetches do.
Spaced(c) ==
  StartFetch(c) /\ ~Expired /\ attemptAt # Nil => now - attemptAt >= Interval
RefetchSpaced == [][\A c \in Callers : Spaced(c)]_vars

\* The same, for concurrent callers of an endpoint that always answers.
SoundRefetchSpaced == [][regime = "sound" => \A c \in Callers : Spaced(c)]_vars

\* Where no fetch lasts for ever, no call does: every way out of a fetch leaves
\* keysMutex to those who wait for it.  A fetch that does last keeps every other call
\* of the handler, also one whose context has ended, for Lock watches none.
NoFetchForEver == \A c \in Callers : []<>(pc[c] \notin {"fetch", "receive"})
EveryCallReturns ==
  NoFetchForEver => \A c \in Callers : pc[c] # "idle" ~> pc[c] = "idle"
=============================================================================
