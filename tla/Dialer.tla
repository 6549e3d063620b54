------------------------------- MODULE Dialer -------------------------------
(***************************************************************************)
(* Dialing a Cloud SQL instance (pkg/cloud/gcp/cloud_sql/dialer).  Dials   *)
(* of one instance share an entry: its connection information, which holds *)
(* the server's certificate authority and an ephemeral client certificate, *)
(* and a mutex that is held while the information is fetched.  Entries of  *)
(* different instances share nothing but the map they are in, so one entry *)
(* is modelled.                                                            *)
(*                                                                         *)
(* The Admin API, the login token's source, the network and the database   *)
(* are external: any request and any handshake may fail, as a handshake    *)
(* does when the authority was replaced.                                   *)
(***************************************************************************)
EXTENDS Integers, FiniteSets

CONSTANTS
  Dialers,        \* goroutines that call Dial
  Nil,            \* no holder of the mutex
  Buffer,         \* Config.RefreshBuffer
  CertLife,       \* how long an ephemeral certificate is valid
  TokenLives,     \* how long login tokens are valid; 0 when nothing says
  MaxDials,       \* bound: calls of Dial
  MaxTime         \* bound: the clock

ASSUME LifeAssumption ==
  /\ {Buffer, CertLife, MaxDials, MaxTime} \subseteq Nat
  /\ TokenLives \subseteq Nat

VARIABLES
  now,        \* Config.Now
  info,       \* entry.info
  mutex,      \* who holds entry.mu
  pc,         \* where each goroutine is in Dial
  using,      \* the information its dial uses
  draft,      \* the information its dial fetches
  cancelled,  \* whether its context is done
  sockets,    \* TCP connections opened and not closed
  handed,     \* connections that Dial has returned
  fetches,    \* fetches begun, which numbers them
  dials,      \* calls of Dial so far
  causes,     \* history: reasons there were to fetch again
  distrusted, \* history: fetches begun when a dial last reported its handshake failed
  start       \* history: the time and distrusted when each dial began

ghosts == <<causes, distrusted>>
dialing == <<pc, using, draft, cancelled, start>>
vars == <<now, info, mutex, dialing, sockets, handed, fetches, dials, ghosts>>

None == [id |-> 0, expiry |-> 0]
Unbegun == [at |-> 0, distrusted |-> 0]
Stages == {"idle", "lock", "check", "settings", "token", "certificate",
           "connect", "handshake", "decide", "drop"}
Fetching == {"check", "settings", "token", "certificate"}

Earlier(a, b) == IF a < b THEN a ELSE b

\* The mutex is held by exactly the dial that looks at the entry or fetches for
\* it, and the open sockets are those in a handshake and those handed out: no
\* path of Dial returns with the mutex, or with a connection it lost.
TypeOK ==
  /\ now \in 0 .. MaxTime
  /\ pc \in [Dialers -> Stages]
  /\ cancelled \in [Dialers -> BOOLEAN]
  /\ fetches \in 0 .. MaxDials
  /\ info.id \in 0 .. fetches
  /\ \A d \in Dialers : mutex = d <=> pc[d] \in Fetching
  /\ mutex \in Dialers \union {Nil}
  /\ sockets = handed + Cardinality({d \in Dialers : pc[d] = "handshake"})

Init ==
  /\ now = 0 /\ info = None /\ mutex = Nil
  /\ pc = [d \in Dialers |-> "idle"]
  /\ using = [d \in Dialers |-> None] /\ draft = using
  /\ cancelled = [d \in Dialers |-> FALSE]
  /\ sockets = 0 /\ handed = 0 /\ fetches = 0 /\ dials = 0
  /\ causes = 0 /\ distrusted = 0
  /\ start = [d \in Dialers |-> Unbegun]

Goto(d, stage) ==
  /\ pc' = [pc EXCEPT ![d] = stage]
  /\ UNCHANGED <<using, draft, cancelled, start>>

\* Dial returns, and with it go its locals.
Return(d) ==
  /\ pc' = [pc EXCEPT ![d] = "idle"]
  /\ using' = [using EXCEPT ![d] = None] /\ draft' = [draft EXCEPT ![d] = None]
  /\ cancelled' = [cancelled EXCEPT ![d] = FALSE]
  /\ start' = [start EXCEPT ![d] = Unbegun]

\* The dial has the information it was to use.
Proceed(d, i) ==
  /\ pc' = [pc EXCEPT ![d] = "connect"] /\ using' = [using EXCEPT ![d] = i]
  /\ UNCHANGED <<draft, cancelled, start>>

\* The fetch goes on with what the dial knows by now.
Learn(d, i, stage) ==
  /\ pc' = [pc EXCEPT ![d] = stage] /\ draft' = [draft EXCEPT ![d] = i]
  /\ UNCHANGED <<using, cancelled, start>>

----------------------------------------------------------------------------
(* connectionInfo *)

Dial(d) ==
  /\ pc[d] = "idle" /\ dials < MaxDials
  /\ dials' = dials + 1
  /\ pc' = [pc EXCEPT ![d] = "lock"]
  /\ start' = [start EXCEPT ![d] = [at |-> now, distrusted |-> distrusted]]
  /\ UNCHANGED <<now, info, mutex, using, draft, cancelled, sockets, handed,
                 fetches, ghosts>>

Lock(d) ==
  /\ pc[d] = "lock" /\ mutex = Nil
  /\ mutex' = d /\ Goto(d, "check")
  /\ UNCHANGED <<now, info, sockets, handed, fetches, dials, ghosts>>

\* Fault: the refresh buffer is left out.
FreshLate(i) == i # None /\ now < i.expiry

Fresh(i) == i # None /\ now + Buffer < i.expiry

UseCached(d) ==
  /\ pc[d] = "check" /\ Fresh(info)
  /\ mutex' = Nil /\ Proceed(d, info)
  /\ UNCHANGED <<now, info, sockets, handed, fetches, dials, ghosts>>

BeginFetch(d) ==
  /\ pc[d] = "check" /\ ~ Fresh(info)
  /\ fetches' = fetches + 1
  /\ Learn(d, [None EXCEPT !.id = fetches + 1], "settings")
  /\ causes' = IF info = None THEN causes ELSE causes + 1
  /\ UNCHANGED <<now, info, mutex, sockets, handed, dials, distrusted>>

----------------------------------------------------------------------------
(* fetchConnectionInfo, which returns early on a failed request, on settings *)
(* that do not fit and on a certificate that does not parse.                 *)

GetConnectSettings(d) ==
  /\ pc[d] = "settings" /\ ~ cancelled[d]
  /\ Goto(d, "token")
  /\ UNCHANGED <<now, info, mutex, sockets, handed, fetches, dials, ghosts>>

Token(d) ==
  /\ pc[d] = "token"
  /\ \E life \in TokenLives :
       Learn(d, [draft[d] EXCEPT !.expiry = IF life = 0 THEN 0 ELSE now + life],
             "certificate")
  /\ UNCHANGED <<now, info, mutex, sockets, handed, fetches, dials, ghosts>>

GenerateEphemeralCert(d) ==
  /\ pc[d] = "certificate" /\ ~ cancelled[d]
  /\ LET notAfter == now + CertLife
         token == draft[d].expiry
     IN info' = [draft[d] EXCEPT !.expiry =
                   IF token = 0 THEN notAfter ELSE Earlier(token, notAfter)]
  /\ mutex' = Nil /\ Proceed(d, info')
  /\ UNCHANGED <<now, sockets, handed, fetches, dials, ghosts>>

\* Fault: a failed fetch returns without unlocking the entry.
FetchFailsLocked(d) ==
  /\ pc[d] \in {"settings", "token", "certificate"}
  /\ Return(d)
  /\ causes' = causes + 1
  /\ UNCHANGED <<now, info, mutex, sockets, handed, fetches, dials, distrusted>>

FetchFails(d) ==
  /\ pc[d] \in {"settings", "token", "certificate"}
  /\ mutex' = Nil /\ Return(d)
  /\ causes' = causes + 1
  /\ UNCHANGED <<now, info, sockets, handed, fetches, dials, distrusted>>

----------------------------------------------------------------------------
(* The rest of Dial *)

Connect(d) ==
  /\ pc[d] = "connect" /\ ~ cancelled[d]
  /\ sockets' = sockets + 1 /\ Goto(d, "handshake")
  /\ UNCHANGED <<now, info, mutex, handed, fetches, dials, ghosts>>

ConnectFails(d) ==
  /\ pc[d] = "connect" /\ Return(d)
  /\ UNCHANGED <<now, info, mutex, sockets, handed, fetches, dials, ghosts>>

Handshake(d) ==
  /\ pc[d] = "handshake" /\ ~ cancelled[d]
  /\ handed' = handed + 1 /\ Return(d)
  /\ UNCHANGED <<now, info, mutex, sockets, fetches, dials, ghosts>>

HandshakeFails(d) ==
  /\ pc[d] = "handshake"
  /\ sockets' = sockets - 1 /\ Goto(d, "decide")
  /\ UNCHANGED <<now, info, mutex, handed, fetches, dials, ghosts>>

\* Fault: the information is dropped although the caller gave up.
GiveUpDropping(d) ==
  /\ pc[d] = "decide" /\ cancelled[d] /\ Goto(d, "drop")
  /\ UNCHANGED <<now, info, mutex, sockets, handed, fetches, dials, ghosts>>

\* A caller that gave up says nothing about the information.
GiveUp(d) ==
  /\ pc[d] = "decide" /\ cancelled[d] /\ Return(d)
  /\ UNCHANGED <<now, info, mutex, sockets, handed, fetches, dials, ghosts>>

Distrust(d) ==
  /\ pc[d] = "decide" /\ ~ cancelled[d] /\ Goto(d, "drop")
  /\ causes' = causes + 1
  /\ UNCHANGED <<now, info, mutex, sockets, handed, fetches, dials, distrusted>>

\* Fault: the information is dropped without the entry's mutex.
InvalidateUnlocked(d) ==
  /\ pc[d] = "drop"
  /\ info' = None /\ distrusted' = fetches /\ Return(d)
  /\ UNCHANGED <<now, mutex, sockets, handed, fetches, dials, causes>>

Invalidate(d) ==
  /\ pc[d] = "drop" /\ mutex = Nil
  /\ info' = None /\ distrusted' = fetches /\ Return(d)
  /\ UNCHANGED <<now, mutex, sockets, handed, fetches, dials, causes>>

----------------------------------------------------------------------------
(* The callers, the clock and the database *)

Cancel(d) ==
  /\ pc[d] # "idle" /\ ~ cancelled[d]
  /\ cancelled' = [cancelled EXCEPT ![d] = TRUE]
  /\ UNCHANGED <<now, info, mutex, pc, using, draft, start, sockets, handed,
                 fetches, dials, ghosts>>

Tick ==
  /\ now < MaxTime /\ now' = now + 1
  /\ UNCHANGED <<info, mutex, dialing, sockets, handed, fetches, dials,
                 ghosts>>

FetchStep(d) ==
  \/ GetConnectSettings(d) \/ Token(d) \/ GenerateEphemeralCert(d) \/ FetchFails(d)

\* The network and the database answer, or do not, in their own time.
ConnectionStep(d) ==
  \/ Connect(d) \/ ConnectFails(d) \/ Handshake(d) \/ HandshakeFails(d)

\* Connecting and the handshake watch the dial's context, and fail once it is done.
HonourCancel(d) == cancelled[d] /\ (ConnectFails(d) \/ HandshakeFails(d))

\* The steps that the goroutine takes by itself.
OwnStep(d) ==
  \/ Lock(d) \/ UseCached(d) \/ BeginFetch(d)
  \/ GiveUp(d) \/ Distrust(d) \/ Invalidate(d)

DialStep(d) == OwnStep(d) \/ FetchStep(d) \/ ConnectionStep(d)

Next ==
  \/ \E d \in Dialers : Dial(d) \/ DialStep(d) \/ Cancel(d)
  \/ Tick

(***************************************************************************)
(* Goroutines run, and a connection whose context is done is given up.     *)
(* Nothing says that a fetch ends: the proxy's client has no timeout and   *)
(* its dials no deadline, the source of tokens is asked without a context, *)
(* and so are the tokens of the Admin API's client refreshed.              *)
(***************************************************************************)
Spec == Init /\ [][Next]_vars /\ \A d \in Dialers : WF_vars(OwnStep(d) \/ HonourCancel(d))

----------------------------------------------------------------------------
(* Properties *)

\* Dial promises that a failed handshake "is fixed by fetching both again".  A
\* dial begun after another reported its failed handshake, and had not been
\* cancelled, uses nothing whose fetch had begun by then: neither what the entry
\* held nor what somebody was fetching.
FreshAfterFailure ==
  \A d \in Dialers : pc[d] \in {"connect", "handshake"} =>
    using[d].id > start[d].distrusted

\* The entry spares the Admin API: beyond the first, a fetch has a cause of its
\* own, an information that ran out, a fetch that failed or a handshake that
\* failed without its caller giving up.  Nor does a failure leave a connection open.
FetchesForCause == TypeOK /\ fetches <= 1 + causes

\* A dial that uses the entry's information, and takes no longer than the refresh
\* buffer, shakes hands while certificate and token are valid.
ValidInHandshake ==
  \A d \in Dialers :
    pc[d] = "handshake" /\ draft[d] = None /\ now <= start[d].at + Buffer =>
      now < using[d].expiry

\* Where no fetch lasts for ever, a dial whose context ends returns, and any dial
\* does whose own connecting and handshake end: no path keeps the entry's mutex, the
\* dial that drops the information does not wait for itself, and nobody waits for
\* another's connection.  A fetch that does last keeps every dial of the instance that
\* wants the mutex, also one that was cancelled, for Lock watches no context.
NoFetchForEver ==
  \A d \in Dialers : []<>(pc[d] \notin {"settings", "token", "certificate"})
Connects(d) == []<>(pc[d] \notin {"connect", "handshake"})
EveryDialReturns ==
  NoFetchForEver => \A d \in Dialers :
    /\ cancelled[d] ~> pc[d] = "idle"
    /\ Connects(d) => (pc[d] # "idle" ~> pc[d] = "idle")
=============================================================================
