# TLA+ models of utils_go

utils_go is a library: an HTTP mux with its parsers and its rate limiting, a client side
that fetches and retries, keys and tokens, a connection to a browser, a dialer for Cloud
SQL, and many packages of pure functions.  This directory models the parts in which
several goroutines, timers or remote parties act on shared state, checks them with TLC
on small instances, and proves the most important results for every instance with TLAPS.

`PROJECT.json` holds, for every definition, the lines of the source it translates; every
run with its configuration; for each property a *mutant*, a plausible bug under which the
property fails; the hazards of the code, each at its line; and the list of theorems.

    tlc -config Dialer.cfg MCDialer     # any run: module and cfg from PROJECT.json
    tlapm DialerProofs.tla              # the proofs of a module

## 1. The system

Paths are relative to `src/`.  "Modelled" says where a part appears below.

| Part | State it keeps | Operations | Meets | Modelled |
|---|---|---|---|---|
| Rate limiter, `pkg/http/mux/types/rate_limiting` | ring of expiries, insertion index, count, a mutex | `Claim`; the `AfterFunc` callback of each claim | timers of the runtime | `RateLimiter` |
| Rate limiting of requests, `HandleRateLimiting` in `pkg/http/mux/internal/mux` | map from key to limiter, a cleanup timer per limiter | look up, create, stop and arm the timer, claim, clean up | requests of one key; the limiter | `RateLimiting` |
| Mux, `pkg/http/mux` | endpoint map; an endpoint's static content and its header slice; per request a response and a writer | firewall, find endpoint, CORS, checks, handler, static content, write response or error | handlers and parsers as callbacks; responses share the endpoint's headers | `Mux` (one endpoint) |
| Virtual hosts, `vhost_mux.go` | map from host to mux; the response writer, shared with the mux picked | check names, pick, call, put the defaults back | `Mux`, called with its own writer | `VhostMux` |
| Choice between parsers, `types/request_parser/choice_request_parser` | a place for each parser's result and one for its error; a context | `Parse`: start, cancel, wait, decide | parsers run concurrently, contexts that cancel each other | `ParserChoice` |
| Token authentication, `types/request_parser/jwt_extractor` | the token accepted, a place for each authenticator's error | `Parse`: extract, start, wait, decide | authenticators run concurrently | `JwtExtractor` |
| Endpoint loading, `types/endpoint` | slice or map of what was loaded, a mutex | `NewFromDirectory`, `NewFromZip`, `AddContentEncodingData` | errgroup, one goroutine per file | `EndpointLoading` |
| HTTP service, `pkg/http/service` | server, listener, its context, a channel of one error | serve, shut down within a time | signals, requests in flight | `Service` |
| Fetching, `pkg/http/utils` | per call: attempt, response and its body, wait | attempt, check, ask for advice, wait, replay the body | server, transport, caller's context | `FetchRetry` |
| Key handler, `pkg/json/jose/jwk/types/key_handler` | key set, expiry, last fetch (one mutex); verifiers (another) | `GetNamedVerifier`: get keys, fetch, look up, store | callers; an endpoint that rotates keys | `KeyHandler` |
| Browser connection, `pkg/cdp` | pending commands, error (one mutex); write mutex; partial message | `Call`, `read`, `Close`; pongs and close frames | callers; a browser that replies in any order | `CdpConn` over `CommandChannel` |
| Chrome process, `pkg/cdp/chrome` | process group, connection | start, close within three seconds, kill, sweep | `CdpConn` | `Chrome` |
| Cloud SQL dialer, `pkg/cloud/gcp/cloud_sql/dialer` | per instance: connection information and a mutex held over requests | `Dial`, `connectionInfo`, `invalidate` | Admin API, token source, database | `Dialer` |
| Cloud SQL proxy, `cmd/cloudsql_proxy` | listener, connections in flight | accept, dial, pipe, run a command, stop | `Dialer` | `Proxy` |
| Call-once cache, `pkg/sync/cache_group` | entry per key: value, error, wait group | `Do` | callers of one key | `CacheGroup` over `Memo` |
| Goroutine group, `pkg/sync/errgroup` | first error, cancellation, wait group | `Go`, `Wait` | goroutines | `ErrGroup` |
| Loopback authorization, `pkg/oauth2/loopback` | channel of one result, server | redirect handler, wait, exchange | browser, context | `Loopback` |
| Journal handler, `pkg/log/handler/journal_handler` | priority shared by derived handlers, a lock | `Handle`, `Write` | concurrent loggers | `JournalHandler` |
| The rest (JOSE, CBOR, COSE, WebAuthn, header grammars, ABNF, JSON Schema, OpenAPI, code generation, cloud clients, DNS, packets, PDF, ...) | none that outlives a call, or a single critical section | pure functions, single requests | - | no, see section 7 |

How the parts interact.  A request goes through the mux: `ServeHttpWithCallback` asks the
firewall, `muxHandleRequest` finds the endpoint and runs the checks, of which the first is
rate limiting and another is authentication, which asks the key handler for a verifier;
the key handler fetches its set through `FetchWithRequest`, which retries.  The
handler's answer or the static content becomes a response, and `WriteResponse` sends it.
A `VhostMux` stands before several muxes and shares its writer with the one it picks.
Endpoints are made of files by an errgroup before anything is served, and `service` serves
a mux until a signal.  Apart from this, a `cloudsql_proxy` dials through the dialer, whose
Admin API requests go through `FetchWithRequest` as well, and a browser is launched by
`chrome` and driven through `cdp`.

What is hard, and what would make each part correct:

* **Rate limiter.**  Callbacks run on goroutines of their own, late and in any order.
  Correct: the count is the number of claims outstanding; no window holds more than the
  limit; a refusal comes with a time to come back that is honest; refusals end.
* **Rate limiting.**  The map is read and written outside its mutex, and cleanup, timer and
  request interleave.  Correct: the limit holds for a key, not only for one limiter
  object; a 429 has a cause; the entry of an idle key goes away.
* **Mux.**  Any step refuses or fails, also half way through writing; concurrent responses
  share one array of headers.  Correct: exactly one header is written; a response says
  what was built for its request; refusals can be read across origins; what needs a
  session stays out of shared caches; the endpoint is not changed by its requests.
* **Fetching.**  Contexts end at any instant; a wait comes from three sources and from
  multiplications that wrap; bodies are left unread on request.  Correct: no body leaks,
  no drained body is sent, nothing is repeated that the server settled, no retry for a
  caller that has stopped waiting, the wait is the one described.
* **Key handler.**  The set is replaced while others hold its old copy; half of a refresh
  may fail.  Correct: a verifier belongs to the set, a miss is honest, an unknown key id
  does not become a stream of fetches, every call returns where
  every fetch ends.
* **Browser connection.**  One reader serves everybody and must also write (pongs) under a
  mutex that a blocked writer may hold; replies come late, twice, in pieces.  Correct: a
  command gets its own reply or an error; the reader never blocks on a caller; only a
  closure ends a connection; every call ends.
* **Dialer.**  A mutex is held across requests and taken again after a failed handshake; the
  information used may be dropped by others meanwhile.  Correct: what failed is not used
  again by later dials, the API is asked only for cause, certificates outlive handshakes,
  every dial returns where every fetch ends.
* **Call-once cache.**  The map's mutex is not held while a function runs, and a function that
  panics still wakes those who wait for it.  Correct: a key has one answer; a zero value
  that nobody returned has a panic for its cause; nobody waits for ever.
* **Goroutine group, endpoint loading.**  Tasks fail in any order and some are never started.
  Correct: the error returned is the one the context was cancelled for; endpoints come of
  every file, in order, or not at all.
* **Choice between parsers, token authentication.**  A parser that admits cancels the others,
  whose verdicts then depend on when they look; accepting authenticators write one
  variable.  Correct: the verdicts decide and not the schedule, a refusal names the
  credential that was there, an exclusive choice admits by the only one.
* **Virtual hosts.**  Two muxes write through one writer, and the inner one may drop the
  connection without the outer one seeing it.  Correct: one of them answers, under its own
  default headers.
* **Service, proxy, Chrome, loopback.**  Stopping races with what is in progress, and with
  what fails by itself.  Correct: no error means that nothing was cut off; nothing that was
  started is left; the first redirect decides; whoever is asked to stop does.
* **Journal handler.**  A priority travels through a variable that handlers share.  Correct: no
  entry takes another's.

The full list, with lines, is `hazards` in `PROJECT.json`.

## 2. The modules

| Module | Models | Extends or uses |
|---|---|---|
| `RateLimiter` | one limiter | - |
| `RateLimiting`, `MCRateLimiting` | the requests of one key | - |
| `KeyHandler`, `MCKeyHandler` | one key handler | - |
| `CommandChannel` | what a browser connection promises | - |
| `CdpConn`, `MCCdpConn` | the connection | `INSTANCE CommandChannel WITH ended <- connErr` |
| `Dialer`, `MCDialer` | one instance's entry | - |
| `FetchRetry`, `MCFetchRetry` | one call of `FetchWithRequest` | - |
| `Mux`, `MCMux` | requests to one endpoint | - |
| `Memo` | what a call-once cache promises | - |
| `CacheGroup` | the calls of one group | `INSTANCE Memo WITH answer <- ..., got <- result` |
| `ErrGroup` | the actions of a goroutine group | - |
| `EndpointLoading` | three functions that load through a group | extends `ErrGroup` |
| `ParserChoice`, `JwtExtractor` | one request's parsers, authenticators | - |
| `VhostMux` | one request through two muxes | - |
| `Service` | one server and its end | - |
| `Proxy` | one `cloudsql_proxy` | - |
| `Chrome` | one browser process | - |
| `Loopback` | one `Authorize` | - |
| `JournalHandler` | records logged at once | - |
| `Coordination`, `MCCoordination` | `RateLimiter` and the ten components above it, one at a time | extends `RateLimiter`, `INSTANCE` of each other |

Proofs are in modules of their own: `RateLimiterProofs`, `RateLimitingProofs`,
`KeyHandlerProofs`, `CdpConnProofs`, `DialerProofs`, `FetchRetryProofs`, `MuxProofs` and
`CoordinationProofs`, each of which extends the module it is about (section 6).

Conventions.  A variable has the name of the field it models where there is one.  A
goroutine has a program counter `pc[...]`; an action is the code between two points at
which another goroutine can see or change something: a lock or unlock, a channel, a
request, a timer, the look at a context.  What happens under a mutex without such a point
is one action.  Outcomes of external code are disjuncts.  Definitions headed by a comment
`Fault:` are the mutants; no specification uses them.

### RateLimiter

`Bucket`, `insertionIndex` and `NumOccupied` are the fields; `pending` is the set of claims
whose timer has not run its callback; `claims` and `refusal` are what callers were told.
`Grant` and `Refuse` are the two ends of `Claim`, one critical section each; `Release(i)`
is the callback of claim i, a second before the claim expires or later; `Tick` is the
clock, in seconds.  In the regime "prompt" callbacks run in the order of their claims
within the second they are due, which the ring is designed for; in "any" they are as late
and as disordered as they like, which is what `time.AfterFunc` gives.

### RateLimiting

`table` is the map entry of the key, `mine[r]` the limiter that request r works with (a
limiter is named by the request that made it), `timer` and `armedAt` the cleanup timers,
`holders` the claims a limiter counts.  The actions are the steps of `HandleRateLimiting`:
`Arrive`, `Find` or `Miss`, `Create`, `StopTimer`, `ArmTimer`, `Claim`, with `Release` and
`CleanUp(t)` as callbacks.  `Claim` is the count of `RateLimiter` without its ring.  In the
regime "serial" a request meets no other in the handler and no cleanup, neither one that
runs nor one that is due and waits to run, and callbacks are as late as they may be; in
"timely" everything races, and nothing is more than `Lag` seconds late.  `StopTimer` may come
too late for a timer whose callback has started; in "serial", where no request meets a
cleanup, it does not.

### KeyHandler

A key set is a set of key ids.  `keys`, `keysExpiresAt`, `keysFetchedAt` and `keysMutex`
are fields, `verifiers` the cache behind the other mutex, `snapshot[c]` the slice `getKeys`
gave to caller c.  `Call`, `GetCached`, `StartFetch`, `FetchFails`, `FetchUndated`,
`FetchDated`, `RecordFetch`, `LookupHit`, `Build`, `BuildFails`, `Store`, `LookAgain` and
`GiveUp` are the steps of `GetNamedVerifier`.  A response is made in one step (`Respond`, which
keeps the set published at that moment in `incoming`), replaces the set in a later one, and
is recorded in `keysFetchedAt` in a third; the clock may advance, and the endpoint publish
another set, between any two of them.  `FetchUndated` keeps what the code does with a
response without an expiry: the set is replaced before the error.  `Rotate` and `Respond` are
the endpoint, external.  `attemptAt`, `fetchTook` and `snapshotTook` are history: when the
last fetch began, how long the last recorded one took, and what that was when a caller was
handed its set.  Regimes: "alone" (calls do not overlap, responses are dated), "sound"
(calls overlap, the endpoint always answers), "any".

### CommandChannel and CdpConn

`CommandChannel` is the promise: a command is open until it is answered, by the browser's
reply to that command, or fails, once; one sent after the connection ended fails.
`CdpConn` has the frames, streams of `Window` frames each way, fragments with control
frames between them, `writeMutex`, writes that block while the browser does not read, the
reader's pongs and close frame, `Register`/`Write`/`TakeResponse`/`GiveUp`/`Forget` of
`Call`, and `Dispatch`/`Deliver`/`Fail` of `read`.  The browser is external: "healthy", or
"faulty", which also repeats replies, sends what is no message and breaks the framing.
`AnswersMatch` is the refinement: `CdpConn`'s `outcome` and `replied` are the channel's,
and `connErr` its `ended`.

### Dialer

`info` is the entry's connection information, known by the fetch that made it and by when
it runs out; `mutex` the entry's mutex; `using` and `draft` a dial's copy and its
information under construction.  `Lock`, `UseCached`, `BeginFetch`, `GetConnectSettings`,
`Token`, `GenerateEphemeralCert` and `FetchFails` are `connectionInfo`; `Connect`,
`Handshake`, `HandshakeFails`, `GiveUp`, `Distrust` and `Invalidate` are the rest of `Dial`.
`Cancel` ends a caller's context; `causes` and `distrusted` are history.  The steps are grouped
by who decides that they happen: the goroutine (`OwnStep`), the API and the source of tokens
(`FetchStep`), the network and the database (`ConnectionStep`), the context (`HonourCancel`).

### FetchRetry

One call: `attempt`, `response`, `failed` (the error), `wait`, `done` (the context), `bodies`
(open response bodies), `unsent` (whether the request body is still whole).  Durations are
integers of `Width` bits and wrap as `time.Duration` does; `Second` is the number of units
in a second.  `Configs` is the retry configuration: with or without retrying, default or
custom checker, body left unread, replayable body, maximum wait.  `Ask` is
`retryWaitDuration`, whose `Advice` is the body's, else the header's, else `BackOff`.

### Mux

`endpoint` is the endpoint's configuration, fixed from `Init`.  `array` is the array under
the slice `StaticContent.Headers`, with some free places behind it; `response[r]` is a
slice of it or an array of the response's own; `Extend` is Go's `append`, which writes into
the shared array when it has room.  `pc[r]` names the check or the step of
`produceResponse` that comes next.  `AddHeader` adds one header to the writer's map, one
action each, since other requests can write into the array in between.  `WriteBody`,
`WriteFails`, `WriteError`, `ErrorFails` and `Fallback` are the rest of
`ServeHttpWithCallback`, where writing a response and writing the error about it can both
fail, before or after a header was written.

### Memo and CacheGroup

`Memo` is the promise: a key has one answer, decided once, and whoever returns gets it.
`CacheGroup` has `performer`, the call whose entry the map holds, `waitGroup`, its counter, and
`stored`.  `Find`, `Insert`, `Perform`, `Panic`, `Release`, `Awake` and `Return` are the steps of
`Do` and `performCall`; `Release` is the deferred `Done`, which runs after a panic too.
`Memoized` is the refinement: a key's answer is what is stored once its entry is released.

### ErrGroup and EndpointLoading

`ErrGroup` has no `Next`: it is the variables of a `Group` and the actions `Go`, `Succeed`,
`Fail`, `Record`, `Cancel`, `ComeLate` (the functions' ends around `errOnce`) and `Wait`, which
a user composes.  `EndpointLoading` is such a user, three of them by `source`: the walk of a
directory, the files of an archive, the encodings of a body.  They differ in what the loop
does once the context has ended (`PassOver`), in whether the walk itself can fail
(`WalkFails`, which leaves goroutines), and in whether a task may add nothing (`NoSmaller`).

### ParserChoice and JwtExtractor

`verdict[p]` is what a parser says when let be.  One whose context has ended may say
"interrupted" instead: which of the two is the race.  `Start`, `PassOver` and `Break` are the
loop, `Return` a parser's goroutine with the cancelling that an admission brings, `Decide`
all that follows the group's `Wait`, `GoAway` the caller's context.  In `JwtExtractor`, `token`
is the variable that authenticators without an error write without a lock; `Return` writes it
last-wins, which is every outcome of that race for a pointer.  One that returns neither a
token nor an error ("nothing") writes nil there.

### VhostMux

One request.  `defaults` is whose default headers the shared writer holds, `written` who
wrote a header on it and `under` whose defaults held then, `wire` what the client saw and
`recorded` what the `DoneCallback` was told.  The outer mux's firewall is `Accept`, `Reject`,
`Drop` and `HijackFails`; `RouteNowhere` and `RouteInside` are `vhostMuxHandleRequest`, with the
restoring of the defaults in `Return`; the inner mux is what `Mux` shows it to be: it writes
one header (`InnerAnswers`) or drops the connection (`InnerDrops`).

### Service

`server` and `served` are the goroutine that serves and the channel it leaves its error in;
`caller` is `serve`, with `ServingEnded`, `Stop`, `Shutdown` and `ShutdownLate`.  net/http's
server is external and does what its documentation says: `Serve` returns when shutting down,
a connection that is there can still bring a request, `Shutdown` waits for those in use.

### Proxy

`acceptor` is `serve`, `main` is `proxy`, `stage[c]` a connection from its arrival in the
listener's queue to its end, `copying[c]` the directions `pipe` still copies.  A dial returns,
with or without a connection, which is assumed here: `Dialer` shows it where fetches end.  `quitters` are the clients
that will end their connection by themselves.

### Chrome

`running` and `children` are the process and the rest of its group, `exited` the channel that
closes when `Wait` has returned.  `Obeys`, `Asked`, `Gone`, `Kill` and `Sweep` are `Close` and the
browser's answer to it; `Connects` and `LaunchFails` are `Launch`, which closes what it
started; `Cancel` is the killing of the group with the context.  `temper` is the browser:
one that obeys, one that ignores the request, one that reads no more.

### Loopback

`place` is the channel with one place that handlers offer a redirect to and `Authorize`
reads; `Answer` and `Offer` are a handler, `OpenUrl`, `Catch`, `GiveUp`, `Exchange` and
`Return` are `Authorize`.  `openUrl` may return after the redirect has come.

### JournalHandler

`current` is the priority that derived handlers share; `Lock`, `SetPriority`, `Write` and
`Unlock` are `Handle` with the write its encoder makes.

### Coordination

The small modules above and `RateLimiter` have a dozen variables each and a few hundred to
some ten thousand states; they are checked in one run.  The variable `part` picks, in the
initial state, whose behaviour this is; `Only(p)` leaves every other part as it began, in one
state fixed by `CoordinationInit`, so that the states are the sum of the parts' and not
their product.  Each part's property is guarded by its being picked.  `Progress` is the
parts' fair steps.

## 3. The runs

Passing runs check every invariant and temporal property their `.cfg` names; a run marked
*violation* shows that something the repository says of the code is not so (section 5).
Deadlock is not checked: every model here may rightly stop, when its bounded calls,
requests or clock are used up and everybody is idle.  Where somebody waiting for ever would
be the error, a liveness property says that nobody does.

**`rate_limiter_blind`** *(violation)*.  `NeverBlindRefusal`: a refusal carries a time.

**`rate_limiting`**.  `SerialKeyLimit`: while requests of the key do not race, its limit
stands through expiry, cleanup and re-creation of its limiter.  `RefusedForCause`: under a
timely scheduler, races included, a 429 means that the limit was used within the expiry.
`EntryExpires`: the entry of a key whose requests stopped goes away for good.
*Bounds:* three requests, limit 1, expiry 2, lag 1, last arrival at 4, clock to 10.  The
third request is what it takes to meet the cleanup of the first's limiter while the second
works with it; the clock runs on after the last arrival for every cleanup (two expiries
after the arming) to fall due.

**`rate_limiting_raced`** *(violation)*.  `KeyLimit`: the limit for requests that race.

**`key_handler`**.  `SoundRefetchSpaced`: with an endpoint that answers, an unexpired set is
not fetched twice within the interval, whoever asks.  `AnsweredFromTheSet` is two: when calls
do not overlap, a verifier is returned only for a key some cached set of the call named,
also after fetches that failed; and nil is returned only for a key that was not published
throughout the interval before the set was handed out and, before that, for as long as the
last recorded fetch took: `keysFetchedAt` is when a response was recorded, and its set was made
before that.  (Without that addition TLC refutes it at these bounds, with a response that takes
a second.)  `EveryCallReturns`: where no fetch lasts for ever, no call does.
*Bounds:* two callers with two calls each, one key, one rotation, clock to 2, interval 1,
sets that expire at once or after one second.  One key that comes and goes is every
key, since keys are looked up one by one; two callers suffice for each of the hazards,
which are between one that holds the mutex and one that waits or has just left.

**`key_handler_race`** *(violation)*.  `VerifierFromTheSet`: the same for calls that overlap.

**`cdp_conn`**.  `AnswersMatch`: the connection implements `CommandChannel`.
`ReaderNeverBlocks`: the channel the reader sends to has room or no reader left.
`OnlyAClosureEnds`: a healthy browser, with pings between fragments, cannot make the
connection fail otherwise than by closing.  `EveryCallEnds`: calls return when their
context or the connection ends, although the reader and the writers wait for each other's
mutex; and the reader notices the end.
*Bounds:* two callers, two commands in all, one extra frame of the browser, streams of one
frame.  A window of 1 blocks a writer at once; two commands let one be late while the other
is open; one extra frame is a ping between fragments, a repeated reply or a broken frame.

**`dialer`**.  `FreshAfterFailure`: a dial begun after another reported a failed handshake
uses nothing whose fetch had begun by then.  `FetchesForCause`: beyond the first, a fetch has a
cause of its own.  `ValidInHandshake`: a dial that takes no longer than the refresh buffer
shakes hands with what is still valid.  `EveryDialReturns`: where no fetch lasts for ever, a
dial whose context ends returns, and any dial whose own connecting and handshake end.
*Bounds:* two goroutines with three dials in all, buffer 1, certificates of 2, login tokens
of 0 or 1, clock to 2.  Three dials are one that fails, one that fetches meanwhile and one
that begins afterwards.

**`fetch_retry`**.  `BodiesClosed`: at most one body is open, and on return none that the caller
is not to read.  `SentWhole`: no drained body is sent.  `RetriedForCause`: what the server has
settled is not sent again, nor is anything for a caller that has stopped waiting.
`WaitsInRange`: the wait is the one `retryWaitDuration`'s comment describes, where a duration
can hold the delay that was advised, whether ahead or past.
*Bounds:* up to two retries of one call, every configuration, durations of 8 bits with 4
units to a second: a header of 31 seconds or a date that is negative, at the limit or
beyond it are all among the inputs, as they are with 64 bits, and so is a number of seconds
so far below zero that its product wraps to a positive wait.  The third attempt is the
last; nothing distinguishes more of them but the back-off, which doubles.

**`fetch_retry_overflow`** *(violation)*.  `WaitsAsDescribed`: the same for every delay.

**`mux`**.  `AnsweredOnce`: one header, never two and never none.  `SentAsBuilt`: a response
says what the endpoint answers to its request, unless the array has room *and* another
response is being made.  `RefusalsReadable`: a refusal after the look at CORS has the
CORS headers.  `GatedStaysPrivate`: nothing of an endpoint that is not public says
"public".  `EndpointUnchanged`: the endpoint's entries are what they were.
*Bounds:* two requests, all 96 kinds of endpoint, two encodings, arrays with no free place
or two.  Two responses are enough to overwrite each other; two places let one append twice
and move on the third.  Requests are interchangeable, which is used as a symmetry: no
temporal property is checked.

**`mux_shared`** *(violation)*.  `SaysItsOwn`: `SentAsBuilt` without its exception.

**`coordination`** (`Coordination.cfg`, module `MCCoordination`).  For each part in turn:

| Part | Properties | What they show |
|---|---|---|
| limiter | `Occupancy`, `WindowLimit`, `RetryHonoured` | the count equals the claims outstanding and fits the ring; no span of `Expiry - 1` seconds holds more than `Size` grants - one second less than the expiry, since slots are given back a second early; with prompt callbacks a refused caller that comes back when told, with no grant in between, is let in |
| cache | `Memoized`, in `WellTyped` `ZeroForCause` | `CacheGroup` implements `Memo`; a zero value nobody returned means that the function panicked in another call |
| load | `FirstErrorDecides`, `LoadedWhole` | the error returned is the cause of the cancellation, and there is one exactly where a task failed; endpoints come of every file and in order, or not at all, and nothing is added afterwards |
| choice | `AnsweredByVerdicts` | while the client stays, the verdicts decide, not the schedule; an earlier parser that would admit is passed over only where it was interrupted |
| jwt | `DecidedByAuthenticators` | a request is served under an accepted token, wherever there is one unless an authenticator returned nothing at all; a refusal is the first in their order |
| vhost | `AnsweredByOneMux` | one of two muxes answers, under its own defaults; the callback is told of that answer |
| proxy | `NothingLeftOpen` | when `proxy` returns every connection is closed at both ends and copied no more |
| chrome | `GroupGone` | when `Close` returns nothing of the group runs and the process is reaped |
| journal | `EntriesKeepPriority` | no entry has another record's priority |
| loopback | `FirstRedirectDecides` | the first redirect offered is the one caught; a token comes of its code alone |
| service | `ShutdownHonest` | a stop without an error left no request in progress |
| all | `WellTyped`, `NobodyWaitsForever` | every part's types; a full limiter does not stay full, and every call, load, parse, connection, browser, record, authorization and service comes to its end |

*Bounds:* ring of 2, expiry 3, 5 claims, clock to 7: five claims go round the ring twice and
a half, the least at which a slot is overwritten, given back by the wrong callback and used
again; 7 seconds are two expiries and one more.  Three calls of two keys: one performs, one
waits, one comes when it is over, or asks for something else.  Three files with three
rankings - in walk order, not in it, with equals: one that has failed, one that fails as
well, one not started.  Three parsers and three authenticators with every verdict: two that
compete and one before, between or behind them.  Two clients, connections, redirects and
records: all of these are about one that is in progress while another decides.  One
browser of each temper.  35,128 distinct states.

Every property of a passing run has a mutant under which it fails, so each would notice at
least that bug.  `TypeOK` is one definition per module; where the code has them it includes
facts that are not about types (who holds a mutex at which step).  `RefusedForCause`,
`ReaderNeverBlocks`, `FetchesForCause`, `SentWhole` and `RefusalsReadable` have their module's
`TypeOK` for a conjunct, `WellTyped` that of every small module.

## 4. Fairness

Only weak fairness is assumed, and of what the runtime or a context provides, with two
assumptions about others that are named as such:

* goroutines that can take a step of their own take one (`WF` of a caller's, dial's, request's
  or reader's step): Go's scheduler;
* in `coordination`, the goroutines of the part at hand, `WF(Progress)`; see below;
* a timer that is due runs its callback, and the clock advances (`RateLimiter`,
  `RateLimiting`): the runtime;
* connecting and a TLS handshake end once their context is done (`HonourCancel` of `Dialer`):
  `DialContext` and `HandshakeContext` promise it;
* assumed: the functions, dials and exchanges that the parts of `coordination` call return;
* assumed: a browser goes on reading what it is sent (`CdpConn`).  Without this `Call` can block in
  `WriteMessage`, which watches no context; that it replies is not assumed.

That a fetch ends is *not* assumed of `KeyHandler` and `Dialer`, for nothing in the code
provides it: the default client has no timeout (`fetch_config.go:31`), nor has the proxy's
(`cloudsql_proxy/main.go:235`), whose dials have no deadline (`main.go:251`) and whose tokens are
refreshed without cancellation (`main.go:86`); the login token's source takes no context
(`dialer.go:150`), and a caller of the key handler may bring one without a deadline.  Both hold a
mutex meanwhile whose `Lock` watches no context (`key_handler.go:60`, `dialer.go:96`), so that one
request that hangs keeps every later caller, also one that has given up.  `EveryCallReturns`
and `EveryDialReturns` therefore have `NoFetchForEver` for their hypothesis: with it they say that
a hanging fetch is the one way to wait for ever, and without it TLC refutes both.

A goroutine that waits for a mutex needs weak fairness only, for calls are bounded and the
mutex is in the end free for good; with unbounded calls this would rest on the fairness of
`sync.Mutex`, which gives way to a waiter after a millisecond.

`WF(Progress)` is one fairness condition for a whole part.  It stands for fairness to each of
its goroutines because no step of these parts can repeat: every behaviour has finitely
many steps, so that a condition on their disjunction lets none be left out that stays
possible.  What it contains is, for each part: `cache`, `load`, `choice`, `jwt`, `journal` - goroutines
run, and the functions, reads, parsers and writes they are given return; `proxy` - dials return, a
command is killed with its context, a closed listener refuses, clients in `quitters` quit;
`chrome` - time passes, an obedient browser obeys, killed processes are reaped; `loopback` -
`openUrl` and the exchange return; `service` - time passes and `Serve` returns when shutting
down.  What it does not: that a client of the proxy ends an idle connection, that a browser
exits or reads, that a redirect comes, that a request ends, that a context ends.

The theorems need no fairness: `WindowLimit`, for one, holds even where callbacks never run.
Those about `Dialer` and `Coordination` name a specification that has it and do not use it.

## 5. Where the code and what is said of it differ

1. `rate_limiter_blind`: two callbacks due together may run in either order; a slot is then
   overwritten while its claim is counted, and a full limiter can refuse with a nil expiry
   (`rate_limiting.go:28`), which `HandleRateLimiting` dereferences.  The limit itself holds.
2. `rate_limiting_raced`: two first requests of a key both miss the map, each stores a
   limiter and claims from its own.
3. `key_handler_race`: a caller stores a verifier of the old set after the set was replaced
   and the cache cleared.
4. `fetch_retry_overflow`: the seconds of a `Retry-After` are multiplied unchecked; a wrapped
   delay passes for none, where the comment says that the caller gives up.  A number far below
   zero wraps to a wait that nobody advised; `WaitsInRange` excepts both.
5. `mux_shared`: a response to static content *is* the endpoint's header slice; appends of
   concurrent responses land in the same free places, so that one is sent with the
   headers of another.  The comment on `privateCacheControlHeaders` says why they must not.

`findings` in `PROJECT.json` has the lines and the quotations.

What the models also show, without a run of its own, since the code's comments leave it
open or qualify it (where a property meets one of these, it states the exception):

* A cleanup that `Timer.Stop` comes too late for (`mux.go:79`) leaves its request's own cleanup
  timer behind in a limiter that is no longer in the map.  Nothing stops that timer, and
  when it comes due it deletes by key (`mux.go:87`), which by then is the entry of a successor
  that counts claims: the next request starts from an empty limiter, and the key's limit is
  exceeded without a race on the map.  It takes four requests, an expiry of three seconds
  and a callback that comes due, and has not taken the mutex, while a request is in the handler
  and has not stopped the timer.  An attempt to prove `SerialKeyLimit` found it; the regime
  "serial" leaves out that first step.
* `serve` of the proxy ends with any error of `Accept` (`main.go:113`); `proxy` then waits on
  and nothing accepts, although it "serves until ctx ends" (`main.go:178`).  An idle client
  keeps a stopped proxy from returning: `ProxyStops` is about clients that quit.
* `Browser.Close` sends its request without a deadline on the write (`chrome.go:148`): a
  browser that reads no more holds it until the context of `Launch` ends.
* A service whose `Serve` fails returns at once, with requests in progress.
* The outer mux's `DoneCallback` is told of an answer where the inner mux dropped the
  connection, and is not called where dropping it failed.
* A caller that goes away while an exclusive choice is made can have it decided by the
  parsers that were not interrupted.
* A directory walk that fails returns while the goroutines it started go on.
* Files whose paths and methods are equal come in any order.
* Of several authenticators that accept, a data race decides whose token it is; and one that
  returns neither a token nor an error may overwrite an accepted one with nil
  (`jwt_extractor.go:77`), upon which the request is refused.
* A response without a usable expiry replaces the key set (`key_handler.go:97`) and then fails
  the fetch; the expiry and the verifiers stay.  While the old expiry lasts, a verifier of a
  key that the new set does not name is still served, without any overlap of calls:
  `VerifierFromTheSet` fails for one caller in the regime "any" with two key ids, one of which
  makes it fetch.  `LoneVerifierFromTheSet` is about dated responses.
* A fetch that hangs under the key handler's or the dialer's mutex keeps every caller that
  needs it, whatever their contexts say (section 4).
* A fetch that fails records no time, so that each miss may fetch again at once
  (`RefetchSpaced` fails): `SoundRefetchSpaced` is about an endpoint that answers.

## 6. What is proved

All proofs are checked by TLAPS to the last leaf.  They hold for every value of the
constants that satisfies the named assumptions of the modules, so for any number of
requests, callers, goroutines, files, parsers or clients.  Every safety property that a
passing run checks is the statement of a theorem, with the same definition; `theorems` in
`PROJECT.json` pairs them.  Each proof has an inductive invariant, which TLC checked on the
instance of the run before it was proved.

### `RateLimiterProofs`

Assumes `Size > 0` and that `Expiry` and the bounds are naturals.  `OccupancyCorrect`,
`WindowLimitCorrect`: `WindowLimit` is not inductive, since that a grant keeps it depends on why
there is room.  `IInv` adds `RecentArePending` - a claim whose timer is not due is still
counted - and `Occupancy`.  When `Claim` grants, the claims of the last `Expiry - 1` seconds
are among those counted, which are fewer than `Size`; windows that ended earlier have not
changed.  So the limit needs only that callbacks are not early, and neither order nor
delay matters.

`RetryHonouredCorrect`, for `Expiry > 0` (without an expiry a callback is due before it is set,
and no callback can be prompt), from `InOrder` and `PromptInv`: with prompt callbacks the claims
counted are the last ones granted, in the ring's order, so that a full limiter's next slot is
that of its oldest claim, whose callback is due a second before the time the refusal gave.

### `RateLimitingProofs`

Assumes finitely many requests, and `Size` and `Expiry` above 0.  The invariant `KeyInv` is
`Counting` in every regime - a limiter counts only claims it let through, at most `Size`, and
each until its callback is due - and one part for each regime.

* `SerialKeyLimitCorrect`, from `OneLimiter`: the request in the handler works with the limiter
  in the map, a limiter that counts anything is that one, and the one cleanup timer armed is
  the one its `Timer` field holds.  So a cleanup that drops the entry drops a limiter that
  counts nothing, the claims of the last `Expiry - 1` seconds are all counted by one limiter
  (`RecentCounted`), and a window that has passed gains none (`PastWindow`).
* `RefusedForCauseCorrect`, from `Timely`: a limiter that refuses counts `Size` claims, and none of
  them is older than the expiry and the delay, for else its callback would have run.

The proof failed at first where it should have: see section 5.

### `KeyHandlerProofs`

Assumes times that are integers and regimes of the three kinds.  `KeyInv` says what a call in
progress was handed (`CallInv`), that calls which do not overlap leave no verifier of an old
set (`AloneInv`), that an endpoint which answers has its last fetch recorded (`SoundInv`), and
since when what is not cached has been published: since the last recorded fetch began, at the
earliest, or the one in progress (`PublishedInv`).  From it `TypeCorrect`,
which contains that each step is under the mutex it should be under,
`SoundRefetchSpacedCorrect`, and `AnsweredFromTheSetCorrect`, of which
`LoneVerifierFromTheSetCorrect` and `AbsentIsRecentCorrect` are the two halves.  The second
holds however long requests and responses take; it needs `AbsentInv` and `Interval > 0`:
within one second a set may be fetched and then change, so that an interval of none promises
nothing.  The code's default is a minute.

### `CdpConnProofs`

Assumes the bounds to be naturals, a window of one frame or more, that "reader" and `Nil`
are no callers, and that `Nil` is no command's id.  `CdpInv` is about ids, used once and undecided while their call is in
progress (`IdsInv`); about what either side has heard of, which are commands that were sent
and replies that were made (`HeardInv`); about a response, the reply to the command of the
call that has it (`ResponseInv`); and about the stream of a healthy browser (`HealthyInv`),
where a sequence of half-read messages links each frame to the next across control frames.

* `AnswersMatchCorrect`: `CdpConn` implements `CommandChannel`.  `Call` maps to the channel's
  `Ask`, `BrowserReplies` to `Reply`, `TakeResponse` to `Answer`, `Refuse` and `Forget` to `Fail`,
  the reader's failures and its farewell to `End` or, once ended, to nothing; every other
  step is a stutter (`ChannelStep`).
* `ReaderNeverBlocksCorrect`: the call the reader delivers to has no response yet.
* `OnlyAClosureEndsCorrect`: what a healthy browser's frames make up is whole messages, so
  that the reader ends only by a close, which comes of a closure by one of the two sides.

### `DialerProofs`

For any finite set of dialing goroutines, any number of dials and any lives of certificates
and tokens (`Setting`, `LifeAssumption`):

* `FreshAfterFailureCorrect` and `ValidInHandshakeCorrect`, from `Typed`, `Held`, `Trusted` and
  `Valid`.  `Held` is mutual exclusion: the mutex is its holder's, and a fetch in progress is the
  last one begun, after everything distrusted.  `Trusted` then says that the entry
  never holds what is distrusted, and `Valid` that a dial that did not fetch took information
  that was fresh after it began.
* `FetchesForCauseCorrect`, from `CountInv`, an account of three lines: fetches and the dials
  yet to fetch are at most the dials; open connections are those handed out and those in
  a handshake; fetches and the dials about to drop the information are at most the causes
  and one, the one being there while information is there or being fetched.  The lemmas
  `CountMove` and `CountsMove` say how a step of one goroutine changes such counts.

### `FetchRetryProofs`

Assumes that advice and back-off are durations (`DurationAssumption`) and two facts of
arithmetic on powers of two that the provers do not have (`PowerAssumption`); any width, any
number of attempts.  `FetchInv` gives `BodiesClosedCorrect` (`BodyInv`: the one body open is
that of the last response, where it was handed over unread), `SentWholeCorrect` and the
attempts' count (`CountInv`), `RetriedForCauseCorrect` (`CauseInv`: nothing is ahead of a response that settles the
request; `DoneInv`: the last look at the context was before it ended) and
`WaitsInRangeCorrect` (`WaitInv`: a wait is computed without wrapping where what was advised fits a
duration, by cases on its source).  `WaitsInRange` once excepted only delays too large for a
duration; its proof failed on a negative number of seconds, and TLC, given one far enough
below zero, found the wait that nobody described.  The exception is now about both ends.

### `MuxProofs`

Assumes that `Nobody` is no request, that the endpoints are records of the stated kind, that the
array has a natural number of free places, and that the names of headers are not names of
encodings (`EncodingAssumption`); for any number of requests:

* `AnsweredOnceCorrect`, from `Written`: where in its life a request can have had a header
  written.  Inductive by itself.
* `EndpointUnchangedCorrect`, from `Shape`: a response's slice of the shared array always
  covers the endpoint's own two entries, so that an append goes behind them.
* `GatedStaysPrivateCorrect`, from `Shape` and `Gated`: "public" is nowhere in the shared array
  but among the endpoint's own entries; a response past `Private` is either an array without
  it or a slice of an array whose endpoint entry is not "public"; what is already in the
  writer's map does not have it.  This is the argument that the overwriting of finding 5
  cannot undo the privacy of a response: what others write there never says "public".
* `RefusalsReadableCorrect` and `SentAsBuiltCorrect`, from `Faithful`: what a request's response
  says at each step of its making (`Built`) and how much of it was sent (`Responding`), that a
  refusal is made of the CORS headers and sends them (`Refusing`), and that two responses which
  share the array know of one another (`Aware`).  An append by another request does not
  change a response that is not overlapped (`StepUndisturbed`), and the append of the request itself
  adds what the step says (`ExtendContent`, `AddedShape`).

### `CoordinationProofs`

The theorems are about `CoordinationSpec`, of which the run is an instance: a component's steps
leave the others' variables alone (`Only`), so that a behaviour of `CoordinationSpec` is one
of each component (`CacheAlone`, `LoadAlone`, `LimiterAlone`), or its invariant is kept
by each step of `CoordinationNext`.  The assumptions say that `Nil`, `None` and `Cancelled`
are nothing else, and that files, parsers and authenticators are counted.

* `MemoizedCorrect`: `CacheGroup` implements `Memo`.  `Release` maps to `Decide`, `Return` to
  `Return`, the rest to stuttering; the mapping needs `Held` (the performer of a key is the call
  that holds its wait group, so nobody stores after the release) and `Waited` (nobody is past
  the wait before it).  `ZeroForCauseCorrect`, from `Caused`.
* `FirstErrorDecidesCorrect`, from `Settled` (the error is that of a failed task which is past
  `errOnce` or alone in it) and `Answered`; `LoadedWholeCorrect`, from `Added` (what was added is
  what succeeded, each once), `Launched` (without a failure every file is started) and `Whole`.
* `AnsweredByVerdictsCorrect` and `DecidedByAuthenticatorsCorrect`, from `ChoiceInv` and `JwtInv`:
  what was said so far is what the verdicts were or, with another's cancelling,
  "interrupted"; at the end everybody has spoken.  Which is the first in order rests on a lemma, `Least`: a
  set of naturals that is not empty has a least one, from the well-foundedness of `<`.
* `AnsweredByOneMuxCorrect`, `NothingLeftOpenCorrect`, `GroupGoneCorrect`,
  `EntriesKeepPriorityCorrect`, `FirstRedirectDecidesCorrect` and `ShutdownHonestCorrect`, each
  from the invariant of its part (`VhostInv`, `ProxyInv`, `ChromeInv`, `JournalInv`, `LoopbackInv`,
  `ServiceInv`), which relates where each goroutine is to what is open, running, written or
  caught.
* `WellTypedCorrect`, from all of them.

### Only model-checked

Liveness: `NobodyWaitsForever`, `EntryExpires`, `EveryCallReturns`, `EveryCallEnds` and
`EveryDialReturns`, which rest on fairness and `ENABLED`, out of the prover's reach; and the
violations of section 5, which are behaviours.

## 7. What is left out

In the modelled parts: wording, logging, formats and the content of messages; the parsing
of requests, headers and keys, which is a choice between its outcomes; cryptography;
`Mux`'s default and document headers, with the dropping of `Vary` under a default `no-store`
(`response_writer.go:297`), and the headers of a refusal's own, such as `Retry-After`, compression on the fly and streamed bodies, and the
changing of the endpoint map, which is built before serving; the network below a
WebSocket or TLS connection; in `Dialer`, instances other than one, which share only a map;
in `EndpointLoading`, what an endpoint is made of from a path and its data, and directories
among the files; in `Service`, the endpoints it makes before it serves; in `Chrome`, the
flags, the port and the pages; in `VhostMux`, the choice of a certificate.  A function given
to an errgroup that panics ends the program.  Time is whole seconds (or units), coarser
than the code's.

Not modelled at all are the packages without state that outlives a call: encoders, decoders,
validators, parsers of grammars, generators of code and documents, cryptographic wrappers,
and clients of cloud services, each of whose calls is one fetch and a decode.  So are those
whose state is one critical section: the reuse of OAuth2 tokens and the cache of script
hashes.  The entry size guard and the argument parser are sequential.  `components` in
`PROJECT.json` gives the reason for each.

The repository's size says little of the share that is modelled.  Of its 340,000 lines
some 240,000 are tables and translated C of one compression library (`pkg/brotli/internal`), and most of
what remains is data types, grammars and generated validators.  The parts in which
goroutines, timers or remote parties meet over shared state, which is what these models are
for, are modelled but for those named above.

## 8. Plan

1. Theorems: a key's window as an abstract specification (`WindowLimit` as a specification that
   `RateLimiter` and the serial `RateLimiting` implement), and the step from one limiter to the
   key's, so that `RateLimiting` need not repeat `RateLimiter`'s count; a bound on how far a
   key's limit is exceeded in the regime "timely"; the step properties behind the liveness of
   `KeyHandler` and `Dialer` (a measure that every fair step lowers).
2. `Mux`: changing the endpoint map while serving; the length of a body.
3. The entry size guard and the argument parser, as operators checked over bounded inputs.
4. The reuse of OAuth2 tokens, if its expiry is to be related to the requests made with it.
