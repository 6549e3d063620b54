---------------------------- MODULE Coordination ----------------------------
(***************************************************************************)
(* The components that coordinate a few goroutines, side by side: a        *)
(* behaviour is one component's, chosen by "part", while the others stay   *)
(* as they began.                                                          *)
(***************************************************************************)
EXTENDS RateLimiter

CONSTANTS
  Calls,               \* calls of a cache group,
  Keys,                \* what they ask for,
  Answers,             \* what a function may return,
  Zero,                \* and the zero value
  Files,               \* how many files are loaded,
  Rankings,            \* the orders of their paths,
  Cancelled,           \* and the cause of a context that ended without an error
  ParserCount,         \* how many parsers a request is given to
  AuthenticatorCount,  \* how many authenticators a token is
  Clients,             \* the clients of a proxy
  Records,             \* the records of a journal
  Redirects,           \* the requests a loopback address gets
  Requests,            \* the requests a service gets
  None                 \* none of those

\* What stands for nobody, nothing, no error and no cause is nothing else, no function
\* returns the zero value for an answer, and files, parsers and authenticators are
\* counted.
ASSUME CacheAssumption ==
  Nil \notin Calls \union Answers \union {Zero} /\ Zero \notin Answers
ASSUME LoadAssumption ==
  /\ Files \in Nat /\ Rankings \subseteq [1 .. Files -> Int]
  /\ Nil \notin 1 .. Files /\ Cancelled \notin 1 .. Files /\ Nil # Cancelled
ASSUME CountAssumption == ParserCount \in Nat /\ AuthenticatorCount \in Nat
ASSUME NoneAssumption ==
  None \notin Redirects \union {"nil", "failure", "timeout", "token", "refused", "error"}

VARIABLES
  part,
  key, pc, performer, waitGroup, stored, result,
  stage, err, cause, failures, source, rank, next, loader, loaded, answer,
  exclusive, parserVerdict, gone, cancelled, nextParser, parserStage, said, parsed,
  extracted, verdict, authStage, token, errs, authenticated,
  requestPc, defaults, written, under, wire, recorded,
  mode, proxyDone, commandOver, main, acceptor, listening, clientStage, copying, closed,
  quitters, ended,
  temper, chromeDone, running, children, exited, closer, timeUp,
  level, recordPc, current, entry,
  says, redirectStage, place, caught, first, authorizeDone, serving, authorizer, outcome,
  serviceDone, connStage, server, served, serveStage, shutting, shutdownUp, serveErr

Cache == INSTANCE CacheGroup
Load == INSTANCE EndpointLoading WITH Tasks <- 1 .. Files, Last <- Files
Choice == INSTANCE ParserChoice WITH
  Last <- ParserCount, Verdicts <- {"admits", "refuses", "absent", "nil"},
  verdict <- parserVerdict, next <- nextParser, stage <- parserStage, answer <- parsed
Jwt == INSTANCE JwtExtractor WITH
  Last <- AuthenticatorCount, Verdicts <- {"token", "nothing", "sub", "invalid", "fault", "nil"},
  stage <- authStage, answer <- authenticated
Vhost == INSTANCE VhostMux WITH
  Layers <- {"outer", "inner"}, Nobody <- "nobody", pc <- requestPc
Proxy == INSTANCE Proxy WITH ctxDone <- proxyDone, stage <- clientStage
Browser == INSTANCE Chrome WITH ctxDone <- chromeDone, caller <- closer
Journal == INSTANCE JournalHandler WITH pc <- recordPc
Authorization == INSTANCE Loopback WITH
  Requests <- Redirects, stage <- redirectStage, ctxDone <- authorizeDone, caller <- authorizer
Serving == INSTANCE Service WITH
  ctxDone <- serviceDone, stage <- connStage, caller <- serveStage, timeUp <- shutdownUp,
  err <- serveErr

cache == <<key, pc, performer, waitGroup, stored, result>>
load == <<stage, err, cause, failures, source, rank, next, loader, loaded, answer>>
choice == <<exclusive, parserVerdict, gone, cancelled, nextParser, parserStage, said, parsed>>
jwt == <<extracted, verdict, authStage, token, errs, authenticated>>
vhost == <<requestPc, defaults, written, under, wire, recorded>>
proxy == <<mode, proxyDone, commandOver, main, acceptor, listening, clientStage, copying,
           closed, quitters, ended>>
chrome == <<temper, chromeDone, running, children, exited, closer, timeUp>>
journal == <<level, recordPc, current, entry>>
loopback == <<says, redirectStage, place, caught, first, authorizeDone, serving, authorizer,
              outcome>>
service == <<serviceDone, connStage, server, served, serveStage, shutting, shutdownUp, serveErr>>

\* Each component's variables are its own, so the others' stand by.
Only(p) ==
  /\ part = p /\ UNCHANGED part
  /\ p # "limiter" => UNCHANGED vars
  /\ p # "cache" => UNCHANGED cache
  /\ p # "load" => UNCHANGED load
  /\ p # "choice" => UNCHANGED choice
  /\ p # "jwt" => UNCHANGED jwt
  /\ p # "vhost" => UNCHANGED vhost
  /\ p # "proxy" => UNCHANGED proxy
  /\ p # "chrome" => UNCHANGED chrome
  /\ p # "journal" => UNCHANGED journal
  /\ p # "loopback" => UNCHANGED loopback
  /\ p # "service" => UNCHANGED service

Parts == {"limiter", "cache", "load", "choice", "jwt", "vhost", "proxy", "chrome", "journal",
          "loopback", "service"}

\* What a component that stands by would have chosen is fixed.
CoordinationInit ==
  /\ part \in Parts
  /\ Init /\ (part # "limiter" => regime = "any")
  /\ part # "cache" => key = [c \in Calls |-> CHOOSE k \in Keys : TRUE]
  /\ Cache!Init
  /\ part # "load" => source = "archive" /\ rank = (CHOOSE r \in Rankings : TRUE)
  /\ Load!Init
  /\ part # "choice" => exclusive = FALSE /\ parserVerdict = [p \in 1 .. ParserCount |-> "nil"]
  /\ Choice!Init
  /\ part # "jwt" => extracted = "empty" /\ verdict = [a \in 1 .. AuthenticatorCount |-> "nil"]
  /\ Jwt!Init
  /\ Vhost!Init
  /\ part # "proxy" => mode = "forward" /\ quitters = {}
  /\ Proxy!Init
  /\ part # "chrome" => temper = "obeys"
  /\ Browser!Init
  /\ part # "journal" => level = [r \in Records |-> "info"]
  /\ Journal!Init
  /\ part # "loopback" => says = [r \in Redirects |-> "stray"]
  /\ Authorization!Init
  /\ Serving!Init

CoordinationNext ==
  \/ Only("limiter") /\ Next
  \/ Only("cache") /\ Cache!Next
  \/ Only("load") /\ Load!Next
  \/ Only("choice") /\ Choice!Next
  \/ Only("jwt") /\ Jwt!Next
  \/ Only("vhost") /\ Vhost!Next
  \/ Only("proxy") /\ Proxy!Next
  \/ Only("chrome") /\ Browser!Next
  \/ Only("journal") /\ Journal!Next
  \/ Only("loopback") /\ Authorization!Next
  \/ Only("service") /\ Serving!Next

Progress ==
  \/ Only("limiter") /\ (Tick \/ \E i \in DOMAIN claims : Release(i))
  \/ Only("cache") /\ Cache!Next
  \/ Only("load") /\ Load!Next
  \/ Only("choice") /\ Choice!Step
  \/ Only("jwt") /\ Jwt!Next
  \/ Only("proxy") /\ Proxy!Step
  \/ Only("chrome") /\ Browser!Step
  \/ Only("journal") /\ Journal!Next
  \/ Only("loopback") /\ Authorization!Step
  \/ Only("service") /\ Serving!Step

all == <<part, vars, cache, load, choice, jwt, vhost, proxy, chrome, journal, loopback, service>>

CoordinationSpec == CoordinationInit /\ [][CoordinationNext]_all /\ WF_all(Progress)

----------------------------------------------------------------------------
(* Properties *)

\* Every component's state has its type, and a cache group's zero value its cause.
WellTyped ==
  /\ TypeOK /\ Cache!TypeOK /\ Load!TypeOK /\ Choice!TypeOK /\ Jwt!TypeOK /\ Vhost!TypeOK
  /\ Proxy!TypeOK /\ Browser!TypeOK /\ Journal!TypeOK /\ Authorization!TypeOK /\ Serving!TypeOK
  /\ Cache!ZeroForCause

\* A group of calls is one answer for each key: CacheGroup implements Memo.
Memoized == Cache!Memoized

\* Endpoint loading: a group's first error is its error and its context's cause.
FirstErrorDecides == part = "load" => Load!FirstErrorDecides

\* Endpoint loading: all the files in their order, or none.
LoadedWhole == part = "load" => Load!LoadedWhole

\* The choice between parsers: the verdicts decide, in the order declared.
AnsweredByVerdicts == part = "choice" => Choice!AnsweredByVerdicts /\ Choice!PrecedenceHonoured

\* Token authentication: the authenticators and their order decide.
DecidedByAuthenticators == part = "jwt" => Jwt!DecidedByAuthenticators

\* Virtual hosts: one of two muxes answers, under its own defaults.
AnsweredByOneMux == part = "vhost" => Vhost!AnsweredByOneMux

\* The proxy: what it started is closed when it returns.
NothingLeftOpen == part = "proxy" => Proxy!NothingLeftOpen

\* Chrome: nothing of its group runs once it is closed.
GroupGone == part = "chrome" => Browser!GroupGone

\* The journal: no entry with another record's priority.
EntriesKeepPriority == part = "journal" => Journal!EntriesKeepPriority

\* Loopback authorization: the first redirect offered is the one caught.
FirstRedirectDecides == part = "loopback" => Authorization!FirstRedirectDecides

\* The service: no error means no request in progress.
ShutdownHonest == part = "service" => Serving!ShutdownHonest

\* Nobody waits for ever: a full limiter is relieved, and calls, loads, parses,
\* connections, browsers, records, authorizations and services come to their ends.
NobodyWaitsForever ==
  /\ part = "limiter" => RefusalsEnd
  /\ part = "cache" => Cache!EveryCallEnds
  /\ part = "load" => Load!LoadingEnds
  /\ part = "choice" => Choice!ParseEnds
  /\ part = "jwt" => Jwt!ExtractionEnds
  /\ part = "proxy" => Proxy!ProxyStops
  /\ part = "chrome" => Browser!BrowserEnds
  /\ part = "journal" => Journal!EveryRecordReturns
  /\ part = "loopback" => Authorization!AuthorizeReturns
  /\ part = "service" => Serving!ServiceStops
=============================================================================
