------------------------------ MODULE Service ------------------------------
(***************************************************************************)
(* Serving until asked to stop (pkg/http/service): one goroutine serves    *)
(* and leaves its error in a channel with one place; serve waits for it or *)
(* for the context, and then gives the requests in progress the shutdown's *)
(* time.  net/http's server is modelled as its documentation has it: a     *)
(* shutdown makes Serve return at once, lets no connection in, and returns *)
(* when no connection is in use or its context ends.                       *)
(***************************************************************************)
CONSTANTS
  Requests,  \* requests that may come
  None       \* nothing

VARIABLES
  ctxDone,  \* whether the service is asked to stop
  stage,    \* where each request, on a connection of its own, is
  server,   \* where the goroutine that serves is
  served,   \* what it left in the channel
  caller,   \* where serve is
  shutting, \* whether the server is shutting down
  timeUp,   \* whether the shutdown's time has passed
  err       \* what serve returned

vars == <<ctxDone, stage, server, served, caller, shutting, timeUp, err>>

TypeOK ==
  /\ ctxDone \in BOOLEAN /\ shutting \in BOOLEAN /\ timeUp \in BOOLEAN
  /\ stage \in [Requests -> {"away", "connected", "handled", "over"}]
  /\ server \in {"serving", "failed", "closed", "done"}
  /\ served \in {None, "nil", "failure"}
  /\ caller \in {"waiting", "stopping", "returned"}
  /\ err \in {None, "nil", "failure", "timeout"}

Init ==
  /\ ctxDone = FALSE /\ stage = [r \in Requests |-> "away"]
  /\ server = "serving" /\ served = None
  /\ caller = "waiting" /\ shutting = FALSE /\ timeUp = FALSE /\ err = None

Busy == \E r \in Requests : stage[r] \in {"connected", "handled"}
Becomes(r, s) == stage' = [stage EXCEPT ![r] = s]
Returns(e) == caller' = "returned" /\ err' = e

----------------------------------------------------------------------------
(* The server and its requests *)

ContextEnds ==
  /\ ~ ctxDone /\ ctxDone' = TRUE
  /\ UNCHANGED <<stage, server, served, caller, shutting, timeUp, err>>

Accept(r) ==
  /\ server = "serving" /\ ~ shutting
  /\ stage[r] = "away" /\ Becomes(r, "connected")
  /\ UNCHANGED <<ctxDone, server, served, caller, shutting, timeUp, err>>

\* The request comes on a connection that is there, be the server stopping or not.
Begin(r) ==
  /\ stage[r] = "connected" /\ Becomes(r, "handled")
  /\ UNCHANGED <<ctxDone, server, served, caller, shutting, timeUp, err>>

\* A request ends, or a connection no request came on is closed.
Finish(r) ==
  /\ stage[r] \in {"connected", "handled"} /\ Becomes(r, "over")
  /\ UNCHANGED <<ctxDone, server, served, caller, shutting, timeUp, err>>

\* Serve returns: accepting fails, or the server is shutting down.
ServeFails ==
  /\ server = "serving" /\ server' = "failed"
  /\ UNCHANGED <<ctxDone, stage, served, caller, shutting, timeUp, err>>

ServeCloses ==
  /\ server = "serving" /\ shutting /\ server' = "closed"
  /\ UNCHANGED <<ctxDone, stage, served, caller, shutting, timeUp, err>>

\* Fault: the channel has no place, and its reader may have gone.
LeaveUnbuffered ==
  /\ server \in {"failed", "closed"} /\ caller = "waiting"
  /\ served' = IF server = "failed" THEN "failure" ELSE "nil"
  /\ server' = "done"
  /\ UNCHANGED <<ctxDone, stage, caller, shutting, timeUp, err>>

Leave ==
  /\ server \in {"failed", "closed"}
  /\ served' = IF server = "failed" THEN "failure" ELSE "nil"
  /\ server' = "done"
  /\ UNCHANGED <<ctxDone, stage, caller, shutting, timeUp, err>>

----------------------------------------------------------------------------
(* serve *)

ServingEnded ==
  /\ caller = "waiting" /\ served # None
  /\ Returns(served)
  /\ UNCHANGED <<ctxDone, stage, server, served, shutting, timeUp>>

Stop ==
  /\ caller = "waiting" /\ ctxDone
  /\ caller' = "stopping" /\ shutting' = TRUE
  /\ UNCHANGED <<ctxDone, stage, server, served, timeUp, err>>

\* The shutdown's time passes; a request may well take longer.
TimePasses ==
  /\ caller = "stopping" /\ ~ timeUp /\ timeUp' = TRUE
  /\ UNCHANGED <<ctxDone, stage, server, served, caller, shutting, err>>

\* Fault: the requests in progress are not waited for.
ShutdownAtOnce ==
  /\ caller = "stopping" /\ Returns("nil")
  /\ UNCHANGED <<ctxDone, stage, server, served, shutting, timeUp>>

\* Shutdown looks for requests in progress before it looks at its context.
Shutdown ==
  /\ caller = "stopping" /\ ~ Busy /\ Returns("nil")
  /\ UNCHANGED <<ctxDone, stage, server, served, shutting, timeUp>>

ShutdownLate ==
  /\ caller = "stopping" /\ Busy /\ timeUp /\ Returns("timeout")
  /\ UNCHANGED <<ctxDone, stage, server, served, shutting, timeUp>>

Step == ServeCloses \/ Leave \/ ServingEnded \/ Stop \/ TimePasses \/ Shutdown \/ ShutdownLate

Next ==
  \/ Step
  \/ ContextEnds \/ ServeFails
  \/ \E r \in Requests : Accept(r) \/ Begin(r) \/ Finish(r)

Spec == Init /\ [][Next]_vars

(***************************************************************************)
(* Goroutines run and time passes.  A request need not end, nor the        *)
(* service be asked to stop.  No step repeats.                             *)
(***************************************************************************)
Fairness == WF_vars(Step)

----------------------------------------------------------------------------
(* Properties *)

\* "lets the requests it is handling finish": a service that stopped and returned no
\* error has no request in progress and takes no more, although requests still come,
\* on the connections there are, while it is being stopped.
ShutdownHonest ==
  err = "nil" => ~ Busy /\ shutting

\* Asked to stop, or unable to serve, the service returns; and the goroutine that
\* served ends in either case, whether anyone still reads what it leaves.
ServiceStops ==
  /\ (ctxDone \/ server # "serving") ~> caller = "returned"
  /\ caller = "returned" ~> server = "done"
=============================================================================
