------------------------------ MODULE Loopback ------------------------------
(***************************************************************************)
(* Authorizing an installed application (pkg/oauth2/loopback): Authorize   *)
(* serves the address the browser is redirected to, has the user sent to   *)
(* the authorization page and waits for the one redirect that carries its  *)
(* state.  A handler passes what it caught through a channel with one      *)
(* place, and drops it when the place is taken.                            *)
(***************************************************************************)
CONSTANTS
  Requests,  \* requests the loopback address gets
  None       \* nothing

VARIABLES
  says,     \* what each request carries
  stage,    \* where its handler is
  place,    \* the redirect in the channel
  caught,   \* the one Authorize took from it
  first,    \* the first request that offered one
  ctxDone,  \* whether the context has ended
  serving,  \* whether the server serves
  caller,   \* where Authorize is
  outcome   \* what it returns

vars == <<says, stage, place, caught, first, ctxDone, serving, caller, outcome>>

\* Another path or state; a denial; no code; a code.
Contents == {"stray", "denied", "codeless", "code"}

TypeOK ==
  /\ says \in [Requests -> Contents]
  /\ stage \in [Requests -> {"away", "answered", "over"}]
  /\ place \in Requests \union {None} /\ caught \in Requests \union {None} /\ first \in Requests \union {None}
  /\ ctxDone \in BOOLEAN /\ serving \in BOOLEAN
  /\ caller \in {"opening", "waiting", "exchanging", "stopping", "returned"}
  /\ outcome \in {None, "token", "refused", "error"}

Init ==
  /\ says \in [Requests -> Contents]
  /\ stage = [r \in Requests |-> "away"]
  /\ place = None /\ caught = None /\ first = None
  /\ ctxDone = FALSE /\ serving = TRUE
  /\ caller = "opening" /\ outcome = None

Becomes(r, s) == stage' = [stage EXCEPT ![r] = s]
Fails(o) == outcome' = o /\ caller' = "stopping"

----------------------------------------------------------------------------
(* The server *)

\* The handler answers the browser before it offers what it caught.
Answer(r) ==
  /\ serving /\ caller # "returned"
  /\ stage[r] = "away"
  /\ Becomes(r, IF says[r] = "stray" THEN "over" ELSE "answered")
  /\ UNCHANGED <<says, place, caught, first, ctxDone, serving, caller, outcome>>

\* Fault: the channel has no place: only who waits takes it.
OfferUnbuffered(r) ==
  /\ stage[r] = "answered" /\ Becomes(r, "over")
  /\ place' = IF place = None /\ caller = "waiting" THEN r ELSE place
  /\ first' = IF first = None THEN r ELSE first
  /\ UNCHANGED <<says, caught, ctxDone, serving, caller, outcome>>

Offer(r) ==
  /\ stage[r] = "answered" /\ Becomes(r, "over")
  /\ place' = IF place = None THEN r ELSE place
  /\ first' = IF first = None THEN r ELSE first
  /\ UNCHANGED <<says, caught, ctxDone, serving, caller, outcome>>

ServeFails ==
  /\ serving /\ caller \in {"opening", "waiting"} /\ serving' = FALSE
  /\ UNCHANGED <<says, stage, place, caught, first, ctxDone, caller, outcome>>

ContextEnds ==
  /\ ~ ctxDone /\ ctxDone' = TRUE
  /\ UNCHANGED <<says, stage, place, caught, first, serving, caller, outcome>>

----------------------------------------------------------------------------
(* Authorize *)

\* openUrl returns: the redirect may have come already.
OpenUrl ==
  /\ caller = "opening"
  /\ \/ caller' = "waiting" /\ UNCHANGED outcome
     \/ Fails("error")
  /\ UNCHANGED <<says, stage, place, caught, first, ctxDone, serving>>

Catch ==
  /\ caller = "waiting" /\ place # None
  /\ place' = None /\ caught' = place
  /\ IF says[place] = "code"
     THEN caller' = "exchanging" /\ UNCHANGED outcome
     ELSE Fails("refused")
  /\ UNCHANGED <<says, stage, first, ctxDone, serving>>

\* The select takes any case that is ready.
GiveUp ==
  /\ caller = "waiting" /\ (ctxDone \/ ~ serving)
  /\ Fails("error")
  /\ UNCHANGED <<says, stage, place, caught, first, ctxDone, serving>>

Exchange ==
  /\ caller = "exchanging"
  /\ Fails("error") \/ (~ ctxDone /\ Fails("token"))
  /\ UNCHANGED <<says, stage, place, caught, first, ctxDone, serving>>

\* The deferred Shutdown lets handlers finish; time is up otherwise.
Return ==
  /\ caller = "stopping" /\ caller' = "returned" /\ serving' = FALSE
  /\ UNCHANGED <<says, stage, place, caught, first, ctxDone, outcome>>

Step == Catch \/ GiveUp \/ Exchange \/ Return \/ OpenUrl \/ \E r \in Requests : Offer(r)

Next ==
  \/ Step
  \/ ServeFails \/ ContextEnds
  \/ \E r \in Requests : Answer(r)

Spec == Init /\ [][Next]_vars

(***************************************************************************)
(* Goroutines run; openUrl and the exchange return.  No redirect need      *)
(* come.  No step repeats.                                                 *)
(***************************************************************************)
Fairness == WF_vars(Step)

----------------------------------------------------------------------------
(* Properties *)

\* "catches the one redirect that carries the state": the first one offered decides,
\* even when it comes before openUrl returns and others follow it; a token is
\* returned for its code alone, and a refusal for its denial alone.
FirstRedirectDecides ==
  /\ caught # None => caught = first
  /\ outcome = "token" => caught # None /\ says[caught] = "code"
  /\ outcome = "refused" => caught # None /\ says[caught] \in {"denied", "codeless"}

\* Once a redirect is offered, the server fails or the context ends, Authorize
\* returns; and no handler is kept by a channel that nobody reads.
AuthorizeReturns ==
  /\ (first # None \/ ctxDone \/ ~ serving) ~> caller = "returned"
  /\ \A r \in Requests : stage[r] = "answered" ~> stage[r] = "over"
=============================================================================
