------------------------------- MODULE Proxy -------------------------------
(***************************************************************************)
(* The Cloud SQL proxy (cmd/cloudsql_proxy): serve accepts connections,    *)
(* dials the instance for each and pipes both ways; proxy stops it when    *)
(* its context ends or, with a command, when the command exits.  A dial    *)
(* fails once its context has ended before the connection was made; that   *)
(* it returns is assumed, which module Dialer shows where fetches end.     *)
(***************************************************************************)
EXTENDS FiniteSets

CONSTANT Clients  \* those who may connect

VARIABLES
  mode,       \* "forward", or "command" with a command to run
  ctxDone,    \* whether proxy's context has ended
  commandOver,\* whether the command has exited
  main,       \* where proxy is
  acceptor,   \* where serve is
  listening,  \* whether the listener is open
  stage,      \* where each connection is
  copying,    \* the directions pipe still copies, for each connection
  closed,     \* whether a connection's two ends have been closed
  quitters,   \* the clients that end their connection some day
  ended       \* those that have, or whose instance has

proxy == <<mode, ctxDone, commandOver, main>>
serve == <<acceptor, listening>>
connections == <<stage, copying, closed, quitters, ended>>
vars == <<proxy, serve, connections>>

Directions == {"up", "down"}

TypeOK ==
  /\ mode \in {"forward", "command"} /\ ctxDone \in BOOLEAN /\ commandOver \in BOOLEAN
  /\ main \in {"serving", "stopping", "returned"}
  /\ acceptor \in {"accepting", "draining", "done"} /\ listening \in BOOLEAN
  /\ stage \in [Clients -> {"away", "queued", "dialing", "piping", "over"}]
  /\ copying \in [Clients -> SUBSET Directions] /\ closed \in [Clients -> BOOLEAN]
  /\ quitters \subseteq Clients /\ ended \subseteq Clients

Init ==
  /\ mode \in {"forward", "command"} /\ ctxDone = FALSE /\ commandOver = FALSE
  /\ main = "serving" /\ acceptor = "accepting" /\ listening = TRUE
  /\ stage = [c \in Clients |-> "away"]
  /\ copying = [c \in Clients |-> {}]
  /\ closed = [c \in Clients |-> FALSE]
  /\ quitters \in SUBSET Clients /\ ended = {}

Becomes(c, s) == stage' = [stage EXCEPT ![c] = s]
Close(c) == closed' = [closed EXCEPT ![c] = TRUE]

----------------------------------------------------------------------------
(* Around the proxy *)

ContextEnds ==
  /\ ~ ctxDone /\ ctxDone' = TRUE
  /\ UNCHANGED <<mode, commandOver, main, serve, connections>>

\* By itself, or killed with its context.
CommandExits ==
  /\ mode = "command" /\ ~ commandOver /\ commandOver' = TRUE
  /\ UNCHANGED <<mode, ctxDone, main, serve, connections>>

Connect(c) ==
  /\ stage[c] = "away" /\ listening /\ Becomes(c, "queued")
  /\ UNCHANGED <<proxy, serve, copying, closed, quitters, ended>>

\* The client ends its connection, or the instance does.
End(c) ==
  /\ stage[c] = "piping" /\ c \notin ended /\ ended' = ended \union {c}
  /\ UNCHANGED <<proxy, serve, stage, copying, closed, quitters>>

----------------------------------------------------------------------------
(* serve *)

Accept(c) ==
  /\ acceptor = "accepting" /\ listening
  /\ stage[c] = "queued" /\ Becomes(c, "dialing")
  /\ UNCHANGED <<proxy, serve, copying, closed, quitters, ended>>

\* Accept fails: the listener is closed, or the process is out of descriptors.
AcceptFails ==
  /\ acceptor = "accepting" /\ acceptor' = "draining"
  /\ UNCHANGED <<proxy, listening, connections>>

DialFails(c) ==
  /\ stage[c] = "dialing" /\ Becomes(c, "over") /\ Close(c)
  /\ UNCHANGED <<proxy, serve, copying, quitters, ended>>

Dialed(c) ==
  /\ stage[c] = "dialing" /\ Becomes(c, "piping")
  /\ copying' = [copying EXCEPT ![c] = Directions]
  /\ UNCHANGED <<proxy, serve, closed, quitters, ended>>

\* A copy ends with either end of its connection, and closes both.  The end that is
\* gone shows in one direction only, as it is read.
CopyEnds(c, d) ==
  /\ stage[c] = "piping" /\ d \in copying[c]
  /\ closed[c] \/ (c \in ended /\ d = "up")
  /\ copying' = [copying EXCEPT ![c] = @ \ {d}]
  /\ Close(c)
  /\ UNCHANGED <<proxy, serve, stage, quitters, ended>>

Piped(c) ==
  /\ stage[c] = "piping" /\ copying[c] = {} /\ Becomes(c, "over")
  /\ UNCHANGED <<proxy, serve, copying, closed, quitters, ended>>

\* Fault: serve returns with connections in flight.
DrainedEarly ==
  /\ acceptor = "draining" /\ acceptor' = "done"
  /\ UNCHANGED <<proxy, listening, connections>>

Drained ==
  /\ acceptor = "draining" /\ acceptor' = "done"
  /\ \A c \in Clients : stage[c] \notin {"dialing", "piping"}
  /\ UNCHANGED <<proxy, listening, connections>>

----------------------------------------------------------------------------
(* proxy *)

Stop ==
  /\ main = "serving" /\ (IF mode = "command" THEN commandOver ELSE ctxDone)
  /\ main' = "stopping" /\ listening' = FALSE
  /\ UNCHANGED <<mode, ctxDone, commandOver, acceptor, connections>>

Return ==
  /\ main = "stopping" /\ acceptor = "done"
  /\ main' = "returned"
  /\ UNCHANGED <<mode, ctxDone, commandOver, serve, connections>>

Step ==
  \/ ctxDone /\ CommandExits
  \/ ~ listening /\ AcceptFails
  \/ Drained \/ Stop \/ Return
  \/ \E c \in Clients :
       \/ Accept(c) \/ DialFails(c) \/ Dialed(c) \/ Piped(c)
       \/ \E d \in Directions : CopyEnds(c, d)
       \/ c \in quitters /\ End(c)

Next ==
  \/ Step
  \/ ContextEnds \/ CommandExits \/ AcceptFails
  \/ \E c \in Clients : Connect(c) \/ End(c)

Spec == Init /\ [][Next]_vars

(***************************************************************************)
(* Goroutines run, a command is killed with its context, a closed listener *)
(* refuses, and those that end their connection some day do.  Dials are    *)
(* assumed to return, though a request that hangs under the instance's     *)
(* mutex would keep them, and with them the proxy.  No step repeats.       *)
(***************************************************************************)
Fairness == WF_vars(Step)

----------------------------------------------------------------------------
(* Properties *)

\* Once proxy has returned, nothing it started is left: every connection it accepted
\* is closed at both ends and copied no more.
NothingLeftOpen ==
  main = "returned" =>
    /\ ~ listening
    /\ \A c \in Clients : stage[c] \in {"dialing", "piping", "over"} => closed[c] /\ copying[c] = {}

\* A connection is over once either side has ended it; and the proxy stops once its
\* context has ended and no client holds on to an idle connection for ever, which
\* would keep it from returning.
ProxyStops ==
  /\ \A c \in Clients : c \in ended ~> stage[c] = "over"
  /\ ctxDone /\ quitters = Clients ~> main = "returned"
=============================================================================
