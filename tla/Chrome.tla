------------------------------- MODULE Chrome -------------------------------
(***************************************************************************)
(* A Chrome process and its end (pkg/cdp/chrome): Launch starts it in a    *)
(* process group of its own and connects to it; Close asks it to close,    *)
(* kills the group when it does not in time, and sweeps what is left of    *)
(* it; and the group is killed when Launch's context ends.  The connection *)
(* is what module CdpConn shows it to be: a call ends with an answer, with *)
(* the connection or with its context, once its message is written.        *)
(***************************************************************************)

VARIABLES
  temper,   \* "obeys" when asked to close, "ignores" it, or is "stuck": reads no more
  ctxDone,  \* whether Launch's context has ended
  running,  \* whether the browser's process runs
  children, \* whether others of its group do
  exited,   \* whether Wait has returned and the channel is closed
  caller,   \* where Launch or Close is
  timeUp    \* whether the time given for closing has passed

process == <<running, children, exited>>
vars == <<temper, ctxDone, process, caller, timeUp>>

Closing == {"asking", "waiting", "reaping", "sweeping"}

TypeOK ==
  /\ temper \in {"obeys", "ignores", "stuck"} /\ ctxDone \in BOOLEAN
  /\ running \in BOOLEAN /\ children \in BOOLEAN /\ exited \in BOOLEAN
  /\ caller \in {"launching", "open", "closed"} \union Closing /\ timeUp \in BOOLEAN

Init ==
  /\ temper \in {"obeys", "ignores", "stuck"} /\ ctxDone = FALSE
  /\ running = TRUE /\ children = TRUE /\ exited = FALSE
  /\ caller = "launching" /\ timeUp = FALSE

----------------------------------------------------------------------------
(* The process *)

\* It crashes, or its window is closed; its renderers may outlive it.
Exits ==
  /\ running /\ running' = FALSE
  /\ UNCHANGED <<temper, ctxDone, children, exited, caller, timeUp>>

ChildrenExit ==
  /\ children /\ children' = FALSE
  /\ UNCHANGED <<temper, ctxDone, running, exited, caller, timeUp>>

ContextEnds ==
  /\ ~ ctxDone /\ ctxDone' = TRUE
  /\ UNCHANGED <<temper, process, caller, timeUp>>

\* Asked to close, it does, whoever still listens.
Obeys ==
  /\ temper = "obeys" /\ caller \in {"asking", "waiting"}
  /\ Exits

KillGroup == running' = FALSE /\ children' = FALSE

\* The command's context ends while Wait has not returned.
Cancel ==
  /\ ctxDone /\ ~ exited /\ (running \/ children)
  /\ KillGroup
  /\ UNCHANGED <<temper, ctxDone, exited, caller, timeUp>>

WaitReturns ==
  /\ ~ running /\ ~ exited /\ exited' = TRUE
  /\ UNCHANGED <<temper, ctxDone, running, children, caller, timeUp>>

----------------------------------------------------------------------------
(* Launch *)

Connects ==
  /\ caller = "launching" /\ running /\ caller' = "open"
  /\ UNCHANGED <<temper, ctxDone, process, timeUp>>

\* Its context ends, Chrome exits before it listens, or the connection is not made:
\* Launch closes what it started, with no connection to ask it through.
LaunchFails ==
  /\ caller = "launching" /\ caller' = "waiting"
  /\ UNCHANGED <<temper, ctxDone, process, timeUp>>

----------------------------------------------------------------------------
(* Close *)

Close ==
  /\ caller = "open" /\ caller' = "asking"
  /\ UNCHANGED <<temper, ctxDone, process, timeUp>>

TimePasses ==
  /\ caller \in {"asking", "waiting"} /\ ~ timeUp /\ timeUp' = TRUE
  /\ UNCHANGED <<temper, ctxDone, process, caller>>

\* The call is answered, fails with the connection, or with the time.  Its write has
\* no deadline: to a browser that reads no more it ends with the browser only.
Asked ==
  /\ caller = "asking"
  /\ \/ ~ running
     \/ temper = "obeys"
     \/ temper = "ignores" /\ timeUp
  /\ caller' = "waiting"
  /\ UNCHANGED <<temper, ctxDone, process, timeUp>>

Gone ==
  /\ caller \in {"waiting", "reaping"} /\ exited /\ caller' = "sweeping"
  /\ UNCHANGED <<temper, ctxDone, process, timeUp>>

Kill ==
  /\ caller = "waiting" /\ timeUp /\ KillGroup
  /\ caller' = "reaping"
  /\ UNCHANGED <<temper, ctxDone, exited, timeUp>>

\* Fault: a browser that has gone has no group to kill.
SweepNothing ==
  /\ caller = "sweeping" /\ caller' = "closed"
  /\ UNCHANGED <<temper, ctxDone, process, timeUp>>

Sweep ==
  /\ caller = "sweeping" /\ KillGroup
  /\ caller' = "closed"
  /\ UNCHANGED <<temper, ctxDone, exited, timeUp>>

Step == Obeys \/ Cancel \/ WaitReturns \/ TimePasses \/ Asked \/ Gone \/ Kill \/ Sweep

Next ==
  \/ Exits \/ ChildrenExit \/ ContextEnds
  \/ Connects \/ LaunchFails \/ Close \/ Step

Spec == Init /\ [][Next]_vars

(***************************************************************************)
(* Time passes, killed processes are reaped, and goroutines run.  Nobody   *)
(* need close the browser, and it need not exit.  No step repeats.         *)
(***************************************************************************)
Fairness == WF_vars(Step)

----------------------------------------------------------------------------
(* Properties *)

\* When Close returns nothing of the group runs and the process is reaped, whether
\* the browser closed when asked, crashed before it and left its renderers, was
\* killed for taking too long, or never got as far as a connection.
GroupGone == caller = "closed" => ~ running /\ ~ children /\ exited

\* The browser does not outlive its context; and a Close that is begun ends, unless
\* the browser reads no more and its context never ends.
BrowserEnds ==
  /\ ctxDone ~> ~ running
  /\ caller \in Closing /\ (temper = "stuck" => ctxDone) ~> caller = "closed"
=============================================================================
