--------------------------- MODULE CommandChannel ---------------------------
(***************************************************************************)
(* What a connection to a browser promises the goroutines that send        *)
(* commands on it: a command is answered with the browser's reply to that  *)
(* command or it fails, once; and a command sent after the connection has  *)
(* ended fails.  CdpConn implements it.                                    *)
(***************************************************************************)
CONSTANT Ids  \* the commands

VARIABLES
  outcome,  \* what became of each command
  replied,  \* the commands the browser has replied to
  ended     \* whether the connection has ended

vars == <<outcome, replied, ended>>

Init ==
  /\ outcome = [id \in Ids |-> "none"]
  /\ replied = {}
  /\ ended = FALSE

\* A command is sent; one sent after the end is late.
Ask(id) ==
  /\ outcome[id] = "none"
  /\ outcome' = [outcome EXCEPT ![id] = IF ended THEN "late" ELSE "open"]
  /\ UNCHANGED <<replied, ended>>

\* The browser replies to a command it was sent.
Reply(id) ==
  /\ outcome[id] # "none"
  /\ replied' = replied \cup {id}
  /\ UNCHANGED <<outcome, ended>>

\* The reply to a command becomes its answer.
Answer(id) ==
  /\ outcome[id] = "open"
  /\ id \in replied
  /\ outcome' = [outcome EXCEPT ![id] = "answered"]
  /\ UNCHANGED <<replied, ended>>

Fail(id) ==
  /\ outcome[id] \in {"open", "late"}
  /\ outcome' = [outcome EXCEPT ![id] = "failed"]
  /\ UNCHANGED <<replied, ended>>

\* The connection ends, for good.
End ==
  /\ ~ended
  /\ ended' = TRUE
  /\ UNCHANGED <<outcome, replied>>

Next == End \/ \E id \in Ids : Ask(id) \/ Reply(id) \/ Answer(id) \/ Fail(id)

Spec == Init /\ [][Next]_vars
=============================================================================
