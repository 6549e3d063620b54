------------------------------ MODULE VhostMux ------------------------------
(***************************************************************************)
(* A request to a VhostMux (pkg/http/mux/vhost_mux.go), which picks a mux  *)
(* by the request's host and gives it the very response writer it uses     *)
(* itself.  What a Mux does with a request is what module Mux shows: it    *)
(* writes one header, or drops the connection; the inner one is such a     *)
(* mux, and so is this one with the picking for its callback.              *)
(***************************************************************************)
CONSTANTS
  Layers,   \* the muxes that may write: "outer" and "inner"
  Nobody    \* no mux

VARIABLES
  pc,        \* where the request is
  defaults,  \* whose default headers the response writer holds
  written,   \* who called WriteHeader on it
  under,     \* history: whose defaults held then
  wire,      \* history: who the client was answered by; "closed" once the connection is
  recorded   \* history: what the outer mux's DoneCallback was told

vars == <<pc, defaults, written, under, wire, recorded>>

TypeOK ==
  /\ pc \in {"firewall", "route", "innerFirewall", "inner", "returned", "write", "finish",
             "done", "ended", "dropped", "aborted"}
  /\ defaults \in Layers /\ written \in Layers \union {Nobody}
  /\ under \in Layers \union {Nobody}
  /\ wire \in Layers \union {Nobody, "closed"}
  /\ recorded \in Layers \union {Nobody}

\* The writer is made with this mux's defaults.
Init ==
  /\ pc = "firewall" /\ defaults = "outer"
  /\ written = Nobody /\ under = Nobody /\ wire = Nobody /\ recorded = Nobody

\* A hijacked connection takes no header, though the writer counts it as written.
WriteHeader(layer) ==
  /\ written' = layer /\ under' = defaults
  /\ wire' = IF wire = Nobody THEN layer ELSE wire

----------------------------------------------------------------------------
(* ServeHttpWithCallback of the outer mux, up to its callback *)

Accept ==
  /\ pc = "firewall" /\ pc' = "route"
  /\ UNCHANGED <<defaults, written, under, wire, recorded>>

Reject ==
  /\ pc = "firewall" /\ pc' = "write"
  /\ UNCHANGED <<defaults, written, under, wire, recorded>>

\* The connection to be dropped cannot be hijacked: an error is written, and nobody
\* is told.
HijackFails ==
  /\ pc = "firewall" /\ pc' = "ended"
  /\ WriteHeader("outer")
  /\ UNCHANGED <<defaults, recorded>>

\* The connection is hijacked and closed, or ended by a panic where no writer can.
Drop ==
  /\ pc = "firewall" /\ pc' \in {"dropped", "aborted"}
  /\ wire' = "closed"
  /\ UNCHANGED <<defaults, written, under, recorded>>

----------------------------------------------------------------------------
(* vhostMuxHandleRequest *)

\* Another server name than the host, no such host, a redirect, nothing to use.
RouteNowhere ==
  /\ pc = "route" /\ pc' = "returned"
  /\ UNCHANGED <<defaults, written, under, wire, recorded>>

\* Fault: the inner mux takes the writer as it is.
RouteAsItIs ==
  /\ pc = "route" /\ pc' = "innerFirewall"
  /\ UNCHANGED <<defaults, written, under, wire, recorded>>

\* The inner mux finds its own kind of writer and puts its defaults there.
RouteInside ==
  /\ pc = "route" /\ pc' = "innerFirewall"
  /\ defaults' = "inner"
  /\ UNCHANGED <<written, under, wire, recorded>>

InnerPasses ==
  /\ pc = "innerFirewall" /\ pc' = "inner"
  /\ UNCHANGED <<defaults, written, under, wire, recorded>>

\* A panic passes through the outer mux, a hijacked connection does not show.
InnerDrops ==
  /\ pc = "innerFirewall" /\ pc' \in {"returned", "aborted"}
  /\ wire' = "closed"
  /\ UNCHANGED <<defaults, written, under, recorded>>

\* At its firewall, when it rejects the request or fails to drop it, or after it.
InnerAnswers ==
  /\ pc \in {"innerFirewall", "inner"} /\ WriteHeader("inner") /\ pc' = "returned"
  /\ UNCHANGED <<defaults, recorded>>

----------------------------------------------------------------------------
(* The rest of ServeHttpWithCallback *)

\* The callback puts this mux's defaults back before it returns.
Return ==
  /\ pc = "returned" /\ pc' = "write"
  /\ defaults' = "outer"
  /\ UNCHANGED <<written, under, wire, recorded>>

\* The response, the error, or the error that none was written.
Write ==
  /\ pc = "write" /\ pc' = "finish"
  /\ IF written = Nobody THEN WriteHeader("outer") ELSE UNCHANGED <<written, under, wire>>
  /\ UNCHANGED <<defaults, recorded>>

DoneCallback ==
  /\ pc = "finish" /\ pc' = "done"
  /\ recorded' = written
  /\ UNCHANGED <<defaults, written, under, wire>>

Next ==
  \/ Accept \/ Reject \/ HijackFails \/ Drop
  \/ RouteNowhere \/ RouteInside \/ InnerPasses \/ InnerDrops \/ InnerAnswers
  \/ Return \/ Write \/ DoneCallback

Spec == Init /\ [][Next]_vars

----------------------------------------------------------------------------
(* Properties *)

\* A request that goes through two muxes is answered by one of them and under that
\* one's default headers; one that either drops is answered by neither; and the
\* DoneCallback is told of the answer the client got, but for a connection the inner
\* mux dropped, which it is told was answered.
AnsweredByOneMux ==
  /\ written # Nobody => under = written
  /\ pc = "done" => recorded \in Layers /\ (wire = recorded \/ wire = "closed")
  /\ pc \in {"dropped", "aborted"} => wire = "closed" /\ written = Nobody
=============================================================================
