---------------------------- MODULE JwtExtractor ----------------------------
(***************************************************************************)
(* The authentication of a request by its token (pkg/http/mux/types        *)
(* /request_parser/jwt_extractor): authenticators run concurrently, those  *)
(* that fail write their own place of a slice, those that succeed all      *)
(* write one variable, which nothing guards.                               *)
(***************************************************************************)
EXTENDS Integers

CONSTANTS
  Last,     \* how many authenticators there are, in their order
  Verdicts  \* what each may come to: "token", "nothing" (neither a token nor an error),
            \* "sub", "invalid", "fault", or "nil" where there is none

Authenticators == 1 .. Last

VARIABLES
  extracted,  \* what the token extractor came to: "token", "empty" or "refused"
  verdict,    \* what each authenticator comes to
  stage,      \* where each of them is
  token,      \* authenticatedToken: whose token it is, or 0
  errs,       \* authenticatorErrs
  answer      \* what Parse returned

vars == <<extracted, verdict, stage, token, errs, answer>>

Answer(kind, of) == [kind |-> kind, of |-> of]

TypeOK ==
  /\ extracted \in {"token", "empty", "refused"}
  /\ verdict \in [Authenticators -> Verdicts]
  /\ stage \in [Authenticators -> {"unborn", "running", "over"}]
  /\ token \in {0} \union Authenticators
  /\ errs \in [Authenticators -> Verdicts \union {"none"}]
  /\ answer.kind \in {"pending", "refused", "served", "forbidden", "unauthorized", "error"}

Init ==
  /\ extracted \in {"token", "empty", "refused"}
  /\ verdict \in [Authenticators -> Verdicts]
  /\ stage = [a \in Authenticators |-> "unborn"]
  /\ token = 0
  /\ errs = [a \in Authenticators |-> "none"]
  /\ answer = Answer("pending", 0)

\* The token extractor refuses the request, or finds an empty token in it.
Refuse ==
  /\ answer.kind = "pending" /\ extracted # "token"
  /\ answer' = Answer(IF extracted = "empty" THEN "unauthorized" ELSE "refused", 0)
  /\ UNCHANGED <<extracted, verdict, stage, token, errs>>

\* The loop starts the authenticators in order.
Start(a) ==
  /\ extracted = "token" /\ verdict[a] # "nil" /\ stage[a] = "unborn"
  /\ \A b \in 1 .. a - 1 : verdict[b] # "nil" => stage[b] # "unborn"
  /\ stage' = [stage EXCEPT ![a] = "running"]
  /\ UNCHANGED <<extracted, verdict, token, errs, answer>>

NoError == {"token", "nothing"}

\* What an authenticator without an error leaves in authenticatedToken.
Left(a) == IF verdict[a] = "token" THEN a ELSE 0

\* Fault: errors are listed as they come.
ReturnListed(a) ==
  /\ stage[a] = "running" /\ stage' = [stage EXCEPT ![a] = "over"]
  /\ IF verdict[a] \in NoError THEN token' = Left(a) /\ UNCHANGED errs
     ELSE /\ UNCHANGED token
          /\ errs' = [errs EXCEPT ![CHOOSE i \in Authenticators :
               errs[i] = "none" /\ \A j \in 1 .. i - 1 : errs[j] # "none"] = verdict[a]]
  /\ UNCHANGED <<extracted, verdict, answer>>

Return(a) ==
  /\ stage[a] = "running" /\ stage' = [stage EXCEPT ![a] = "over"]
  /\ IF verdict[a] \in NoError THEN token' = Left(a) /\ UNCHANGED errs
     ELSE errs' = [errs EXCEPT ![a] = verdict[a]] /\ UNCHANGED token
  /\ UNCHANGED <<extracted, verdict, answer>>

Of(e) == IF e = "sub" THEN "forbidden" ELSE "unauthorized"

\* The first error that is the client's decides the status.
Decide ==
  /\ answer.kind = "pending" /\ extracted = "token"
  /\ \A a \in Authenticators : verdict[a] = "nil" \/ stage[a] = "over"
  /\ LET clients == {i \in Authenticators : errs[i] \in {"sub", "invalid"}}
     IN answer' =
          IF token # 0 THEN Answer("served", token)
          ELSE IF clients = {} THEN Answer("error", 0)
          ELSE Answer(Of(errs[CHOOSE i \in clients : \A j \in clients : i <= j]), 0)
  /\ UNCHANGED <<extracted, verdict, stage, token, errs>>

Next ==
  \/ Refuse \/ Decide
  \/ \E a \in Authenticators : Start(a) \/ Return(a)

Spec == Init /\ [][Next]_vars

(***************************************************************************)
(* Goroutines run and authenticators return.  No step repeats.             *)
(***************************************************************************)
Fairness == WF_vars(Next)

----------------------------------------------------------------------------
(* Properties *)

\* A request is served under the token of an authenticator that accepted it, and is
\* served if one did, unless another came to nothing at all, whose nil may undo the
\* acceptance; which of several is chosen is what the schedule decides besides.
\* A refusal is decided by the order of the authenticators, whichever returns first,
\* and is a fault of the service only if none found fault with the token.
DecidedByAuthenticators ==
  answer.kind \notin {"pending", "refused"} /\ extracted = "token" =>
    LET accepting == {a \in Authenticators : verdict[a] = "token"}
        silent == {a \in Authenticators : verdict[a] = "nothing"}
        clients == {a \in Authenticators : verdict[a] \in {"sub", "invalid"}}
    IN \/ answer.kind = "served" /\ answer.of \in accepting
       \/ /\ accepting = {} \/ silent # {}
          /\ IF clients = {} THEN answer.kind = "error"
             ELSE \E a \in clients : answer.kind = Of(verdict[a]) /\ \A b \in clients : a <= b

ExtractionEnds == <>(answer.kind # "pending")
=============================================================================
