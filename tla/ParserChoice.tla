---------------------------- MODULE ParserChoice ----------------------------
(***************************************************************************)
(* A request that any one of several parsers may admit (pkg/http/mux/types *)
(* /request_parser/choice_request_parser): parsers run concurrently under  *)
(* a context that the first to admit the request cancels, unless exactly   *)
(* one may admit it.  Each writes its own place of two slices.             *)
(*                                                                         *)
(* A parser that is let be comes to its verdict; one whose context ends    *)
(* meanwhile may refuse because of that instead.                           *)
(***************************************************************************)
EXTENDS Integers, FiniteSets

CONSTANTS
  Last,     \* how many parsers there are, in the order of their declaration
  Verdicts  \* what they may say when let be: "admits", "refuses", "absent", "nil"

Parsers == 1 .. Last

VARIABLES
  exclusive,   \* WithExclusive
  verdict,     \* what each parser would say, or "nil" where there is none
  gone,        \* whether the caller's context has ended
  cancelled,   \* whether the context given to the parsers has been cancelled
  next,        \* the parser the loop comes to next
  stage,       \* where each parser is
  said,        \* its places in parsedResults and parserResponseErrors
  answer       \* what Parse returned

vars == <<exclusive, verdict, gone, cancelled, next, stage, said, answer>>

Answer(kind, of) == [kind |-> kind, of |-> of]

TypeOK ==
  /\ exclusive \in BOOLEAN /\ gone \in BOOLEAN /\ cancelled \in BOOLEAN
  /\ verdict \in [Parsers -> Verdicts]
  /\ next \in 1 .. Last + 1
  /\ stage \in [Parsers -> {"unborn", "running", "over"}]
  /\ said \in [Parsers -> {"nothing", "admits", "refuses", "absent", "interrupted"}]
  /\ answer.kind \in {"none", "admitted", "ambiguous", "refused", "bad"}

Init ==
  /\ exclusive \in BOOLEAN /\ verdict \in [Parsers -> Verdicts]
  /\ gone = FALSE /\ cancelled = FALSE
  /\ next = 1
  /\ stage = [p \in Parsers |-> "unborn"]
  /\ said = [p \in Parsers |-> "nothing"]
  /\ answer = Answer("none", 0)

Done == gone \/ cancelled

----------------------------------------------------------------------------
(* The loop *)

Start ==
  /\ next <= Last /\ verdict[next] # "nil" /\ ~ Done
  /\ stage' = [stage EXCEPT ![next] = "running"]
  /\ next' = next + 1
  /\ UNCHANGED <<exclusive, verdict, gone, cancelled, said, answer>>

PassOver ==
  /\ next <= Last /\ verdict[next] = "nil"
  /\ next' = next + 1
  /\ UNCHANGED <<exclusive, verdict, gone, cancelled, stage, said, answer>>

Break ==
  /\ next <= Last /\ verdict[next] # "nil" /\ Done
  /\ next' = Last + 1
  /\ UNCHANGED <<exclusive, verdict, gone, cancelled, stage, said, answer>>

----------------------------------------------------------------------------
(* A parser *)

\* Fault: an admission cancels the others though all have to finish.
CancelsAlways(says) == says = "admits"

Cancels(says) == says = "admits" /\ ~ exclusive

Return(p) ==
  /\ stage[p] = "running"
  /\ \E says \in {verdict[p]} \union (IF Done THEN {"interrupted"} ELSE {}) :
       /\ said' = [said EXCEPT ![p] = says]
       /\ cancelled' = (cancelled \/ Cancels(says))
  /\ stage' = [stage EXCEPT ![p] = "over"]
  /\ UNCHANGED <<exclusive, verdict, gone, next, answer>>

----------------------------------------------------------------------------
(* The answer *)

Saying(what) == {p \in Parsers : said[p] \in what}
First(S) == CHOOSE p \in S : \A q \in S : p <= q

\* defaultResponseErrorsParser tells of a credential that was there, when one was.
Telling ==
  IF Saying({"refuses", "interrupted"}) # {} THEN Saying({"refuses", "interrupted"})
  ELSE Saying({"absent"})

Decide ==
  /\ answer.kind = "none" /\ next > Last
  /\ \A p \in Parsers : stage[p] # "running"
  /\ LET admitting == Saying({"admits"})
     IN answer' =
          IF exclusive /\ Cardinality(admitting) > 1 THEN Answer("ambiguous", 0)
          ELSE IF admitting # {} THEN Answer("admitted", First(admitting))
          ELSE IF Telling # {} THEN Answer("refused", First(Telling))
          ELSE Answer("bad", 0)
  /\ UNCHANGED <<exclusive, verdict, gone, cancelled, next, stage, said>>

\* The client goes away, or the server stops.
GoAway ==
  /\ ~ gone /\ answer.kind = "none" /\ gone' = TRUE
  /\ UNCHANGED <<exclusive, verdict, cancelled, next, stage, said, answer>>

Step == Start \/ PassOver \/ Break \/ (\E p \in Parsers : Return(p)) \/ Decide

Next == Step \/ GoAway

Spec == Init /\ [][Next]_vars

(***************************************************************************)
(* Goroutines run and parsers return.  No step repeats.                    *)
(***************************************************************************)
Fairness == WF_vars(Step)

----------------------------------------------------------------------------
(* Properties *)

Would(what) == {p \in Parsers : verdict[p] \in what}

\* While its client stays, a request is answered by the verdicts and not by the
\* schedule: it is admitted where a parser admits it, though that cancels the rest;
\* where exactly one may, it is admitted by the only one and by no other; and a
\* request nobody admits is refused for the credential it did carry, never for a
\* cancellation.
AnsweredByVerdicts ==
  answer.kind # "none" /\ ~ gone =>
    LET admitting == Would({"admits"})
    IN /\ answer.kind = "admitted" => answer.of \in admitting
       /\ ~ exclusive => (answer.kind = "admitted" <=> admitting # {})
       /\ exclusive =>
            /\ answer.kind = "admitted" <=> Cardinality(admitting) = 1
            /\ answer.kind = "ambiguous" <=> Cardinality(admitting) > 1
       /\ answer.kind = "refused" =>
            answer.of = First(IF Would({"refuses"}) # {} THEN Would({"refuses"}) ELSE Would({"absent"}))

\* "The declared precedence is honoured among the parsers that completed": an earlier
\* parser that would have admitted the request is passed over only where the caller
\* or the one that was preferred to it had ended its context.
PrecedenceHonoured ==
  answer.kind = "admitted" =>
    \A q \in 1 .. answer.of - 1 : q \in Would({"admits"}) =>
      said[q] = "interrupted" /\ Done

\* Parse returns, and no parser outlives it.
ParseEnds == <>(answer.kind # "none" /\ \A p \in Parsers : stage[p] # "running")
=============================================================================
