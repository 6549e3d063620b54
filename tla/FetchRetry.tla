----------------------------- MODULE FetchRetry -----------------------------
(***************************************************************************)
(* FetchWithRequest (pkg/http/utils): one HTTP request, attempted again    *)
(* while the response checker asks for it, after a wait that the server    *)
(* advises or that backs off.  The server, the transport and the caller's  *)
(* context are external.                                                   *)
(*                                                                         *)
(* Durations are integers of Width bits, as time.Duration is of 64: they   *)
(* wrap.  Second is the number of units in a second.                       *)
(***************************************************************************)
EXTENDS Integers

CONSTANTS
  Count,         \* retry_config.Config.Count
  BaseDelay,     \* retry_config.Config.BaseDelay
  MaximumWaits,  \* values of MaximumWaitTime; 0 is no maximum
  Second,        \* time.Second
  Width,         \* bits of an int and of a time.Duration
  BodyAdvice,    \* delays RetryAfterFunc may read from a body
  HeaderSeconds, \* numbers of seconds in a Retry-After header
  HeaderDates    \* what Retry-After's date may be ahead of Date

Capacity == 2 ^ (Width - 1)
Durations == -Capacity .. Capacity - 1

ASSUME WidthAssumption == Width \in Nat \ {0, 1} /\ Count \in Nat
ASSUME DurationAssumption ==
  /\ Second \in Nat \ {0} /\ BaseDelay \in Nat /\ MaximumWaits \subseteq Nat
  /\ BodyAdvice \union HeaderSeconds \union HeaderDates \subseteq Durations

\* Arithmetic: what powers of two are.
ASSUME PowerAssumption ==
  /\ 2 ^ Width = 2 * 2 ^ (Width - 1)
  /\ \A n \in 0 .. Width + Count : 2 ^ n \in Nat \ {0}

VARIABLES
  config,    \* fetch_config.Config, and whether the request has GetBody
  pc,        \* where the call is
  attempt,   \* i, the index of the attempt
  response,  \* the last attempt's response
  failed,    \* whether err is set
  wait,      \* waitDuration
  done,      \* whether the caller's context is done
  doneAt,    \* history: the attempts sent when it became so, and where the call was
  bodies,    \* response bodies left open
  unsent,    \* whether the request's body has not been consumed
  sent,      \* history: attempts sent
  rested,    \* history: how long the last wait lasted
  whole,     \* history: whether every attempt sent the whole body
  settled,   \* history: whether the server has accepted or refused an attempt
  repeated   \* history: whether an attempt was sent after that

state == <<config, pc, attempt, response, failed, wait, done, bodies, unsent>>
history == <<doneAt, sent, rested, whole, settled, repeated>>
vars == <<state, history>>

Max(a, b) == IF a > b THEN a ELSE b
Min(a, b) == IF a < b THEN a ELSE b
Wrap(n) == ((n + Capacity) % (2 ^ Width)) - Capacity

----------------------------------------------------------------------------
(* Responses.  An accepted one is a 2xx, a busy one a 429 or a 5xx, which is *)
(* what DefaultResponseChecker retries.                                      *)

NoAdvice == [from |-> "nobody", delay |-> 0]
Headers == {NoAdvice} \union [from : {"seconds"}, delay : HeaderSeconds]
                      \union [from : {"date"}, delay : HeaderDates]
Bodies == {NoAdvice} \union [from : {"body"}, delay : BodyAdvice]
Answers == [status : {"accepted", "refused", "busy"}, header : Headers, body : Bodies]
NoResponse == [status |-> "none", header |-> NoAdvice, body |-> NoAdvice]

\* With a custom checker any attempt may be made again, and RetryAfterFunc is set.
Configs == [retrying : BOOLEAN, custom : BOOLEAN, skipRead : BOOLEAN,
            skipStatus : BOOLEAN, getBody : BOOLEAN, maximum : MaximumWaits]

TypeOK ==
  /\ config \in Configs
  /\ pc \in {"begin", "attempt", "check", "ask", "wait", "awake", "replay", "returned"}
  /\ attempt \in 0 .. Count
  /\ response \in Answers \union {NoResponse}
  /\ wait \in Durations
  /\ sent \in {attempt, attempt + 1}
  /\ ~ config.retrying => attempt = 0
  /\ {failed, done, unsent, whole, settled, repeated} \subseteq BOOLEAN

Init ==
  /\ config \in Configs
  /\ pc = "begin" /\ attempt = 0 /\ response = NoResponse /\ failed = FALSE
  /\ wait = 0 /\ done = FALSE /\ doneAt = [sent |-> 0, pc |-> "none"]
  /\ bodies = 0 /\ unsent = TRUE
  /\ sent = 0 /\ rested = 0 /\ whole = TRUE /\ settled = FALSE /\ repeated = FALSE

Begin ==
  /\ pc = "begin"
  /\ pc' = IF done THEN "returned" ELSE "attempt"
  /\ failed' = done
  /\ UNCHANGED <<config, attempt, response, wait, done, bodies, unsent, history>>

----------------------------------------------------------------------------
(* fetch *)

\* An attempt ends with response r, the error err, and its body open or closed.
Attempt(r, err, open) ==
  /\ pc = "attempt"
  /\ pc' = "check"
  /\ response' = r /\ failed' = err
  /\ bodies' = IF open THEN bodies + 1 ELSE bodies
  /\ unsent' = FALSE
  /\ sent' = sent + 1
  /\ whole' = (whole /\ (unsent \/ ~ config.getBody))
  /\ repeated' = (repeated \/ settled)
  /\ UNCHANGED <<config, attempt, wait, done, doneAt, rested>>

DoFails ==
  /\ Attempt(NoResponse, TRUE, FALSE)
  /\ UNCHANGED settled

ReadFails ==
  /\ ~ config.skipRead
  /\ \E r \in Answers :
       /\ Attempt([r EXCEPT !.body = NoAdvice], TRUE, FALSE)
       /\ settled' = (settled \/ r.status # "busy")

\* Fault: an error is returned with its unread body left open.
AnsweredOpen ==
  \E r \in Answers :
    LET err == ~ config.skipStatus /\ r.status # "accepted"
    IN /\ Attempt(r, err, config.skipRead)
       /\ settled' = (settled \/ r.status # "busy")

Answered ==
  \E r \in Answers :
    LET err == ~ config.skipStatus /\ r.status # "accepted"
    IN /\ Attempt(r, err, config.skipRead /\ ~ err)
       /\ settled' = (settled \/ r.status # "busy")

----------------------------------------------------------------------------
(* fetchWithRetryConfig *)

\* Fault: the checker looks at the error before the response.
RetryableErrorFirst == failed \/ response.status = "busy"

\* DefaultResponseChecker
Retryable == IF response # NoResponse THEN response.status = "busy" ELSE failed

Check ==
  /\ pc = "check"
  /\ \E again \in IF config.custom THEN BOOLEAN ELSE {Retryable} :
       LET more == config.retrying /\ again /\ attempt < Count
       IN /\ pc' = IF more THEN "ask" ELSE "returned"
          /\ attempt' = IF more THEN attempt + 1 ELSE attempt
  /\ UNCHANGED <<config, response, failed, wait, done, bodies, unsent, history>>

\* retryAfterHeaderDelay: seconds are rounded up by one, a date is a difference.
HeaderDelay(header) ==
  IF header.from = "seconds" THEN Wrap(Wrap(header.delay + 1) * Second)
  ELSE header.delay

\* Fault: the header goes before the body.
AdviceHeaderFirst(r) ==
  IF r.header # NoAdvice THEN {HeaderDelay(r.header)}
  ELSE IF config.custom /\ r.body # NoAdvice THEN {r.body.delay} ELSE {}

\* What the server advises, if it does.
Advice(r) ==
  IF config.custom /\ r.body # NoAdvice THEN {r.body.delay}
  ELSE IF r.header # NoAdvice THEN {HeaderDelay(r.header)} ELSE {}

TooLong(delay) == config.maximum # 0 /\ delay > config.maximum

BackOff(i) ==
  LET delay == Wrap(BaseDelay * Wrap(2 ^ (i - 1)))
  IN IF config.maximum # 0 THEN Min(delay, config.maximum) ELSE delay

\* retryWaitDuration, which gives up on too long a delay
Waits == IF Advice(response) = {} THEN {BackOff(attempt)}
         ELSE {Max(delay, 0) : delay \in {a \in Advice(response) : ~ TooLong(a)}}

Ask ==
  /\ pc = "ask"
  /\ \/ (done \/ Waits = {}) /\ pc' = "returned" /\ UNCHANGED wait
     \/ ~ done /\ wait' \in Waits /\ pc' = IF wait' > 0 THEN "wait" ELSE "replay"
  /\ rested' = 0
  /\ UNCHANGED <<config, attempt, response, failed, done, bodies, unsent, doneAt,
                 sent, whole, settled, repeated>>

Wait ==
  /\ pc = "wait" /\ pc' = "awake"
  /\ \/ rested' = wait
     \/ done /\ UNCHANGED rested
  /\ UNCHANGED <<config, attempt, response, failed, wait, done, bodies, unsent,
                 doneAt, sent, whole, settled, repeated>>

Awake ==
  /\ pc = "awake"
  /\ pc' = IF done THEN "returned" ELSE "replay"
  /\ UNCHANGED <<config, attempt, response, failed, wait, done, bodies, unsent, history>>

\* The superseded response is closed and the request's body made anew.
Superseded == config.skipRead /\ ~ failed /\ response # NoResponse

\* Fault: the body is replayed only after an attempt without a response.
ReplayAfterError ==
  /\ pc = "replay"
  /\ bodies' = IF Superseded THEN bodies - 1 ELSE bodies
  /\ pc' = "attempt"
  /\ unsent' = (unsent \/ (config.getBody /\ failed))
  /\ UNCHANGED <<config, attempt, response, failed, wait, done, history>>

Replay ==
  /\ pc = "replay"
  /\ bodies' = IF Superseded THEN bodies - 1 ELSE bodies
  /\ pc' = "attempt" /\ unsent' = (unsent \/ config.getBody)
  /\ UNCHANGED <<config, attempt, response, failed, wait, done, history>>

ReplayFails ==
  /\ pc = "replay" /\ config.getBody
  /\ bodies' = IF Superseded THEN bodies - 1 ELSE bodies
  /\ pc' = "returned" /\ failed' = TRUE
  /\ UNCHANGED <<config, attempt, response, wait, done, unsent, history>>

Cancel ==
  /\ pc # "returned" /\ ~ done /\ done' = TRUE
  /\ doneAt' = [sent |-> sent, pc |-> pc]
  /\ UNCHANGED <<config, pc, attempt, response, failed, wait, bodies, unsent, sent,
                 rested, whole, settled, repeated>>

Next == Begin \/ DoFails \/ ReadFails \/ Answered \/ Check \/ Ask \/ Wait \/ Awake
          \/ Replay \/ ReplayFails \/ Cancel

Spec == Init /\ [][Next]_vars

----------------------------------------------------------------------------
(* Properties *)

\* At most one response body is open, and on return only that of a response
\* handed to the caller unread: "a response returned with an error has its body
\* closed already", and so has every response that a later one superseded.
BodiesClosed ==
  /\ bodies <= 1
  /\ pc = "attempt" => bodies = 0
  /\ pc = "returned" /\ ~ (config.skipRead /\ ~ failed) => bodies = 0

\* A retried request is not sent with a drained body, when it can be replayed, nor
\* more often than the configuration allows.
SentWhole == TypeOK /\ whole

\* With the default checker a request is not sent again once the server has
\* accepted or refused it, even when reading that response failed; and a caller that
\* has stopped waiting is not served by trying again: a retry with a context that is
\* done means it was done after the last look at it.
RetriedForCause ==
  /\ ~ config.custom => ~ repeated
  /\ pc = "attempt" /\ sent > 0 /\ done =>
       doneAt.sent = sent /\ doneAt.pc \in {"replay", "attempt"}

\* The wait that retryWaitDuration's comment describes, in whole numbers: the
\* advice of the body, else of the header, else a doubling back-off cut at the
\* maximum.  There is none when the advice exceeds the maximum.
Described ==
  LET header == response.header
      advised == IF config.custom /\ response.body # NoAdvice THEN response.body.delay
                 ELSE IF header.from = "seconds" THEN (header.delay + 1) * Second
                 ELSE header.delay
      backOff == BaseDelay * 2 ^ (attempt - 1)
      cut == IF config.maximum = 0 THEN backOff ELSE Min(backOff, config.maximum)
  IN IF response.header = NoAdvice /\ (config.custom => response.body = NoAdvice)
     THEN [exact |-> backOff, waits |-> {cut}]
     ELSE [exact |-> advised,
           waits |-> IF TooLong(advised) THEN {} ELSE {Max(advised, 0)}]
Retried == pc \in {"replay", "attempt"} /\ attempt > 0

\* A retry follows exactly the wait described, slept to its end.
WaitsAsDescribed == Retried => rested \in Described.waits

\* The same, for the delays a duration can hold.
WaitsInRange == Retried /\ Described.exact \in Durations => rested \in Described.waits
=============================================================================
