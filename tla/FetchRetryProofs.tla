--------------------------- MODULE FetchRetryProofs ---------------------------
(***************************************************************************)
(* A fetch with retries, for any configuration, any number of attempts,    *)
(* any width of durations and whatever the server advises.                 *)
(***************************************************************************)
EXTENDS FetchRetry, TLAPS

\* An attempt that is yet to be made.
Ahead == pc \in {"begin", "attempt", "ask", "wait", "awake", "replay"}

\* The attempts sent are those counted, and one that may be replayed is whole.
CountInv ==
  /\ Ahead => sent = attempt
  /\ pc = "check" => sent = attempt + 1
  /\ pc = "begin" \/ (pc = "attempt" /\ config.getBody) => unsent
  /\ whole

\* The body left open is that of the last response, handed over unread.
BodyInv ==
  /\ pc \in {"begin", "attempt"} => bodies = 0
  /\ pc \notin {"begin", "attempt"} => bodies = IF Superseded THEN 1 ELSE 0

\* With the default checker nothing is ahead of a response that settles the request.
CauseInv ==
  ~ config.custom =>
    /\ ~ repeated
    /\ Ahead => ~ settled
    /\ pc = "check" /\ settled => response.status \in {"accepted", "refused"}

\* A context that is done where it is not looked at any more was not when it was.
DoneInv ==
  pc \in {"replay", "attempt"} /\ sent > 0 /\ done =>
    doneAt.sent = sent /\ doneAt.pc \in {"replay", "attempt"}

\* The wait is one of those computed, and is slept to its end.
WaitInv ==
  /\ pc = "begin" => attempt = 0
  /\ pc \in {"ask", "wait", "awake", "replay"} => attempt > 0
  /\ pc \in {"wait", "awake"} => wait > 0
  /\ pc \in {"wait", "awake"} \/ Retried => wait \in Waits
  /\ (pc = "awake" /\ ~ done) => rested = wait
  /\ Retried => rested = Max(wait, 0)

FetchInv == TypeOK /\ CountInv /\ BodyInv /\ CauseInv /\ DoneInv /\ WaitInv

-----------------------------------------------------------------------------
(* Arithmetic of durations *)

LEMMA CapacityType ==
  /\ Capacity \in Nat \ {0} /\ 2 ^ Width = 2 * Capacity
  /\ 2 ^ Width \in Nat \ {0} /\ 0 \in Durations
<1>1. Width - 1 \in 0 .. Width + Count
  BY WidthAssumption
<1>2. Capacity \in Nat \ {0} /\ 2 ^ Width = 2 * Capacity
  BY <1>1, PowerAssumption DEF Capacity
<1> QED
  BY <1>2 DEF Durations

\* A wrapped number is a duration, ...
LEMMA WrapType == ASSUME NEW n \in Int PROVE Wrap(n) \in Durations
<1>1. \A m \in Int, k \in Nat \ {0} : m % k \in 0 .. k - 1
  BY SMTT(30)
<1>2. n + Capacity \in Int
  BY CapacityType
<1>3. (n + Capacity) % (2 ^ Width) \in 0 .. 2 ^ Width - 1
  BY <1>1, <1>2, CapacityType
<1> QED
  BY <1>3, CapacityType DEF Wrap, Durations

\* ... and a duration wraps to itself.
LEMMA WrapIdentity == ASSUME NEW n \in Durations PROVE Wrap(n) = n
<1>1. \A k \in Nat \ {0} : \A m \in 0 .. k - 1 : m % k = m
  BY SMTT(30)
<1>2. n + Capacity \in 0 .. 2 * Capacity - 1
  BY CapacityType DEF Durations
<1>3. (n + Capacity) % (2 ^ Width) = n + Capacity
  BY <1>1, <1>2, CapacityType
<1> QED
  BY <1>2, <1>3, CapacityType DEF Wrap, Durations

\* A factor of a product that is a duration is one, unless the other is zero.
LEMMA FactorInRange ==
  ASSUME NEW a \in Nat \ {0}, NEW b \in Int, a * b \in Durations
  PROVE  b \in Durations
<1>1. \A c \in Nat : a * c >= c
  OBVIOUS
<1>2. CASE b >= 0
  BY <1>1, <1>2, CapacityType DEF Durations
<1>3. CASE b < 0
  <2>1. a * (0 - b) = 0 - a * b
    OBVIOUS
  <2>2. a * (0 - b) >= 0 - b
    BY <1>1, <1>3
  <2> QED
    BY <1>3, <2>1, <2>2, CapacityType DEF Durations
<1> QED
  BY <1>2, <1>3

\* So a product of durations, wrapped at each step, is exact when it is a duration.
LEMMA ProductInRange ==
  ASSUME NEW a \in Nat \ {0}, NEW b \in Int, a * b \in Durations
  PROVE  Wrap(a * Wrap(b)) = a * b /\ Wrap(Wrap(b) * a) = a * b
<1>1. Wrap(b) = b
  BY FactorInRange, WrapIdentity
<1>2. a * b = b * a
  OBVIOUS
<1> QED
  BY <1>1, <1>2, WrapIdentity

-----------------------------------------------------------------------------
(* Waits *)

\* Advice and header, by what they are.
LEMMA AdviceTypes ==
  ASSUME NEW r \in Answers \union {NoResponse}
  PROVE  /\ r.body = NoAdvice \/ r.body.delay \in Durations
         /\ \/ r.header = NoAdvice
            \/ r.header.from = "seconds" /\ r.header.delay \in Durations
            \/ r.header.from = "date" /\ r.header.delay \in Durations
<1>1. \A d \in BodyAdvice \union HeaderSeconds \union HeaderDates : d \in Durations
  BY DurationAssumption
<1>2. r.body \in Bodies /\ r.header \in Headers
  BY DEF Answers, NoResponse, Bodies, Headers
<1> QED
  BY <1>1, <1>2 DEF Bodies, Headers

LEMMA HeaderDelayType ==
  ASSUME NEW r \in Answers \union {NoResponse}, r.header # NoAdvice
  PROVE  HeaderDelay(r.header) \in Durations
<1>1. CASE r.header.from = "seconds"
  <2>1. r.header.delay \in Int
    BY <1>1, AdviceTypes, CapacityType DEF Durations
  <2>2. Wrap(r.header.delay + 1) \in Int
    BY <2>1, WrapType, CapacityType DEF Durations
  <2>3. Wrap(r.header.delay + 1) * Second \in Int
    BY <2>2, DurationAssumption
  <2> QED
    BY <1>1, <2>3, WrapType DEF HeaderDelay
<1>2. CASE r.header.from # "seconds"
  BY <1>2, AdviceTypes DEF HeaderDelay
<1> QED
  BY <1>1, <1>2

LEMMA AdviceType ==
  ASSUME NEW r \in Answers \union {NoResponse}, NEW a \in Advice(r)
  PROVE  a \in Durations
BY AdviceTypes, HeaderDelayType DEF Advice

LEMMA BackOffType ==
  ASSUME config \in Configs, NEW i \in 1 .. Count
  PROVE  BackOff(i) \in Durations
<1>1. i - 1 \in 0 .. Width + Count
  BY WidthAssumption
<1>2. 2 ^ (i - 1) \in Int
  BY <1>1, PowerAssumption
<1>3. Wrap(2 ^ (i - 1)) \in Int
  BY <1>2, WrapType, CapacityType DEF Durations
<1>4. BaseDelay * Wrap(2 ^ (i - 1)) \in Int
  BY <1>3, DurationAssumption
<1> DEFINE delay == Wrap(BaseDelay * Wrap(2 ^ (i - 1)))
<1>5. delay \in Durations
  BY <1>4, WrapType
<1>6. config.maximum \in Nat
  BY DurationAssumption DEF Configs
<1>7. BackOff(i) = IF config.maximum # 0 THEN Min(delay, config.maximum) ELSE delay
  BY DEF BackOff
<1> HIDE DEF delay
<1> QED
  BY <1>5, <1>6, <1>7, CapacityType DEF Min, Durations

LEMMA WaitsType ==
  ASSUME config \in Configs, response \in Answers \union {NoResponse}, attempt \in 1 .. Count
  PROVE  Waits \subseteq Durations
<1>1. \A a \in Advice(response) : Max(a, 0) \in Durations
  BY AdviceType, CapacityType DEF Max, Durations
<1> QED
  BY <1>1, BackOffType DEF Waits

\* A back-off that a duration can hold is the one described, ...
LEMMA BackOffExact ==
  ASSUME config \in Configs, NEW i \in 1 .. Count, BaseDelay * 2 ^ (i - 1) \in Durations
  PROVE  BackOff(i) = IF config.maximum = 0 THEN BaseDelay * 2 ^ (i - 1)
                      ELSE Min(BaseDelay * 2 ^ (i - 1), config.maximum)
<1>1. 2 ^ (i - 1) \in Int
  <2>1. i - 1 \in 0 .. Width + Count
    BY WidthAssumption
  <2> QED
    BY <2>1, PowerAssumption
<1> DEFINE power == 2 ^ (i - 1)
<1> HIDE DEF power
<1>2. Wrap(BaseDelay * Wrap(power)) = BaseDelay * power
  <2>1. CASE BaseDelay = 0
    <3>1. Wrap(power) \in Int
      BY <1>1, WrapType, CapacityType DEF Durations, power
    <3>2. BaseDelay * Wrap(power) = 0 /\ BaseDelay * power = 0
      BY <1>1, <2>1, <3>1 DEF power
    <3> QED
      BY <3>2, CapacityType, WrapIdentity
  <2>2. CASE BaseDelay # 0
    BY <1>1, <2>2, ProductInRange, DurationAssumption DEF power
  <2> QED
    BY <2>1, <2>2
<1>3. BackOff(i) = IF config.maximum # 0 THEN Min(Wrap(BaseDelay * Wrap(power)), config.maximum)
                   ELSE Wrap(BaseDelay * Wrap(power))
  BY DEF BackOff, power
<1> QED
  BY <1>2, <1>3 DEF power

\* ... and so is a header's delay.
LEMMA HeaderDelayExact ==
  ASSUME NEW r \in Answers \union {NoResponse}, r.header.from = "seconds", r.header # NoAdvice,
         (r.header.delay + 1) * Second \in Durations
  PROVE  HeaderDelay(r.header) = (r.header.delay + 1) * Second
<1> DEFINE seconds == r.header.delay + 1
<1>1. seconds \in Int
  BY AdviceTypes, CapacityType DEF Durations
<1> HIDE DEF seconds
<1>2. Second * seconds \in Durations /\ seconds * Second = Second * seconds
  BY <1>1, DurationAssumption DEF seconds
<1>3. Wrap(Wrap(seconds) * Second) = Second * seconds
  BY <1>1, <1>2, ProductInRange, DurationAssumption
<1> QED
  BY <1>2, <1>3 DEF HeaderDelay, seconds

\* So a wait computed is the wait described, when a duration can hold it.
LEMMA WaitsDescribed ==
  ASSUME config \in Configs, response \in Answers \union {NoResponse}, attempt \in 1 .. Count,
         Described.exact \in Durations, NEW w \in Waits
  PROVE  Max(w, 0) \in Described.waits
<1>1. CASE Advice(response) = {}
  <2>1. response.header = NoAdvice /\ (config.custom => response.body = NoAdvice)
    BY <1>1 DEF Advice
  <2> DEFINE backOff == BaseDelay * 2 ^ (attempt - 1)
  <2>2. /\ Described.exact = backOff
        /\ Described.waits = {IF config.maximum = 0 THEN backOff ELSE Min(backOff, config.maximum)}
    BY <2>1 DEF Described
  <2>3. w = IF config.maximum = 0 THEN backOff ELSE Min(backOff, config.maximum)
    BY <1>1, <2>2, BackOffExact DEF Waits
  <2>4. backOff \in Nat
    <3>1. attempt - 1 \in 0 .. Width + Count
      BY WidthAssumption
    <3>2. 2 ^ (attempt - 1) \in Nat
      BY <3>1, PowerAssumption
    <3> QED
      BY <3>2, DurationAssumption
  <2>5. config.maximum \in Nat
    BY DurationAssumption DEF Configs
  <2> HIDE DEF backOff
  <2> QED
    BY <2>2, <2>3, <2>4, <2>5 DEF Min, Max
<1>2. ASSUME NEW a \in Durations, Advice(response) = {a}, Described.exact = a,
             Described.waits = IF TooLong(a) THEN {} ELSE {Max(a, 0)}
      PROVE  Max(w, 0) \in Described.waits
  <2>1. w = Max(a, 0) /\ ~ TooLong(a)
    BY <1>2 DEF Waits
  <2> QED
    BY <1>2, <2>1 DEF Max, Durations
<1>3. CASE config.custom /\ response.body # NoAdvice
  <2>1. /\ Described.exact = response.body.delay
        /\ Described.waits = IF TooLong(response.body.delay) THEN {} ELSE {Max(response.body.delay, 0)}
    BY <1>3 DEF Described
  <2>2. Advice(response) = {response.body.delay} /\ response.body.delay \in Durations
    BY <1>3, AdviceTypes DEF Advice
  <2> QED
    BY <1>2, <2>1, <2>2
<1>4. CASE ~ (config.custom /\ response.body # NoAdvice) /\ response.header # NoAdvice
  <2> DEFINE advised == IF response.header.from = "seconds" THEN (response.header.delay + 1) * Second
                        ELSE response.header.delay
  <2>1. /\ Described.exact = advised
        /\ Described.waits = IF TooLong(advised) THEN {} ELSE {Max(advised, 0)}
    BY <1>4 DEF Described
  <2>2. HeaderDelay(response.header) = advised
    BY <1>4, <2>1, HeaderDelayExact DEF HeaderDelay
  <2>3. Advice(response) = {advised} /\ advised \in Durations
    BY <1>4, <2>1, <2>2 DEF Advice
  <2> HIDE DEF advised
  <2> QED
    BY <1>2, <2>1, <2>3
<1> QED
  BY <1>1, <1>3, <1>4 DEF Advice

-----------------------------------------------------------------------------
(* Steps *)

\* Types are kept, and attempts counted.
LEMMA TypeStep ==
  ASSUME TypeOK, CountInv, WaitInv, [Next]_vars
  PROVE  (TypeOK /\ CountInv)'
<1> USE WidthAssumption DEF TypeOK, CountInv, Ahead, state, history
<1>1. CASE Begin
  BY <1>1 DEF Begin
<1>2. CASE DoFails
  BY <1>2 DEF DoFails, Attempt
<1>3. CASE ReadFails
  <2>1. PICK r \in Answers :
          Attempt([r EXCEPT !.body = NoAdvice], TRUE, FALSE) /\ settled' = (settled \/ r.status # "busy")
    BY <1>3 DEF ReadFails
  <2>2. [r EXCEPT !.body = NoAdvice] \in Answers
    BY DEF Answers, Bodies
  <2> HIDE DEF Answers
  <2> QED
    BY <2>1, <2>2 DEF Attempt
<1>4. CASE Answered
  BY <1>4 DEF Answered, Attempt
<1>5. CASE Check
  BY <1>5 DEF Check
<1>6. CASE Ask
  <2>1. Waits \subseteq Durations
    <3>1. attempt \in 1 .. Count
      BY <1>6 DEF Ask, WaitInv
    <3> QED
      BY <3>1, WaitsType
  <2> QED
    BY <1>6, <2>1 DEF Ask
<1>7. CASE Wait
  BY <1>7 DEF Wait
<1>8. CASE Awake
  BY <1>8 DEF Awake
<1>9. CASE Replay
  BY <1>9 DEF Replay
<1>10. CASE ReplayFails
  BY <1>10 DEF ReplayFails
<1>11. CASE Cancel
  BY <1>11 DEF Cancel
<1>12. CASE UNCHANGED vars
  BY <1>12 DEF vars
<1> QED
  BY <1>1, <1>2, <1>3, <1>4, <1>5, <1>6, <1>7, <1>8, <1>9, <1>10, <1>11, <1>12 DEF Next

\* A body is closed when its response is superseded, or is an error.
LEMMA BodyStep ==
  ASSUME TypeOK, BodyInv, [Next]_vars
  PROVE  BodyInv'
<1> USE  DEF TypeOK, BodyInv, Superseded, NoResponse, state, history
<1>1. CASE Begin
  BY <1>1 DEF Begin
<1>2. CASE DoFails
  BY <1>2 DEF DoFails, Attempt
<1>3. CASE ReadFails
  BY <1>3 DEF ReadFails, Attempt
<1>4. CASE Answered
  <2>1. PICK r \in Answers :
          Attempt(r, ~ config.skipStatus /\ r.status # "accepted",
                  config.skipRead /\ ~ (~ config.skipStatus /\ r.status # "accepted"))
    BY <1>4 DEF Answered
  <2> DEFINE err == ~ config.skipStatus /\ r.status # "accepted"
  <2>2. r # NoResponse
    BY DEF Answers
  <2>3. pc = "attempt" /\ pc' = "check" /\ config' = config /\ response' = r
    BY <2>1 DEF Attempt
  <2>4. /\ failed' <=> err
        /\ config.skipRead /\ ~ err => bodies' = bodies + 1
        /\ ~ (config.skipRead /\ ~ err) => bodies' = bodies
    BY <2>1 DEF Attempt
  <2> HIDE DEF err, NoResponse
  <2> QED
    BY <2>2, <2>3, <2>4
<1>5. CASE Check
  BY <1>5 DEF Check
<1>6. CASE Ask
  BY <1>6 DEF Ask
<1>7. CASE Wait
  BY <1>7 DEF Wait
<1>8. CASE Awake
  BY <1>8 DEF Awake
<1>9. CASE Replay
  BY <1>9 DEF Replay
<1>10. CASE ReplayFails
  BY <1>10 DEF ReplayFails
<1>11. CASE Cancel
  BY <1>11 DEF Cancel
<1>12. CASE UNCHANGED vars
  BY <1>12 DEF vars
<1> QED
  BY <1>1, <1>2, <1>3, <1>4, <1>5, <1>6, <1>7, <1>8, <1>9, <1>10, <1>11, <1>12 DEF Next

\* Only a busy answer, or none, is tried again.
LEMMA CauseStep ==
  ASSUME TypeOK, CauseInv, [Next]_vars
  PROVE  CauseInv'
<1> USE  DEF TypeOK, CauseInv, Ahead, Answers, NoResponse, Retryable, state, history
<1>1. CASE Begin
  BY <1>1 DEF Begin
<1>2. CASE DoFails
  BY <1>2 DEF DoFails, Attempt
<1>3. CASE ReadFails
  BY <1>3 DEF ReadFails, Attempt
<1>4. CASE Answered
  BY <1>4 DEF Answered, Attempt
<1>5. CASE Check
  BY <1>5 DEF Check
<1>6. CASE Ask
  BY <1>6 DEF Ask
<1>7. CASE Wait
  BY <1>7 DEF Wait
<1>8. CASE Awake
  BY <1>8 DEF Awake
<1>9. CASE Replay
  BY <1>9 DEF Replay
<1>10. CASE ReplayFails
  BY <1>10 DEF ReplayFails
<1>11. CASE Cancel
  BY <1>11 DEF Cancel
<1>12. CASE UNCHANGED vars
  BY <1>12 DEF vars
<1> QED
  BY <1>1, <1>2, <1>3, <1>4, <1>5, <1>6, <1>7, <1>8, <1>9, <1>10, <1>11, <1>12 DEF Next

\* A context is looked at before each retry.
LEMMA DoneStep ==
  ASSUME TypeOK, CountInv, DoneInv, [Next]_vars
  PROVE  DoneInv'
<1> USE  DEF TypeOK, CountInv, DoneInv, Ahead, state, history
<1>1. CASE Begin
  BY <1>1 DEF Begin
<1>2. CASE DoFails
  BY <1>2 DEF DoFails, Attempt
<1>3. CASE ReadFails
  BY <1>3 DEF ReadFails, Attempt
<1>4. CASE Answered
  BY <1>4 DEF Answered, Attempt
<1>5. CASE Check
  BY <1>5 DEF Check
<1>6. CASE Ask
  BY <1>6 DEF Ask
<1>7. CASE Wait
  BY <1>7 DEF Wait
<1>8. CASE Awake
  BY <1>8 DEF Awake
<1>9. CASE Replay
  BY <1>9 DEF Replay
<1>10. CASE ReplayFails
  BY <1>10 DEF ReplayFails
<1>11. CASE Cancel
  BY <1>11 DEF Cancel
<1>12. CASE UNCHANGED vars
  BY <1>12 DEF vars
<1> QED
  BY <1>1, <1>2, <1>3, <1>4, <1>5, <1>6, <1>7, <1>8, <1>9, <1>10, <1>11, <1>12 DEF Next

\* A wait is slept to its end.
LEMMA WaitStep ==
  ASSUME TypeOK, CountInv, WaitInv, [Next]_vars
  PROVE  WaitInv'
<1> USE  DEF TypeOK, WaitInv, Retried, state, history
<1>u. ASSUME UNCHANGED <<config, response, attempt>> PROVE UNCHANGED Waits
  BY <1>u DEF Waits, Advice, TooLong, BackOff
<1>1. CASE Begin
  <2>1. UNCHANGED Waits
    BY <1>1, <1>u DEF Begin
  <2> QED
    BY <1>1, <2>1 DEF Begin
<1>2. CASE DoFails
  BY <1>2 DEF DoFails, Attempt
<1>3. CASE ReadFails
  BY <1>3 DEF ReadFails, Attempt
<1>4. CASE Answered
  BY <1>4 DEF Answered, Attempt
<1>5. CASE Check
  BY <1>5 DEF Check
<1>6. CASE Ask
  <2>1. UNCHANGED Waits
    BY <1>6, <1>u DEF Ask
  <2>2. attempt \in 1 .. Count /\ Waits \subseteq Int
    BY <1>6, WaitsType, CapacityType DEF Ask, Durations
  <2> QED
    BY <1>6, <2>1, <2>2 DEF Ask, Max
<1>7. CASE Wait
  <2>1. UNCHANGED Waits
    BY <1>7, <1>u DEF Wait
  <2> QED
    BY <1>7, <2>1 DEF Wait, Max
<1>8. CASE Awake
  <2>1. UNCHANGED Waits
    BY <1>8, <1>u DEF Awake
  <2> QED
    BY <1>8, <2>1 DEF Awake, Max
<1>9. CASE Replay
  <2>1. UNCHANGED Waits
    BY <1>9, <1>u DEF Replay
  <2> QED
    BY <1>9, <2>1 DEF Replay
<1>10. CASE ReplayFails
  BY <1>10 DEF ReplayFails
<1>11. CASE Cancel
  <2>1. UNCHANGED Waits
    BY <1>11, <1>u DEF Cancel
  <2> QED
    BY <1>11, <2>1 DEF Cancel
<1>12. CASE UNCHANGED vars
  <2>1. UNCHANGED Waits
    BY <1>12, <1>u DEF vars
  <2> QED
    BY <1>12, <2>1 DEF vars
<1> QED
  BY <1>1, <1>2, <1>3, <1>4, <1>5, <1>6, <1>7, <1>8, <1>9, <1>10, <1>11, <1>12 DEF Next

-----------------------------------------------------------------------------
(* The invariant *)

LEMMA FetchInvariant == Spec => []FetchInv
<1>1. Init => FetchInv
  <2> SUFFICES ASSUME Init PROVE FetchInv
    OBVIOUS
  <2>1. TypeOK
    <3>1. {failed, done, unsent, whole, settled, repeated} \subseteq BOOLEAN
      BY Zenon DEF Init
    <3>2. /\ config \in Configs /\ pc = "begin" /\ attempt = 0 /\ sent = 0 /\ wait = 0
          /\ response = NoResponse
      BY DEF Init
    <3> QED
      BY <3>1, <3>2, WidthAssumption, CapacityType DEF TypeOK
  <2>2. CountInv /\ BodyInv /\ CauseInv /\ DoneInv
    BY DEF Init, CountInv, Ahead, BodyInv, CauseInv, DoneInv
  <2>3. WaitInv
    BY DEF Init, WaitInv, Retried
  <2> QED
    BY <2>1, <2>2, <2>3 DEF FetchInv
<1>2. FetchInv /\ [Next]_vars => FetchInv'
  BY TypeStep, BodyStep, CauseStep, DoneStep, WaitStep DEF FetchInv
<1> QED
  BY <1>1, <1>2, PTL DEF Spec

\* A response body is left open only when it is handed to the caller unread.
THEOREM BodiesClosedCorrect == Spec => []BodiesClosed
<1>1. FetchInv => BodiesClosed
  BY DEF FetchInv, BodyInv, Superseded, BodiesClosed
<1> QED
  BY <1>1, FetchInvariant, PTL

\* Every attempt sends the whole body when it can be made anew, and there are no more
\* attempts than configured.
THEOREM SentWholeCorrect == Spec => []SentWhole
<1>1. FetchInv => SentWhole
  BY DEF FetchInv, CountInv, SentWhole
<1> QED
  BY <1>1, FetchInvariant, PTL

\* With the default checker nothing is sent again once the server has settled the
\* request, and no retry starts with a context found done.
THEOREM RetriedForCauseCorrect == Spec => []RetriedForCause
<1>1. FetchInv => RetriedForCause
  BY DEF FetchInv, CauseInv, DoneInv, RetriedForCause
<1> QED
  BY <1>1, FetchInvariant, PTL

\* A delay that a duration can hold is waited for exactly as described, whatever the
\* width of a duration, the delays advised and the number of the attempt.
THEOREM WaitsInRangeCorrect == Spec => []WaitsInRange
<1>1. FetchInv => WaitsInRange
  <2> SUFFICES ASSUME FetchInv, Retried, Described.exact \in Durations
               PROVE  rested \in Described.waits
    BY DEF WaitsInRange
  <2>1. wait \in Waits /\ rested = Max(wait, 0)
    BY DEF FetchInv, WaitInv
  <2>2. attempt \in 1 .. Count /\ config \in Configs /\ response \in Answers \union {NoResponse}
    BY WidthAssumption DEF Retried, FetchInv, TypeOK
  <2> QED
    BY <2>1, <2>2, WaitsDescribed
<1> QED
  BY <1>1, FetchInvariant, PTL

=============================================================================
