----------------------------- MODULE MuxProofs -----------------------------
(***************************************************************************)
(* Whatever the requests, their number and their interleaving, the mux     *)
(* answers each once, keeps the endpoint's headers, offers nothing gated   *)
(* to a shared cache, lets the browser read its refusals, and sends what   *)
(* was built for the request unless two at once share the array.           *)
(***************************************************************************)
EXTENDS Mux, SequenceTheorems, TLAPS

USE NobodyAssumption, EndpointAssumption

Words == {"type", "public", "private", "no-cache", "unused", "allow", "cors", "handler",
          "vary"} \union Encodings
Entry == [says : Words, to : Requests \union {Nobody}]
Slice == [shared : BOOLEAN, len : Nat, own : Seq(Entry)]

\* The shape of the headers: those of the endpoint come first in the array, and a
\* slice of it covers at least them.
Shape ==
  /\ endpoint \in Endpoints
  /\ pc \in [Requests -> Stages]
  /\ array \in Seq(Entry) /\ Len(array) >= 2
  /\ array[1] = Static[1] /\ array[2] = Static[2]
  /\ response \in [Requests -> Slice]
  /\ \A r \in Requests : response[r].shared => response[r].len \in 2 .. Len(array)
  /\ handler \in [Requests -> Seq(Entry)]
  /\ cors \in [Requests -> Seq(Entry)]
  /\ chosen \in [Requests -> Encodings \union {"identity", "cached", "none"}]

\* How often a header was written, by where the request is.
Written ==
  /\ pc \in [Requests -> Stages]
  /\ headers \in [Requests -> {0, 1}]
  /\ \A r \in Requests :
       /\ headers[r] = 1 => pc[r] \in {"error", "fallback", "done", "dropped"}
       /\ pc[r] = "done" => headers[r] = 1

Public == General("public")
Clean(entries) == \A i \in 1 .. Len(entries) : entries[i] # Public

\* Where "public" can be while the endpoint is not: among its own headers, and in a
\* response to it that has not been made private yet.
Safe(r) == IF response[r].shared THEN ~ endpoint.cachePublic ELSE Clean(response[r].own)
Unsafe == {"encode", "private"}

ArrayClean == \A i \in 3 .. Len(array) : array[i] # Public
PartsClean == \A r \in Requests : Clean(handler[r]) /\ Clean(cors[r])
SentShape == sent \in [Requests -> Seq(Entry)] /\ next \in [Requests -> Nat \ {0}]
ResponsesClean ==
  ~ endpoint.public => \A r \in Requests : pc[r] \notin Unsafe => Safe(r)
SentClean == ~ endpoint.public => \A r \in Requests : Clean(sent[r])

Gated == ArrayClean /\ PartsClean /\ SentShape /\ ResponsesClean /\ SentClean

Early == {"firewall", "endpoint", "cors", "handler", "static"} \union
           {Checks[i] : i \in DOMAIN Checks}
Building == Making \ {"write"}
Undisturbed(r) == Len(array) = Len(Static) \/ ~ overlapped[r]

\* How far a request has come: its headers are sent after its response was built.
Progress(r) ==
  /\ handler[r] \in {<<>>, <<Says("handler", r)>>}
  /\ cors[r] \in {<<>>, <<Says("cors", r)>>}
  /\ pc[r] \in Early => chosen[r] = "none"
  /\ pc[r] \in {"encode", "private"} => chosen[r] # "none"
  /\ pc[r] \in Early \union Building =>
       sent[r] = <<>> /\ next[r] = 1 /\ outcome[r] = "pending"
  /\ outcome[r] = "answer" => pc[r] \in {"write", "fallback", "done"}
  /\ outcome[r] = "refusal" => pc[r] \in {"error", "fallback", "done"}

\* A refusal is made of the CORS headers, of which there is at most one.
Refusing(r) ==
  outcome[r] = "refusal" =>
    /\ pc[r] = "error" =>
         /\ headers[r] = 0
         /\ response[r] = Own(cors[r])
         /\ \/ next[r] = 1 /\ sent[r] = <<>>
            \/ next[r] = 2 /\ sent[r] = cors[r] /\ cors[r] # <<>>
    /\ pc[r] # "error" => sent[r] = cors[r]

\* What a response says before and while it is sent.
Built(r) ==
  CASE pc[r] = "encode" -> Static
    [] pc[r] = "private" -> Static \o Encoded(r)
    [] pc[r] = "merge" -> IF chosen[r] = "none" THEN handler[r] ELSE Base(r)
    [] pc[r] = "vary" -> Base(r) \o handler[r]
    [] pc[r] = "finish" -> Base(r) \o handler[r] \o Varies
    [] OTHER -> Whole(r)

\* The headers sent are those looked at, but for the type of a response without content.
Sending(r) ==
  LET skipped == IF chosen[r] = "cached" THEN 1 ELSE 0 IN
    /\ next[r] \in 1 .. Len(Whole(r)) + 1
    /\ next[r] = 1 => sent[r] = <<>>
    /\ next[r] > 1 => Len(sent[r]) = next[r] - 1 - skipped
    /\ \A i \in 1 .. Len(sent[r]) : sent[r][i] = Whole(r)[i + skipped]

Responding(r) ==
  Undisturbed(r) =>
    /\ pc[r] \in Building => Content(response[r]) = Built(r)
    /\ outcome[r] = "answer" =>
         /\ pc[r] = "write" => Content(response[r]) = Whole(r) /\ Sending(r)
         /\ pc[r] # "write" => sent[r] = Answer(r)

\* Two responses that share the array know of one another.
Aware(r) ==
  \A q \in Requests \ {r} :
    /\ pc[q] \in Making /\ pc[r] \in Making
    /\ response[q].shared /\ response[r].shared
    => overlapped[r]

History ==
  /\ outcome \in [Requests -> {"pending", "answer", "refusal", "failed"}]
  /\ overlapped \in [Requests -> BOOLEAN]

Faithful ==
  /\ History
  /\ \A r \in Requests : Progress(r) /\ Refusing(r) /\ Responding(r) /\ Aware(r)

----------------------------------------------------------------------------
(* AnsweredOnce *)

LEMMA InitWritten == Init => Written
  BY DEF Init, Written, Stages

LEMMA NextWritten == Written /\ [Next]_vars => Written'
<1> SUFFICES ASSUME Written, [Next]_vars PROVE Written'
  OBVIOUS
<1> USE DEF Written
<1>1. ASSUME UNCHANGED <<pc, headers>> PROVE Written'
  BY <1>1
<1>2. ASSUME NEW r \in Requests, NEW stage \in Stages \ {"done"}, Goto(r, stage),
             UNCHANGED headers,
             headers[r] = 0 \/ stage \in {"error", "fallback", "dropped"}
      PROVE  Written'
  BY <1>2 DEF Goto
<1>3. ASSUME NEW r \in Requests, NEW stage \in {"fallback", "error", "done", "dropped"},
             Goto(r, stage), WriteHeader(r), headers[r] = 0
      PROVE  Written'
  BY <1>3 DEF Goto, WriteHeader, Stages
<1>4. CASE UNCHANGED vars
  BY <1>1, <1>4 DEF vars, writer
<1>5. CASE \E r \in Requests : Firewall(r) \/ HandleRequest(r) \/ ProduceResponse(r)
  <2> PICK r \in Requests : Firewall(r) \/ HandleRequest(r) \/ ProduceResponse(r)
    BY <1>5
  <2>1. \A i \in DOMAIN Checks : Checks[i] \in Stages /\ Checks[i] \notin {"error", "fallback", "done", "dropped"}
    BY DEF Checks, Stages
  <2>2. CASE FirewallDrops(r)
    BY <1>2, <1>3, <2>2 DEF FirewallDrops, Stages
  <2>3. CASE CheckPasses(r)
    <3>1. PICK i \in DOMAIN Checks :
            /\ pc[r] = Checks[i]
            /\ Goto(r, IF i = Len(Checks) THEN "handler" ELSE Checks[i + 1])
      BY <2>3 DEF CheckPasses
    <3>2. (IF i = Len(Checks) THEN "handler" ELSE Checks[i + 1]) \in Stages \ {"done"}
      BY <2>1 DEF Checks, Stages
    <3>3. headers[r] = 0 /\ UNCHANGED headers
      BY <2>1, <2>3, <3>1 DEF CheckPasses, writer
    <3> QED
      BY <1>2, <3>1, <3>2, <3>3
  <2>4. CASE CheckRefuses(r)
    <3>1. headers[r] = 0 /\ UNCHANGED headers /\ Goto(r, "error")
      BY <2>1, <2>4 DEF CheckRefuses, Error, writer
    <3> QED
      BY <1>2, <3>1 DEF Stages
  <2>5. CASE FirewallAccepts(r) \/ FindEndpoint(r)
    BY <1>2, <2>5 DEF FirewallAccepts, FindEndpoint, Stages, writer
  <2>6. CASE FirewallRejects(r) \/ NotFound(r)
    <3>1. Goto(r, "error") /\ UNCHANGED headers
      BY <2>6 DEF FirewallRejects, NotFound, Error, writer
    <3> QED
      BY <1>2, <3>1 DEF Stages
  <2>7. CASE UnmatchedMethod(r)
    <3>1. (Goto(r, "error") \/ Goto(r, "write")) /\ UNCHANGED headers /\ headers[r] = 0
      BY <2>7 DEF UnmatchedMethod, Error, writer
    <3>2. {"error", "write"} \subseteq Stages \ {"done"}
      BY DEF Stages, Making
    <3> QED
      BY <1>2, <3>1, <3>2
  <2>8. CASE Cors(r)
    <3>1. Checks[1] \in Stages \ {"done"}
      BY DEF Checks, Stages
    <3> QED
      BY <1>2, <2>8, <3>1 DEF Cors, Error, Stages, writer
  <2>9. CASE Finish(r)
    <3>1. Goto(r, "write") /\ UNCHANGED headers /\ headers[r] = 0
      BY <2>9 DEF Finish, writer
    <3>2. "write" \in Stages \ {"done"}
      BY DEF Stages, Making
    <3> QED
      BY <1>2, <3>1, <3>2
  <2>10. CASE Handler(r) \/ StaticContent(r)
    <3>1. headers[r] = 0 /\ UNCHANGED headers
      BY <2>10 DEF Handler, StaticContent, writer
    <3>2. \E stage \in {"static", "merge", "encode"} : Goto(r, stage)
      BY <2>10 DEF Handler, StaticContent
    <3> QED
      BY <1>2, <3>1, <3>2 DEF Stages, Making
  <2>11. CASE HandlerRefuses(r) \/ StaticContentRefuses(r)
    <3>1. Goto(r, "error") /\ UNCHANGED headers
      BY <2>11 DEF HandlerRefuses, StaticContentRefuses, Error, writer
    <3> QED
      BY <1>2, <3>1 DEF Stages
  <2>12. CASE Encode(r) \/ Private(r) \/ Merge(r) \/ Vary(r)
    <3>1. headers[r] = 0 /\ UNCHANGED headers
      BY <2>12 DEF Encode, Private, Merge, Vary, writer
    <3>2. \E stage \in {"private", "merge", "vary", "finish"} : Goto(r, stage)
      BY <2>12 DEF Encode, Private, Merge, Vary
    <3> QED
      BY <1>2, <3>1, <3>2 DEF Stages, Making
  <2> QED
    BY <2>2, <2>3, <2>4, <2>5, <2>8, <2>9, <2>10, <2>12, <2>6, <2>7, <2>11
       DEF Firewall, HandleRequest, ProduceResponse
<1>6. CASE \E r \in Requests : Respond(r)
  <2> PICK r \in Requests : Respond(r)
    BY <1>6
  <2>1. CASE AddHeader(r)
    BY <1>1, <2>1 DEF AddHeader
  <2>2. CASE WriteBody(r)
    BY <1>3, <2>2 DEF WriteBody
  <2>3. CASE WriteFails(r)
    BY <1>2, <2>3 DEF WriteFails, Error, Stages
  <2>4. CASE WriteError(r)
    BY <1>2, <1>3, <2>4 DEF WriteError, Stages
  <2>5. CASE ErrorFails(r)
    BY <1>2, <2>5 DEF ErrorFails, Stages, writer
  <2>6. CASE Fallback(r)
    BY <1>3, <2>6 DEF Fallback, Goto, Stages
  <2> QED
    BY <2>1, <2>2, <2>3, <2>4, <2>5, <2>6 DEF Respond
<1> QED
  BY <1>4, <1>5, <1>6 DEF Next

\* ServeHttpWithCallback answers every request it does not drop with one header, for
\* any number of requests and whichever of the parsers, checks, handlers and writes
\* fail.
THEOREM AnsweredOnceCorrect == Spec => []AnsweredOnce
<1>1. Written => AnsweredOnce
  BY DEF Written, AnsweredOnce
<1> QED
  BY InitWritten, NextWritten, <1>1, PTL DEF Spec
----------------------------------------------------------------------------
(* The shape of the headers *)

LEMMA StaticShape ==
  ASSUME endpoint \in Endpoints
  PROVE  /\ Static \in Seq(Entry) /\ Len(Static) = 2
         /\ Static[1] = General("type")
         /\ Static[2] = Public <=> endpoint.cachePublic
  BY DEF Static, General, Says, Entry, Words, Public

LEMMA ContentShape ==
  ASSUME Shape, NEW r \in Requests
  PROVE  /\ Content(response[r]) \in Seq(Entry)
         /\ response[r].shared =>
              /\ Len(Content(response[r])) = response[r].len
              /\ \A i \in 1 .. response[r].len : Content(response[r])[i] = array[i]
<1>1. response[r] \in Slice
  BY DEF Shape
<1>2. CASE response[r].shared
  <2>1. response[r].len \in 2 .. Len(array) /\ array \in Seq(Entry)
    BY <1>2 DEF Shape
  <2>2. Content(response[r]) = SubSeq(array, 1, response[r].len)
    BY <1>2 DEF Content
  <2> QED
    BY <2>1, <2>2, SubSeqProperties
<1>3. CASE ~ response[r].shared
  BY <1>1, <1>3 DEF Content, Slice
<1> QED
  BY <1>2, <1>3

LEMMA ExtendShape ==
  ASSUME Shape, NEW r \in Requests, NEW entries \in Seq(Entry), Extend(r, entries)
  PROVE  /\ array' \in Seq(Entry) /\ Len(array') = Len(array)
         /\ array'[1] = array[1] /\ array'[2] = array[2]
         /\ response' \in [Requests -> Slice]
         /\ \A q \in Requests : response'[q].shared => response'[q].len \in 2 .. Len(array)
<1> DEFINE slice == response[r]
<1>1. slice \in Slice /\ array \in Seq(Entry) /\ Len(array) \in Nat /\ Len(entries) \in Nat
  BY DEF Shape
<1>2. CASE Fits(slice, entries)
  <2>1. slice.shared /\ slice.len \in 2 .. Len(array) /\ slice.len + Len(entries) <= Len(array)
    BY <1>2 DEF Fits, Shape
  <2>2. array' = [i \in 1 .. Len(array) |->
                    IF i \in slice.len + 1 .. slice.len + Len(entries)
                    THEN entries[i - slice.len] ELSE array[i]]
    BY <1>1, <1>2 DEF Extend
  <2>3. \A i \in 1 .. Len(array) : array'[i] \in Entry
    BY <1>1, <2>1, <2>2
  <2>4. array' \in Seq(Entry) /\ Len(array') = Len(array)
    BY <1>1, <2>2, <2>3
  <2>5. array'[1] = array[1] /\ array'[2] = array[2]
    BY <1>1, <2>1, <2>2
  <2>6. response' = [response EXCEPT ![r].len = @ + Len(entries)]
    BY <1>2 DEF Extend
  <2>7. [slice EXCEPT !.len = @ + Len(entries)] \in Slice
    <3>1. slice.len + Len(entries) \in Nat
      BY <1>1 DEF Slice
    <3>2. [slice EXCEPT !.len = @ + Len(entries)] =
            [shared |-> slice.shared, len |-> slice.len + Len(entries), own |-> slice.own]
      BY <1>1 DEF Slice
    <3> QED
      BY <1>1, <3>1, <3>2 DEF Slice
  <2>8. response' = [response EXCEPT ![r] = [slice EXCEPT !.len = @ + Len(entries)]]
    BY <1>1, <2>6 DEF Slice, Shape
  <2>9. response' \in [Requests -> Slice]
    BY <2>7, <2>8 DEF Shape
  <2>10. response'[r].len = slice.len + Len(entries)
    BY <1>1, <2>8 DEF Slice, Shape
  <2>11. \A q \in Requests \ {r} : response'[q] = response[q]
    BY <2>8 DEF Shape
  <2>12. \A q \in Requests : response'[q].shared => response'[q].len \in 2 .. Len(array)
    <3>1. slice.len + Len(entries) \in 2 .. Len(array)
      BY <1>1, <2>1
    <3>2. \A q \in Requests \ {r} : response'[q].shared => response'[q].len \in 2 .. Len(array)
      BY <2>11 DEF Shape
    <3> QED
      BY <2>10, <3>1, <3>2
  <2> QED
    BY <2>4, <2>5, <2>9, <2>12
<1>3. CASE ~ Fits(slice, entries)
  <2>1. UNCHANGED array
    BY <1>3 DEF Extend
  <2>2. response' = [response EXCEPT ![r] =
           IF entries = <<>> THEN slice ELSE Own(Content(slice) \o entries)]
    BY <1>3 DEF Extend
  <2>3. Content(slice) \o entries \in Seq(Entry)
    BY ContentShape
  <2>4. Own(Content(slice) \o entries) \in Slice
    BY <2>3 DEF Own, Slice
  <2>5. ~ Own(Content(slice) \o entries).shared
    BY DEF Own
  <2>6. \A q \in Requests : response'[q] = response[q] \/ response'[q] = Own(Content(slice) \o entries)
    BY <2>2 DEF Shape
  <2>7. response' \in [Requests -> Slice]
    BY <1>1, <2>2, <2>4 DEF Shape
  <2>8. \A q \in Requests : response'[q].shared => response'[q].len \in 2 .. Len(array)
    BY <2>5, <2>6 DEF Shape
  <2> QED
    BY <1>1, <2>1, <2>7, <2>8 DEF Shape
<1> QED
  BY <1>2, <1>3

LEMMA InitShape == Init => Shape
<1> SUFFICES ASSUME Init PROVE Shape
  OBVIOUS
<1>1. PICK spare \in Spares : array = Static \o [i \in 1 .. spare |-> General("unused")]
  BY DEF Init
<1>2. spare \in Nat
  BY <1>1
<1>3. General("unused") \in Entry
  BY DEF General, Says, Entry, Words
<1>4. [i \in 1 .. spare |-> General("unused")] \in Seq(Entry)
  BY <1>2, <1>3
<1>5. Static \in Seq(Entry) /\ Len(Static) = 2
  BY StaticShape DEF Init
<1>6. array \in Seq(Entry) /\ Len(array) >= 2 /\ array[1] = Static[1] /\ array[2] = Static[2]
  <2> DEFINE free == [i \in 1 .. spare |-> General("unused")]
  <2>1. array = Static \o free /\ free \in Seq(Entry)
    BY <1>1, <1>4
  <2>2. Len(free) >= 0
    BY <2>1
  <2> HIDE DEF free
  <2>3. /\ array \in Seq(Entry) /\ Len(array) = Len(Static) + Len(free)
        /\ \A i \in 1 .. Len(Static) + Len(free) :
             array[i] = IF i <= Len(Static) THEN Static[i] ELSE free[i - Len(Static)]
    BY <1>5, <2>1, ConcatProperties
  <2> QED
    BY <1>5, <2>1, <2>2, <2>3
<1>7. response \in [Requests -> Slice] /\ \A r \in Requests : ~ response[r].shared
  BY DEF Init, Own, Slice
<1>8. handler \in [Requests -> Seq(Entry)] /\ cors = handler
  BY DEF Init
<1>9. pc \in [Requests -> Stages]
  BY DEF Init, Stages
<1>10. chosen \in [Requests -> Encodings \union {"identity", "cached", "none"}]
  BY DEF Init
<1>11. endpoint \in Endpoints
  BY DEF Init
<1> QED
  BY <1>6, <1>7, <1>8, <1>9, <1>10, <1>11 DEF Shape

LEMMA PrivatelyClean ==
  ASSUME NEW entries \in Seq(Entry)
  PROVE  Privately(entries) \in Seq(Entry) /\ Clean(Privately(entries))
<1>1. General("private") \in Entry /\ General("private") # Public
  BY DEF General, Says, Entry, Words, Public
<1>2. \A i \in 1 .. Len(entries) :
        Privately(entries)[i] \in Entry /\ Privately(entries)[i] # Public
  BY <1>1 DEF Privately, Public
<1>3. Privately(entries) \in Seq(Entry) /\ Len(Privately(entries)) = Len(entries)
  BY <1>1 DEF Privately
<1> QED
  BY <1>2, <1>3 DEF Clean

\* What a step adds to a response.
LEMMA AddedShape ==
  ASSUME Shape, NEW r \in Requests
  PROVE  /\ Encoded(r) \in Seq(Entry) /\ Clean(Encoded(r))
         /\ Varies \in Seq(Entry) /\ Clean(Varies)
         /\ handler[r] \in Seq(Entry) /\ cors[r] \in Seq(Entry)
<1>1. chosen[r] \in Encodings => General(chosen[r]) \in Entry /\ General(chosen[r]) # Public
  BY EncodingAssumption DEF General, Says, Entry, Words, Public
<1>2. General("vary") \in Entry /\ General("vary") # Public
  BY DEF General, Says, Entry, Words, Public
<1>3. handler[r] \in Seq(Entry) /\ cors[r] \in Seq(Entry)
  BY DEF Shape
<1> QED
  BY <1>1, <1>2, <1>3 DEF Encoded, Varies, Clean

LEMMA OwnShape ==
  ASSUME NEW entries \in Seq(Entry)
  PROVE  Own(entries) \in Slice /\ ~ Own(entries).shared
  BY DEF Own, Slice

LEMMA SaysShape ==
  ASSUME NEW r \in Requests, NEW what \in {"allow", "cors", "handler"}
  PROVE  <<Says(what, r)>> \in Seq(Entry) /\ Clean(<<Says(what, r)>>)
  BY DEF Says, Entry, Words, Clean, Public, General

LEMMA NextShape == Shape /\ [Next]_vars => Shape'
<1> SUFFICES ASSUME Shape, [Next]_vars PROVE Shape'
  OBVIOUS
<1> DEFINE same == UNCHANGED <<endpoint, array, response, handler, cors, chosen>>
<1>1. UNCHANGED endpoint => UNCHANGED Static
  BY DEF Static
<1>2. ASSUME same, UNCHANGED pc \/ \E r \in Requests, stage \in Stages : Goto(r, stage)
      PROVE  Shape'
  <2>1. pc' \in [Requests -> Stages]
    BY <1>2 DEF Shape, Goto
  <2> QED
    BY <1>1, <1>2, <2>1 DEF Shape
<1>3. ASSUME NEW r \in Requests, NEW stage \in Stages, Goto(r, stage),
             NEW entries \in Seq(Entry),
             response' = [response EXCEPT ![r] = Own(entries)],
             handler' \in [Requests -> Seq(Entry)],
             UNCHANGED <<endpoint, array, cors, chosen>>
      PROVE  Shape'
  BY <1>1, <1>3, OwnShape DEF Shape, Goto
<1>4. ASSUME NEW r \in Requests, NEW stage \in Stages, Goto(r, stage),
             NEW entries \in Seq(Entry), Extend(r, entries),
             UNCHANGED <<endpoint, handler, cors, chosen>>
      PROVE  Shape'
  BY <1>1, <1>4, ExtendShape DEF Shape, Goto
<1>5. ASSUME NEW r \in Requests, NEW entries \in Seq(Entry), Error(r, entries),
              UNCHANGED <<endpoint, array, handler, cors, chosen>>
       PROVE  Shape'
  <2>1. "error" \in Stages /\ Goto(r, "error") /\ response' = [response EXCEPT ![r] = Own(entries)]
    BY <1>5 DEF Error, Stages
  <2>2. handler' \in [Requests -> Seq(Entry)]
    BY <1>5 DEF Shape
  <2> QED
    BY <1>3, <1>5, <2>1, <2>2
<1>6. <<>> \in Seq(Entry)
  OBVIOUS
<1>7. CASE UNCHANGED vars
  BY <1>2, <1>7 DEF vars, locals
<1>8. ASSUME NEW r \in Requests, Firewall(r) PROVE Shape'
  <2>1. CASE FirewallAccepts(r) \/ FirewallDrops(r)
    BY <1>2, <2>1 DEF FirewallAccepts, FirewallDrops, locals, Stages
  <2>2. CASE FirewallRejects(r)
    BY <1>5, <1>6, <2>2 DEF FirewallRejects
  <2> QED
    BY <1>8, <2>1, <2>2 DEF Firewall
<1>9. ASSUME NEW r \in Requests, HandleRequest(r) PROVE Shape'
  <2>1. CASE FindEndpoint(r)
    BY <1>2, <2>1 DEF FindEndpoint, locals, Stages
  <2>2. CASE NotFound(r)
    BY <1>5, <1>6, <2>2 DEF NotFound
  <2>3. CASE UnmatchedMethod(r)
    <3> DEFINE entries == <<Says("allow", r)>>
    <3>1. entries \in Seq(Entry)
      BY SaysShape
    <3>2. UNCHANGED <<endpoint, array, handler, cors, chosen>>
      BY <2>3 DEF UnmatchedMethod
    <3>3. \/ Error(r, entries)
          \/ Goto(r, "write") /\ response' = [response EXCEPT ![r] = Own(entries)]
      BY <2>3 DEF UnmatchedMethod
    <3>4. "write" \in Stages /\ handler' \in [Requests -> Seq(Entry)]
      BY <3>2 DEF Stages, Making, Shape
    <3> HIDE DEF entries
    <3> QED
      BY <1>3, <1>5, <3>1, <3>2, <3>3, <3>4
  <2>4. CASE Cors(r)
    <3>1. Checks[1] \in Stages
      BY DEF Checks, Stages
    <3>2. CASE Error(r, <<>>) /\ UNCHANGED cors
      BY <1>5, <1>6, <2>4, <3>2 DEF Cors
    <3>3. CASE ~ (Error(r, <<>>) /\ UNCHANGED cors)
      <4>1. PICK entries \in {<<>>, <<Says("cors", r)>>} :
              cors' = [cors EXCEPT ![r] = entries]
        BY <2>4, <3>3 DEF Cors
      <4>2. entries \in Seq(Entry)
        BY <1>6, <4>1, SaysShape
      <4>3. cors' \in [Requests -> Seq(Entry)]
        BY <4>1, <4>2 DEF Shape
      <4>4. Goto(r, Checks[1]) /\ UNCHANGED <<endpoint, array, response, handler, chosen>>
        BY <2>4, <3>3 DEF Cors
      <4> QED
        BY <1>1, <3>1, <4>3, <4>4 DEF Shape, Goto
    <3> QED
      BY <3>2, <3>3
  <2>5. CASE CheckPasses(r)
    <3>1. PICK i \in DOMAIN Checks :
            Goto(r, IF i = Len(Checks) THEN "handler" ELSE Checks[i + 1])
      BY <2>5 DEF CheckPasses
    <3>2. (IF i = Len(Checks) THEN "handler" ELSE Checks[i + 1]) \in Stages
      BY DEF Checks, Stages
    <3> QED
      BY <1>2, <2>5, <3>1, <3>2 DEF CheckPasses, locals
  <2>6. CASE CheckRefuses(r)
    BY <1>5, <2>6, AddedShape DEF CheckRefuses
  <2>7. CASE Finish(r)
    BY <1>4, <2>7, AddedShape DEF Finish, Stages, Making
  <2> QED
    BY <1>9, <2>1, <2>2, <2>3, <2>4, <2>5, <2>6, <2>7 DEF HandleRequest
<1>10. ASSUME NEW r \in Requests, ProduceResponse(r) PROVE Shape'
  <2>1. CASE Handler(r)
    <3> DEFINE entries == IF endpoint.handler = "none" THEN <<>> ELSE <<Says("handler", r)>>
    <3>1. entries \in Seq(Entry)
      BY <1>6, SaysShape
    <3>2. handler' = [handler EXCEPT ![r] = entries] /\ response' = [response EXCEPT ![r] = Own(entries)]
      BY <2>1 DEF Handler
    <3>3. \E stage \in {"static", "merge"} : Goto(r, stage)
      BY <2>1 DEF Handler
    <3>4. UNCHANGED <<endpoint, array, cors, chosen>>
      BY <2>1 DEF Handler
    <3> HIDE DEF entries
    <3>5. handler' \in [Requests -> Seq(Entry)]
      BY <3>1, <3>2 DEF Shape
    <3>6. {"static", "merge"} \subseteq Stages
      BY DEF Stages, Making
    <3> QED
      BY <1>3, <3>1, <3>2, <3>3, <3>4, <3>5, <3>6
  <2>2. CASE HandlerRefuses(r) \/ StaticContentRefuses(r)
    <3>1. Error(r, cors[r]) /\ UNCHANGED <<endpoint, array, handler, cors, chosen>>
      BY <2>2 DEF HandlerRefuses, StaticContentRefuses
    <3> QED
      BY <1>5, <3>1, AddedShape
  <2>3. CASE StaticContent(r)
    <3>1. Len(Static) = 2
      BY StaticShape DEF Shape
    <3>2. SharedSlice \in Slice /\ SharedSlice.len \in 2 .. Len(array)
      BY <3>1 DEF SharedSlice, Slice, Shape
    <3>3. response' \in [Requests -> Slice]
      BY <2>3, <3>2 DEF StaticContent, Shape
    <3>4. \A q \in Requests : response'[q].shared => response'[q].len \in 2 .. Len(array)
      BY <2>3, <3>2 DEF StaticContent, Shape
    <3>5. chosen' \in [Requests -> Encodings \union {"identity", "cached", "none"}]
      BY <2>3 DEF StaticContent, Shape
    <3>6. pc' \in [Requests -> Stages]
      BY <2>3 DEF StaticContent, Goto, Shape, Stages, Making
    <3>7. UNCHANGED <<endpoint, array, handler, cors>>
      BY <2>3 DEF StaticContent
    <3> QED
      BY <1>1, <3>3, <3>4, <3>5, <3>6, <3>7 DEF Shape
  <2>4. CASE Encode(r)
    BY <1>4, <2>4, AddedShape DEF Encode, Stages, Making
  <2>5. CASE Private(r)
    <3> DEFINE entries == Content(response[r])
    <3>1. Privately(entries) \in Seq(Entry)
      BY ContentShape, PrivatelyClean
    <3>2. "merge" \in Stages /\ Goto(r, "merge") /\ UNCHANGED <<endpoint, array, handler, cors, chosen>>
      BY <2>5 DEF Private, Stages, Making
    <3>3. UNCHANGED response \/ response' = [response EXCEPT ![r] = Own(Privately(entries))]
      BY <2>5 DEF Private
    <3> HIDE DEF entries
    <3>4. handler' \in [Requests -> Seq(Entry)]
      BY <3>2 DEF Shape
    <3> QED
      BY <1>2, <1>3, <3>1, <3>2, <3>3, <3>4
  <2>6. CASE Merge(r)
    <3>1. (IF Merges(r) THEN handler[r] ELSE <<>>) \in Seq(Entry)
      BY AddedShape
    <3> QED
      BY <1>4, <2>6, <3>1 DEF Merge, Stages, Making
  <2>7. CASE Vary(r)
    BY <1>4, <2>7, AddedShape DEF Vary, Stages, Making
  <2> QED
    BY <1>10, <2>1, <2>2, <2>3, <2>4, <2>5, <2>6, <2>7 DEF ProduceResponse
<1>11. ASSUME NEW r \in Requests, Respond(r) PROVE Shape'
  <2>1. CASE AddHeader(r)
    BY <1>2, <2>1 DEF AddHeader, locals
  <2>2. CASE WriteBody(r)
    BY <1>2, <2>2 DEF WriteBody, locals, Stages
  <2>3. CASE WriteFails(r)
    BY <1>5, <1>6, <2>3 DEF WriteFails
  <2>4. CASE WriteError(r) \/ ErrorFails(r) \/ Fallback(r)
    BY <1>2, <2>4 DEF WriteError, ErrorFails, Fallback, locals, Stages
  <2> QED
    BY <1>11, <2>1, <2>2, <2>3, <2>4 DEF Respond
<1> QED
  BY <1>7, <1>8, <1>9, <1>10, <1>11 DEF Next

\* The endpoint's StaticContent.Headers are never written: an append of produceResponse
\* goes behind them in their array, and privateCacheControlHeaders into a copy.
THEOREM EndpointUnchangedCorrect == Spec => []EndpointUnchanged
<1>1. Shape => EndpointUnchanged
  <2> SUFFICES ASSUME Shape PROVE SubSeq(array, 1, Len(Static)) = Static
    BY DEF EndpointUnchanged
  <2>1. Static \in Seq(Entry) /\ Len(Static) = 2
    BY StaticShape DEF Shape
  <2>2. /\ SubSeq(array, 1, 2) \in Seq(Entry) /\ Len(SubSeq(array, 1, 2)) = 2
        /\ SubSeq(array, 1, 2)[1] = array[1] /\ SubSeq(array, 1, 2)[2] = array[2]
    BY SubSeqProperties DEF Shape
  <2> QED
    BY <2>1, <2>2 DEF Shape
<1> QED
  BY InitShape, NextShape, <1>1, PTL DEF Spec
----------------------------------------------------------------------------
(* GatedStaysPrivate *)

LEMMA ContentClean ==
  ASSUME Shape, ArrayClean, NEW r \in Requests, Safe(r)
  PROVE  Content(response[r]) \in Seq(Entry) /\ Clean(Content(response[r]))
<1>1. CASE response[r].shared
  <2>1. array[1] # Public /\ array[2] # Public
    BY <1>1, StaticShape DEF Shape, Safe, General, Says, Public
  <2>2. \A i \in 1 .. response[r].len : i \in 1 .. Len(array) /\ array[i] # Public
    <3>1. response[r].len \in 2 .. Len(array) /\ Len(array) \in Nat
      BY <1>1 DEF Shape
    <3> QED
      BY <2>1, <3>1 DEF ArrayClean
  <2> QED
    BY <1>1, <2>2, ContentShape DEF Clean
<1>2. CASE ~ response[r].shared
  BY <1>2, ContentShape DEF Content, Safe
<1> QED
  BY <1>1, <1>2

LEMMA JoinClean ==
  ASSUME NEW s \in Seq(Entry), NEW t \in Seq(Entry), Clean(s), Clean(t)
  PROVE  Clean(s \o t)
<1>1. /\ Len(s \o t) = Len(s) + Len(t)
      /\ \A i \in 1 .. Len(s) + Len(t) :
           (s \o t)[i] = IF i <= Len(s) THEN s[i] ELSE t[i - Len(s)]
  BY ConcatProperties
<1>2. ASSUME NEW i \in 1 .. Len(s) + Len(t) PROVE (s \o t)[i] # Public
  <2>1. CASE i <= Len(s)
    BY <1>1, <2>1 DEF Clean
  <2>2. CASE i > Len(s)
    <3>1. i - Len(s) \in 1 .. Len(t)
      BY <2>2
    <3> QED
      BY <1>1, <2>2, <3>1 DEF Clean
  <2> QED
    BY <2>1, <2>2
<1> QED
  BY <1>1, <1>2 DEF Clean

LEMMA ExtendClean ==
  ASSUME Shape, ArrayClean, UNCHANGED endpoint,
         NEW r \in Requests, NEW entries \in Seq(Entry), Clean(entries), Extend(r, entries)
  PROVE  /\ ArrayClean'
         /\ \A q \in Requests \ {r} : response'[q] = response[q]
         /\ Safe(r) => Safe(r)'
<1> DEFINE slice == response[r]
<1>1. slice \in Slice /\ array \in Seq(Entry) /\ Len(array) \in Nat /\ Len(entries) \in Nat
  BY DEF Shape
<1>2. CASE Fits(slice, entries)
  <2>1. slice.shared /\ slice.len \in 2 .. Len(array) /\ slice.len + Len(entries) <= Len(array)
    BY <1>2 DEF Fits, Shape
  <2>2. array' = [i \in 1 .. Len(array) |->
                    IF i \in slice.len + 1 .. slice.len + Len(entries)
                    THEN entries[i - slice.len] ELSE array[i]]
    BY <1>1, <1>2 DEF Extend
  <2>3. ASSUME NEW i \in 3 .. Len(array) PROVE array'[i] # Public
    <3>1. CASE i \in slice.len + 1 .. slice.len + Len(entries)
      <4>1. i - slice.len \in 1 .. Len(entries)
        BY <1>1, <2>1, <3>1
      <4> QED
        BY <2>2, <3>1, <4>1 DEF Clean
    <3>2. CASE i \notin slice.len + 1 .. slice.len + Len(entries)
      BY <2>2, <3>2 DEF ArrayClean
    <3> QED
      BY <3>1, <3>2
  <2>4. Len(array') = Len(array)
    BY ExtendShape
  <2>5. response' = [response EXCEPT ![r].len = @ + Len(entries)]
    BY <1>2 DEF Extend
  <2>6. response'[r].shared = slice.shared
    BY <1>1, <2>5 DEF Slice, Shape
  <2>7. \A q \in Requests \ {r} : response'[q] = response[q]
    BY <2>5 DEF Shape
  <2> QED
    BY <2>1, <2>3, <2>4, <2>6, <2>7 DEF ArrayClean, Safe
<1>3. CASE ~ Fits(slice, entries)
  <2>1. UNCHANGED array
    BY <1>3 DEF Extend
  <2>2. response' = [response EXCEPT ![r] =
           IF entries = <<>> THEN slice ELSE Own(Content(slice) \o entries)]
    BY <1>3 DEF Extend
  <2>3. response'[r] = slice \/ response'[r] = Own(Content(slice) \o entries)
    BY <2>2 DEF Shape
  <2>4. ASSUME Safe(r) PROVE Safe(r)'
    <3>1. Clean(Content(slice) \o entries)
      BY <2>4, ContentClean, JoinClean
    <3>2. CASE response'[r] = slice
      BY <2>4, <3>2 DEF Safe
    <3>3. CASE response'[r] = Own(Content(slice) \o entries)
      BY <3>1, <3>3 DEF Safe, Own
    <3> QED
      BY <2>3, <3>2, <3>3
  <2>5. \A q \in Requests \ {r} : response'[q] = response[q]
    BY <2>2 DEF Shape
  <2> QED
    BY <2>1, <2>4, <2>5 DEF ArrayClean
<1> QED
  BY <1>2, <1>3

LEMMA InitGated == Init => Gated
<1> SUFFICES ASSUME Init PROVE Gated
  OBVIOUS
<1>1. PICK spare \in Spares : array = Static \o [i \in 1 .. spare |-> General("unused")]
  BY DEF Init
<1> DEFINE free == [i \in 1 .. spare |-> General("unused")]
<1>2. spare \in Nat /\ General("unused") \in Entry /\ General("unused") # Public
  BY <1>1 DEF General, Says, Entry, Words, Public
<1>3. free \in Seq(Entry) /\ Len(free) = spare /\ \A i \in 1 .. Len(free) : free[i] # Public
  BY <1>2
<1>4. Static \in Seq(Entry) /\ Len(Static) = 2
  BY StaticShape DEF Init
<1>5. array = Static \o free
  BY <1>1
<1> HIDE DEF free
<1>6. ArrayClean
  <2>1. /\ Len(array) = Len(Static) + Len(free)
        /\ \A i \in 1 .. Len(Static) + Len(free) :
             array[i] = IF i <= Len(Static) THEN Static[i] ELSE free[i - Len(Static)]
    BY <1>3, <1>4, <1>5, ConcatProperties
  <2>2. /\ Len(array) = 2 + Len(free)
        /\ \A i \in 1 .. 2 + Len(free) :
             array[i] = IF i <= 2 THEN Static[i] ELSE free[i - 2]
    BY <1>4, <2>1
  <2>3. \A i \in 3 .. 2 + Len(free) : i - 2 \in 1 .. Len(free)
    BY <1>2, <1>3
  <2> QED
    BY <1>2, <1>3, <2>2, <2>3 DEF ArrayClean
<1>7. Clean(<<>>) /\ <<>> \in Seq(Entry)
  BY DEF Clean
<1>8. handler = [r \in Requests |-> <<>>] /\ cors = handler /\ sent = handler
  BY DEF Init
<1>9. PartsClean /\ SentClean
  <2>1. \A r \in Requests : handler[r] = <<>> /\ cors[r] = <<>> /\ sent[r] = <<>>
    BY <1>8
  <2> QED
    BY <1>7, <2>1 DEF PartsClean, SentClean
<1>10. SentShape
  <2>1. next = [r \in Requests |-> 1] /\ 1 \in Nat \ {0}
    BY DEF Init
  <2> QED
    BY <1>7, <1>8, <2>1 DEF SentShape
<1>11. ResponsesClean
  BY <1>7 DEF Init, ResponsesClean, Safe, Own
<1> QED
  BY <1>6, <1>11, <1>9, <1>10 DEF Gated

\* A step that adds nothing to a response but what is clean.
LEMMA StepGated ==
  ASSUME Shape, Gated, NEW r \in Requests, NEW stage \in Stages, Goto(r, stage),
         UNCHANGED <<endpoint, sent>>, SentShape', PartsClean', ArrayClean',
         \A q \in Requests \ {r} : response'[q] = response[q],
         ~ endpoint.public /\ stage \notin Unsafe => Safe(r)'
  PROVE  Gated'
<1>1. SentClean'
  BY DEF Gated, SentClean
<1>2. pc' = [pc EXCEPT ![r] = stage]
  BY DEF Goto
<1>3. ASSUME ~ endpoint'.public, NEW q \in Requests, pc'[q] \notin Unsafe PROVE Safe(q)'
  <2>1. CASE q = r
    BY <1>2, <1>3, <2>1 DEF Shape
  <2>2. CASE q # r
    <3>1. pc'[q] = pc[q] /\ response'[q] = response[q]
      BY <1>2, <2>2 DEF Shape
    <3>2. Safe(q)
      BY <1>3, <3>1 DEF Gated, ResponsesClean
    <3> QED
      BY <3>1, <3>2 DEF Safe
  <2> QED
    BY <2>1, <2>2
<1>4. ResponsesClean'
  BY <1>3 DEF ResponsesClean
<1> QED
  BY <1>1, <1>4 DEF Gated

LEMMA NextGated == Shape /\ Gated /\ [Next]_vars => Gated'
<1> SUFFICES ASSUME Shape, Gated, [Next]_vars PROVE Gated'
  OBVIOUS
<1> DEFINE still == UNCHANGED <<endpoint, array, handler, cors, sent>>
<1>1. PartsClean /\ ArrayClean /\ SentShape /\ ResponsesClean
  BY DEF Gated
<1>2. UNCHANGED <<handler, cors>> => PartsClean'
  BY <1>1 DEF PartsClean
<1>3. UNCHANGED array => ArrayClean'
  BY <1>1 DEF ArrayClean
<1>4. UNCHANGED <<sent, next>> => SentShape'
  BY <1>1 DEF SentShape
<1>5. ASSUME NEW r \in Requests, NEW stage \in Stages, Goto(r, stage), still, SentShape',
             UNCHANGED response,
             pc[r] \notin Unsafe \/ stage \in Unsafe
      PROVE  Gated'
  <2>1. ~ endpoint.public /\ stage \notin Unsafe => Safe(r)'
    BY <1>1, <1>5 DEF ResponsesClean, Safe
  <2> QED
    BY <1>2, <1>3, <1>5, <2>1, StepGated
<1>6. ASSUME NEW r \in Requests, NEW stage \in Stages, Goto(r, stage), SentShape',
             NEW entries, Clean(entries), response' = [response EXCEPT ![r] = Own(entries)],
             PartsClean', UNCHANGED <<endpoint, array, sent>>
      PROVE  Gated'
  <2>1. response'[r] = Own(entries) /\ \A q \in Requests \ {r} : response'[q] = response[q]
    BY <1>6 DEF Shape
  <2>2. Safe(r)'
    BY <1>6, <2>1 DEF Safe, Own
  <2> QED
    BY <1>3, <1>6, <2>1, <2>2, StepGated
<1>7. ASSUME NEW r \in Requests, NEW stage \in Stages, Goto(r, stage),
             NEW entries \in Seq(Entry), Clean(entries), Extend(r, entries),
             pc[r] \notin Unsafe \/ stage \in Unsafe,
             UNCHANGED <<endpoint, handler, cors, sent, next>>
      PROVE  Gated'
  <2>1. /\ ArrayClean' /\ \A q \in Requests \ {r} : response'[q] = response[q]
        /\ Safe(r) => Safe(r)'
    BY <1>1, <1>7, ExtendClean
  <2>2. ~ endpoint.public /\ stage \notin Unsafe => Safe(r)'
    BY <1>1, <1>7, <2>1 DEF ResponsesClean
  <2> QED
    BY <1>2, <1>4, <1>7, <2>1, <2>2, StepGated
<1>8. ASSUME NEW r \in Requests, NEW entries, Clean(entries), Error(r, entries),
             UNCHANGED <<endpoint, array, handler, cors, sent>>, SentShape'
      PROVE  Gated'
  BY <1>2, <1>6, <1>8 DEF Error, Stages
<1>9. Clean(<<>>)
  BY DEF Clean
<1>10. CASE UNCHANGED vars
  BY <1>1, <1>10 DEF vars, locals, writer, Gated, PartsClean, ArrayClean, SentShape,
     ResponsesClean, SentClean, Safe
<1>11. ASSUME NEW r \in Requests, Firewall(r) PROVE Gated'
  <2>1. CASE FirewallAccepts(r)
    BY <1>4, <1>5, <2>1 DEF FirewallAccepts, locals, writer, Stages, Unsafe
  <2>2. CASE FirewallDrops(r)
    BY <1>4, <1>5, <2>2 DEF FirewallDrops, locals, Stages, Unsafe
  <2>3. CASE FirewallRejects(r)
    BY <1>4, <1>8, <1>9, <2>3 DEF FirewallRejects, writer
  <2> QED
    BY <1>11, <2>1, <2>2, <2>3 DEF Firewall
<1>12. ASSUME NEW r \in Requests, HandleRequest(r) PROVE Gated'
  <2>1. CASE FindEndpoint(r)
    BY <1>4, <1>5, <2>1 DEF FindEndpoint, locals, writer, Stages, Unsafe
  <2>2. CASE NotFound(r)
    BY <1>4, <1>8, <1>9, <2>2 DEF NotFound, writer
  <2>3. CASE UnmatchedMethod(r)
    <3> DEFINE entries == <<Says("allow", r)>>
    <3>1. Clean(entries)
      BY SaysShape
    <3>2. UNCHANGED <<endpoint, array, handler, cors, sent, next>>
      BY <2>3 DEF UnmatchedMethod, writer
    <3>3. \/ Error(r, entries)
          \/ Goto(r, "write") /\ response' = [response EXCEPT ![r] = Own(entries)]
      BY <2>3 DEF UnmatchedMethod
    <3>4. "write" \in Stages
      BY DEF Stages, Making
    <3> HIDE DEF entries
    <3> QED
      BY <1>2, <1>4, <1>6, <1>8, <3>1, <3>2, <3>3, <3>4
  <2>4. CASE Cors(r)
    <3>1. UNCHANGED <<endpoint, array, handler, sent, next>>
      BY <2>4 DEF Cors, writer
    <3>2. CASE Error(r, <<>>) /\ UNCHANGED cors
      BY <1>4, <1>8, <1>9, <3>1, <3>2
    <3>3. CASE ~ (Error(r, <<>>) /\ UNCHANGED cors)
      <4>1. PICK entries \in {<<>>, <<Says("cors", r)>>} :
              cors' = [cors EXCEPT ![r] = entries]
        BY <2>4, <3>3 DEF Cors
      <4>2. Clean(entries)
        BY <1>9, <4>1, SaysShape
      <4>3. PartsClean'
        BY <1>1, <3>1, <4>1, <4>2 DEF PartsClean, Shape
      <4>4. /\ Goto(r, Checks[1]) /\ UNCHANGED response /\ pc[r] = "cors"
            /\ Checks[1] \in Stages \ Unsafe
        BY <2>4, <3>3 DEF Cors, Checks, Stages, Unsafe
      <4>5. ~ endpoint.public => Safe(r)'
        BY <1>1, <3>1, <4>4 DEF ResponsesClean, Safe, Unsafe
      <4> QED
        BY <1>3, <1>4, <3>1, <4>3, <4>4, <4>5, StepGated
    <3> QED
      BY <3>2, <3>3
  <2>5. CASE CheckPasses(r)
    <3>1. PICK i \in DOMAIN Checks :
            /\ pc[r] = Checks[i]
            /\ Goto(r, IF i = Len(Checks) THEN "handler" ELSE Checks[i + 1])
      BY <2>5 DEF CheckPasses
    <3>2. Checks[i] \notin Unsafe
      BY DEF Checks, Unsafe
    <3>3. (IF i = Len(Checks) THEN "handler" ELSE Checks[i + 1]) \in Stages
      BY DEF Checks, Stages
    <3>4. still /\ UNCHANGED <<response, next>>
      BY <2>5 DEF CheckPasses, locals, writer
    <3> QED
      BY <1>4, <1>5, <3>1, <3>2, <3>3, <3>4
  <2>6. CASE CheckRefuses(r)
    BY <1>1, <1>4, <1>8, <2>6 DEF CheckRefuses, writer, PartsClean
  <2>7. CASE Finish(r)
    <3>1. "write" \in Stages /\ pc[r] \notin Unsafe
      BY <2>7 DEF Finish, Stages, Making, Unsafe
    <3>2. cors[r] \in Seq(Entry) /\ Clean(cors[r])
      BY <1>1 DEF Shape, PartsClean
    <3> QED
      BY <1>7, <2>7, <3>1, <3>2 DEF Finish, writer
  <2> QED
    BY <1>12, <2>1, <2>2, <2>3, <2>4, <2>5, <2>6, <2>7 DEF HandleRequest
<1>13. ASSUME NEW r \in Requests, ProduceResponse(r) PROVE Gated'
  <2>1. CASE Handler(r)
    <3> DEFINE entries == IF endpoint.handler = "none" THEN <<>> ELSE <<Says("handler", r)>>
    <3>1. Clean(entries)
      BY <1>9, SaysShape
    <3>2. handler' = [handler EXCEPT ![r] = entries] /\ response' = [response EXCEPT ![r] = Own(entries)]
      BY <2>1 DEF Handler
    <3>3. \E stage \in {"static", "merge"} : Goto(r, stage)
      BY <2>1 DEF Handler
    <3>4. UNCHANGED <<endpoint, array, cors, sent, next>>
      BY <2>1 DEF Handler, writer
    <3> HIDE DEF entries
    <3>5. PartsClean'
      BY <1>1, <3>1, <3>2, <3>4 DEF PartsClean, Shape
    <3>6. {"static", "merge"} \subseteq Stages
      BY DEF Stages, Making
    <3> QED
      BY <1>4, <1>6, <3>1, <3>2, <3>3, <3>4, <3>5, <3>6
  <2>2. CASE HandlerRefuses(r) \/ StaticContentRefuses(r)
    BY <1>1, <1>4, <1>8, <2>2 DEF HandlerRefuses, StaticContentRefuses, writer, PartsClean
  <2>3. CASE StaticContent(r)
    <3>1. "encode" \in Stages /\ "encode" \in Unsafe
      BY DEF Stages, Making, Unsafe
    <3>2. /\ Goto(r, "encode") /\ UNCHANGED <<endpoint, array, handler, cors, sent, next>>
          /\ response' = [response EXCEPT ![r] = SharedSlice]
      BY <2>3 DEF StaticContent, writer
    <3>3. \A q \in Requests \ {r} : response'[q] = response[q]
      BY <3>2 DEF Shape
    <3> QED
      BY <1>2, <1>3, <1>4, <3>1, <3>2, <3>3, StepGated
  <2>4. CASE Encode(r)
    <3>1. "private" \in Stages /\ "private" \in Unsafe
      BY DEF Stages, Making, Unsafe
    <3> QED
      BY <1>7, <2>4, <3>1, AddedShape DEF Encode, writer
  <2>5. CASE Private(r)
    <3> DEFINE entries == Content(response[r])
    <3>1. entries \in Seq(Entry) /\ Clean(Privately(entries))
      BY ContentShape, PrivatelyClean
    <3>2. /\ "merge" \in Stages /\ Goto(r, "merge")
          /\ UNCHANGED <<endpoint, array, handler, cors, sent, next>>
      BY <2>5 DEF Private, Stages, Making, writer
    <3>3. CASE endpoint.public \/ Privately(entries) = entries
      <4>1. UNCHANGED response
        BY <2>5, <3>3 DEF Private
      <4>2. ~ endpoint.public => Safe(r)'
        <5> SUFFICES ASSUME ~ endpoint.public PROVE Safe(r)
          BY <3>2, <4>1 DEF Safe
        <5>1. Clean(entries)
          BY <3>1, <3>3
        <5>2. CASE response[r].shared
          <6>1. response[r].len \in 2 .. Len(array)
            BY <5>2 DEF Shape
          <6>2. array[2] # Public
            BY <5>1, <5>2, <6>1, ContentShape DEF Clean
          <6> QED
            BY <5>2, <6>2, StaticShape DEF Shape, Safe
        <5>3. CASE ~ response[r].shared
          BY <5>1, <5>3 DEF Safe, Content
        <5> QED
          BY <5>2, <5>3
      <4> QED
        BY <1>2, <1>3, <1>4, <3>2, <4>1, <4>2, StepGated
    <3>4. CASE ~ (endpoint.public \/ Privately(entries) = entries)
      <4>1. response' = [response EXCEPT ![r] = Own(Privately(entries))]
        BY <2>5, <3>4 DEF Private
      <4> HIDE DEF entries
      <4> QED
        BY <1>2, <1>4, <1>6, <3>1, <3>2, <4>1
    <3> QED
      BY <3>3, <3>4
  <2>6. CASE Merge(r)
    <3> DEFINE entries == IF Merges(r) THEN handler[r] ELSE <<>>
    <3>1. entries \in Seq(Entry) /\ Clean(entries)
      BY <1>1, <1>9, AddedShape DEF PartsClean
    <3>2. "vary" \in Stages /\ pc[r] \notin Unsafe /\ Goto(r, "vary") /\ Extend(r, entries)
      BY <2>6 DEF Merge, Stages, Making, Unsafe
    <3>3. UNCHANGED <<endpoint, handler, cors, sent, next>>
      BY <2>6 DEF Merge, writer
    <3> HIDE DEF entries
    <3> QED
      BY <1>7, <3>1, <3>2, <3>3
  <2>7. CASE Vary(r)
    <3>1. "finish" \in Stages /\ pc[r] \notin Unsafe
      BY <2>7 DEF Vary, Stages, Making, Unsafe
    <3> QED
      BY <1>7, <2>7, <3>1, AddedShape DEF Vary, writer
  <2> QED
    BY <1>13, <2>1, <2>2, <2>3, <2>4, <2>5, <2>6, <2>7 DEF ProduceResponse
<1>14. ASSUME NEW r \in Requests, Respond(r) PROVE Gated'
  <2>1. CASE AddHeader(r)
    <3> DEFINE entries == Content(response[r])
    <3>1. /\ UNCHANGED <<endpoint, array, pc, response, handler, cors>>
          /\ pc[r] \notin Unsafe
          /\ next[r] <= Len(entries) /\ next' = [next EXCEPT ![r] = @ + 1]
          /\ UNCHANGED sent \/ sent' = [sent EXCEPT ![r] = Append(@, entries[next[r]])]
      BY <2>1 DEF AddHeader, locals, Unsafe
    <3>2. entries \in Seq(Entry) /\ next[r] \in 1 .. Len(entries)
      BY <1>1, <3>1, ContentShape DEF SentShape
    <3>3. ~ endpoint.public => entries[next[r]] # Public
      BY <1>1, <3>1, <3>2, ContentClean DEF ResponsesClean, Clean
    <3>4. next' \in [Requests -> Nat \ {0}]
      BY <1>1, <3>1 DEF SentShape
    <3> HIDE DEF entries
    <3>5. sent' \in [Requests -> Seq(Entry)]
      <4>1. entries[next[r]] \in Entry
        BY <3>2
      <4>2. Append(sent[r], entries[next[r]]) \in Seq(Entry)
        BY <1>1, <4>1 DEF SentShape
      <4>3. CASE sent' = [sent EXCEPT ![r] = Append(@, entries[next[r]])]
        BY <1>1, <4>2, <4>3 DEF SentShape
      <4> QED
        BY <1>1, <3>1, <4>3 DEF SentShape
    <3>6. ASSUME ~ endpoint.public, NEW q \in Requests PROVE Clean(sent'[q])
      <4>1. Clean(sent[q]) /\ sent[q] \in Seq(Entry)
        BY <1>1, <3>6 DEF Gated, SentClean, SentShape
      <4>2. CASE sent'[q] = sent[q]
        BY <4>1, <4>2
      <4>3. CASE sent'[q] = Append(sent[q], entries[next[r]])
        BY <3>2, <3>3, <3>6, <4>1, <4>3 DEF Clean
      <4> QED
        BY <1>1, <3>1, <4>2, <4>3 DEF SentShape
    <3>7. SentClean'
      BY <3>1, <3>6 DEF SentClean
    <3>8. PartsClean' /\ ArrayClean' /\ ResponsesClean'
      BY <1>1, <3>1 DEF PartsClean, ArrayClean, ResponsesClean, Safe
    <3> QED
      BY <3>4, <3>5, <3>7, <3>8 DEF Gated, SentShape
  <2>2. CASE WriteBody(r)
    <3>1. \E stage \in {"fallback", "error"} : Goto(r, stage)
      BY <2>2 DEF WriteBody
    <3>2. {"fallback", "error"} \subseteq Stages /\ pc[r] \notin Unsafe
      BY <2>2 DEF WriteBody, Stages, Unsafe
    <3>3. still /\ UNCHANGED <<response, next>>
      BY <2>2 DEF WriteBody, locals
    <3> QED
      BY <1>4, <1>5, <3>1, <3>2, <3>3
  <2>3. CASE WriteFails(r)
    <3>1. Error(r, <<>>) /\ still /\ next' = [next EXCEPT ![r] = 1]
      BY <2>3 DEF WriteFails
    <3>2. SentShape'
      BY <1>1, <3>1 DEF SentShape
    <3> QED
      BY <1>8, <1>9, <3>1, <3>2
  <2>4. CASE WriteError(r) \/ ErrorFails(r) \/ Fallback(r)
    <3>1. \E stage \in {"fallback", "done"} : Goto(r, stage)
      BY <2>4 DEF WriteError, ErrorFails, Fallback
    <3>2. {"fallback", "done"} \subseteq Stages /\ pc[r] \notin Unsafe
      BY <2>4 DEF WriteError, ErrorFails, Fallback, Stages, Unsafe
    <3>3. still /\ UNCHANGED <<response, next>>
      BY <2>4 DEF WriteError, ErrorFails, Fallback, locals, writer
    <3> QED
      BY <1>4, <1>5, <3>1, <3>2, <3>3
  <2> QED
    BY <1>14, <2>1, <2>2, <2>3, <2>4 DEF Respond
<1> QED
  BY <1>10, <1>11, <1>12, <1>13, <1>14 DEF Next

\* Whatever other responses write into the array they share, none that WriteResponse
\* sends for an endpoint that is not public tells a shared cache that it may be kept.
THEOREM GatedStaysPrivateCorrect == Spec => []GatedStaysPrivate
<1>1. Gated => GatedStaysPrivate
  <2> SUFFICES ASSUME Gated, NEW r \in Requests, ~ endpoint.public, NEW i \in DOMAIN sent[r]
               PROVE  sent[r][i] # General("public")
    BY DEF GatedStaysPrivate
  <2>1. sent[r] \in Seq(Entry) /\ Clean(sent[r])
    BY DEF Gated, SentShape, SentClean
  <2> QED
    BY <2>1 DEF Clean, Public
<1> QED
  BY InitShape, NextShape, InitGated, NextGated, <1>1, PTL DEF Spec

----------------------------------------------------------------------------
(* SentAsBuilt and RefusalsReadable: slices and what they say *)

\* An append adds what it is given to the response, whichever array it goes into.
LEMMA ExtendContent ==
  ASSUME Shape, NEW r \in Requests, NEW entries \in Seq(Entry), Extend(r, entries)
  PROVE  Content(response[r])' = Content(response[r]) \o entries
<1> DEFINE slice == response[r]
<1>1. slice \in Slice /\ array \in Seq(Entry) /\ Len(array) \in Nat /\ Len(entries) \in Nat
  BY DEF Shape
<1>2. CASE Fits(slice, entries)
  <2> DEFINE before == Content(slice)
             after == SubSeq(array', 1, slice.len + Len(entries))
             both == before \o entries
  <2>1. slice.shared /\ slice.len \in 2 .. Len(array) /\ slice.len + Len(entries) <= Len(array)
    BY <1>2 DEF Fits, Shape
  <2>2. array' = [i \in 1 .. Len(array) |->
                    IF i \in slice.len + 1 .. slice.len + Len(entries)
                    THEN entries[i - slice.len] ELSE array[i]]
    BY <1>1, <1>2 DEF Extend
  <2>3. array' \in Seq(Entry) /\ Len(array') = Len(array)
    BY ExtendShape
  <2>4. response' = [response EXCEPT ![r].len = @ + Len(entries)]
    BY <1>2 DEF Extend
  <2>5. response'[r].shared /\ response'[r].len = slice.len + Len(entries)
    BY <1>1, <2>1, <2>4 DEF Slice, Shape
  <2>6. Content(slice)' = after
    BY <2>5 DEF Content
  <2>7. /\ before \in Seq(Entry) /\ Len(before) = slice.len
        /\ \A i \in 1 .. slice.len : before[i] = array[i]
    BY <2>1, ContentShape
  <2>8. /\ after \in Seq(Entry) /\ Len(after) = slice.len + Len(entries)
        /\ \A i \in 1 .. slice.len + Len(entries) : after[i] = array'[i]
    BY <1>1, <2>1, <2>3, SubSeqProperties
  <2> HIDE DEF before
  <2>9. /\ both \in Seq(Entry) /\ Len(both) = slice.len + Len(entries)
        /\ \A i \in 1 .. slice.len + Len(entries) :
             both[i] = IF i <= slice.len THEN before[i] ELSE entries[i - slice.len]
    BY <2>7, ConcatProperties
  <2> HIDE DEF after, both
  <2>10. ASSUME NEW i \in 1 .. slice.len + Len(entries) PROVE after[i] = both[i]
    <3>1. i \in 1 .. Len(array) /\ i \in Int /\ slice.len \in Int
      BY <1>1, <2>1
    <3>2. after[i] = array'[i]
      BY <2>8
    <3>3. both[i] = IF i <= slice.len THEN before[i] ELSE entries[i - slice.len]
      BY <2>9
    <3>4. CASE i <= slice.len
      <4>1. i \notin slice.len + 1 .. slice.len + Len(entries) /\ i \in 1 .. slice.len
        BY <3>1, <3>4
      <4>2. array'[i] = array[i]
        BY <2>2, <3>1, <4>1
      <4>3. before[i] = array[i]
        BY <2>7, <4>1
      <4> QED
        BY <3>2, <3>3, <3>4, <4>2, <4>3
    <3>5. CASE i > slice.len
      <4>1. i \in slice.len + 1 .. slice.len + Len(entries) /\ ~ i <= slice.len
        BY <1>1, <3>1, <3>5
      <4>2. array'[i] = entries[i - slice.len]
        BY <2>2, <3>1, <4>1
      <4> QED
        BY <3>2, <3>3, <4>1, <4>2
    <3> QED
      BY <3>1, <3>4, <3>5
  <2>11. after = both
    BY <2>8, <2>9, <2>10, SeqEqual
  <2> QED
    BY <2>6, <2>11 DEF both, before
<1>3. CASE ~ Fits(slice, entries)
  <2>1. UNCHANGED array
    BY <1>3 DEF Extend
  <2>2. response' = [response EXCEPT ![r] =
           IF entries = <<>> THEN slice ELSE Own(Content(slice) \o entries)]
    BY <1>3 DEF Extend
  <2>3. CASE entries = <<>>
    <3>1. UNCHANGED response[r]
      BY <2>2, <2>3 DEF Shape
    <3>2. Content(slice) \o entries = Content(slice)
      BY <2>3, ContentShape, ConcatEmptySeq
    <3> QED
      BY <2>1, <3>1, <3>2 DEF Content
  <2>4. CASE entries # <<>>
    <3> DEFINE whole == Content(slice) \o entries
    <3>1. response'[r] = Own(whole)
      BY <2>2, <2>4 DEF Shape
    <3> HIDE DEF whole
    <3>2. Content(slice)' = whole
      BY <3>1 DEF Content, Own
    <3> QED
      BY <3>2 DEF whole
  <2> QED
    BY <2>3, <2>4
<1> QED
  BY <1>2, <1>3

\* It leaves alone what another response says, unless both are slices of the array and
\* this has room behind the endpoint's headers.
LEMMA ExtendKeeps ==
  ASSUME Shape, NEW q \in Requests, NEW r \in Requests \ {q}, NEW entries \in Seq(Entry),
         Extend(q, entries),
         ~ response[q].shared \/ ~ response[r].shared \/ Len(array) = 2
  PROVE  UNCHANGED <<response[r], Content(response[r])>>
<1>1. response'[r] = response[r]
  BY DEF Extend, Shape
<1>2. CASE Len(array) = 2 /\ Fits(response[q], entries)
  <2>1. /\ response[q].len = 2 /\ Len(entries) = 0 /\ array \in Seq(Entry)
    BY <1>2 DEF Fits, Shape
  <2>2. array' = [i \in 1 .. 2 |-> array[i]] /\ array = [i \in 1 .. 2 |-> array[i]]
    BY <1>2, <2>1 DEF Extend
  <2> QED
    BY <1>1, <2>2 DEF Content
<1>3. CASE ~ Fits(response[q], entries)
  BY <1>1, <1>3 DEF Extend, Content
<1>4. CASE ~ response[r].shared
  BY <1>1, <1>4 DEF Content
<1> QED
  BY <1>2, <1>3, <1>4 DEF Fits

\* What is said of the static content begins with its type, and nothing else does.
Typed(entries) == \A i \in 1 .. Len(entries) : entries[i] = General("type") <=> i = 1
Untyped(entries) == \A i \in 1 .. Len(entries) : entries[i] # General("type")

LEMMA JoinTyped ==
  ASSUME NEW s \in Seq(Entry), NEW t \in Seq(Entry), Typed(s), Untyped(t), Len(s) >= 2
  PROVE  s \o t \in Seq(Entry) /\ Typed(s \o t) /\ Len(s \o t) >= 2
<1>1. /\ s \o t \in Seq(Entry) /\ Len(s \o t) = Len(s) + Len(t)
      /\ \A i \in 1 .. Len(s) + Len(t) :
           (s \o t)[i] = IF i <= Len(s) THEN s[i] ELSE t[i - Len(s)]
  BY ConcatProperties
<1>2. Len(s) \in Nat /\ Len(t) \in Nat
  OBVIOUS
<1>3. ASSUME NEW i \in 1 .. Len(s) + Len(t) PROVE (s \o t)[i] = General("type") <=> i = 1
  <2>1. CASE i <= Len(s)
    BY <1>1, <2>1 DEF Typed
  <2>2. CASE i > Len(s)
    <3>1. i - Len(s) \in 1 .. Len(t)
      BY <2>2
    <3> QED
      BY <1>1, <2>2, <3>1 DEF Untyped
  <2> QED
    BY <2>1, <2>2
<1> QED
  BY <1>1, <1>2, <1>3 DEF Typed

LEMMA WholeShape ==
  ASSUME Shape, NEW r \in Requests, Progress(r)
  PROVE  /\ Privately(Static) \in Seq(Entry) /\ Base(r) \in Seq(Entry)
         /\ Base(r) \o handler[r] \in Seq(Entry)
         /\ Base(r) \o handler[r] \o Varies \in Seq(Entry)
         /\ Whole(r) \in Seq(Entry)
         /\ chosen[r] = "cached" => Typed(Whole(r)) /\ Len(Whole(r)) >= 2
<1>1. /\ Static \in Seq(Entry) /\ Encoded(r) \in Seq(Entry) /\ Varies \in Seq(Entry)
      /\ handler[r] \in Seq(Entry) /\ cors[r] \in Seq(Entry)
  BY AddedShape, StaticShape DEF Shape
<1>2. Privately(Static) \in Seq(Entry)
  BY <1>1, PrivatelyClean
<1>3. Base(r) \in Seq(Entry)
  BY <1>1, <1>2, ConcatProperties DEF Base
<1>4. Base(r) \o handler[r] \in Seq(Entry)
  BY <1>1, <1>3, ConcatProperties
<1>5. Base(r) \o handler[r] \o Varies \in Seq(Entry)
  BY <1>1, <1>4, ConcatProperties
<1>6. Whole(r) \in Seq(Entry)
  BY <1>1, <1>5, ConcatProperties DEF Whole
<1>7. ASSUME chosen[r] = "cached" PROVE Typed(Whole(r)) /\ Len(Whole(r)) >= 2
  <2>1. Typed(Static) /\ Len(Static) = 2
    BY DEF Static, Typed, General, Says
  <2>2. Typed(Privately(Static)) /\ Len(Privately(Static)) = 2
    <3>1. /\ Privately(Static) = [i \in 1 .. 2 |->
               IF Static[i] = General("public") THEN General("private") ELSE Static[i]]
      BY DEF Privately, Static
    <3>2. Static[1] = General("type") /\ Static[2] # General("type")
      BY DEF Static, General, Says
    <3>3. General("type") # General("private") /\ General("type") # General("public")
      BY DEF General, Says
    <3>4. Privately(Static)[1] = General("type") /\ Privately(Static)[2] # General("type")
      BY <3>1, <3>2, <3>3
    <3>5. Len(Privately(Static)) = 2
      BY <3>1, <1>2
    <3> QED
      BY <3>4, <3>5 DEF Typed
  <2>3. Encoded(r) = <<>>
    BY <1>7, EncodingAssumption DEF Encoded
  <2>4. Typed(Base(r)) /\ Len(Base(r)) >= 2
    <3>1. Base(r) = IF endpoint.public THEN Static ELSE Privately(Static)
      <4>1. Static \o <<>> = Static /\ Privately(Static) \o <<>> = Privately(Static)
        BY <1>1, <1>2, ConcatEmptySeq
      <4> QED
        BY <1>7, <2>3, <4>1 DEF Base
    <3> QED
      BY <2>1, <2>2, <3>1
  <2>5. Untyped(handler[r]) /\ Untyped(Varies) /\ Untyped(cors[r])
    BY DEF Progress, Untyped, Varies, General, Says
  <2>6. Typed(Base(r) \o handler[r]) /\ Len(Base(r) \o handler[r]) >= 2
    BY <1>1, <1>3, <2>4, <2>5, JoinTyped
  <2>7. Typed(Base(r) \o handler[r] \o Varies) /\ Len(Base(r) \o handler[r] \o Varies) >= 2
    BY <1>1, <1>4, <2>5, <2>6, JoinTyped
  <2> QED
    BY <1>1, <1>5, <2>5, <2>7, JoinTyped DEF Whole
<1> QED
  BY <1>2, <1>3, <1>4, <1>5, <1>6, <1>7

\* To make an encoded response private is to make its first headers private.
LEMMA PrivatelyBase ==
  ASSUME Shape, NEW r \in Requests
  PROVE  Privately(Static \o Encoded(r)) = Privately(Static) \o Encoded(r)
<1> DEFINE s == Static
           t == Encoded(r)
           st == s \o t
           before == Privately(st)
           ps == Privately(s)
           after == ps \o t
<1>1. s \in Seq(Entry) /\ t \in Seq(Entry) /\ Clean(t)
  BY AddedShape, StaticShape DEF Shape
<1>2. ps \in Seq(Entry) /\ Len(ps) = Len(s) /\ \A i \in 1 .. Len(s) :
        ps[i] = IF s[i] = Public THEN General("private") ELSE s[i]
  BY <1>1, PrivatelyClean DEF Privately, Public
<1> HIDE DEF s, t, ps
<1>3. /\ st \in Seq(Entry) /\ Len(st) = Len(s) + Len(t)
      /\ \A i \in 1 .. Len(s) + Len(t) : st[i] = IF i <= Len(s) THEN s[i] ELSE t[i - Len(s)]
  BY <1>1, ConcatProperties
<1> HIDE DEF st
<1>4. before \in Seq(Entry) /\ Len(before) = Len(st) /\ \A i \in 1 .. Len(st) :
        before[i] = IF st[i] = Public THEN General("private") ELSE st[i]
  <2>1. before = [i \in 1 .. Len(st) |-> IF st[i] = Public THEN General("private") ELSE st[i]]
    BY <1>3 DEF Privately, Public
  <2>2. before \in Seq(Entry)
    BY <1>3, PrivatelyClean
  <2> HIDE DEF before
  <2> QED
    BY <1>3, <2>1, <2>2
<1>5. /\ after \in Seq(Entry) /\ Len(after) = Len(s) + Len(t)
      /\ \A i \in 1 .. Len(s) + Len(t) :
           after[i] = IF i <= Len(s) THEN ps[i] ELSE t[i - Len(s)]
  <2>1. /\ after \in Seq(Entry) /\ Len(after) = Len(ps) + Len(t)
        /\ \A i \in 1 .. Len(ps) + Len(t) :
             after[i] = IF i <= Len(ps) THEN ps[i] ELSE t[i - Len(ps)]
    BY <1>1, <1>2, ConcatProperties
  <2>2. Len(ps) = Len(s)
    BY <1>2
  <2> HIDE DEF after
  <2> QED
    BY <2>1, <2>2
<1> HIDE DEF before, after
<1>6. ASSUME NEW i \in 1 .. Len(s) + Len(t) PROVE before[i] = after[i]
  <2>1. Len(s) \in Nat /\ Len(t) \in Nat
    BY <1>1
  <2>2. CASE i <= Len(s)
    <3>1. i \in 1 .. Len(s)
      BY <2>1, <2>2
    <3> QED
      BY <1>2, <1>3, <1>4, <1>5, <2>2, <3>1
  <2>3. CASE i > Len(s)
    <3>1. i - Len(s) \in 1 .. Len(t)
      BY <2>1, <2>3
    <3>2. t[i - Len(s)] # Public
      BY <1>1, <3>1 DEF Clean
    <3> QED
      BY <1>3, <1>4, <1>5, <2>3, <3>2
  <2> QED
    BY <2>1, <2>2, <2>3
<1>7. before = after
  BY <1>3, <1>4, <1>5, <1>6, SeqEqual
<1> QED
  BY <1>7 DEF before, after, ps, st, s, t

----------------------------------------------------------------------------
(* What a step changes *)

StepOf(r) == Firewall(r) \/ HandleRequest(r) \/ ProduceResponse(r) \/ Respond(r)

\* Everything that is a request's own is as it was.
Untouched(r) ==
  UNCHANGED <<pc[r], response[r], chosen[r], handler[r], cors[r], sent[r], next[r],
              headers[r], outcome[r]>>

\* The types of all that a request has of its own.
Owned == Shape /\ Written /\ SentShape /\ History

LEMMA StepFrame ==
  ASSUME Owned, NEW q \in Requests, StepOf(q), NEW r \in Requests \ {q}
  PROVE  UNCHANGED endpoint /\ Untouched(r)
<1>1. ASSUME NEW f, NEW e, f' = [f EXCEPT ![q] = e], DOMAIN f = Requests PROVE f'[r] = f[r]
  BY <1>1
<1>2. /\ DOMAIN pc = Requests /\ DOMAIN response = Requests /\ DOMAIN chosen = Requests
      /\ DOMAIN handler = Requests /\ DOMAIN cors = Requests /\ DOMAIN sent = Requests
      /\ DOMAIN next = Requests /\ DOMAIN headers = Requests /\ DOMAIN outcome = Requests
  BY DEF Owned, Shape, Written, SentShape, History
<1> USE <1>2 DEF Untouched, Goto, Becomes, WriteHeader, Error, locals, writer, ghosts, vars
<1>3. CASE Firewall(q)
  BY <1>3 DEF Firewall, FirewallAccepts, FirewallRejects, FirewallDrops
<1>4. CASE FindEndpoint(q) \/ NotFound(q) \/ UnmatchedMethod(q)
  BY <1>4 DEF FindEndpoint, NotFound, UnmatchedMethod
<1>5. CASE Cors(q)
  BY <1>5 DEF Cors
<1>6. CASE CheckPasses(q) \/ CheckRefuses(q)
  BY <1>6 DEF CheckPasses, CheckRefuses
<1>7. CASE Finish(q)
  BY <1>7 DEF Finish, Extend
<1>8. CASE Handler(q) \/ HandlerRefuses(q)
  BY <1>8 DEF Handler, HandlerRefuses
<1>9. CASE StaticContent(q) \/ StaticContentRefuses(q)
  BY <1>9 DEF StaticContent, StaticContentRefuses
<1>10. CASE Encode(q)
  BY <1>10 DEF Encode, Extend
<1>11. CASE Private(q)
  BY <1>11 DEF Private
<1>12. CASE Merge(q)
  BY <1>12 DEF Merge, Extend
<1>13. CASE Vary(q)
  BY <1>13 DEF Vary, Extend
<1>14. CASE AddHeader(q)
  BY <1>14 DEF AddHeader
<1>15. CASE WriteBody(q) \/ WriteFails(q)
  BY <1>15 DEF WriteBody, WriteFails
<1>16. CASE WriteError(q) \/ ErrorFails(q) \/ Fallback(q)
  BY <1>16 DEF WriteError, ErrorFails, Fallback
<1> QED
  BY <1>3, <1>4, <1>5, <1>6, <1>7, <1>8, <1>9, <1>10, <1>11, <1>12, <1>13, <1>14, <1>15, <1>16
     DEF StepOf, HandleRequest, ProduceResponse, Respond

\* The array is written by an append of a response being built, if at all.
LEMMA StepArray ==
  ASSUME Owned, NEW q \in Requests, StepOf(q)
  PROVE  \/ UNCHANGED array
         \/ /\ pc[q] \in Building
            /\ \E entries \in Seq(Entry) : Extend(q, entries)
<1> DEFINE Appends == pc[q] \in Building /\ \E entries \in Seq(Entry) : Extend(q, entries)
<1>1. Shape
  BY DEF Owned
<1>2. CASE Finish(q)
  BY <1>1, <1>2, AddedShape DEF Finish, Building, Making
<1>3. CASE Encode(q)
  BY <1>1, <1>3, AddedShape DEF Encode, Building, Making
<1>4. CASE Merge(q)
  <2>1. <<>> \in Seq(Entry) /\ handler[q] \in Seq(Entry)
    BY <1>1, AddedShape
  <2> QED
    BY <1>4, <2>1 DEF Merge, Building, Making
<1>5. CASE Vary(q)
  BY <1>1, <1>5, AddedShape DEF Vary, Building, Making
<1>6. CASE Firewall(q)
  BY <1>6 DEF Firewall, FirewallAccepts, FirewallRejects, FirewallDrops
<1>7. CASE \/ FindEndpoint(q) \/ NotFound(q) \/ UnmatchedMethod(q) \/ Cors(q)
           \/ CheckPasses(q) \/ CheckRefuses(q)
  BY <1>7 DEF FindEndpoint, NotFound, UnmatchedMethod, Cors, CheckPasses, CheckRefuses
<1>8. CASE \/ Handler(q) \/ HandlerRefuses(q) \/ StaticContent(q) \/ StaticContentRefuses(q)
           \/ Private(q)
  BY <1>8 DEF Handler, HandlerRefuses, StaticContent, StaticContentRefuses, Private
<1>9. CASE Respond(q)
  BY <1>9 DEF Respond, AddHeader, WriteBody, WriteFails, WriteError, ErrorFails, Fallback
<1> QED
  BY <1>2, <1>3, <1>4, <1>5, <1>6, <1>7, <1>8, <1>9
     DEF StepOf, HandleRequest, ProduceResponse

\* A response comes to share the array only where it starts as the endpoint's own.
LEMMA StepShares ==
  ASSUME Owned, NEW q \in Requests, StepOf(q), pc'[q] \in Making, response'[q].shared
  PROVE  StaticContent(q) \/ (pc[q] \in Making /\ response[q].shared)
<1>1. /\ pc \in [Requests -> Stages] /\ response \in [Requests -> Slice]
  BY DEF Owned, Shape
<1>2. ASSUME NEW stage, NEW entries, Goto(q, stage), response' = [response EXCEPT ![q] = Own(entries)]
      PROVE  FALSE
  BY <1>1, <1>2 DEF Own
<1>3. ASSUME NEW stage \in Stages \ Making, Goto(q, stage) PROVE FALSE
  BY <1>1, <1>3 DEF Goto
<1>4. ASSUME NEW entries, Extend(q, entries) PROVE response[q].shared
  BY <1>1, <1>4 DEF Extend, Own, Fits
<1>5. CASE FirewallAccepts(q) \/ FirewallDrops(q) \/ FindEndpoint(q)
  BY <1>3, <1>5 DEF FirewallAccepts, FirewallDrops, FindEndpoint, Stages, Making
<1>6. CASE CheckPasses(q)
  <2>1. PICK i \in DOMAIN Checks : Goto(q, IF i = Len(Checks) THEN "handler" ELSE Checks[i + 1])
    BY <1>6 DEF CheckPasses
  <2>2. (IF i = Len(Checks) THEN "handler" ELSE Checks[i + 1]) \in Stages \ Making
    BY DEF Checks, Stages, Making
  <2> QED
    BY <1>3, <2>1, <2>2
<1>7. CASE Cors(q)
  <2>1. Checks[1] \in Stages \ Making /\ "error" \in Stages \ Making
    BY DEF Checks, Stages, Making
  <2> QED
    BY <1>3, <1>7, <2>1 DEF Cors, Error
<1>8. CASE \E entries : Error(q, entries)
  BY <1>2, <1>8 DEF Error
<1>9. CASE UnmatchedMethod(q)
  BY <1>2, <1>9 DEF UnmatchedMethod, Error
<1>10. CASE Handler(q)
  <2> DEFINE entries == IF endpoint.handler = "none" THEN <<>> ELSE <<Says("handler", q)>>
             stage == IF endpoint.static /\ ~ endpoint.handler = "answers" THEN "static" ELSE "merge"
  <2>1. Goto(q, stage) /\ response' = [response EXCEPT ![q] = Own(entries)]
    BY <1>10 DEF Handler
  <2> HIDE DEF entries, stage
  <2> QED
    BY <1>2, <2>1
<1>11. CASE Private(q)
  BY <1>1, <1>11 DEF Private, Own, Making
<1>12. CASE Encode(q) \/ Merge(q) \/ Vary(q) \/ Finish(q)
  BY <1>4, <1>12 DEF Encode, Merge, Vary, Finish, Making
<1>13. CASE AddHeader(q) \/ WriteBody(q)
  BY <1>1, <1>3, <1>13 DEF AddHeader, WriteBody, locals, Goto, Making
<1>14. CASE WriteError(q) \/ ErrorFails(q) \/ Fallback(q)
  BY <1>3, <1>14 DEF WriteError, ErrorFails, Fallback, Stages, Making
<1>15. CASE FirewallRejects(q) \/ NotFound(q) \/ CheckRefuses(q) \/ HandlerRefuses(q)
            \/ StaticContentRefuses(q) \/ WriteFails(q)
  BY <1>8, <1>15 DEF FirewallRejects, NotFound, CheckRefuses, HandlerRefuses,
     StaticContentRefuses, WriteFails
<1>16. CASE Firewall(q)
  BY <1>5, <1>15, <1>16 DEF Firewall
<1>17. CASE HandleRequest(q)
  BY <1>5, <1>6, <1>7, <1>9, <1>12, <1>15, <1>17 DEF HandleRequest
<1>18. CASE ProduceResponse(q)
  BY <1>10, <1>11, <1>12, <1>15, <1>18 DEF ProduceResponse
<1>19. CASE Respond(q)
  BY <1>13, <1>14, <1>15, <1>19 DEF Respond
<1> QED
  BY <1>16, <1>17, <1>18, <1>19 DEF StepOf

LEMMA StepHistory ==
  ASSUME Owned, NEW q \in Requests, StepOf(q)
  PROVE  /\ History'
         /\ \A r \in Requests : overlapped[r] => overlapped'[r]
         /\ StaticContent(q) => \A r \in Requests \ {q} :
              pc[r] \in Making => overlapped'[r] /\ overlapped'[q]
         /\ ~ StaticContent(q) => UNCHANGED overlapped
<1>1. /\ outcome \in [Requests -> {"pending", "answer", "refusal", "failed"}]
      /\ overlapped \in [Requests -> BOOLEAN]
  BY DEF Owned, History
<1>2. CASE StaticContent(q)
  <2>1. Overlap(q) /\ UNCHANGED outcome
    BY <1>2 DEF StaticContent
  <2>2. overlapped' \in [Requests -> BOOLEAN]
    BY <2>1, Zenon DEF Overlap
  <2>3. \A r \in Requests : overlapped'[r] =
          (overlapped[r] \/ r \in {p \in Requests \ {q} : pc[p] \in Making}
             \/ (r = q /\ {p \in Requests \ {q} : pc[p] \in Making} # {}))
    BY <2>1 DEF Overlap
  <2> QED
    BY <1>1, <1>2, <2>1, <2>2, <2>3 DEF History
<1>3. CASE ~ StaticContent(q)
  <2>1. UNCHANGED overlapped /\ (UNCHANGED outcome
          \/ \E what \in {"answer", "refusal", "failed"} : Becomes(q, what))
    <3>1. CASE Firewall(q)
      BY <3>1 DEF Firewall, FirewallAccepts, FirewallRejects, FirewallDrops, ghosts
    <3>2. CASE HandleRequest(q)
      BY <3>2 DEF HandleRequest, FindEndpoint, NotFound, UnmatchedMethod, Cors, CheckPasses,
         CheckRefuses, Finish, ghosts
    <3>3. CASE ProduceResponse(q)
      BY <1>3, <3>3 DEF ProduceResponse, Handler, HandlerRefuses, StaticContentRefuses,
         Encode, Private, Merge, Vary, ghosts
    <3>4. CASE Respond(q)
      BY <3>4 DEF Respond, AddHeader, WriteBody, WriteFails, WriteError, ErrorFails, Fallback, ghosts
    <3> QED
      BY <3>1, <3>2, <3>3, <3>4 DEF StepOf
  <2>2. History'
    BY <1>1, <2>1 DEF History, Becomes
  <2> QED
    BY <1>3, <2>1, <2>2
<1> QED
  BY <1>2, <1>3

----------------------------------------------------------------------------
(* SentAsBuilt and RefusalsReadable: a step keeps what is said of each request *)

\* The array keeps its length, so that nobody who was disturbed ceases to be.
LEMMA StepUndisturbed ==
  ASSUME Owned, NEW q \in Requests, StepOf(q), UNCHANGED endpoint, NEW r \in Requests,
         Undisturbed(r)'
  PROVE  Undisturbed(r) /\ Len(array') = Len(array)
<1>1. Shape
  BY DEF Owned
<1>2. Len(array') = Len(array)
  BY <1>1, StepArray, ExtendShape
<1>3. UNCHANGED Len(Static)
  BY DEF Static
<1> QED
  BY <1>2, <1>3, StepHistory DEF Undisturbed

LEMMA OthersFaithful ==
  ASSUME Owned, Faithful, NEW q \in Requests, StepOf(q), NEW r \in Requests \ {q}
  PROVE  Progress(r)' /\ Refusing(r)' /\ Responding(r)' /\ Aware(r)'
<1>1. UNCHANGED endpoint /\ Untouched(r) /\ Shape
  BY StepFrame DEF Owned
<1>2. Progress(r) /\ Refusing(r) /\ Responding(r) /\ Aware(r)
  BY DEF Faithful
<1>3. Progress(r)' /\ Refusing(r)'
  BY <1>1, <1>2 DEF Untouched, Progress, Refusing
<1>4. UNCHANGED <<Encoded(r), Varies, Static>>
  BY <1>1 DEF Untouched, Encoded, Varies, Static
<1>5. UNCHANGED Privately(Static)
  BY <1>4 DEF Privately
<1>6. UNCHANGED Base(r)
  BY <1>1, <1>4, <1>5 DEF Untouched, Base
<1>7. UNCHANGED Whole(r)
  BY <1>1, <1>4, <1>6 DEF Untouched, Whole
<1>8. UNCHANGED <<Built(r), Answer(r)>>
  BY <1>1, <1>4, <1>6, <1>7 DEF Untouched, Built, Answer
<1>9. Sending(r) => Sending(r)'
  BY <1>1, <1>7 DEF Untouched, Sending
<1>10. ASSUME Undisturbed(r)', pc[r] \in Making PROVE UNCHANGED Content(response[r])
  <2>1. Undisturbed(r)
    BY <1>1, <1>10, StepUndisturbed
  <2>2. CASE UNCHANGED array
    BY <1>1, <2>2 DEF Content, Untouched
  <2>3. CASE pc[q] \in Building /\ \E entries \in Seq(Entry) : Extend(q, entries)
    <3>1. PICK entries \in Seq(Entry) : Extend(q, entries)
      BY <2>3
    <3>2. Len(Static) = 2
      BY <1>1, StaticShape DEF Shape
    <3>3. ~ response[q].shared \/ ~ response[r].shared \/ Len(array) = 2
      BY <1>2, <1>10, <2>1, <2>3, <3>2 DEF Undisturbed, Aware, Building
    <3> QED
      BY <1>1, <3>1, <3>3, ExtendKeeps
  <2> QED
    BY <2>2, <2>3, StepArray
<1>11. Responding(r)'
  <2> SUFFICES ASSUME Undisturbed(r)'
               PROVE  /\ pc'[r] \in Building => Content(response[r])' = Built(r)'
                      /\ outcome'[r] = "answer" =>
                           /\ pc'[r] = "write" => Content(response[r])' = Whole(r)' /\ Sending(r)'
                           /\ pc'[r] # "write" => sent'[r] = Answer(r)'
    BY DEF Responding
  <2>1. Undisturbed(r)
    BY <1>1, StepUndisturbed
  <2>2. pc[r] = "write" => pc[r] \in Making
    BY DEF Making
  <2>3. pc[r] \in Building => pc[r] \in Making
    BY DEF Building
  <2>4. UNCHANGED <<pc[r], outcome[r], sent[r]>>
    BY <1>1 DEF Untouched
  <2> QED
    BY <1>2, <1>7, <1>8, <1>9, <1>10, <2>1, <2>2, <2>3, <2>4 DEF Responding
<1>12. Aware(r)'
  <2> SUFFICES ASSUME NEW p \in Requests \ {r}, pc'[p] \in Making, pc'[r] \in Making,
                      response'[p].shared, response'[r].shared
               PROVE  overlapped'[r]
    BY DEF Aware
  <2>1. pc[r] \in Making /\ response[r].shared
    BY <1>1 DEF Untouched
  <2>2. CASE p = q
    <3>1. StaticContent(q) \/ (pc[q] \in Making /\ response[q].shared)
      BY <2>2, StepShares
    <3> QED
      BY <1>2, <2>1, <2>2, <3>1, StepHistory DEF Aware
  <2>3. CASE p # q
    <3>1. pc[p] \in Making /\ response[p].shared
      BY <2>3, StepFrame DEF Untouched
    <3> QED
      BY <1>2, <2>1, <3>1, StepHistory DEF Aware
  <2> QED
    BY <2>2, <2>3
<1> QED
  BY <1>3, <1>11, <1>12

LEMMA OwnAware ==
  ASSUME Owned, Faithful, NEW r \in Requests, StepOf(r)
  PROVE  Aware(r)'
<1> SUFFICES ASSUME NEW p \in Requests \ {r}, pc'[p] \in Making, pc'[r] \in Making,
                    response'[p].shared, response'[r].shared
             PROVE  overlapped'[r]
  BY DEF Aware
<1>1. pc[p] \in Making /\ response[p].shared
  BY StepFrame DEF Untouched
<1>2. StaticContent(r) \/ (pc[r] \in Making /\ response[r].shared)
  BY StepShares
<1> QED
  BY <1>1, <1>2, StepHistory DEF Faithful, Aware

\* What the steps other than those that append or send come to.
LEMMA OwnProgress ==
  ASSUME Owned, Faithful, NEW r \in Requests, StepOf(r)
  PROVE  Progress(r)'
<1>1. Progress(r)
  BY DEF Faithful
<1>2. /\ pc \in [Requests -> Stages] /\ chosen \in [Requests -> Encodings \union {"identity", "cached", "none"}]
      /\ DOMAIN handler = Requests /\ DOMAIN cors = Requests /\ DOMAIN sent = Requests
      /\ DOMAIN next = Requests /\ DOMAIN outcome = Requests
  BY DEF Owned, Shape, SentShape, History
<1>3. /\ Early = {"firewall", "endpoint", "cors", "handler", "static", "rateLimit", "fetchMetadata",
                  "authentication", "url", "header", "body"}
      /\ Building = {"encode", "private", "merge", "vary", "finish"}
  BY DEF Early, Checks, Building, Making
<1> USE DEF Goto, Becomes, Error, locals, writer, ghosts
<1>4. CASE Firewall(r)
  BY <1>1, <1>2, <1>3, <1>4 DEF Firewall, FirewallAccepts, FirewallRejects, FirewallDrops, Progress
<1>5. CASE FindEndpoint(r) \/ NotFound(r) \/ UnmatchedMethod(r)
  BY <1>1, <1>2, <1>3, <1>5 DEF FindEndpoint, NotFound, UnmatchedMethod, Progress
<1>6. CASE Cors(r)
  BY <1>1, <1>2, <1>3, <1>6 DEF Cors, Progress, Checks
<1>7. CASE CheckPasses(r)
  <2>1. PICK i \in DOMAIN Checks :
          pc[r] = Checks[i] /\ Goto(r, IF i = Len(Checks) THEN "handler" ELSE Checks[i + 1])
    BY <1>7 DEF CheckPasses
  <2>2. Checks[i] \in Early /\ (IF i = Len(Checks) THEN "handler" ELSE Checks[i + 1]) \in Early
    BY <1>3 DEF Checks
  <2>3. pc[r] \in Early /\ pc'[r] \in Early \ {"error", "fallback", "done", "write"}
    BY <1>2, <1>3, <2>1, <2>2
  <2>4. UNCHANGED <<locals, writer, ghosts>>
    BY <1>7 DEF CheckPasses
  <2> QED
    BY <1>1, <1>3, <2>3, <2>4 DEF Progress
<1>8. CASE CheckRefuses(r) \/ HandlerRefuses(r) \/ StaticContentRefuses(r)
  BY <1>1, <1>2, <1>3, <1>8 DEF CheckRefuses, HandlerRefuses, StaticContentRefuses, Progress
<1>9. CASE Handler(r)
  BY <1>1, <1>2, <1>3, <1>9 DEF Handler, Progress
<1>10. CASE StaticContent(r)
  <2>1. "none" \notin Encodings \union {"identity", "cached"}
    BY EncodingAssumption
  <2> QED
    BY <1>1, <1>2, <1>3, <1>10, <2>1 DEF StaticContent, Progress
<1>11. CASE Encode(r) \/ Private(r) \/ Merge(r) \/ Vary(r) \/ Finish(r)
  BY <1>1, <1>2, <1>3, <1>11 DEF Encode, Private, Merge, Vary, Finish, Progress
<1>12. CASE AddHeader(r)
  BY <1>1, <1>2, <1>3, <1>12 DEF AddHeader, Progress
<1>13. CASE WriteBody(r) \/ WriteFails(r) \/ WriteError(r) \/ ErrorFails(r) \/ Fallback(r)
  BY <1>1, <1>2, <1>3, <1>13 DEF WriteBody, WriteFails, WriteError, ErrorFails, Fallback, Progress
<1> QED
  BY <1>4, <1>5, <1>6, <1>7, <1>8, <1>9, <1>10, <1>11, <1>12, <1>13
     DEF StepOf, HandleRequest, ProduceResponse, Respond

LEMMA OwnRefusing ==
  ASSUME Owned, Faithful, NEW r \in Requests, StepOf(r)
  PROVE  Refusing(r)'
<1> SUFFICES ASSUME outcome'[r] = "refusal"
             PROVE  /\ pc'[r] = "error" =>
                         /\ headers'[r] = 0
                         /\ response'[r] = Own(cors'[r])
                         /\ \/ next'[r] = 1 /\ sent'[r] = <<>>
                            \/ next'[r] = 2 /\ sent'[r] = cors'[r] /\ cors'[r] # <<>>
                    /\ pc'[r] # "error" => sent'[r] = cors'[r]
  BY DEF Refusing, Own
<1>1. Progress(r) /\ Refusing(r)
  BY DEF Faithful
<1>2. /\ pc \in [Requests -> Stages] /\ response \in [Requests -> Slice]
      /\ DOMAIN handler = Requests /\ DOMAIN cors = Requests /\ DOMAIN sent = Requests
      /\ DOMAIN next = Requests /\ DOMAIN outcome = Requests
      /\ headers \in [Requests -> {0, 1}]
      /\ headers[r] = 1 => pc[r] \in {"error", "fallback", "done", "dropped"}
  BY DEF Owned, Shape, SentShape, History, Written
<1>3. Early = {"firewall", "endpoint", "cors", "handler", "static", "rateLimit", "fetchMetadata",
               "authentication", "url", "header", "body"}
  BY DEF Early, Checks
<1> USE DEF Goto, Becomes, Error, locals, writer, ghosts
<1>4. CASE CheckRefuses(r)
  <2>1. \A i \in DOMAIN Checks : Checks[i] \in Early /\ Checks[i] \notin {"error", "fallback", "done", "dropped"}
    BY <1>3 DEF Checks
  <2>2. pc[r] \in Early /\ headers[r] = 0
    BY <1>2, <1>4, <2>1 DEF CheckRefuses
  <2> QED
    BY <1>1, <1>2, <1>4, <2>2 DEF CheckRefuses, Progress
<1>5. CASE HandlerRefuses(r) \/ StaticContentRefuses(r)
  BY <1>1, <1>2, <1>3, <1>5 DEF HandlerRefuses, StaticContentRefuses, Progress
<1>6. CASE AddHeader(r)
  <2>1. outcome[r] = "refusal" /\ pc[r] = "error"
    BY <1>1, <1>6 DEF AddHeader, Progress
  <2>2. Content(response[r]) = cors[r]
    BY <1>1, <2>1 DEF Refusing, Content, Own
  <2>3. next[r] = 1 /\ sent[r] = <<>> /\ cors[r] = <<Says("cors", r)>>
    BY <1>1, <1>6, <2>1, <2>2 DEF AddHeader, Refusing, Progress
  <2>4. Kept(r, cors[r][next[r]])
    BY <2>3 DEF Kept, General, Says
  <2>5. sent'[r] = Append(sent[r], cors[r][next[r]]) /\ next'[r] = 2
    BY <1>2, <1>6, <2>2, <2>3, <2>4 DEF AddHeader
  <2>6. sent'[r] = cors[r] /\ cors[r] # <<>>
    BY <2>3, <2>5
  <2>7. UNCHANGED <<pc, response, cors, headers>>
    BY <1>6 DEF AddHeader
  <2> QED
    BY <1>1, <2>1, <2>5, <2>6, <2>7 DEF Refusing
<1>7. CASE WriteError(r)
  <2>1. outcome[r] = "refusal" /\ pc[r] = "error" /\ pc'[r] = "fallback"
    BY <1>2, <1>7 DEF WriteError
  <2>2. Content(response[r]) = cors[r] /\ headers[r] = 0
    BY <1>1, <2>1 DEF Refusing, Content, Own
  <2>3. next[r] > Len(cors[r])
    BY <1>7, <2>2 DEF WriteError, AllAdded
  <2>4. sent[r] = cors[r]
    BY <1>1, <2>1, <2>3 DEF Refusing, Progress
  <2> QED
    BY <1>7, <2>1, <2>4 DEF WriteError
<1>8. CASE WriteBody(r) \/ WriteFails(r) \/ ErrorFails(r) \/ Fallback(r)
  BY <1>1, <1>2, <1>8 DEF WriteBody, WriteFails, ErrorFails, Fallback, Refusing, Progress
<1>9. CASE Firewall(r) \/ FindEndpoint(r) \/ NotFound(r) \/ UnmatchedMethod(r) \/ Cors(r)
  BY <1>1, <1>3, <1>9 DEF Firewall, FirewallAccepts, FirewallRejects, FirewallDrops, FindEndpoint, NotFound,
     UnmatchedMethod, Cors, Progress
<1>10. CASE CheckPasses(r)
  <2>1. pc[r] \in Early
    BY <1>3, <1>10 DEF CheckPasses, Checks
  <2> QED
    BY <1>1, <1>10, <2>1 DEF CheckPasses, Progress
<1>11. CASE Finish(r) \/ Handler(r) \/ StaticContent(r) \/ Encode(r) \/ Private(r) \/ Merge(r) \/ Vary(r)
  BY <1>1, <1>2, <1>3, <1>11 DEF Finish, Handler, StaticContent, Encode, Private, Merge, Vary,
     Progress, Making, Building
<1> QED
  BY <1>4, <1>5, <1>6, <1>7, <1>8, <1>9, <1>10, <1>11
     DEF StepOf, HandleRequest, ProduceResponse, Respond

\* Once every header was looked at, what is sent is the answer.
LEMMA SentWhole ==
  ASSUME Shape, SentShape, NEW r \in Requests, Progress(r), Sending(r), next[r] > Len(Whole(r))
  PROVE  sent[r] = Answer(r)
<1>1. /\ Whole(r) \in Seq(Entry) /\ sent[r] \in Seq(Entry)
      /\ chosen[r] = "cached" => Len(Whole(r)) >= 2
  BY WholeShape DEF SentShape
<1>2. next[r] = Len(Whole(r)) + 1
  BY <1>1 DEF Sending
<1>3. CASE chosen[r] = "cached"
  <2>1. /\ Len(sent[r]) = Len(Whole(r)) - 1
        /\ \A i \in 1 .. Len(sent[r]) : sent[r][i] = Whole(r)[i + 1]
    BY <1>1, <1>2, <1>3 DEF Sending
  <2>2. Whole(r) # <<>>
    BY <1>1, <1>3
  <2>3. /\ Tail(Whole(r)) \in Seq(Entry) /\ Len(Tail(Whole(r))) = Len(Whole(r)) - 1
        /\ \A i \in 1 .. Len(Tail(Whole(r))) : Tail(Whole(r))[i] = Whole(r)[i + 1]
    BY <1>1, <2>2, HeadTailProperties
  <2>4. sent[r] = Tail(Whole(r))
    BY <1>1, <2>1, <2>3, SeqEqual
  <2> QED
    BY <1>3, <2>4 DEF Answer
<1>4. CASE chosen[r] # "cached"
  <2>1. Len(sent[r]) = Len(Whole(r))
    <3>1. CASE next[r] = 1
      BY <1>1, <1>2, <3>1 DEF Sending
    <3>2. CASE next[r] # 1
      BY <1>1, <1>2, <1>4, <3>2 DEF Sending
    <3> QED
      BY <3>1, <3>2
  <2>2. \A i \in 1 .. Len(sent[r]) : sent[r][i] = Whole(r)[i]
    <3>1. \A i \in 1 .. Len(sent[r]) : sent[r][i] = Whole(r)[i + 0]
      BY <1>4 DEF Sending
    <3>2. \A i \in 1 .. Len(sent[r]) : i + 0 = i
      OBVIOUS
    <3> QED
      BY <3>1, <3>2
  <2>3. sent[r] = Whole(r)
    BY <1>1, <2>1, <2>2, SeqEqual
  <2> QED
    BY <1>4, <2>3 DEF Answer
<1> QED
  BY <1>3, <1>4

\* To look at one more header keeps what was sent a part of the answer.
LEMMA AddSending ==
  ASSUME Shape, SentShape, NEW r \in Requests, Progress(r), Sending(r),
         AddHeader(r), Content(response[r]) = Whole(r), UNCHANGED Whole(r)
  PROVE  Sending(r)'
<1>1. /\ Whole(r) \in Seq(Entry) /\ sent[r] \in Seq(Entry) /\ Len(Whole(r)) \in Nat
      /\ chosen[r] = "cached" => Typed(Whole(r))
  BY WholeShape DEF SentShape
<1>2. next[r] \in 1 .. Len(Whole(r)) /\ next' = [next EXCEPT ![r] = @ + 1] /\ UNCHANGED chosen
  BY <1>1 DEF AddHeader, Sending, locals
<1>3. next'[r] = next[r] + 1 /\ next'[r] \in 1 .. Len(Whole(r)) + 1 /\ next'[r] > 1
  BY <1>1, <1>2 DEF SentShape
<1> DEFINE entry == Whole(r)[next[r]]
           skipped == IF chosen[r] = "cached" THEN 1 ELSE 0
<1>4. IF Kept(r, entry) THEN sent' = [sent EXCEPT ![r] = Append(@, entry)] ELSE UNCHANGED sent
  BY DEF AddHeader
<1>5. Kept(r, entry) <=> chosen[r] # "cached" \/ next[r] # 1
  BY <1>1, <1>2 DEF Kept, Typed
<1>6. Len(sent'[r]) = next[r] - skipped
      /\ \A i \in 1 .. Len(sent'[r]) : sent'[r][i] = Whole(r)[i + skipped]
  <2>1. CASE chosen[r] = "cached" /\ next[r] = 1
    <3>1. sent'[r] = <<>>
      BY <1>4, <1>5, <2>1 DEF Sending
    <3> QED
      BY <2>1, <3>1
  <2>2. CASE ~ (chosen[r] = "cached" /\ next[r] = 1)
    <3>1. sent'[r] = Append(sent[r], entry)
      BY <1>4, <1>5, <2>2 DEF SentShape
    <3>2. Len(sent[r]) = next[r] - 1 - skipped
      <4>1. CASE next[r] = 1
        BY <2>2, <4>1 DEF Sending
      <4>2. CASE next[r] # 1
        BY <1>2, <4>2 DEF Sending
      <4> QED
        BY <4>1, <4>2
    <3>3. \A i \in 1 .. Len(sent[r]) : sent[r][i] = Whole(r)[i + skipped]
      BY DEF Sending
    <3>4. next[r] \in Int /\ skipped \in {0, 1}
      BY <1>2
    <3>5. entry = Whole(r)[Len(sent[r]) + 1 + skipped]
      BY <3>2, <3>4
    <3> HIDE DEF entry, skipped
    <3>6. /\ Len(sent'[r]) = Len(sent[r]) + 1
          /\ \A i \in 1 .. Len(sent[r]) : sent'[r][i] = sent[r][i]
          /\ sent'[r][Len(sent[r]) + 1] = entry
      BY <1>1, <3>1
    <3>7. \A i \in 1 .. Len(sent[r]) + 1 : i \in 1 .. Len(sent[r]) \/ i = Len(sent[r]) + 1
      BY <1>1
    <3>8. \A i \in 1 .. Len(sent[r]) + 1 : sent'[r][i] = Whole(r)[i + skipped]
      BY <3>3, <3>5, <3>6, <3>7
    <3> QED
      BY <3>2, <3>4, <3>6, <3>8
  <2> QED
    BY <2>1, <2>2
<1>7. next'[r] - 1 - skipped = next[r] - skipped /\ next'[r] # 1
  BY <1>2, <1>3
<1>8. UNCHANGED <<skipped, Whole(r)>>
  BY <1>2
<1> HIDE DEF skipped
<1>9. /\ next'[r] > 1 => Len(sent'[r]) = next'[r] - 1 - skipped'
      /\ \A i \in 1 .. Len(sent'[r]) : sent'[r][i] = Whole(r)'[i + skipped']
  BY <1>6, <1>7, <1>8
<1> QED
  BY <1>3, <1>7, <1>8, <1>9 DEF Sending, skipped

LEMMA OwnResponding ==
  ASSUME Owned, Faithful, NEW r \in Requests, StepOf(r)
  PROVE  Responding(r)'
<1>1. Progress(r) /\ Responding(r) /\ Progress(r)'
  BY OwnProgress DEF Faithful
<1>2. /\ Shape /\ SentShape
      /\ pc \in [Requests -> Stages] /\ response \in [Requests -> Slice]
      /\ chosen \in [Requests -> Encodings \union {"identity", "cached", "none"}]
      /\ DOMAIN handler = Requests /\ DOMAIN sent = Requests /\ DOMAIN outcome = Requests
  BY DEF Owned, Shape, SentShape, History
<1>3. Building = {"encode", "private", "merge", "vary", "finish"}
  BY DEF Building, Making
<1> DEFINE idle == pc'[r] \notin Building /\ outcome'[r] # "answer"
\* Where nothing is being built or sent, nothing is to show.
<1>4. ASSUME idle PROVE Responding(r)'
  BY <1>4 DEF Responding
\* What is built is the next part of the answer.
<1>5. ASSUME UNCHANGED endpoint, NEW said, pc'[r] \in Building,
             Undisturbed(r) => Content(response[r])' = said,
             said = Built(r)', outcome'[r] # "answer"
      PROVE  Responding(r)'
  BY <1>5, StepUndisturbed DEF Responding
<1>6. /\ Static \in Seq(Entry) /\ Encoded(r) \in Seq(Entry) /\ Varies \in Seq(Entry)
      /\ handler[r] \in Seq(Entry) /\ cors[r] \in Seq(Entry)
  BY <1>2, AddedShape, StaticShape DEF Shape
<1>7. UNCHANGED endpoint => UNCHANGED <<Static, Varies, Privately(Static)>>
  BY DEF Static, Varies, Privately
<1>8. UNCHANGED <<endpoint, chosen>> => UNCHANGED <<Encoded(r), Base(r)>>
  BY <1>7 DEF Encoded, Base
<1>9. UNCHANGED <<endpoint, chosen, handler, cors>> => UNCHANGED <<Whole(r), Answer(r)>>
  BY <1>7, <1>8 DEF Whole, Answer
<1> USE DEF Goto, Becomes
<1>10. CASE Handler(r)
  <2>1. CASE pc'[r] = "merge"
    <3>1. UNCHANGED <<endpoint, chosen, outcome>> /\ pc[r] = "handler"
      BY <1>10 DEF Handler, ghosts
    <3>2. chosen[r] = "none" /\ outcome[r] = "pending"
      BY <1>1, <3>1 DEF Progress, Early
    <3>3. Content(response[r])' = handler'[r]
      BY <1>2, <1>10 DEF Handler, Content, Own
    <3>4. Built(r)' = handler'[r]
      BY <2>1, <3>1, <3>2 DEF Built
    <3> QED
      BY <1>3, <1>5, <2>1, <3>1, <3>2, <3>3, <3>4
  <2>2. CASE pc'[r] # "merge"
    <3>1. pc'[r] = "static"
      BY <1>2, <1>10, <2>2 DEF Handler
    <3>2. outcome'[r] # "answer"
      BY <1>1, <3>1 DEF Progress
    <3> QED
      BY <1>3, <1>4, <3>1, <3>2
  <2> QED
    BY <2>1, <2>2
<1>11. CASE StaticContent(r)
  <2>1. /\ pc'[r] = "encode" /\ UNCHANGED <<endpoint, array>> /\ response'[r] = SharedSlice
    BY <1>2, <1>11 DEF StaticContent
  <2>2. Len(Static) = 2
    BY <1>2, StaticShape DEF Shape
  <2>3. Content(response[r])' = SubSeq(array, 1, 2)
    BY <2>1, <2>2 DEF Content, SharedSlice
  <2>4. /\ SubSeq(array, 1, 2) \in Seq(Entry) /\ Len(SubSeq(array, 1, 2)) = 2
        /\ SubSeq(array, 1, 2)[1] = array[1] /\ SubSeq(array, 1, 2)[2] = array[2]
    BY <1>2, SubSeqProperties DEF Shape
  <2>5. SubSeq(array, 1, 2) = Static
    BY <1>2, <1>6, <2>2, <2>4, SeqEqual DEF Shape
  <2>6. Built(r)' = Static
    BY <1>7, <2>1 DEF Built
  <2>7. outcome'[r] # "answer"
    BY <1>1, <2>1 DEF Progress
  <2> QED
    BY <1>3, <1>5, <2>1, <2>3, <2>5, <2>6, <2>7
<1>12. CASE Encode(r)
  <2>1. /\ pc[r] = "encode" /\ pc'[r] = "private" /\ UNCHANGED <<endpoint, chosen>>
        /\ Extend(r, Encoded(r))
    BY <1>2, <1>12 DEF Encode
  <2>2. Content(response[r])' = Content(response[r]) \o Encoded(r)
    BY <1>2, <1>6, <2>1, ExtendContent
  <2>3. Undisturbed(r) => Content(response[r]) = Static
    BY <1>1, <1>3, <2>1 DEF Responding, Built
  <2>4. Built(r)' = Static \o Encoded(r)
    BY <1>7, <1>8, <2>1 DEF Built
  <2>5. outcome'[r] # "answer"
    BY <1>1, <2>1 DEF Progress
  <2> QED
    BY <1>3, <1>5, <2>1, <2>2, <2>3, <2>4, <2>5
<1>13. CASE Private(r)
  <2> DEFINE entries == Content(response[r])
  <2>1. /\ pc[r] = "private" /\ pc'[r] = "merge" /\ UNCHANGED <<endpoint, array, chosen>>
    BY <1>2, <1>13 DEF Private
  <2>2. Undisturbed(r) => entries = Static \o Encoded(r)
    BY <1>1, <1>3, <2>1 DEF Responding, Built
  <2>3. Content(response[r])' = IF endpoint.public THEN entries ELSE Privately(entries)
    <3>1. CASE endpoint.public \/ Privately(entries) = entries
      <4>1. UNCHANGED response
        BY <1>13, <3>1 DEF Private
      <4>2. Content(response[r])' = entries
        BY <2>1, <4>1 DEF Content
      <4> QED
        BY <3>1, <4>2
    <3>2. CASE ~ (endpoint.public \/ Privately(entries) = entries)
      <4> DEFINE changed == Privately(entries)
      <4>1. response'[r] = Own(changed) /\ ~ endpoint.public
        BY <1>2, <1>13, <3>2 DEF Private
      <4> HIDE DEF changed
      <4>2. Content(response[r])' = changed
        BY <4>1 DEF Content, Own
      <4> QED
        BY <4>1, <4>2 DEF changed
    <3> QED
      BY <3>1, <3>2
  <2>4. chosen[r] # "none"
    BY <1>1, <2>1 DEF Progress
  <2>5. Base(r) = IF endpoint.public THEN Static \o Encoded(r) ELSE Privately(Static \o Encoded(r))
    BY <1>2, <2>4, PrivatelyBase DEF Base
  <2> HIDE DEF entries
  <2>6. Undisturbed(r) => Content(response[r])' = Base(r)
    BY <2>2, <2>3, <2>5
  <2>7. Built(r)' = Base(r)
    BY <1>8, <2>1, <2>4 DEF Built
  <2>8. outcome'[r] # "answer"
    BY <1>1, <2>1 DEF Progress
  <2> QED
    BY <1>3, <1>5, <2>1, <2>6, <2>7, <2>8
<1>14. CASE Merge(r)
  <2> DEFINE entries == IF Merges(r) THEN handler[r] ELSE <<>>
  <2>1. /\ pc[r] = "merge" /\ pc'[r] = "vary" /\ UNCHANGED <<endpoint, chosen, handler>>
        /\ Extend(r, entries)
    BY <1>2, <1>14 DEF Merge
  <2>2. entries \in Seq(Entry)
    BY <1>6
  <2>3. Content(response[r])' = Content(response[r]) \o entries
    BY <1>2, <2>1, <2>2, ExtendContent
  <2>4. Built(r)' = Base(r) \o handler[r]
    BY <1>8, <2>1 DEF Built
  <2>5. Undisturbed(r) => Content(response[r]) \o entries = Base(r) \o handler[r]
    <3>1. CASE chosen[r] = "none"
      <4>1. Undisturbed(r) => Content(response[r]) = handler[r]
        BY <1>1, <1>3, <2>1, <3>1 DEF Responding, Built
      <4>2. entries = <<>> /\ Base(r) = <<>>
        BY <3>1 DEF Merges, Base
      <4>3. handler[r] \o <<>> = handler[r] /\ <<>> \o handler[r] = handler[r]
        BY <1>6, ConcatEmptySeq
      <4> QED
        BY <4>1, <4>2, <4>3
    <3>2. CASE chosen[r] # "none"
      BY <1>1, <1>3, <2>1, <3>2 DEF Responding, Built, Merges
    <3> QED
      BY <3>1, <3>2
  <2>6. outcome'[r] # "answer"
    BY <1>1, <2>1 DEF Progress
  <2> QED
    BY <1>3, <1>5, <2>1, <2>3, <2>4, <2>5, <2>6
<1>15. CASE Vary(r)
  <2>1. /\ pc[r] = "vary" /\ pc'[r] = "finish" /\ UNCHANGED <<endpoint, chosen, handler>>
        /\ Extend(r, Varies)
    BY <1>2, <1>15 DEF Vary
  <2>2. Content(response[r])' = Content(response[r]) \o Varies
    BY <1>2, <1>6, <2>1, ExtendContent
  <2>3. Undisturbed(r) => Content(response[r]) = Base(r) \o handler[r]
    BY <1>1, <1>3, <2>1 DEF Responding, Built
  <2>4. Built(r)' = Base(r) \o handler[r] \o Varies
    BY <1>7, <1>8, <2>1 DEF Built
  <2>5. outcome'[r] # "answer"
    BY <1>1, <2>1 DEF Progress
  <2> QED
    BY <1>3, <1>5, <2>1, <2>2, <2>3, <2>4, <2>5
<1>16. CASE Finish(r)
  <2>1. /\ pc[r] = "finish" /\ pc'[r] = "write" /\ UNCHANGED <<endpoint, chosen, handler, cors>>
        /\ Extend(r, cors[r]) /\ UNCHANGED <<sent, next>>
    BY <1>2, <1>16 DEF Finish, writer
  <2>2. Content(response[r])' = Content(response[r]) \o cors[r]
    BY <1>2, <1>6, <2>1, ExtendContent
  <2>3. Undisturbed(r) => Content(response[r]) = Base(r) \o handler[r] \o Varies
    BY <1>1, <1>3, <2>1 DEF Responding, Built
  <2>4. Undisturbed(r) => Content(response[r])' = Whole(r)'
    BY <1>9, <2>1, <2>2, <2>3 DEF Whole
  <2>5. sent'[r] = <<>> /\ next'[r] = 1
    BY <1>1, <1>3, <2>1 DEF Progress
  <2>6. Whole(r)' \in Seq(Entry)
    BY <1>1, <1>2, <1>9, <2>1, WholeShape
  <2>7. Sending(r)'
    BY <2>5, <2>6 DEF Sending
  <2> QED
    BY <1>3, <2>1, <2>4, <2>7, StepUndisturbed DEF Responding
<1>17. CASE AddHeader(r)
  <2>1. /\ pc[r] \in {"write", "error"}
        /\ UNCHANGED <<endpoint, array, pc, response, chosen, handler, cors, outcome>>
    BY <1>17 DEF AddHeader, locals, ghosts
  <2>2. CASE outcome[r] = "answer" /\ pc[r] = "write"
    <3>1. UNCHANGED <<Whole(r), Content(response[r])>>
      BY <1>9, <2>1 DEF Content
    <3>2. Undisturbed(r) => Content(response[r]) = Whole(r) /\ Sending(r)
      BY <1>1, <2>2 DEF Responding
    <3>3. Undisturbed(r) => Sending(r)'
      BY <1>1, <1>2, <1>17, <3>1, <3>2, AddSending
    <3> QED
      BY <1>3, <2>1, <2>2, <3>1, <3>2, <3>3, StepUndisturbed DEF Responding
  <2>3. CASE ~ (outcome[r] = "answer" /\ pc[r] = "write")
    <3>1. idle
      BY <1>1, <1>3, <2>1, <2>3 DEF Progress
    <3> QED
      BY <1>4, <3>1
  <2> QED
    BY <2>2, <2>3
<1>18. CASE WriteBody(r)
  <2>1. CASE outcome'[r] = "answer"
    <3>1. /\ pc[r] = "write" /\ pc'[r] = "fallback" /\ AllAdded(r)
          /\ UNCHANGED <<endpoint, response, chosen, handler, cors, sent, outcome>>
      BY <1>2, <1>18, <2>1 DEF WriteBody, locals
    <3>2. Undisturbed(r) => Content(response[r]) = Whole(r) /\ Sending(r)
      BY <1>1, <2>1, <3>1 DEF Responding
    <3>3. Undisturbed(r) => sent[r] = Answer(r)
      BY <1>1, <1>2, <3>1, <3>2, SentWhole DEF AllAdded
    <3> QED
      BY <1>3, <1>9, <3>1, <3>3, StepUndisturbed DEF Responding
  <2>2. CASE outcome'[r] # "answer"
    <3>1. pc'[r] \in {"fallback", "error"}
      BY <1>2, <1>18 DEF WriteBody
    <3> QED
      BY <1>3, <1>4, <2>2, <3>1
  <2> QED
    BY <2>1, <2>2
<1>19. CASE Fallback(r)
  <2>1. /\ pc[r] = "fallback" /\ pc'[r] = "done"
        /\ UNCHANGED <<endpoint, chosen, handler, cors, sent, outcome>>
    BY <1>2, <1>19 DEF Fallback, locals, ghosts
  <2>2. Undisturbed(r) /\ outcome[r] = "answer" => sent[r] = Answer(r)
    BY <1>1, <2>1 DEF Responding
  <2> QED
    BY <1>3, <1>9, <2>1, <2>2, StepUndisturbed DEF Responding
\* The rest neither builds nor sends an answer.
<1>20. CASE idle
  BY <1>4, <1>20
<1> USE DEF Error
<1>21. CASE Firewall(r)
  <2>1. pc'[r] \in {"endpoint", "error", "dropped"}
    BY <1>2, <1>21 DEF Firewall, FirewallAccepts, FirewallRejects, FirewallDrops
  <2> QED
    BY <1>1, <1>3, <1>20, <2>1 DEF Progress
<1>22. CASE FindEndpoint(r) \/ NotFound(r) \/ UnmatchedMethod(r) \/ Cors(r)
  <2>1. pc'[r] \in {"cors", "error", "write", "rateLimit"} /\ UNCHANGED outcome
    BY <1>2, <1>22 DEF FindEndpoint, NotFound, UnmatchedMethod, Cors, Checks, ghosts
  <2>2. outcome'[r] # "answer"
    BY <1>1, <1>22, <2>1 DEF FindEndpoint, NotFound, UnmatchedMethod, Cors, Progress
  <2> QED
    BY <1>3, <1>20, <2>1, <2>2
<1>23. CASE CheckPasses(r)
  <2>1. PICK i \in DOMAIN Checks :
          pc[r] = Checks[i] /\ Goto(r, IF i = Len(Checks) THEN "handler" ELSE Checks[i + 1])
    BY <1>23 DEF CheckPasses
  <2>2. pc'[r] \notin Building /\ pc'[r] \notin {"write", "fallback", "done"}
    BY <1>2, <1>3, <2>1 DEF Checks
  <2> QED
    BY <1>1, <1>20, <2>2 DEF Progress
<1>24. CASE \/ CheckRefuses(r) \/ HandlerRefuses(r) \/ StaticContentRefuses(r) \/ WriteFails(r)
  <2>1. pc'[r] = "error"
    BY <1>2, <1>24 DEF CheckRefuses, HandlerRefuses, StaticContentRefuses, WriteFails
  <2> QED
    BY <1>1, <1>3, <1>20, <2>1 DEF Progress
<1>25. CASE WriteError(r) \/ ErrorFails(r)
  <2>1. pc[r] = "error" /\ pc'[r] = "fallback" /\ (UNCHANGED outcome \/ outcome'[r] = "failed")
    BY <1>2, <1>25 DEF WriteError, ErrorFails, ghosts
  <2> QED
    BY <1>1, <1>3, <1>20, <2>1 DEF Progress
<1>26. CASE HandleRequest(r)
  BY <1>16, <1>22, <1>23, <1>24, <1>26 DEF HandleRequest
<1>27. CASE ProduceResponse(r)
  BY <1>10, <1>11, <1>12, <1>13, <1>14, <1>15, <1>24, <1>27 DEF ProduceResponse
<1>28. CASE Respond(r)
  BY <1>17, <1>18, <1>19, <1>24, <1>25, <1>28 DEF Respond
<1> QED
  BY <1>21, <1>26, <1>27, <1>28 DEF StepOf

LEMMA InitFaithful == Init => Faithful
<1> SUFFICES ASSUME Init PROVE Faithful
  OBVIOUS
<1>1. History
  BY DEF Init, History
<1>2. ASSUME NEW r \in Requests PROVE Progress(r) /\ Refusing(r) /\ Responding(r) /\ Aware(r)
  <2>1. /\ pc[r] = "firewall" /\ handler[r] = <<>> /\ cors[r] = <<>> /\ sent[r] = <<>>
        /\ next[r] = 1 /\ chosen[r] = "none" /\ outcome[r] = "pending"
    BY DEF Init
  <2>2. "firewall" \notin Making /\ "firewall" \notin Building
    BY DEF Making, Building
  <2> QED
    BY <2>1, <2>2 DEF Progress, Refusing, Responding, Aware
<1> QED
  BY <1>1, <1>2 DEF Faithful

LEMMA NextFaithful == Shape /\ Written /\ Gated /\ Faithful /\ [Next]_vars => Faithful'
<1> SUFFICES ASSUME Shape, Written, Gated, Faithful, [Next]_vars PROVE Faithful'
  OBVIOUS
<1>1. Owned
  BY DEF Owned, Gated, Faithful
<1>2. CASE UNCHANGED vars
  <2>1. ASSUME NEW r \in Requests
        PROVE  UNCHANGED <<Progress(r), Refusing(r), Responding(r), Aware(r)>>
    BY <1>2 DEF vars, locals, writer, ghosts, Progress, Refusing, Responding, Aware, Undisturbed,
       Built, Whole, Base, Answer, Sending, Encoded, Varies, Static, Privately, Content
  <2>2. History'
    BY <1>2 DEF Faithful, History, vars, ghosts
  <2> QED
    BY <2>1, <2>2 DEF Faithful
<1>3. CASE \E q \in Requests : StepOf(q)
  <2>1. PICK q \in Requests : StepOf(q)
    BY <1>3
  <2>2. History'
    BY <1>1, <2>1, StepHistory
  <2>3. Progress(q)' /\ Refusing(q)' /\ Responding(q)' /\ Aware(q)'
    BY <1>1, <2>1, OwnProgress, OwnRefusing, OwnResponding, OwnAware
  <2>4. ASSUME NEW r \in Requests \ {q} PROVE Progress(r)' /\ Refusing(r)' /\ Responding(r)' /\ Aware(r)'
    BY <1>1, <2>1, OthersFaithful
  <2> QED
    BY <2>2, <2>3, <2>4 DEF Faithful
<1> QED
  BY <1>2, <1>3 DEF Next, StepOf

\* A refusal that follows the look at CORS tells the browser what it may read: each of
\* the checks adds the request's CORS headers to the error of its own making, and
\* WriteError does not write a header before they were added; and an append stays within
\* the array the slices share.
THEOREM RefusalsReadableCorrect == Spec => []RefusalsReadable
<1>1. Shape /\ Written /\ Gated /\ Faithful => RefusalsReadable
  <2> SUFFICES ASSUME Shape, Written, Gated, Faithful PROVE RefusalsReadable
    OBVIOUS
  <2>1. Len(Static) = 2
    BY StaticShape DEF Shape
  <2>2. TypeOK
    BY <2>1 DEF TypeOK, Shape, Written, Gated, SentShape, Faithful, History
  <2> QED
    BY <2>2 DEF RefusalsReadable, Faithful, Refusing
<1> QED
  BY InitShape, NextShape, InitWritten, NextWritten, InitGated, NextGated, InitFaithful,
     NextFaithful, <1>1, PTL DEF Spec

\* A response says what the endpoint answers to its request, unless another response was
\* made at the same time and the array behind StaticContent.Headers has room for both.
THEOREM SentAsBuiltCorrect == Spec => []SentAsBuilt
<1>1. Faithful => SentAsBuilt
  BY DEF Faithful, SentAsBuilt, Answered, Responding, Undisturbed
<1> QED
  BY InitShape, NextShape, InitWritten, NextWritten, InitGated, NextGated, InitFaithful,
     NextFaithful, <1>1, PTL DEF Spec
=============================================================================
