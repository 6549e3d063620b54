-------------------------------- MODULE Mux --------------------------------
(***************************************************************************)
(* A Mux serving requests to one endpoint (pkg/http/mux): the firewall,    *)
(* the checks of the endpoint, its handler, its static content, and the    *)
(* writing of the response or of the error that took its place.  Parsers,  *)
(* checks, handlers and writes have the outcomes their code may have.      *)
(*                                                                         *)
(* Requests run concurrently and share the endpoint's static headers, a Go *)
(* slice: a response starts as that very slice and is appended to, which   *)
(* writes into the shared array while it has room and moves to an array of *)
(* its own when it has not.  Headers are known by what they say and by the *)
(* request they say it to.                                                 *)
(***************************************************************************)
EXTENDS Integers, Sequences, FiniteSets

CONSTANTS
  Requests,   \* requests served
  Nobody,     \* what concerns no request in particular
  Encodings,  \* encodings of the static content, besides "identity"
  Spares,     \* free places in the array of the static headers
  Endpoints   \* the endpoints considered

ASSUME NobodyAssumption == Nobody \notin Requests /\ Spares \subseteq Nat
ASSUME EncodingAssumption ==
  Encodings \intersect {"type", "public", "identity", "cached", "none"} = {}
ASSUME EndpointAssumption ==
  Endpoints \subseteq [public : BOOLEAN, cachePublic : BOOLEAN, cors : BOOLEAN,
                       fetchMetadata : BOOLEAN, static : BOOLEAN,
                       handler : {"none", "adds", "answers"}]

VARIABLES
  endpoint,  \* the endpoint
  array,     \* the array under StaticContent.Headers
  pc,        \* where each request is
  response,  \* Response.Headers: a slice of the shared array, or one of its own
  chosen,    \* the encoding of the body, "cached", or "none" without static content
  handler,   \* handlerResponseHeaders
  cors,      \* corsHeaderEntries
  sent,      \* the header map of the response writer
  next,      \* the header WriteResponse looks at next
  headers,   \* calls of WriteHeader
  outcome,   \* history: what the endpoint came to, or that it could not be written
  overlapped \* history: whether another response was made at the same time

locals == <<response, chosen, handler, cors>>
writer == <<sent, next, headers>>
ghosts == <<outcome, overlapped>>
vars == <<endpoint, array, pc, locals, writer, ghosts>>

Says(what, to) == [says |-> what, to |-> to]
General(what) == Says(what, Nobody)

Static == <<General("type"), General(IF endpoint.cachePublic THEN "public" ELSE "no-cache")>>
SharedSlice == [shared |-> TRUE, len |-> Len(Static), own |-> <<>>]
Own(entries) == [shared |-> FALSE, len |-> 0, own |-> entries]

Checks == <<"rateLimit", "fetchMetadata", "authentication", "url", "header", "body">>
Making == {"encode", "private", "merge", "vary", "finish", "write"}
Stages == {"firewall", "endpoint", "cors", "handler", "static", "error", "fallback",
           "done", "dropped"} \union {Checks[i] : i \in DOMAIN Checks} \union Making

\* A slice of the shared array stays within it.
TypeOK ==
  /\ pc \in [Requests -> Stages]
  /\ endpoint \in Endpoints
  /\ chosen \in [Requests -> Encodings \union {"identity", "cached", "none"}]
  /\ \A r \in Requests :
       /\ response[r].shared => response[r].len \in Len(Static) .. Len(array)
       /\ headers[r] \in Nat /\ next[r] \in Nat
  /\ outcome \in [Requests -> {"pending", "answer", "refusal", "failed"}]

Init ==
  /\ endpoint \in Endpoints
  /\ \E spare \in Spares :
       array = Static \o [i \in 1 .. spare |-> General("unused")]
  /\ pc = [r \in Requests |-> "firewall"]
  /\ response = [r \in Requests |-> Own(<<>>)]
  /\ chosen = [r \in Requests |-> "none"]
  /\ handler = [r \in Requests |-> <<>>] /\ cors = handler /\ sent = handler
  /\ next = [r \in Requests |-> 1] /\ headers = [r \in Requests |-> 0]
  /\ outcome = [r \in Requests |-> "pending"]
  /\ overlapped = [r \in Requests |-> FALSE]

Goto(r, stage) == pc' = [pc EXCEPT ![r] = stage]
Becomes(r, what) == outcome' = [outcome EXCEPT ![r] = what]
WriteHeader(r) == headers' = [headers EXCEPT ![r] = @ + 1]

\* A ResponseError with these headers takes the place of the response.  Those that the
\* refusing check gave it (Retry-After, a challenge) go before them and are left out.
Error(r, entries) ==
  /\ Goto(r, "error")
  /\ response' = [response EXCEPT ![r] = Own(entries)]

----------------------------------------------------------------------------
(* Slices *)

Content(slice) == IF slice.shared THEN SubSeq(array, 1, slice.len) ELSE slice.own

\* Whether append finds room behind the slice.
Fits(slice, entries) == slice.shared /\ slice.len + Len(entries) <= Len(array)

Extend(r, entries) ==
  LET slice == response[r]
  IN IF Fits(slice, entries)
     THEN /\ array' = [i \in DOMAIN array |->
                         IF i \in slice.len + 1 .. slice.len + Len(entries)
                         THEN entries[i - slice.len] ELSE array[i]]
          /\ response' = [response EXCEPT ![r].len = @ + Len(entries)]
     ELSE /\ response' = [response EXCEPT ![r] =
                            IF entries = <<>> THEN slice
                            ELSE Own(Content(slice) \o entries)]
          /\ UNCHANGED array

----------------------------------------------------------------------------
(* ServeHttpWithCallback, up to the callback *)

FirewallAccepts(r) ==
  /\ pc[r] = "firewall" /\ Goto(r, "endpoint")
  /\ UNCHANGED <<endpoint, array, locals, writer, ghosts>>

FirewallRejects(r) ==
  /\ pc[r] = "firewall" /\ Error(r, <<>>)
  /\ UNCHANGED <<endpoint, array, chosen, handler, cors, writer, ghosts>>

\* The connection is hijacked and closed, or the handler aborts; an error is
\* written where hijacking failed.
FirewallDrops(r) ==
  /\ pc[r] = "firewall" /\ Goto(r, "dropped")
  /\ WriteHeader(r) \/ UNCHANGED headers
  /\ UNCHANGED <<endpoint, array, locals, sent, next, ghosts>>

----------------------------------------------------------------------------
(* muxHandleRequest *)

FindEndpoint(r) ==
  /\ pc[r] = "endpoint" /\ Goto(r, "cors")
  /\ UNCHANGED <<endpoint, array, locals, writer, ghosts>>

NotFound(r) ==
  /\ pc[r] = "endpoint" /\ Error(r, <<>>)
  /\ UNCHANGED <<endpoint, array, chosen, handler, cors, writer, ghosts>>

\* handleUnmatchedMethod answers OPTIONS, and refuses other methods.
UnmatchedMethod(r) ==
  /\ pc[r] = "endpoint"
  /\ \/ Error(r, <<Says("allow", r)>>)
     \/ Goto(r, "write") /\ response' = [response EXCEPT ![r] = Own(<<Says("allow", r)>>)]
  /\ UNCHANGED <<endpoint, array, chosen, handler, cors, writer, ghosts>>

\* endpointCorsHeaderEntries
Cors(r) ==
  /\ pc[r] = "cors"
  /\ \/ /\ Goto(r, Checks[1]) /\ UNCHANGED response
        /\ \E entries \in IF endpoint.cors THEN {<<>>, <<Says("cors", r)>>} ELSE {<<>>} :
             cors' = [cors EXCEPT ![r] = entries]
     \/ endpoint.cors /\ Error(r, <<>>) /\ UNCHANGED cors
  /\ UNCHANGED <<endpoint, array, chosen, handler, writer, ghosts>>

CheckPasses(r) ==
  /\ \E i \in DOMAIN Checks :
       /\ pc[r] = Checks[i]
       /\ Goto(r, IF i = Len(Checks) THEN "handler" ELSE Checks[i + 1])
  /\ UNCHANGED <<endpoint, array, locals, writer, ghosts>>

\* Fault: the body's refusal is returned as it came.
CheckRefusesBare(r) ==
  /\ \E i \in DOMAIN Checks : pc[r] = Checks[i]
  /\ pc[r] = "fetchMetadata" => endpoint.fetchMetadata
  /\ Error(r, IF pc[r] = "body" THEN <<>> ELSE cors[r])
  /\ Becomes(r, "refusal")
  /\ UNCHANGED <<endpoint, array, chosen, handler, cors, writer, overlapped>>

CheckRefuses(r) ==
  /\ \E i \in DOMAIN Checks : pc[r] = Checks[i]
  /\ pc[r] = "fetchMetadata" => endpoint.fetchMetadata
  /\ Error(r, cors[r])
  /\ Becomes(r, "refusal")
  /\ UNCHANGED <<endpoint, array, chosen, handler, cors, writer, overlapped>>

----------------------------------------------------------------------------
(* produceResponse *)

Handler(r) ==
  /\ pc[r] = "handler"
  /\ LET entries == IF endpoint.handler = "none" THEN <<>> ELSE <<Says("handler", r)>>
         answered == endpoint.handler = "answers"
     IN /\ handler' = [handler EXCEPT ![r] = entries]
        /\ response' = [response EXCEPT ![r] = Own(entries)]
        /\ Goto(r, IF endpoint.static /\ ~ answered THEN "static" ELSE "merge")
  /\ UNCHANGED <<endpoint, array, chosen, cors, writer, ghosts>>

HandlerRefuses(r) ==
  /\ pc[r] = "handler" /\ endpoint.handler # "none"
  /\ Error(r, cors[r])
  /\ Becomes(r, "refusal")
  /\ UNCHANGED <<endpoint, array, chosen, handler, cors, writer, overlapped>>

Overlap(r) ==
  LET others == {q \in Requests \ {r} : pc[q] \in Making}
  IN overlapped' = [q \in Requests |->
       overlapped[q] \/ q \in others \/ (q = r /\ others # {})]

\* ObtainIsCached and ObtainStaticContentResponse
StaticContent(r) ==
  /\ pc[r] = "static"
  /\ \E choice \in Encodings \union {"identity", "cached"} :
       chosen' = [chosen EXCEPT ![r] = choice]
  /\ response' = [response EXCEPT ![r] = SharedSlice]
  /\ Overlap(r) /\ Goto(r, "encode")
  /\ UNCHANGED <<endpoint, array, handler, cors, writer, outcome>>

\* A malformed If-Modified-Since, or no acceptable encoding
StaticContentRefuses(r) ==
  /\ pc[r] = "static" /\ Error(r, cors[r])
  /\ Becomes(r, "refusal")
  /\ UNCHANGED <<endpoint, array, chosen, handler, cors, writer, overlapped>>

Encoded(r) == IF chosen[r] \in Encodings THEN <<General(chosen[r])>> ELSE <<>>

Encode(r) ==
  /\ pc[r] = "encode" /\ Extend(r, Encoded(r)) /\ Goto(r, "private")
  /\ UNCHANGED <<endpoint, chosen, handler, cors, writer, ghosts>>

Privately(entries) ==
  [i \in DOMAIN entries |-> IF entries[i] = General("public") THEN General("private")
                                                              ELSE entries[i]]

\* Fault: what a cached response says of caching is left as it is.
PrivateUncached(r) ==
  /\ pc[r] = "private" /\ Goto(r, "merge")
  /\ LET entries == Content(response[r])
     IN response' = IF endpoint.public \/ Privately(entries) = entries \/ chosen[r] = "cached"
                    THEN response ELSE [response EXCEPT ![r] = Own(Privately(entries))]
  /\ UNCHANGED <<endpoint, array, chosen, handler, cors, writer, ghosts>>

\* Fault: the entry is changed where it is.
PrivateInPlace(r) ==
  /\ pc[r] = "private" /\ Goto(r, "merge")
  /\ array' = IF endpoint.public THEN array ELSE Privately(array)
  /\ UNCHANGED <<endpoint, locals, writer, ghosts>>

\* privateCacheControlHeaders copies the headers when it changes one.
Private(r) ==
  /\ pc[r] = "private" /\ Goto(r, "merge")
  /\ LET entries == Content(response[r])
     IN response' = IF endpoint.public \/ Privately(entries) = entries THEN response
                    ELSE [response EXCEPT ![r] = Own(Privately(entries))]
  /\ UNCHANGED <<endpoint, array, chosen, handler, cors, writer, ghosts>>

\* Fault: a handler's headers are added to the handler's own response.
MergesAlways(r) == endpoint.static

\* The handler's headers are added to the static content's.
Merges(r) == chosen[r] # "none"

Merge(r) ==
  /\ pc[r] = "merge" /\ Goto(r, "vary")
  /\ Extend(r, IF Merges(r) THEN handler[r] ELSE <<>>)
  /\ UNCHANGED <<endpoint, chosen, handler, cors, writer, ghosts>>

Varies == IF endpoint.fetchMetadata THEN <<General("vary")>> ELSE <<>>

\* The entry is added; that WriteResponse drops Vary where Cache-Control says no-store,
\* as default headers may, is left out with them.
Vary(r) ==
  /\ pc[r] = "vary" /\ Extend(r, Varies) /\ Goto(r, "finish")
  /\ UNCHANGED <<endpoint, chosen, handler, cors, writer, ghosts>>

\* muxHandleRequest returns with the CORS headers.
Finish(r) ==
  /\ pc[r] = "finish" /\ Extend(r, cors[r]) /\ Goto(r, "write")
  /\ Becomes(r, "answer")
  /\ UNCHANGED <<endpoint, chosen, handler, cors, writer, overlapped>>

----------------------------------------------------------------------------
(* WriteResponse and the rest of ServeHttpWithCallback *)

\* A response without content says nothing of its type.
Kept(r, entry) == chosen[r] # "cached" \/ entry # General("type")

AddHeader(r) ==
  /\ pc[r] \in {"write", "error"}
  /\ LET entries == Content(response[r])
     IN /\ next[r] <= Len(entries)
        /\ IF Kept(r, entries[next[r]])
           THEN sent' = [sent EXCEPT ![r] = Append(@, entries[next[r]])]
           ELSE UNCHANGED sent
  /\ next' = [next EXCEPT ![r] = @ + 1]
  /\ UNCHANGED <<endpoint, array, pc, locals, headers, ghosts>>

AllAdded(r) == next[r] > Len(Content(response[r]))

\* The header is written, and the body with it or in part.
WriteBody(r) ==
  /\ pc[r] = "write" /\ AllAdded(r)
  /\ WriteHeader(r)
  /\ \/ Goto(r, "fallback") /\ UNCHANGED outcome
     \/ Goto(r, "error") /\ Becomes(r, "failed")
  /\ UNCHANGED <<endpoint, array, locals, sent, next, overlapped>>

\* The content type, the policy or the writer does not allow for the response.
WriteFails(r) ==
  /\ pc[r] = "write" /\ AllAdded(r)
  /\ Error(r, <<>>) /\ next' = [next EXCEPT ![r] = 1]
  /\ Becomes(r, "failed")
  /\ UNCHANGED <<endpoint, array, chosen, handler, cors, sent, headers, overlapped>>

\* Fault: an error is written whatever was written before.
WriteErrorAgain(r) ==
  /\ pc[r] = "error" /\ AllAdded(r)
  /\ WriteHeader(r) /\ Goto(r, "fallback")
  /\ UNCHANGED <<endpoint, array, locals, sent, next, ghosts>>

\* DefaultResponseErrorHandler writes nothing after a header was written.
WriteError(r) ==
  /\ pc[r] = "error"
  /\ \/ headers[r] = 0 /\ AllAdded(r) /\ WriteHeader(r)
     \/ headers[r] > 0 /\ UNCHANGED headers
  /\ Goto(r, "fallback")
  /\ UNCHANGED <<endpoint, array, locals, sent, next, ghosts>>

\* The error says nothing usable, or its problem detail does not convert.
ErrorFails(r) ==
  /\ pc[r] = "error" /\ headers[r] = 0
  /\ Goto(r, "fallback") /\ Becomes(r, "failed")
  /\ UNCHANGED <<endpoint, array, locals, writer, overlapped>>

\* A server error is written where no response was; then comes DoneCallback.
Fallback(r) ==
  /\ pc[r] = "fallback" /\ Goto(r, "done")
  /\ IF headers[r] = 0 THEN WriteHeader(r) ELSE UNCHANGED headers
  /\ UNCHANGED <<endpoint, array, locals, sent, next, ghosts>>

Firewall(r) == FirewallAccepts(r) \/ FirewallRejects(r) \/ FirewallDrops(r)
HandleRequest(r) ==
  \/ FindEndpoint(r) \/ NotFound(r) \/ UnmatchedMethod(r) \/ Cors(r)
  \/ CheckPasses(r) \/ CheckRefuses(r) \/ Finish(r)
ProduceResponse(r) ==
  \/ Handler(r) \/ HandlerRefuses(r) \/ StaticContent(r) \/ StaticContentRefuses(r)
  \/ Encode(r) \/ Private(r) \/ Merge(r) \/ Vary(r)
Respond(r) ==
  \/ AddHeader(r) \/ WriteBody(r) \/ WriteFails(r) \/ WriteError(r) \/ ErrorFails(r)
  \/ Fallback(r)

Next == \E r \in Requests :
  Firewall(r) \/ HandleRequest(r) \/ ProduceResponse(r) \/ Respond(r)

Spec == Init /\ [][Next]_vars

----------------------------------------------------------------------------
(* Properties *)

\* Every request that is not dropped is answered with one header, never two and
\* never none, whichever of its response, its error and the error about those
\* could not be written.
AnsweredOnce ==
  \A r \in Requests :
    /\ headers[r] <= 1
    /\ pc[r] = "done" => headers[r] = 1

\* What the endpoint says of its static content to a request, and what it answers: the
\* first header, the type, is left out where there is no content.
Base(r) ==
  IF chosen[r] = "none" THEN <<>>
  ELSE (IF endpoint.public THEN Static ELSE Privately(Static)) \o Encoded(r)
Whole(r) == Base(r) \o handler[r] \o Varies \o cors[r]
Answer(r) == IF chosen[r] = "cached" THEN Tail(Whole(r)) ELSE Whole(r)

Answered(r) == pc[r] = "done" /\ outcome[r] = "answer"

\* A response says what the endpoint answers to its request, where the array under
\* the static headers has no free place or no other response was made meanwhile.
SentAsBuilt ==
  \A r \in Requests : Answered(r) /\ (Len(array) = Len(Static) \/ ~ overlapped[r]) =>
    sent[r] = Answer(r)

\* privateCacheControlHeaders: "The entries belong to the endpoint and are read by
\* every request it serves", so that what one response says is not what another
\* does.  It is said of every response.
SaysItsOwn == \A r \in Requests : Answered(r) => sent[r] = Answer(r)

\* A refusal that follows the look at CORS tells the browser what it may read; and
\* whatever is appended stays within the array the slices share.
RefusalsReadable ==
  /\ TypeOK
  /\ \A r \in Requests : pc[r] = "done" /\ outcome[r] = "refusal" => sent[r] = cors[r]

\* "A body behind a session must not be handed to a shared cache": no response of
\* an endpoint that is not public says it is, cached, encoded or shared.
GatedStaysPrivate ==
  \A r \in Requests : ~ endpoint.public => General("public") \notin
    {sent[r][i] : i \in DOMAIN sent[r]}

\* The endpoint's own headers are what they were: nothing a response does to its
\* headers "outlasts the request that did it".
EndpointUnchanged == SubSeq(array, 1, Len(Static)) = Static
=============================================================================
