------------------------------- MODULE CdpConn -------------------------------
(***************************************************************************)
(* A connection to a browser (pkg/cdp): goroutines send commands through   *)
(* Conn.Call, one goroutine runs Conn.read, and both use a WebSocket whose *)
(* frames travel over a bounded stream each way.  Conn.mutex guards the    *)
(* pending commands and the connection's error; writeMutex guards the      *)
(* writing of a frame, which blocks while the browser does not read.       *)
(*                                                                         *)
(* The browser is external: it reads what it is sent, replies to commands  *)
(* in any order, in one frame or two, puts pings and events between them,  *)
(* and may close.  A "faulty" one also replies twice, sends what is not a  *)
(* message, or breaks the framing.                                         *)
(***************************************************************************)
EXTENDS Integers, Sequences, FiniteSets

CONSTANTS
  Callers,    \* goroutines that call Call
  Nil,        \* nobody, nothing
  Browsers,   \* the browsers considered: "healthy" and "faulty"
  MaxId,      \* bound: how many commands are sent
  MaxExtras,  \* bound: pings, events and faults the browser adds
  Window      \* bound: how many frames a stream holds before a write blocks

ASSUME BoundAssumption == MaxId \in Nat /\ MaxExtras \in Nat /\ Window \in Nat \ {0}
ASSUME CallerAssumption == Nil \notin Callers /\ "reader" \notin Callers

Ids == 1 .. MaxId

ASSUME NilAssumption == Nil \notin Ids

VARIABLES
  nextId,      \* Conn.nextId
  pending,     \* the keys of Conn.pending
  connErr,     \* whether Conn.err is set, which closes Conn.done
  pc,          \* where each caller is in Call
  id,          \* the command of each caller
  response,    \* the caller's response channel, of capacity one
  cancelled,   \* whether the caller's context is done
  reader,      \* where Conn.read is
  partial,     \* ReadMessage's message so far
  received,    \* the id of the message read last
  target,      \* the caller whose channel that message goes to
  writeMutex,  \* who holds WebSocket.writeMutex
  toBrowser,   \* frames written and not yet read by the browser
  toConn,      \* frames the browser wrote, not yet read by ReadMessage
  open,        \* whether the TCP connection is open
  browser,     \* the kind of browser
  unanswered,  \* commands the browser has read and not replied to
  replying,    \* the reply the browser has sent half of
  extras,      \* how many pings, events and faults it has added
  leaving,     \* whether it has sent a close, after which it sends nothing
  outcome,     \* history: what became of each command
  replied      \* history: the commands the browser has replied to

conn == <<nextId, pending, connErr>>
calls == <<pc, id, response, cancelled>>
reading == <<reader, partial, received, target>>
streams == <<writeMutex, toBrowser, toConn, open>>
remote == <<browser, unanswered, replying, extras, leaving>>
vars == <<conn, calls, reading, streams, remote, outcome, replied>>

(***************************************************************************)
(* Frames.  A piece of a message is known by the message's id (0 for an    *)
(* event) and by how many pieces make the whole; a message is decoded only *)
(* when it consists of exactly its own pieces.                             *)
(***************************************************************************)
Frame(op, m, of, final) == [op |-> op, id |-> m, of |-> of, final |-> final]
Control(op) == Frame(op, 0, 0, TRUE)
Garbage == Frame("text", 0, 3, TRUE)
Piece(frame) == [id |-> frame.id, of |-> frame.of]
Whole(message) ==
  /\ Len(message) = message[1].of
  /\ \A i \in DOMAIN message : message[i] = message[1]

Stages == {"idle", "register", "write", "send", "wait", "forget"}
ReaderStages == {"frame", "pong", "sendPong", "bye", "sendBye", "decode",
                 "dispatch", "deliver", "ended"}
Outcomes == {"none", "open", "late", "answered", "failed"}

\* A command is pending only while its call is in progress and its response has
\* not been handed over: nothing is left behind in Conn.pending.
TypeOK ==
  /\ nextId \in 0 .. MaxId
  /\ pending \in SUBSET Ids
  /\ pc \in [Callers -> Stages]
  /\ response \in [Callers -> Ids \cup {Nil}]
  /\ reader \in ReaderStages
  /\ writeMutex \in Callers \cup {Nil, "reader"}
  /\ outcome \in [Ids -> Outcomes]
  /\ \A m \in pending : \E c \in Callers :
       id[c] = m /\ pc[c] \notin {"idle", "register"} /\ response[c] = Nil

Init ==
  /\ nextId = 0 /\ pending = {} /\ connErr = FALSE
  /\ pc = [c \in Callers |-> "idle"]
  /\ id = [c \in Callers |-> Nil]
  /\ response = [c \in Callers |-> Nil]
  /\ cancelled = [c \in Callers |-> FALSE]
  /\ reader = "frame" /\ partial = <<>> /\ received = Nil /\ target = Nil
  /\ writeMutex = Nil /\ toBrowser = <<>> /\ toConn = <<>> /\ open = TRUE
  /\ browser \in Browsers /\ unanswered = {} /\ replying = Nil /\ extras = 0
  /\ leaving = FALSE
  /\ outcome = [m \in Ids |-> "none"]
  /\ replied = {}

-----------------------------------------------------------------------------
(* Conn.Call                                                               *)

Move(c, from, to) == pc[c] = from /\ pc' = [pc EXCEPT ![c] = to]

\* The call returns: its locals are gone, and its command has an outcome.
Return(c, from, result) ==
  /\ Move(c, from, "idle")
  /\ outcome' = [outcome EXCEPT ![id[c]] = result]
  /\ id' = [id EXCEPT ![c] = Nil]
  /\ response' = [response EXCEPT ![c] = Nil]
  /\ cancelled' = [cancelled EXCEPT ![c] = FALSE]

\* Fault: an id that is no longer registered is used again.
CallReusing(c) ==
  LET free == CHOOSE m \in Ids : m \notin pending /\ \A other \in Callers : id[other] # m
  IN  /\ Move(c, "idle", "register")
      /\ nextId < MaxId
      /\ nextId' = nextId + 1
      /\ id' = [id EXCEPT ![c] = free]
      /\ outcome' = [outcome EXCEPT ![free] = IF connErr THEN "late" ELSE "open"]
      /\ UNCHANGED <<pending, connErr, response, cancelled, reading, streams, remote, replied>>

\* The command takes the next id.
Call(c) ==
  /\ Move(c, "idle", "register")
  /\ nextId < MaxId
  /\ nextId' = nextId + 1
  /\ id' = [id EXCEPT ![c] = nextId + 1]
  /\ outcome' = [outcome EXCEPT ![nextId + 1] = IF connErr THEN "late" ELSE "open"]
  /\ UNCHANGED <<pending, connErr, response, cancelled, reading, streams, remote, replied>>

\* Under the mutex: the connection has not ended, and the command is registered.
Register(c) ==
  /\ ~connErr
  /\ Move(c, "register", "write")
  /\ pending' = pending \cup {id[c]}
  /\ UNCHANGED <<nextId, connErr, id, response, cancelled, reading, streams, remote, outcome, replied>>

\* Under the mutex: the connection has ended.
Refuse(c) ==
  /\ connErr
  /\ Return(c, "register", "failed")
  /\ UNCHANGED <<conn, reading, streams, remote, replied>>

\* json.Marshal fails on the parameters.
MarshalFails(c) ==
  /\ Move(c, "write", "forget")
  /\ UNCHANGED <<conn, id, response, cancelled, reading, streams, remote, outcome, replied>>

LockWrite(c) ==
  /\ writeMutex = Nil
  /\ Move(c, "write", "send")
  /\ writeMutex' = c
  /\ UNCHANGED <<conn, id, response, cancelled, reading, toBrowser, toConn, open, remote, outcome, replied>>

\* The frame is written, once the stream has room for it.
Write(c) ==
  /\ open
  /\ Len(toBrowser) < Window
  /\ Move(c, "send", "wait")
  /\ toBrowser' = Append(toBrowser, Frame("text", id[c], 1, TRUE))
  /\ writeMutex' = Nil
  /\ UNCHANGED <<conn, id, response, cancelled, reading, toConn, open, remote, outcome, replied>>

WriteFails(c) ==
  /\ ~open
  /\ Move(c, "send", "forget")
  /\ writeMutex' = Nil
  /\ UNCHANGED <<conn, id, response, cancelled, reading, toBrowser, toConn, open, remote, outcome, replied>>

\* select: the response has come.  A response to another command would be an
\* outcome of its own.
TakeResponse(c) ==
  /\ response[c] # Nil
  /\ Return(c, "wait", IF response[c] = id[c] THEN "answered" ELSE "mistaken")
  /\ UNCHANGED <<conn, reading, streams, remote, replied>>

\* Fault: a waiting call does not watch the connection's end.
GiveUpOnCancel(c) ==
  /\ cancelled[c]
  /\ Move(c, "wait", "forget")
  /\ UNCHANGED <<conn, id, response, cancelled, reading, streams, remote, outcome, replied>>

\* select: the connection has ended or the context is done.
GiveUp(c) ==
  /\ connErr \/ cancelled[c]
  /\ Move(c, "wait", "forget")
  /\ UNCHANGED <<conn, id, response, cancelled, reading, streams, remote, outcome, replied>>

\* forget, and the call returns an error.
Forget(c) ==
  /\ Return(c, "forget", "failed")
  /\ pending' = pending \ {id[c]}
  /\ UNCHANGED <<nextId, connErr, reading, streams, remote, replied>>

-----------------------------------------------------------------------------
(* Conn.read and WebSocket.ReadMessage                                     *)

Step(from, to) == reader = from /\ reader' = to

\* fail: the error is set and done is closed; reading is over.
Fail(from) ==
  /\ Step(from, "ended")
  /\ connErr' = TRUE
  /\ partial' = <<>>
  /\ UNCHANGED <<nextId, pending, received, target>>

NextFrame == Head(toConn)

\* readFrame takes the next frame off the stream.
Take == open /\ toConn # <<>> /\ toConn' = Tail(toConn)

\* Fault: a ping makes ReadMessage forget the fragments it has.
ReadControlForgetful(op, to) ==
  /\ Take
  /\ NextFrame.op = op
  /\ Step("frame", to)
  /\ partial' = <<>>
  /\ UNCHANGED <<conn, calls, received, target, writeMutex, toBrowser, open, remote, outcome, replied>>

\* A control frame: a ping is answered, a close is echoed.
ReadControl(op, to) ==
  /\ Take
  /\ NextFrame.op = op
  /\ Step("frame", to)
  /\ UNCHANGED <<conn, calls, partial, received, target, writeMutex, toBrowser, open, remote, outcome, replied>>

\* A data frame that fits: a message begins, or the one begun goes on.
Fits(frame) ==
  \/ frame.op = "text" /\ partial = <<>>
  \/ frame.op = "cont" /\ partial # <<>>

ReadData ==
  /\ Take
  /\ Fits(NextFrame)
  /\ Step("frame", IF NextFrame.final THEN "decode" ELSE "frame")
  /\ partial' = Append(partial, Piece(NextFrame))
  /\ UNCHANGED <<conn, calls, received, target, writeMutex, toBrowser, open, remote, outcome, replied>>

\* A data frame that does not fit ends the connection.
ReadMisfit ==
  /\ Take
  /\ NextFrame.op \in {"text", "cont"} /\ ~Fits(NextFrame)
  /\ Fail("frame")
  /\ UNCHANGED <<calls, writeMutex, toBrowser, open, remote, outcome, replied>>

\* The TCP connection is closed under the reader.
ReadFails ==
  /\ ~open
  /\ Fail("frame")
  /\ UNCHANGED <<calls, streams, remote, outcome, replied>>

\* The pong, or the close, waits for its turn to be written...
LockControl(from, to) ==
  /\ writeMutex = Nil
  /\ Step(from, to)
  /\ writeMutex' = "reader"
  /\ UNCHANGED <<conn, calls, partial, received, target, toBrowser, toConn, open, remote, outcome, replied>>

\* ... and is written, and reading goes on.
WritePong ==
  /\ open
  /\ Len(toBrowser) < Window
  /\ Step("sendPong", "frame")
  /\ toBrowser' = Append(toBrowser, Control("pong"))
  /\ writeMutex' = Nil
  /\ UNCHANGED <<conn, calls, partial, received, target, toConn, open, remote, outcome, replied>>

PongFails ==
  /\ ~open
  /\ Fail("sendPong")
  /\ writeMutex' = Nil
  /\ UNCHANGED <<calls, toBrowser, toConn, open, remote, outcome, replied>>

\* The close is echoed, or cannot be: ReadMessage returns io.EOF either way.
WriteBye ==
  /\ \/ open /\ Len(toBrowser) < Window /\ toBrowser' = Append(toBrowser, Control("close"))
     \/ ~open /\ toBrowser' = toBrowser
  /\ Fail("sendBye")
  /\ writeMutex' = Nil
  /\ UNCHANGED <<calls, toConn, open, remote, outcome, replied>>

\* json.Unmarshal: a response, ...
DecodeResponse ==
  /\ Step("decode", "dispatch")
  /\ Whole(partial)
  /\ partial[1].id # 0
  /\ received' = partial[1].id
  /\ partial' = <<>>
  /\ UNCHANGED <<conn, calls, target, streams, remote, outcome, replied>>

\* ... an event, which is dropped, ...
DecodeEvent ==
  /\ Step("decode", "frame")
  /\ Whole(partial)
  /\ partial[1].id = 0
  /\ partial' = <<>>
  /\ UNCHANGED <<conn, calls, received, target, streams, remote, outcome, replied>>

\* ... or no message at all, which ends the connection.
DecodeFails ==
  /\ Fail("decode")
  /\ ~Whole(partial)
  /\ UNCHANGED <<calls, streams, remote, outcome, replied>>

CallerOf(m) == CHOOSE c \in Callers : id[c] = m

\* Fault: the command stays registered after its first response.
DispatchKeeping ==
  LET known == received \in pending
  IN  /\ Step("dispatch", IF known THEN "deliver" ELSE "frame")
      /\ target' = IF known THEN CallerOf(received) ELSE Nil
      /\ received' = IF known THEN received ELSE Nil
      /\ UNCHANGED <<conn, partial, calls, streams, remote, outcome, replied>>

\* Under the mutex: the command's channel, if it is still registered, which it no
\* longer is.
Dispatch ==
  LET known == received \in pending
  IN  /\ Step("dispatch", IF known THEN "deliver" ELSE "frame")
      /\ target' = IF known THEN CallerOf(received) ELSE Nil
      /\ received' = IF known THEN received ELSE Nil
      /\ pending' = pending \ {received}
      /\ UNCHANGED <<nextId, connErr, partial, calls, streams, remote, outcome, replied>>

\* The response goes into the channel.  A call that has returned meanwhile left a
\* channel nobody reads.
Deliver ==
  /\ Step("deliver", "frame")
  /\ IF id[target] = received
       THEN response[target] = Nil /\ response' = [response EXCEPT ![target] = received]
       ELSE UNCHANGED response
  /\ received' = Nil /\ target' = Nil
  /\ UNCHANGED <<conn, pc, id, cancelled, partial, streams, remote, outcome, replied>>

-----------------------------------------------------------------------------
(* The surroundings: contexts, Conn.Close, the browser                     *)

Cancel(c) ==
  /\ pc[c] # "idle" /\ ~cancelled[c]
  /\ cancelled' = [cancelled EXCEPT ![c] = TRUE]
  /\ UNCHANGED <<conn, pc, id, response, reading, streams, remote, outcome, replied>>

\* Conn.Close, or the loss of the TCP connection.
Close ==
  /\ open
  /\ open' = FALSE
  /\ UNCHANGED <<conn, calls, reading, writeMutex, toBrowser, toConn, remote, outcome, replied>>

BrowserReads ==
  /\ toBrowser # <<>>
  /\ toBrowser' = Tail(toBrowser)
  /\ unanswered' = IF Head(toBrowser).op = "text" THEN unanswered \cup {Head(toBrowser).id}
                                                   ELSE unanswered
  /\ UNCHANGED <<conn, calls, reading, writeMutex, toConn, open, browser, replying, extras, leaving, outcome, replied>>

BrowserWrites(frame) ==
  open /\ ~leaving /\ Len(toConn) < Window /\ toConn' = Append(toConn, frame)

\* A reply, whole or the first half of two frames.
BrowserReplies(m, of) ==
  /\ m \in unanswered /\ replying = Nil
  /\ BrowserWrites(Frame("text", m, of, of = 1))
  /\ replying' = IF of = 1 THEN Nil ELSE m
  /\ unanswered' = unanswered \ {m}
  /\ replied' = replied \cup {m}
  /\ UNCHANGED <<conn, calls, reading, writeMutex, toBrowser, open, browser, extras, leaving, outcome>>

BrowserGoesOn ==
  /\ replying # Nil
  /\ BrowserWrites(Frame("cont", replying, 2, TRUE))
  /\ replying' = Nil
  /\ UNCHANGED <<conn, calls, reading, writeMutex, toBrowser, open, browser, unanswered, extras, leaving, outcome, replied>>

\* What a healthy browser adds: control frames at any point, events between
\* messages.
HealthyExtras ==
  {Control("ping")}
    \cup (IF replying = Nil THEN {Frame("text", 0, 1, TRUE)} ELSE {})

\* What a faulty one adds: a second reply, garbage, a frame out of place.
FaultyExtras ==
  {Frame("text", m, 1, TRUE) : m \in replied} \cup {Garbage, Frame("cont", 0, 1, TRUE)}

BrowserAdds(frame) ==
  /\ extras < MaxExtras
  /\ frame \in HealthyExtras \cup (IF browser = "faulty" THEN FaultyExtras ELSE {})
  /\ BrowserWrites(frame)
  /\ extras' = extras + 1
  /\ UNCHANGED <<conn, calls, reading, writeMutex, toBrowser, open, browser, unanswered, replying, leaving, outcome, replied>>

BrowserCloses ==
  /\ BrowserWrites(Control("close"))
  /\ leaving' = TRUE
  /\ UNCHANGED <<conn, calls, reading, writeMutex, toBrowser, open, browser, unanswered,
                 replying, extras, outcome, replied>>

-----------------------------------------------------------------------------
CallStep(c) ==
  \/ Register(c) \/ Refuse(c) \/ LockWrite(c) \/ Write(c) \/ WriteFails(c)
  \/ TakeResponse(c) \/ GiveUp(c) \/ Forget(c)

ReadStep ==
  \/ ReadControl("ping", "pong") \/ ReadControl("close", "bye")
  \/ ReadData \/ ReadMisfit \/ ReadFails
  \/ LockControl("pong", "sendPong") \/ LockControl("bye", "sendBye")
  \/ WritePong \/ PongFails \/ WriteBye
  \/ DecodeResponse \/ DecodeEvent \/ DecodeFails \/ Dispatch \/ Deliver

BrowserStep ==
  \/ BrowserReads
  \/ \E m \in unanswered, of \in {1, 2} : BrowserReplies(m, of)
  \/ BrowserGoesOn
  \/ BrowserCloses

Next ==
  \/ \E c \in Callers : Call(c) \/ CallStep(c) \/ MarshalFails(c) \/ Cancel(c)
  \/ ReadStep
  \/ BrowserStep
  \/ \E frame \in HealthyExtras \cup FaultyExtras : BrowserAdds(frame)
  \/ Close

Spec == Init /\ [][Next]_vars

(***************************************************************************)
(* Goroutines run.  Of the browser only this is assumed: it goes on        *)
(* reading what it is sent.  Commands are bounded, so that a caller that   *)
(* waits for writeMutex is in the end alone with the reader.               *)
(***************************************************************************)
FairSpec ==
  /\ Spec
  /\ \A c \in Callers : WF_vars(CallStep(c))
  /\ WF_vars(ReadStep)
  /\ WF_vars(BrowserReads)

-----------------------------------------------------------------------------
\* Call returns the browser's reply to its own command or an error, once, and a
\* command sent on a connection that has ended fails.
Channel == INSTANCE CommandChannel WITH ended <- connErr
AnswersMatch == Channel!Spec

\* Conn.read never blocks on a caller: the channel it sends to has room, or nobody
\* will ever look into it; and only commands that are waited for are registered.
ReaderNeverBlocks ==
  /\ TypeOK
  /\ reader = "deliver" /\ id[target] = received => response[target] = Nil

\* The connection outlives everything a healthy browser sends, fragments with pings
\* between them included: it ends only by a close from either side.
OnlyAClosureEnds ==
  browser = "healthy" /\ connErr => ~open \/ leaving

\* "Reading ends, and every pending and later command fails, when the transport
\* does": once the connection has ended or a call's context is done, the call
\* returns; and the transport's end is noticed: reading ends once it is closed.
EveryCallEnds ==
  /\ \A c \in Callers :
       pc[c] # "idle" /\ (connErr \/ cancelled[c]) ~> pc[c] = "idle"
  /\ ~open ~> connErr
=============================================================================
