---------------------------- MODULE CdpConnProofs ----------------------------
(***************************************************************************)
(* A connection to a browser, for any number of goroutines, commands and   *)
(* frames: what is always true of its calls and of its streams, and that   *)
(* it implements CommandChannel.                                           *)
(***************************************************************************)
EXTENDS CdpConn, SequenceTheorems, TLAPS

\* The commands sent so far, and the goroutines whose command is registered.
Known == 1 .. nextId
Busy == {c \in Callers : pc[c] \notin {"idle", "register"}}

\* What travels: pieces, frames to the browser and frames to the connection.
Pieces == [id : Nat, of : Nat]
Ops == {"text", "cont", "ping", "pong", "close"}
Frames == [op : Ops, id : Nat, of : Nat, final : BOOLEAN]

\* Types, of the calls and of the streams.
CallTypes ==
  /\ nextId \in 0 .. MaxId
  /\ pending \in SUBSET Ids
  /\ connErr \in BOOLEAN
  /\ pc \in [Callers -> Stages]
  /\ id \in [Callers -> Ids \cup {Nil}]
  /\ response \in [Callers -> Ids \cup {Nil}]
  /\ cancelled \in [Callers -> BOOLEAN]
  /\ reader \in ReaderStages
  /\ writeMutex \in Callers \cup {Nil, "reader"}
  /\ outcome \in [Ids -> Outcomes]

StreamTypes ==
  /\ partial \in Seq(Pieces)
  /\ toBrowser \in Seq(Frames)
  /\ toConn \in Seq(Frames)

\* Ids are used once, and a command is undecided while its call is in progress.
IdsInv ==
  /\ \A c \in Callers : id[c] = Nil <=> pc[c] = "idle"
  /\ \A c \in Callers : id[c] # Nil => id[c] \in Known /\ outcome[id[c]] \in {"open", "late"}
  /\ \A c, d \in Callers : id[c] = id[d] /\ id[c] # Nil => c = d
  /\ \A m \in Ids : outcome[m] = "none" <=> m \notin Known
  /\ \A c \in Callers : id[c] # Nil /\ outcome[id[c]] = "late" => pc[c] = "register" /\ connErr

\* The browser knows commands that were sent, and the connection hears of commands
\* that were replied to.
HeardInv ==
  /\ unanswered \subseteq Known /\ replied \subseteq Known
  /\ replying \in replied \cup {Nil}
  /\ \A i \in DOMAIN toBrowser : toBrowser[i].op = "text" => toBrowser[i].id \in Known
  /\ \A i \in DOMAIN toConn : toConn[i].id \in replied \cup {0}
  /\ \A i \in DOMAIN partial : partial[i].id \in replied \cup {0}
  /\ reader = "decode" => partial # <<>>
  /\ reader \in {"dispatch", "deliver"} => received \in replied

\* A response is the reply to the call's own command; a pending command has none
\* yet, and neither has the one whose response is under way.
ResponseInv ==
  /\ \A c \in Callers : response[c] # Nil =>
       c \in Busy /\ response[c] = id[c] /\ response[c] \in replied
  /\ \A m \in pending : \E c \in Busy : id[c] = m /\ response[c] = Nil
  /\ reader = "deliver" =>
       /\ target \in Callers /\ received \notin pending
       /\ \A c \in Callers : id[c] = received => c = target /\ c \in Busy /\ response[c] = Nil

\* A frame that leads from one message begun and not finished to another, or to
\* none.
Linked(frame, before, after) ==
  \/ frame.op \in {"ping", "close"} /\ after = before
  \/ /\ frame.op = "text" /\ frame.of = 1 /\ frame.final
     /\ before = Nil /\ after = Nil
  \/ /\ frame.op = "text" /\ frame.of = 2 /\ ~frame.final
     /\ before = Nil /\ after = frame.id /\ after \in Ids
  \/ /\ frame.op = "cont" /\ frame.of = 2 /\ frame.final
     /\ before = frame.id /\ before \in Ids /\ after = Nil

\* half[i]: the message begun and not finished after the first i frames.
Halves(frames) == [0 .. Len(frames) -> Ids \cup {Nil}]
Chained(frames, half) == \A i \in DOMAIN frames : Linked(frames[i], half[i - 1], half[i])

\* The message the reader has begun.
Begun == IF reader = "decode" \/ partial = <<>> THEN Nil ELSE partial[1].id

\* A healthy browser's frames are whole messages one after another, control frames
\* between them, of which the reader has the beginning.
HealthyInv ==
  browser = "healthy" /\ reader # "ended" =>
    /\ reader = "decode" => Whole(partial)
    /\ reader # "decode" /\ partial # <<>> =>
         Len(partial) = 1 /\ partial[1].of = 2 /\ partial[1].id \in Ids
    /\ \E half \in Halves(toConn) :
         half[0] = Begun /\ half[Len(toConn)] = replying /\ Chained(toConn, half)

\* A close comes from a browser that is leaving.
CloseInv ==
  /\ \A i \in DOMAIN toConn : toConn[i].op = "close" => leaving
  /\ reader \in {"bye", "sendBye"} => leaving
  /\ OnlyAClosureEnds

\* The inductive invariant.
CdpInv ==
  CallTypes /\ StreamTypes /\ IdsInv /\ HeardInv /\ ResponseInv /\ HealthyInv /\ CloseInv

\* The commands that were sent.
LEMMA KnownIds ==
  ASSUME CallTypes, HeardInv
  PROVE  Known \subseteq Ids /\ Known \subseteq Nat /\ replied \subseteq Ids /\ replied \subseteq Nat
<1>1. Known \subseteq Ids /\ Known \subseteq Nat
  BY BoundAssumption DEF CallTypes, Known, Ids
<1> QED
  BY <1>1 DEF HeardInv

\* What is delivered is a reply.
LEMMA ReceivedId ==
  ASSUME CallTypes, HeardInv, reader = "deliver"
  PROVE  received \in replied /\ received \in Ids /\ received # Nil
<1>1. received \in replied
  BY DEF HeardInv
<1> QED
  BY <1>1, KnownIds, NilAssumption

\* What the browser may add.
LEMMA ExtraFrames ==
  ASSUME CallTypes, HeardInv, NEW frame \in HealthyExtras \cup FaultyExtras
  PROVE  frame \in Frames /\ frame.id \in replied \cup {0}
<1> USE DEF Frame, Frames, Ops
<1>1. CASE frame = Control("ping")
  BY <1>1 DEF Control
<1>3. CASE frame = Garbage
  BY <1>3 DEF Garbage
<1>4. CASE frame = Frame("cont", 0, 1, TRUE)
  BY <1>4
<1>5. CASE frame = Frame("text", 0, 1, TRUE)
  BY <1>5
<1>2. CASE \E m \in replied : frame = Frame("text", m, 1, TRUE)
  BY <1>2, KnownIds
<1> QED
  BY <1>1, <1>2, <1>3, <1>4, <1>5 DEF HealthyExtras, FaultyExtras

\* The elements of what is left of a sequence, and of one made longer.
LEMMA TailElements ==
  ASSUME NEW S, NEW s \in Seq(S), s # <<>>
  PROVE  /\ Tail(s) \in Seq(S) /\ Len(Tail(s)) = Len(s) - 1 /\ Len(s) \in Nat \ {0}
         /\ Head(s) = s[1] /\ 1 \in DOMAIN s /\ s[1] \in S
         /\ \A i \in DOMAIN Tail(s) : i + 1 \in DOMAIN s /\ Tail(s)[i] = s[i + 1]
OBVIOUS

LEMMA AppendElements ==
  ASSUME NEW S, NEW s \in Seq(S), NEW e \in S
  PROVE  /\ Append(s, e) \in Seq(S) /\ Len(Append(s, e)) = Len(s) + 1 /\ Len(s) \in Nat
         /\ DOMAIN Append(s, e) = DOMAIN s \cup {Len(s) + 1} /\ DOMAIN s = 1 .. Len(s)
         /\ Append(s, e)[Len(s) + 1] = e
         /\ \A i \in DOMAIN s : Append(s, e)[i] = s[i]
OBVIOUS

\* The calls keep their types.
LEMMA CallTypesStep ==
  ASSUME CallTypes, StreamTypes, IdsInv, HeardInv, ResponseInv, [Next]_vars
  PROVE  CallTypes'
<1> USE BoundAssumption, NilAssumption DEF CallTypes, IdsInv, Stages, ReaderStages, Outcomes,
        Ids, Known, conn, calls, reading, streams, remote
<1>1. ASSUME NEW c \in Callers, Call(c) PROVE CallTypes'
  BY <1>1 DEF Call, Move
<1>2. ASSUME NEW c \in Callers, Refuse(c) PROVE CallTypes'
  BY <1>2 DEF Refuse, Return, Move
<1>3. ASSUME NEW c \in Callers, MarshalFails(c) PROVE CallTypes'
  BY <1>3 DEF MarshalFails, Move
<1>4. ASSUME NEW c \in Callers, LockWrite(c) PROVE CallTypes'
  BY <1>4 DEF LockWrite, Move
<1>5. ASSUME NEW c \in Callers, Write(c) PROVE CallTypes'
  BY <1>5 DEF Write, Move
<1>6. ASSUME NEW c \in Callers, WriteFails(c) PROVE CallTypes'
  BY <1>6 DEF WriteFails, Move
<1>7. ASSUME NEW c \in Callers, GiveUp(c) PROVE CallTypes'
  BY <1>7 DEF GiveUp, Move
<1>8. ASSUME NEW c \in Callers, Forget(c) PROVE CallTypes'
  BY <1>8 DEF Forget, Return, Move
<1>9. ASSUME NEW c \in Callers, Cancel(c) PROVE CallTypes'
  BY <1>9 DEF Cancel
<1>10. CASE ReadControl("ping", "pong")
  BY <1>10 DEF ReadControl, Take, NextFrame, Step
<1>11. CASE ReadControl("close", "bye")
  BY <1>11 DEF ReadControl, Take, NextFrame, Step
<1>12. CASE ReadData
  BY <1>12 DEF ReadData, Take, NextFrame, Fits, Piece, Step
<1>13. CASE ReadMisfit
  BY <1>13 DEF ReadMisfit, Fail, Step
<1>14. CASE ReadFails
  BY <1>14 DEF ReadFails, Fail, Step
<1>15. CASE LockControl("pong", "sendPong")
  BY <1>15 DEF LockControl, Step
<1>16. CASE LockControl("bye", "sendBye")
  BY <1>16 DEF LockControl, Step
<1>17. CASE WritePong
  BY <1>17 DEF WritePong, Step
<1>18. CASE PongFails
  BY <1>18 DEF PongFails, Fail, Step
<1>19. CASE WriteBye
  BY <1>19 DEF WriteBye, Fail, Step
<1>20. CASE DecodeResponse
  BY <1>20 DEF DecodeResponse, Step
<1>21. CASE DecodeEvent
  BY <1>21 DEF DecodeEvent, Step
<1>22. CASE DecodeFails
  BY <1>22 DEF DecodeFails, Fail, Step
<1>23. CASE Dispatch
  BY <1>23 DEF Dispatch, Step
<1>24. CASE BrowserReads
  BY <1>24 DEF BrowserReads
<1>25. CASE BrowserGoesOn
  BY <1>25 DEF BrowserGoesOn, BrowserWrites
<1>26. CASE BrowserCloses
  BY <1>26 DEF BrowserCloses, BrowserWrites
<1>27. CASE Close
  BY <1>27 DEF Close
<1>28. CASE UNCHANGED vars
  BY <1>28 DEF vars
<1>29. CASE \E m \in unanswered, of \in {1, 2} : BrowserReplies(m, of)
  BY <1>29 DEF BrowserReplies, BrowserWrites
<1>30. CASE \E frame \in HealthyExtras \cup FaultyExtras : BrowserAdds(frame)
  BY <1>30 DEF BrowserAdds, BrowserWrites
<1>31. ASSUME NEW c \in Callers, Register(c) PROVE CallTypes'
  <2>1. id[c] \in Ids /\ pending' = pending \cup {id[c]}
    BY <1>31 DEF Register, Move
  <2> QED
    BY <1>31, <2>1 DEF Register, Move
<1>32. ASSUME NEW c \in Callers, TakeResponse(c) PROVE CallTypes'
  <2>1. response[c] = id[c] /\ c \in Callers
    BY <1>32 DEF ResponseInv, TakeResponse
  <2> QED
    BY <1>32, <2>1 DEF TakeResponse, Return, Move
<1>33. CASE Deliver
  <2>1. reader = "deliver" => target \in Callers /\ received \in Ids
    BY KnownIds DEF ResponseInv, HeardInv
  <2> QED
    BY <1>33, <2>1 DEF Deliver, Step
<1> QED
  BY <1>1, <1>2, <1>3, <1>4, <1>5, <1>6, <1>7, <1>8, <1>9, <1>10, <1>11, <1>12, <1>13,
     <1>14, <1>15, <1>16, <1>17, <1>18, <1>19, <1>20, <1>21, <1>22, <1>23, <1>24, <1>25,
     <1>26, <1>27, <1>28, <1>29, <1>30, <1>31, <1>32, <1>33
     DEF Next, CallStep, ReadStep, BrowserStep

\* The streams carry frames.
LEMMA StreamTypesStep ==
  ASSUME CallTypes, StreamTypes, IdsInv, HeardInv, ResponseInv, [Next]_vars
  PROVE  StreamTypes'
<1> USE BoundAssumption, NilAssumption DEF StreamTypes, Ids, Known, conn, calls, reading,
        streams, remote
<1>1. ASSUME NEW c \in Callers, Call(c) PROVE StreamTypes'
  BY <1>1 DEF Call, Move
<1>2. ASSUME NEW c \in Callers, Register(c) PROVE StreamTypes'
  BY <1>2 DEF Register, Move
<1>3. ASSUME NEW c \in Callers, Refuse(c) PROVE StreamTypes'
  BY <1>3 DEF Refuse, Return, Move
<1>4. ASSUME NEW c \in Callers, MarshalFails(c) PROVE StreamTypes'
  BY <1>4 DEF MarshalFails, Move
<1>5. ASSUME NEW c \in Callers, LockWrite(c) PROVE StreamTypes'
  BY <1>5 DEF LockWrite, Move
<1>6. ASSUME NEW c \in Callers, WriteFails(c) PROVE StreamTypes'
  BY <1>6 DEF WriteFails, Move
<1>7. ASSUME NEW c \in Callers, TakeResponse(c) PROVE StreamTypes'
  BY <1>7 DEF TakeResponse, Return, Move
<1>8. ASSUME NEW c \in Callers, GiveUp(c) PROVE StreamTypes'
  BY <1>8 DEF GiveUp, Move
<1>9. ASSUME NEW c \in Callers, Forget(c) PROVE StreamTypes'
  BY <1>9 DEF Forget, Return, Move
<1>10. ASSUME NEW c \in Callers, Cancel(c) PROVE StreamTypes'
  BY <1>10 DEF Cancel
<1>11. CASE ReadControl("ping", "pong")
  BY <1>11 DEF ReadControl, Take, NextFrame, Step
<1>12. CASE ReadControl("close", "bye")
  BY <1>12 DEF ReadControl, Take, NextFrame, Step
<1>13. CASE ReadMisfit
  BY <1>13 DEF ReadMisfit, Take, NextFrame, Fail, Step
<1>14. CASE ReadFails
  BY <1>14 DEF ReadFails, Fail, Step
<1>15. CASE LockControl("pong", "sendPong")
  BY <1>15 DEF LockControl, Step
<1>16. CASE LockControl("bye", "sendBye")
  BY <1>16 DEF LockControl, Step
<1>17. CASE PongFails
  BY <1>17 DEF PongFails, Fail, Step
<1>18. CASE DecodeResponse
  BY <1>18 DEF DecodeResponse, Step
<1>19. CASE DecodeEvent
  BY <1>19 DEF DecodeEvent, Step
<1>20. CASE DecodeFails
  BY <1>20 DEF DecodeFails, Fail, Step
<1>21. CASE Dispatch
  BY <1>21 DEF Dispatch, Step
<1>22. CASE Deliver
  BY <1>22 DEF Deliver, Step
<1>23. CASE BrowserReads
  BY <1>23 DEF BrowserReads
<1>24. CASE Close
  BY <1>24 DEF Close
<1>25. CASE UNCHANGED vars
  BY <1>25 DEF vars
<1>26. ASSUME NEW c \in Callers, Write(c) PROVE StreamTypes'
  <2>1. Frame("text", id[c], 1, TRUE) \in Frames
    BY <1>26 DEF Write, Move, Frame, CallTypes, IdsInv, Frames, Ops
  <2> QED
    BY <1>26, <2>1, AppendElements DEF Write, Move, Frame, CallTypes, IdsInv
<1>27. CASE ReadData
  <2>1. toConn' \in Seq(Frames) /\ Head(toConn) \in Frames
    BY <1>27, TailElements DEF ReadData, Take
  <2>2. Piece(NextFrame) \in Pieces
    BY <2>1 DEF Piece, NextFrame, Frames, Pieces
  <2> QED
    BY <1>27, <2>1, <2>2, AppendElements DEF ReadData
<1>28. CASE WritePong
  <2>1. Control("pong") \in Frames
    BY <1>28 DEF WritePong, Frame, Control, Frames, Ops
  <2> QED
    BY <1>28, <2>1, AppendElements DEF WritePong, Frame, Control
<1>29. CASE WriteBye
  <2>1. Control("close") \in Frames
    BY DEF Control, Frame, Frames, Ops
  <2>2. toBrowser' = Append(toBrowser, Control("close")) \/ toBrowser' = toBrowser
    BY <1>29 DEF WriteBye
  <2>3. toBrowser' \in Seq(Frames)
    <3>1. Append(toBrowser, Control("close")) \in Seq(Frames)
      BY <2>1, AppendElements
    <3> QED
      BY <2>2, <3>1
  <2>4. partial' \in Seq(Pieces) /\ toConn' = toConn
    BY <1>29 DEF WriteBye, Fail
  <2> QED
    BY <2>3, <2>4
<1>30. CASE \E m \in unanswered, of \in {1, 2} : BrowserReplies(m, of)
  <2>1. PICK m \in unanswered, of \in {1, 2} : BrowserReplies(m, of)
    BY <1>30
  <2>2. Frame("text", m, of, of = 1) \in Frames
    BY <2>1 DEF Frame, Frames, Ops, HeardInv
  <2> QED
    BY <2>1, <2>2, AppendElements DEF BrowserReplies, BrowserWrites
<1>31. CASE BrowserGoesOn
  <2>1. Frame("cont", replying, 2, TRUE) \in Frames
    BY <1>31 DEF BrowserGoesOn, BrowserWrites, HeardInv, Frame, Frames, Ops
  <2> QED
    BY <1>31, <2>1, AppendElements DEF BrowserGoesOn, BrowserWrites, HeardInv, Frame
<1>32. CASE BrowserCloses
  <2>1. Control("close") \in Frames
    BY <1>32 DEF BrowserCloses, BrowserWrites, Frame, Control, Frames, Ops
  <2> QED
    BY <1>32, <2>1, AppendElements DEF BrowserCloses, BrowserWrites, Frame, Control
<1>33. CASE \E frame \in HealthyExtras \cup FaultyExtras : BrowserAdds(frame)
  <2>1. PICK frame \in HealthyExtras \cup FaultyExtras : BrowserAdds(frame)
    BY <1>33
  <2>2. frame \in Frames
    BY <2>1, ExtraFrames
  <2> QED
    BY <2>1, <2>2, AppendElements DEF BrowserAdds, BrowserWrites
<1> QED
  BY <1>1, <1>2, <1>3, <1>4, <1>5, <1>6, <1>7, <1>8, <1>9, <1>10, <1>11, <1>12, <1>13,
     <1>14, <1>15, <1>16, <1>17, <1>18, <1>19, <1>20, <1>21, <1>22, <1>23, <1>24, <1>25,
     <1>26, <1>27, <1>28, <1>29, <1>30, <1>31, <1>32, <1>33
     DEF Next, CallStep, ReadStep, BrowserStep

\* A step uses a command's id once.
LEMMA IdsStep ==
  ASSUME CallTypes, StreamTypes, IdsInv, HeardInv, ResponseInv, [Next]_vars
  PROVE  IdsInv'
<1> USE BoundAssumption, NilAssumption DEF CallTypes, IdsInv, Stages, Outcomes, Ids, Known,
        conn, calls, reading, streams, remote
<1>1. ASSUME NEW c \in Callers, Call(c) PROVE IdsInv'
  BY <1>1 DEF Call, Move
<1>2. ASSUME NEW c \in Callers, Register(c) PROVE IdsInv'
  BY <1>2 DEF Register, Move
<1>3. ASSUME NEW c \in Callers, Refuse(c) PROVE IdsInv'
  BY <1>3 DEF Refuse, Return, Move
<1>4. ASSUME NEW c \in Callers, MarshalFails(c) PROVE IdsInv'
  BY <1>4 DEF MarshalFails, Move
<1>5. ASSUME NEW c \in Callers, LockWrite(c) PROVE IdsInv'
  BY <1>5 DEF LockWrite, Move
<1>6. ASSUME NEW c \in Callers, Write(c) PROVE IdsInv'
  BY <1>6 DEF Write, Move
<1>7. ASSUME NEW c \in Callers, WriteFails(c) PROVE IdsInv'
  BY <1>7 DEF WriteFails, Move
<1>8. ASSUME NEW c \in Callers, TakeResponse(c) PROVE IdsInv'
  BY <1>8 DEF TakeResponse, Return, Move
<1>9. ASSUME NEW c \in Callers, GiveUp(c) PROVE IdsInv'
  BY <1>9 DEF GiveUp, Move
<1>10. ASSUME NEW c \in Callers, Forget(c) PROVE IdsInv'
  BY <1>10 DEF Forget, Return, Move
<1>11. ASSUME NEW c \in Callers, Cancel(c) PROVE IdsInv'
  BY <1>11 DEF Cancel
<1>12. CASE ReadControl("ping", "pong")
  BY <1>12 DEF ReadControl, Take, NextFrame, Step
<1>13. CASE ReadControl("close", "bye")
  BY <1>13 DEF ReadControl, Take, NextFrame, Step
<1>14. CASE ReadData
  BY <1>14 DEF ReadData, Take, NextFrame, Fits, Piece, Step
<1>15. CASE ReadMisfit
  BY <1>15 DEF ReadMisfit, Fail, Step
<1>16. CASE ReadFails
  BY <1>16 DEF ReadFails, Fail, Step
<1>17. CASE LockControl("pong", "sendPong")
  BY <1>17 DEF LockControl, Step
<1>18. CASE LockControl("bye", "sendBye")
  BY <1>18 DEF LockControl, Step
<1>19. CASE WritePong
  BY <1>19 DEF WritePong, Step
<1>20. CASE PongFails
  BY <1>20 DEF PongFails, Fail, Step
<1>21. CASE WriteBye
  BY <1>21 DEF WriteBye, Fail, Step
<1>22. CASE DecodeResponse
  BY <1>22 DEF DecodeResponse, Step
<1>23. CASE DecodeEvent
  BY <1>23 DEF DecodeEvent, Step
<1>24. CASE DecodeFails
  BY <1>24 DEF DecodeFails, Fail, Step
<1>25. CASE Dispatch
  BY <1>25 DEF Dispatch, Step
<1>26. CASE Deliver
  BY <1>26 DEF Deliver, Step
<1>27. CASE BrowserReads
  BY <1>27 DEF BrowserReads
<1>28. CASE BrowserGoesOn
  BY <1>28 DEF BrowserGoesOn, BrowserWrites
<1>29. CASE BrowserCloses
  BY <1>29 DEF BrowserCloses, BrowserWrites
<1>30. CASE Close
  BY <1>30 DEF Close
<1>31. CASE UNCHANGED vars
  BY <1>31 DEF vars
<1>32. CASE \E m \in unanswered, of \in {1, 2} : BrowserReplies(m, of)
  BY <1>32 DEF BrowserReplies, BrowserWrites
<1>33. CASE \E frame \in HealthyExtras \cup FaultyExtras : BrowserAdds(frame)
  BY <1>33 DEF BrowserAdds, BrowserWrites
<1> QED
  BY <1>1, <1>2, <1>3, <1>4, <1>5, <1>6, <1>7, <1>8, <1>9, <1>10, <1>11, <1>12, <1>13,
     <1>14, <1>15, <1>16, <1>17, <1>18, <1>19, <1>20, <1>21, <1>22, <1>23, <1>24, <1>25,
     <1>26, <1>27, <1>28, <1>29, <1>30, <1>31, <1>32, <1>33
     DEF Next, CallStep, ReadStep, BrowserStep

\* A step lets the browser, and the connection, know only of what was sent to it.
LEMMA HeardStep ==
  ASSUME CallTypes, StreamTypes, IdsInv, HeardInv, ResponseInv, [Next]_vars
  PROVE  HeardInv'
<1> USE BoundAssumption, NilAssumption DEF CallTypes, IdsInv, HeardInv, Ids, Known, conn,
        calls, reading, streams, remote
<1>1. ASSUME NEW c \in Callers, Call(c) PROVE HeardInv'
  BY <1>1 DEF Call, Move
<1>2. ASSUME NEW c \in Callers, Register(c) PROVE HeardInv'
  BY <1>2 DEF Register, Move
<1>3. ASSUME NEW c \in Callers, Refuse(c) PROVE HeardInv'
  BY <1>3 DEF Refuse, Return, Move
<1>4. ASSUME NEW c \in Callers, MarshalFails(c) PROVE HeardInv'
  BY <1>4 DEF MarshalFails, Move
<1>5. ASSUME NEW c \in Callers, LockWrite(c) PROVE HeardInv'
  BY <1>5 DEF LockWrite, Move
<1>6. ASSUME NEW c \in Callers, WriteFails(c) PROVE HeardInv'
  BY <1>6 DEF WriteFails, Move
<1>7. ASSUME NEW c \in Callers, TakeResponse(c) PROVE HeardInv'
  BY <1>7 DEF TakeResponse, Return, Move
<1>8. ASSUME NEW c \in Callers, GiveUp(c) PROVE HeardInv'
  BY <1>8 DEF GiveUp, Move
<1>9. ASSUME NEW c \in Callers, Forget(c) PROVE HeardInv'
  BY <1>9 DEF Forget, Return, Move
<1>10. ASSUME NEW c \in Callers, Cancel(c) PROVE HeardInv'
  BY <1>10 DEF Cancel
<1>11. CASE ReadFails
  BY <1>11 DEF ReadFails, Fail, Step
<1>12. CASE LockControl("pong", "sendPong")
  BY <1>12 DEF LockControl, Step
<1>13. CASE LockControl("bye", "sendBye")
  BY <1>13 DEF LockControl, Step
<1>14. CASE PongFails
  BY <1>14 DEF PongFails, Fail, Step
<1>15. CASE DecodeEvent
  BY <1>15 DEF DecodeEvent, Step
<1>16. CASE DecodeFails
  BY <1>16 DEF DecodeFails, Fail, Step
<1>17. CASE Dispatch
  BY <1>17 DEF Dispatch, Step
<1>18. CASE Deliver
  BY <1>18 DEF Deliver, Step
<1>19. CASE Close
  BY <1>19 DEF Close
<1>20. CASE UNCHANGED vars
  BY <1>20 DEF vars
<1>21. ASSUME NEW c \in Callers, Write(c) PROVE HeardInv'
  <2> DEFINE command == Frame("text", id[c], 1, TRUE)
  <2>1. command \in Frames /\ command.id \in Known
    BY <1>21, KnownIds DEF Write, Move, Frame, Frames, Ops
  <2>2. toBrowser' = Append(toBrowser, command) /\ UNCHANGED nextId
    BY <1>21 DEF Write
  <2> HIDE DEF command
  <2>3. \A i \in DOMAIN toBrowser' : toBrowser'[i].op = "text" => toBrowser'[i].id \in Known
    BY <2>1, <2>2, AppendElements DEF StreamTypes
  <2> QED
    BY <1>21, <2>3 DEF Write, Move
<1>22. CASE ReadControl("ping", "pong")
  <2>1. toConn' = Tail(toConn) /\ toConn # <<>>
    BY <1>22 DEF ReadControl, Take
  <2>2. \A i \in DOMAIN toConn' : toConn'[i].id \in replied \cup {0}
    BY <2>1, TailElements DEF StreamTypes
  <2> QED
    BY <1>22, <2>2 DEF ReadControl, Fail, Step
<1>23. CASE ReadControl("close", "bye")
  <2>1. toConn' = Tail(toConn) /\ toConn # <<>>
    BY <1>23 DEF ReadControl, Take
  <2>2. \A i \in DOMAIN toConn' : toConn'[i].id \in replied \cup {0}
    BY <2>1, TailElements DEF StreamTypes
  <2> QED
    BY <1>23, <2>2 DEF ReadControl, Fail, Step
<1>24. CASE ReadData
  <2>1. toConn' = Tail(toConn) /\ toConn # <<>> /\ partial' = Append(partial, Piece(Head(toConn)))
    BY <1>24 DEF ReadData, Take, NextFrame
  <2>2. /\ Head(toConn) \in Frames /\ Head(toConn).id \in replied \cup {0}
        /\ \A i \in DOMAIN toConn' : toConn'[i].id \in replied \cup {0}
    BY <2>1, TailElements DEF StreamTypes
  <2>3. Piece(Head(toConn)) \in Pieces /\ Piece(Head(toConn)).id \in replied \cup {0}
    BY <2>2 DEF Piece, Pieces, Frames
  <2>4. \A i \in DOMAIN partial' : partial'[i].id \in replied \cup {0}
    BY <2>1, <2>3, AppendElements DEF StreamTypes
  <2> QED
    BY <1>24, <2>2, <2>4 DEF ReadData, Step
<1>25. CASE ReadMisfit
  <2>1. toConn' = Tail(toConn) /\ toConn # <<>>
    BY <1>25 DEF ReadMisfit, Take
  <2>2. \A i \in DOMAIN toConn' : toConn'[i].id \in replied \cup {0}
    BY <2>1, TailElements DEF StreamTypes
  <2> QED
    BY <1>25, <2>2 DEF ReadMisfit, Fail, Step
<1>26. CASE WritePong
  <2>1. Control("pong") \in Frames
    BY <1>26, KnownIds DEF WritePong, Step, Control, Frame, Frames, Ops
  <2>2. toBrowser' = Append(toBrowser, Control("pong")) /\ Control("pong").op = "pong" /\ UNCHANGED nextId
    BY <1>26 DEF WritePong, Step, Control, Frame
  <2>3. \A i \in DOMAIN toBrowser' : toBrowser'[i].op = "text" => toBrowser'[i].id \in Known
    BY <2>1, <2>2, AppendElements DEF StreamTypes
  <2> QED
    BY <1>26, <2>3 DEF WritePong, Step
<1>27. CASE WriteBye
  <2>1. Control("close") \in Frames /\ Control("close").op = "close"
    BY DEF Control, Frame, Frames, Ops
  <2>2. /\ toBrowser' = Append(toBrowser, Control("close")) \/ toBrowser' = toBrowser
        /\ UNCHANGED nextId
    BY <1>27 DEF WriteBye, Fail
  <2>3. CASE toBrowser' = toBrowser
    BY <1>27, <2>3 DEF WriteBye, Fail, Step
  <2>4. CASE toBrowser' = Append(toBrowser, Control("close"))
    <3>1. \A i \in DOMAIN toBrowser' : toBrowser'[i].op = "text" => toBrowser'[i].id \in Known
      BY <2>1, <2>2, <2>4, AppendElements DEF StreamTypes
    <3> QED
      BY <1>27, <3>1 DEF WriteBye, Fail, Step
  <2> QED
    BY <2>2, <2>3, <2>4
<1>28. CASE DecodeResponse
  <2>1. partial # <<>>
    BY <1>28 DEF DecodeResponse, Step
  <2>2. partial[1].id \in replied
    BY <1>28, <2>1, TailElements DEF DecodeResponse, StreamTypes
  <2> QED
    BY <1>28, <2>2 DEF DecodeResponse, Step
<1>29. CASE BrowserReads
  <2>1. toBrowser' = Tail(toBrowser) /\ toBrowser # <<>>
    BY <1>29 DEF BrowserReads
  <2>2. /\ Head(toBrowser) = toBrowser[1] /\ 1 \in DOMAIN toBrowser
        /\ \A i \in DOMAIN toBrowser' : i + 1 \in DOMAIN toBrowser /\ toBrowser'[i] = toBrowser[i + 1]
    BY <2>1, TailElements DEF StreamTypes
  <2>3. Head(toBrowser).op = "text" => Head(toBrowser).id \in Known
    BY <2>2
  <2>4. \A i \in DOMAIN toBrowser' : toBrowser'[i].op = "text" => toBrowser'[i].id \in Known
    BY <2>2
  <2>5. /\ unanswered' = unanswered \/ unanswered' = unanswered \cup {Head(toBrowser).id}
        /\ Head(toBrowser).op # "text" => unanswered' = unanswered
        /\ UNCHANGED <<nextId, reader, partial, received, toConn, replying, replied>>
    BY <1>29 DEF BrowserReads
  <2> QED
    BY <2>3, <2>4, <2>5
<1>30. CASE \E m \in unanswered, of \in {1, 2} : BrowserReplies(m, of)
  <2>1. PICK m \in unanswered, of \in {1, 2} : BrowserReplies(m, of)
    BY <1>30
  <2> DEFINE reply == Frame("text", m, of, of = 1)
  <2>2. reply \in Frames /\ reply.id = m
    BY KnownIds DEF Frame, Frames, Ops
  <2>3. toConn' = Append(toConn, reply) /\ replied' = replied \cup {m}
    BY <2>1 DEF BrowserReplies, BrowserWrites
  <2> HIDE DEF reply
  <2>4. \A i \in DOMAIN toConn' : toConn'[i].id \in replied' \cup {0}
    BY <2>2, <2>3, AppendElements DEF StreamTypes
  <2> QED
    BY <2>1, <2>4 DEF BrowserReplies
<1>31. CASE BrowserGoesOn
  <2> DEFINE rest == Frame("cont", replying, 2, TRUE)
  <2>1. rest \in Frames /\ rest.id \in replied
    BY <1>31, KnownIds DEF BrowserGoesOn, Frame, Frames, Ops
  <2>2. toConn' = Append(toConn, rest) /\ replied' = replied
    BY <1>31 DEF BrowserGoesOn, BrowserWrites
  <2> HIDE DEF rest
  <2>3. \A i \in DOMAIN toConn' : toConn'[i].id \in replied' \cup {0}
    BY <2>1, <2>2, AppendElements DEF StreamTypes
  <2> QED
    BY <1>31, <2>3 DEF BrowserGoesOn
<1>32. CASE BrowserCloses
  <2>1. Control("close") \in Frames
    BY <1>32, KnownIds DEF BrowserCloses, BrowserWrites, Control, Frame, Frames, Ops
  <2>2. toConn' = Append(toConn, Control("close")) /\ replied' = replied /\ Control("close").id = 0
    BY <1>32 DEF BrowserCloses, BrowserWrites, Control, Frame
  <2>3. \A i \in DOMAIN toConn' : toConn'[i].id \in replied' \cup {0}
    BY <2>1, <2>2, AppendElements DEF StreamTypes
  <2> QED
    BY <1>32, <2>3 DEF BrowserCloses, BrowserWrites
<1>33. CASE \E frame \in HealthyExtras \cup FaultyExtras : BrowserAdds(frame)
  <2>1. PICK frame \in HealthyExtras \cup FaultyExtras : BrowserAdds(frame)
    BY <1>33
  <2>2. frame \in Frames /\ frame.id \in replied \cup {0}
    BY ExtraFrames
  <2>3. toConn' = Append(toConn, frame) /\ replied' = replied
    BY <2>1 DEF BrowserAdds, BrowserWrites
  <2>4. \A i \in DOMAIN toConn' : toConn'[i].id \in replied' \cup {0}
    BY <2>2, <2>3, AppendElements DEF StreamTypes
  <2> QED
    BY <2>1, <2>4 DEF BrowserAdds
<1> QED
  BY <1>1, <1>2, <1>3, <1>4, <1>5, <1>6, <1>7, <1>8, <1>9, <1>10, <1>11, <1>12, <1>13,
     <1>14, <1>15, <1>16, <1>17, <1>18, <1>19, <1>20, <1>21, <1>22, <1>23, <1>24, <1>25,
     <1>26, <1>27, <1>28, <1>29, <1>30, <1>31, <1>32, <1>33
     DEF Next, CallStep, ReadStep, BrowserStep

\* A step answers a call with its own reply only.
LEMMA ResponseStep ==
  ASSUME CallTypes, StreamTypes, IdsInv, HeardInv, ResponseInv, [Next]_vars
  PROVE  ResponseInv'
<1> USE BoundAssumption, NilAssumption DEF CallTypes, IdsInv, HeardInv, ResponseInv, Busy,
        Ids, Known, conn, calls, reading, streams, remote
<1>1. ASSUME NEW c \in Callers, Call(c) PROVE ResponseInv'
  BY <1>1 DEF Call, Move
<1>2. ASSUME NEW c \in Callers, Register(c) PROVE ResponseInv'
  BY <1>2 DEF Register, Move
<1>3. ASSUME NEW c \in Callers, MarshalFails(c) PROVE ResponseInv'
  BY <1>3 DEF MarshalFails, Move
<1>4. ASSUME NEW c \in Callers, LockWrite(c) PROVE ResponseInv'
  BY <1>4 DEF LockWrite, Move
<1>5. ASSUME NEW c \in Callers, Write(c) PROVE ResponseInv'
  BY <1>5 DEF Write, Move
<1>6. ASSUME NEW c \in Callers, WriteFails(c) PROVE ResponseInv'
  BY <1>6 DEF WriteFails, Move
<1>7. ASSUME NEW c \in Callers, GiveUp(c) PROVE ResponseInv'
  BY <1>7 DEF GiveUp, Move
<1>8. ASSUME NEW c \in Callers, Cancel(c) PROVE ResponseInv'
  BY <1>8 DEF Cancel
<1>9. CASE ReadControl("ping", "pong")
  BY <1>9 DEF ReadControl, Take, NextFrame, Step
<1>10. CASE ReadControl("close", "bye")
  BY <1>10 DEF ReadControl, Take, NextFrame, Step
<1>11. CASE ReadData
  BY <1>11 DEF ReadData, Take, NextFrame, Fits, Piece, Step
<1>12. CASE ReadMisfit
  BY <1>12 DEF ReadMisfit, Fail, Step
<1>13. CASE ReadFails
  BY <1>13 DEF ReadFails, Fail, Step
<1>14. CASE LockControl("pong", "sendPong")
  BY <1>14 DEF LockControl, Step
<1>15. CASE LockControl("bye", "sendBye")
  BY <1>15 DEF LockControl, Step
<1>16. CASE WritePong
  BY <1>16 DEF WritePong, Step
<1>17. CASE PongFails
  BY <1>17 DEF PongFails, Fail, Step
<1>18. CASE WriteBye
  BY <1>18 DEF WriteBye, Fail, Step
<1>19. CASE DecodeResponse
  BY <1>19 DEF DecodeResponse, Step
<1>20. CASE DecodeEvent
  BY <1>20 DEF DecodeEvent, Step
<1>21. CASE DecodeFails
  BY <1>21 DEF DecodeFails, Fail, Step
<1>22. CASE Deliver
  BY <1>22 DEF Deliver, Step
<1>23. CASE BrowserReads
  BY <1>23 DEF BrowserReads
<1>24. CASE BrowserGoesOn
  BY <1>24 DEF BrowserGoesOn, BrowserWrites
<1>25. CASE BrowserCloses
  BY <1>25 DEF BrowserCloses, BrowserWrites
<1>26. CASE Close
  BY <1>26 DEF Close
<1>27. CASE UNCHANGED vars
  BY <1>27 DEF vars
<1>28. CASE \E m \in unanswered, of \in {1, 2} : BrowserReplies(m, of)
  BY <1>28 DEF BrowserReplies, BrowserWrites
<1>29. CASE \E frame \in HealthyExtras \cup FaultyExtras : BrowserAdds(frame)
  BY <1>29 DEF BrowserAdds, BrowserWrites
<1>30. ASSUME NEW c \in Callers, Refuse(c) PROVE ResponseInv'
  <2>1. /\ id[c] # Nil /\ id' = [id EXCEPT ![c] = Nil] /\ response' = [response EXCEPT ![c] = Nil]
        /\ pc' = [pc EXCEPT ![c] = "idle"] /\ id[c] \notin pending'
        /\ pending' \subseteq pending /\ UNCHANGED <<reader, target, received, replied>>
    BY <1>30 DEF Refuse, Return, Move
  <2>2. \A m \in pending' : \E d \in Busy' : id'[d] = m /\ response'[d] = Nil
    BY <2>1
  <2>3. \A d \in Callers : response'[d] # Nil =>
          d \in Busy' /\ response'[d] = id'[d] /\ response'[d] \in replied'
    BY <2>1
  <2>4. reader' = "deliver" => received' \in replied /\ received' # Nil
    BY <2>1, ReceivedId
  <2>5. reader' = "deliver" =>
          /\ target' \in Callers /\ received' \notin pending'
          /\ \A d \in Callers : id'[d] = received' => d = target' /\ d \in Busy' /\ response'[d] = Nil
    <3> SUFFICES ASSUME reader = "deliver"
                 PROVE  /\ target \in Callers /\ received \notin pending'
                        /\ \A d \in Callers : id'[d] = received =>
                             d = target /\ d \in Busy' /\ response'[d] = Nil
      BY <2>1
    <3>1. \A d \in Callers : id'[d] = received => d # c /\ id[d] = received
      BY <2>1, <2>4
    <3>2. target \in Callers /\ received \notin pending'
      BY <2>1
    <3>3. ASSUME NEW d \in Callers, id'[d] = received
          PROVE  d = target /\ d \in Busy' /\ response'[d] = Nil
      BY <2>1, <3>1, <3>3
    <3> QED
      BY <3>2, <3>3
  <2> QED
    BY <2>2, <2>3, <2>5
<1>31. ASSUME NEW c \in Callers, TakeResponse(c) PROVE ResponseInv'
  <2>1. /\ id[c] # Nil /\ id' = [id EXCEPT ![c] = Nil] /\ response' = [response EXCEPT ![c] = Nil]
        /\ pc' = [pc EXCEPT ![c] = "idle"] /\ id[c] \notin pending'
        /\ pending' \subseteq pending /\ UNCHANGED <<reader, target, received, replied>>
    BY <1>31 DEF TakeResponse, Return, Move
  <2>2. \A m \in pending' : \E d \in Busy' : id'[d] = m /\ response'[d] = Nil
    BY <2>1
  <2>3. \A d \in Callers : response'[d] # Nil =>
          d \in Busy' /\ response'[d] = id'[d] /\ response'[d] \in replied'
    BY <2>1
  <2>4. reader' = "deliver" => received' \in replied /\ received' # Nil
    BY <2>1, ReceivedId
  <2>5. reader' = "deliver" =>
          /\ target' \in Callers /\ received' \notin pending'
          /\ \A d \in Callers : id'[d] = received' => d = target' /\ d \in Busy' /\ response'[d] = Nil
    <3> SUFFICES ASSUME reader = "deliver"
                 PROVE  /\ target \in Callers /\ received \notin pending'
                        /\ \A d \in Callers : id'[d] = received =>
                             d = target /\ d \in Busy' /\ response'[d] = Nil
      BY <2>1
    <3>1. \A d \in Callers : id'[d] = received => d # c /\ id[d] = received
      BY <2>1, <2>4
    <3>2. target \in Callers /\ received \notin pending'
      BY <2>1
    <3>3. ASSUME NEW d \in Callers, id'[d] = received
          PROVE  d = target /\ d \in Busy' /\ response'[d] = Nil
      BY <2>1, <3>1, <3>3
    <3> QED
      BY <3>2, <3>3
  <2> QED
    BY <2>2, <2>3, <2>5
<1>32. ASSUME NEW c \in Callers, Forget(c) PROVE ResponseInv'
  <2>1. /\ id[c] # Nil /\ id' = [id EXCEPT ![c] = Nil] /\ response' = [response EXCEPT ![c] = Nil]
        /\ pc' = [pc EXCEPT ![c] = "idle"] /\ id[c] \notin pending'
        /\ pending' \subseteq pending /\ UNCHANGED <<reader, target, received, replied>>
    BY <1>32 DEF Forget, Return, Move
  <2>2. \A m \in pending' : \E d \in Busy' : id'[d] = m /\ response'[d] = Nil
    BY <2>1
  <2>3. \A d \in Callers : response'[d] # Nil =>
          d \in Busy' /\ response'[d] = id'[d] /\ response'[d] \in replied'
    BY <2>1
  <2>4. reader' = "deliver" => received' \in replied /\ received' # Nil
    BY <2>1, ReceivedId
  <2>5. reader' = "deliver" =>
          /\ target' \in Callers /\ received' \notin pending'
          /\ \A d \in Callers : id'[d] = received' => d = target' /\ d \in Busy' /\ response'[d] = Nil
    <3> SUFFICES ASSUME reader = "deliver"
                 PROVE  /\ target \in Callers /\ received \notin pending'
                        /\ \A d \in Callers : id'[d] = received =>
                             d = target /\ d \in Busy' /\ response'[d] = Nil
      BY <2>1
    <3>1. \A d \in Callers : id'[d] = received => d # c /\ id[d] = received
      BY <2>1, <2>4
    <3>2. target \in Callers /\ received \notin pending'
      BY <2>1
    <3>3. ASSUME NEW d \in Callers, id'[d] = received
          PROVE  d = target /\ d \in Busy' /\ response'[d] = Nil
      BY <2>1, <3>1, <3>3
    <3> QED
      BY <3>2, <3>3
  <2> QED
    BY <2>2, <2>3, <2>5
<1>33. CASE Dispatch
  <2>1. CASE received \in pending
    <3>1. PICK c \in Busy : id[c] = received /\ response[c] = Nil
      BY <2>1
    <3>2. CallerOf(received) = c
      BY <3>1 DEF CallerOf
    <3>3. /\ target' = c /\ received' = received /\ pending' = pending \ {received}
          /\ UNCHANGED <<pc, id, response, replied>>
      BY <1>33, <2>1, <3>2 DEF Dispatch
    <3>4. \A d \in Callers : id[d] = received => d = c
      BY <3>1
    <3>5. \A m \in pending' : \E d \in Busy' : id'[d] = m /\ response'[d] = Nil
      BY <3>3
    <3> QED
      BY <3>1, <3>3, <3>4, <3>5
  <2>2. CASE received \notin pending
    BY <1>33, <2>2 DEF Dispatch, Step
  <2> QED
    BY <2>1, <2>2
<1> QED
  BY <1>1, <1>2, <1>3, <1>4, <1>5, <1>6, <1>7, <1>8, <1>9, <1>10, <1>11, <1>12, <1>13,
     <1>14, <1>15, <1>16, <1>17, <1>18, <1>19, <1>20, <1>21, <1>22, <1>23, <1>24, <1>25,
     <1>26, <1>27, <1>28, <1>29, <1>30, <1>31, <1>32, <1>33
     DEF Next, CallStep, ReadStep, BrowserStep

\* The first frame is taken off the stream.
LEMMA TakeHalf ==
  ASSUME StreamTypes, NEW half \in Halves(toConn), Chained(toConn, half),
         toConn # <<>>, toConn' = Tail(toConn)
  PROVE  /\ toConn[1] \in Frames /\ Head(toConn) = toConn[1]
         /\ Linked(toConn[1], half[0], half[1]) /\ half[0] \in Ids \cup {Nil}
         /\ \E rest \in Halves(toConn') :
              rest[0] = half[1] /\ rest[Len(toConn')] = half[Len(toConn)] /\ Chained(toConn', rest)
<1> DEFINE rest == [i \in 0 .. Len(toConn') |-> half[i + 1]]
<1>1. /\ Len(toConn') = Len(toConn) - 1 /\ Len(toConn) \in Nat \ {0}
      /\ Head(toConn) = toConn[1] /\ 1 \in DOMAIN toConn /\ toConn[1] \in Frames
      /\ \A i \in DOMAIN toConn' : i + 1 \in DOMAIN toConn /\ toConn'[i] = toConn[i + 1]
  BY TailElements DEF StreamTypes
<1>2. DOMAIN toConn' = 1 .. Len(toConn')
  BY <1>1, TailElements DEF StreamTypes
<1>3. Linked(toConn[1], half[0], half[1]) /\ half[0] \in Ids \cup {Nil}
  <2>1. 1 \in DOMAIN toConn /\ 1 - 1 = 0 /\ 0 \in 0 .. Len(toConn)
    BY <1>1
  <2>2. Linked(toConn[1], half[1 - 1], half[1])
    BY <2>1 DEF Chained
  <2> QED
    BY <2>1, <2>2 DEF Halves
<1>4. rest \in Halves(toConn')
  BY <1>1 DEF Halves
<1>5. rest[0] = half[1] /\ rest[Len(toConn')] = half[Len(toConn)]
  BY <1>1
<1>6. \A i \in DOMAIN toConn' : Linked(toConn'[i], rest[i - 1], rest[i])
  <2> SUFFICES ASSUME NEW i \in DOMAIN toConn' PROVE Linked(toConn'[i], rest[i - 1], rest[i])
    OBVIOUS
  <2>1. i + 1 \in DOMAIN toConn /\ toConn'[i] = toConn[i + 1]
    BY <1>1
  <2>2. rest[i - 1] = half[i] /\ rest[i] = half[i + 1] /\ (i + 1) - 1 = i
    <3>1. i \in Nat /\ i - 1 \in 0 .. Len(toConn') /\ i \in 0 .. Len(toConn') /\ (i - 1) + 1 = i
      BY <1>1, <1>2
    <3> QED
      BY <3>1
  <2>3. Linked(toConn[i + 1], half[(i + 1) - 1], half[i + 1])
    BY <2>1 DEF Chained
  <2> QED
    BY <2>1, <2>2, <2>3
<1>7. Chained(toConn', rest)
  BY <1>6 DEF Chained
<1> HIDE DEF rest
<1> QED
  BY <1>1, <1>3, <1>4, <1>5, <1>7

\* The browser writes one more frame.
LEMMA AppendHalf ==
  ASSUME StreamTypes, NEW half \in Halves(toConn), Chained(toConn, half), NEW frame \in Frames,
         NEW after \in Ids \cup {Nil}, Linked(frame, half[Len(toConn)], after),
         toConn' = Append(toConn, frame)
  PROVE  \E more \in Halves(toConn') :
           more[0] = half[0] /\ more[Len(toConn')] = after /\ Chained(toConn', more)
<1> DEFINE more == [i \in 0 .. Len(toConn') |-> IF i <= Len(toConn) THEN half[i] ELSE after]
<1>1. /\ Len(toConn') = Len(toConn) + 1 /\ Len(toConn) \in Nat
      /\ DOMAIN toConn' = DOMAIN toConn \cup {Len(toConn) + 1} /\ DOMAIN toConn = 1 .. Len(toConn)
      /\ toConn'[Len(toConn) + 1] = frame
      /\ \A i \in DOMAIN toConn : toConn'[i] = toConn[i]
  BY AppendElements DEF StreamTypes
<1>2. more \in Halves(toConn') /\ more[0] = half[0] /\ more[Len(toConn')] = after
  BY <1>1 DEF Halves
<1>3. \A i \in DOMAIN toConn' : Linked(toConn'[i], more[i - 1], more[i])
  <2> SUFFICES ASSUME NEW i \in DOMAIN toConn' PROVE Linked(toConn'[i], more[i - 1], more[i])
    OBVIOUS
  <2>1. CASE i \in DOMAIN toConn
    <3>1. Linked(toConn[i], half[i - 1], half[i])
      BY <2>1 DEF Chained
    <3>2. more[i - 1] = half[i - 1] /\ more[i] = half[i]
      BY <1>1, <2>1
    <3> QED
      BY <1>1, <2>1, <3>1, <3>2
  <2>2. CASE i = Len(toConn) + 1
    <3>1. more[i - 1] = half[Len(toConn)] /\ more[i] = after /\ toConn'[i] = frame
      BY <1>1, <2>2
    <3> QED
      BY <3>1
  <2> QED
    BY <1>1, <2>1, <2>2
<1>4. Chained(toConn', more)
  BY <1>3 DEF Chained
<1> HIDE DEF more
<1> QED
  BY <1>2, <1>4

\* A step of a healthy browser, or of the reader, keeps the frames in order.
LEMMA HealthyStep ==
  ASSUME CdpInv, [Next]_vars
  PROVE  HealthyInv'
<1> DEFINE Sound ==
      /\ reader = "decode" => Whole(partial)
      /\ reader # "decode" /\ partial # <<>> =>
           Len(partial) = 1 /\ partial[1].of = 2 /\ partial[1].id \in Ids
      /\ \E half \in Halves(toConn) :
           half[0] = Begun /\ half[Len(toConn)] = replying /\ Chained(toConn, half)
<1>a. CallTypes /\ StreamTypes /\ IdsInv /\ HeardInv /\ ResponseInv
  BY DEF CdpInv
<1>b. SUFFICES ASSUME browser = "healthy", reader # "ended", reader' # "ended"
               PROVE  Sound'
  <2>1. UNCHANGED browser
    BY DEF Next, CallStep, ReadStep, BrowserStep, vars, remote,
           BrowserAdds, BrowserCloses, BrowserGoesOn, BrowserReads, BrowserReplies,
           BrowserWrites, Call, Cancel, Close, DecodeEvent, DecodeFails, DecodeResponse,
           Deliver, Dispatch, Fail, Fits, Forget, GiveUp, LockControl, LockWrite,
           MarshalFails, Move, NextFrame, Piece, PongFails, ReadControl, ReadData, ReadFails,
           ReadMisfit, Refuse, Register, Return, Step, Take, TakeResponse, Write, WriteBye,
           WriteFails, WritePong
  <2>2. reader = "ended" => reader' = "ended"
    BY DEF Next, CallStep, ReadStep, BrowserStep, vars, reading,
           BrowserAdds, BrowserCloses, BrowserGoesOn, BrowserReads, BrowserReplies,
           BrowserWrites, Call, Cancel, Close, DecodeEvent, DecodeFails, DecodeResponse,
           Deliver, Dispatch, Fail, Fits, Forget, GiveUp, LockControl, LockWrite,
           MarshalFails, Move, NextFrame, Piece, PongFails, ReadControl, ReadData, ReadFails,
           ReadMisfit, Refuse, Register, Return, Step, Take, TakeResponse, Write, WriteBye,
           WriteFails, WritePong
  <2> QED
    BY <2>1, <2>2 DEF HealthyInv
<1>c. Sound
  BY <1>a, <1>b DEF CdpInv, HealthyInv
<1>d. ASSUME UNCHANGED <<partial, toConn, replying>>, reader = "decode" <=> reader' = "decode" PROVE Sound'
  BY <1>c, <1>d DEF Begun, Halves, Chained, Linked, Whole
<1>e. ASSUME UNCHANGED <<toConn, replying>>, reader = "decode", reader' # "decode", partial' = <<>> PROVE Sound'
  BY <1>c, <1>e DEF Begun, Halves, Chained, Linked, Whole
<1> USE <1>a, <1>b, <1>c
<1> USE NilAssumption DEF conn, calls, reading, streams, remote
<1>1. ASSUME NEW c \in Callers,
              Call(c) \/ Register(c) \/ Refuse(c) \/ MarshalFails(c) \/ LockWrite(c) \/
              Write(c) \/ WriteFails(c) \/ TakeResponse(c) \/ GiveUp(c) \/ Forget(c) \/
              Cancel(c)
       PROVE  Sound'
  BY <1>1, <1>d
     DEF Call, Move, Register, Refuse, Return, MarshalFails, LockWrite, Write, WriteFails,
         TakeResponse, GiveUp, Forget, Cancel
<1>2. CASE ReadControl("ping", "pong")
  <2>1. /\ toConn # <<>> /\ toConn' = Tail(toConn) /\ Head(toConn).op = "ping"
        /\ reader = "frame" /\ reader' = "pong" /\ UNCHANGED <<partial, replying>>
    BY <1>2 DEF ReadControl, Take, NextFrame, Step
  <2>2. PICK half \in Halves(toConn) :
          half[0] = Begun /\ half[Len(toConn)] = replying /\ Chained(toConn, half)
    BY <2>1
  <2>3. PICK rest \in Halves(toConn') :
          rest[0] = half[1] /\ rest[Len(toConn')] = half[Len(toConn)] /\ Chained(toConn', rest)
    BY <2>1, <2>2, TakeHalf
  <2>4. half[1] = half[0]
    BY <2>1, <2>2, TakeHalf DEF Linked
  <2>5. Begun' = Begun
    BY <2>1 DEF Begun
  <2>6. \E h \in Halves(toConn') :
          h[0] = Begun' /\ h[Len(toConn')] = replying' /\ Chained(toConn', h)
    BY <2>1, <2>2, <2>3, <2>4, <2>5
  <2> QED
    BY <2>1, <2>6
<1>3. CASE ReadControl("close", "bye")
  <2>1. /\ toConn # <<>> /\ toConn' = Tail(toConn) /\ Head(toConn).op = "close"
        /\ reader = "frame" /\ reader' = "bye" /\ UNCHANGED <<partial, replying>>
    BY <1>3 DEF ReadControl, Take, NextFrame, Step
  <2>2. PICK half \in Halves(toConn) :
          half[0] = Begun /\ half[Len(toConn)] = replying /\ Chained(toConn, half)
    BY <2>1
  <2>3. PICK rest \in Halves(toConn') :
          rest[0] = half[1] /\ rest[Len(toConn')] = half[Len(toConn)] /\ Chained(toConn', rest)
    BY <2>1, <2>2, TakeHalf
  <2>4. half[1] = half[0]
    BY <2>1, <2>2, TakeHalf DEF Linked
  <2>5. Begun' = Begun
    BY <2>1 DEF Begun
  <2>6. \E h \in Halves(toConn') :
          h[0] = Begun' /\ h[Len(toConn')] = replying' /\ Chained(toConn', h)
    BY <2>1, <2>2, <2>3, <2>4, <2>5
  <2> QED
    BY <2>1, <2>6
<1>4. CASE ReadData
  <2>1. /\ toConn # <<>> /\ toConn' = Tail(toConn) /\ UNCHANGED replying
        /\ reader = "frame" /\ partial' = Append(partial, Piece(Head(toConn)))
        /\ reader' = IF Head(toConn).final THEN "decode" ELSE "frame"
        /\ Fits(Head(toConn))
    BY <1>4 DEF ReadData, Take, NextFrame, Step
  <2>2. PICK half \in Halves(toConn) :
          half[0] = Begun /\ half[Len(toConn)] = replying /\ Chained(toConn, half)
    BY <2>1
  <2>3. PICK rest \in Halves(toConn') :
          rest[0] = half[1] /\ rest[Len(toConn')] = half[Len(toConn)] /\ Chained(toConn', rest)
    BY <2>1, <2>2, TakeHalf
  <2> DEFINE first == toConn[1]
  <2>4. first \in Frames /\ Head(toConn) = first /\ Linked(first, half[0], half[1])
    BY <2>1, <2>2, TakeHalf
  <2>5. Piece(first) \in Pieces /\ Piece(first).id = first.id /\ Piece(first).of = first.of
    BY <2>4 DEF Piece, Pieces, Frames
  <2> HIDE DEF first
  <2>6. /\ partial' # <<>> /\ Len(partial') = Len(partial) + 1 /\ Len(partial) \in Nat
        /\ partial'[Len(partial) + 1] = Piece(first)
        /\ \A i \in DOMAIN partial : partial'[i] = partial[i]
        /\ DOMAIN partial' = DOMAIN partial \cup {Len(partial) + 1} /\ DOMAIN partial = 1 .. Len(partial)
    BY <2>1, <2>4, <2>5, AppendElements DEF StreamTypes
  <2>7. ASSUME first.op = "text"
        PROVE  /\ reader' = "decode" => Whole(partial') /\ half[1] = Nil
               /\ reader' # "decode" => Len(partial') = 1 /\ partial'[1].of = 2
                                          /\ partial'[1].id = half[1] /\ half[1] \in Ids
    <3>1. partial = <<>>
      BY <2>1, <2>4, <2>7 DEF Fits
    <3>2. Len(partial') = 1 /\ partial'[1] = Piece(first) /\ DOMAIN partial' = {1}
      BY <2>6, <3>1
    <3> QED
      BY <2>1, <2>4, <2>5, <2>7, <3>2 DEF Linked, Whole
  <2>8. ASSUME first.op = "cont"
        PROVE  reader' = "decode" /\ Whole(partial') /\ half[1] = Nil
    <3>1. partial # <<>> /\ Len(partial) = 1 /\ partial[1].of = 2 /\ half[0] = partial[1].id
      BY <2>1, <2>2, <2>4, <2>8 DEF Fits, Begun
    <3>2. first.final /\ first.of = 2 /\ first.id = half[0] /\ half[1] = Nil
      BY <2>4, <2>8 DEF Linked
    <3>3. partial[1] = Piece(first)
      <4>1. partial[1] \in Pieces
        BY <3>1, TailElements DEF StreamTypes
      <4> QED
        BY <2>5, <3>1, <3>2, <4>1 DEF Pieces
    <3>4. partial'[1] = Piece(first) /\ partial'[2] = Piece(first) /\ DOMAIN partial' = {1, 2} /\ Len(partial') = 2
      BY <2>6, <3>1, <3>3
    <3> QED
      BY <2>1, <2>4, <2>5, <3>2, <3>4 DEF Whole
  <2>9. first.op \in {"text", "cont"}
    BY <2>1, <2>4 DEF Fits
  <2>10. Begun' = half[1]
    BY <2>6, <2>7, <2>8, <2>9 DEF Begun
  <2>11. \E h \in Halves(toConn') :
          h[0] = Begun' /\ h[Len(toConn')] = replying' /\ Chained(toConn', h)
    BY <2>1, <2>2, <2>3, <2>10
  <2> QED
    BY <2>1, <2>7, <2>8, <2>9, <2>11
<1>5. CASE ReadMisfit \/ ReadFails \/ PongFails \/ WriteBye \/ DecodeFails
  BY <1>5
     DEF ReadMisfit, Fail, Step, ReadFails, PongFails, WriteBye, DecodeFails
<1>6. CASE LockControl("pong", "sendPong") \/ LockControl("bye", "sendBye") \/ WritePong \/
          Dispatch \/ Deliver \/ BrowserReads \/ Close \/ UNCHANGED vars
  BY <1>6, <1>d
     DEF LockControl, Step, WritePong, Dispatch, Deliver, BrowserReads, Close, vars
<1>7. CASE DecodeResponse \/ DecodeEvent
  BY <1>7, <1>e
     DEF DecodeResponse, Step, DecodeEvent
<1>8. CASE \E m \in unanswered, of \in {1, 2} : BrowserReplies(m, of)
  <2>0. PICK m \in unanswered, of \in {1, 2} : BrowserReplies(m, of)
    BY <1>8
  <2> DEFINE reply == Frame("text", m, of, of = 1)
  <2>1. /\ toConn' = Append(toConn, reply) /\ replying' = IF of = 1 THEN Nil ELSE m
        /\ UNCHANGED <<reader, partial>>
    BY <2>0 DEF BrowserReplies, BrowserWrites
  <2>2. reply \in Frames /\ replying' \in Ids \cup {Nil}
    BY <2>0, KnownIds DEF BrowserReplies, Frame, Control, Frames, Ops, HeardInv
  <2>3. Linked(reply, replying, replying')
    BY <2>0, <2>1, KnownIds DEF BrowserReplies, Linked, Frame, Control, HeardInv
  <2> HIDE DEF reply
  <2>4. PICK half \in Halves(toConn) :
          half[0] = Begun /\ half[Len(toConn)] = replying /\ Chained(toConn, half)
    BY <2>1
  <2>5. \E h \in Halves(toConn') :
          h[0] = half[0] /\ h[Len(toConn')] = replying' /\ Chained(toConn', h)
    BY <2>1, <2>2, <2>3, <2>4, AppendHalf
  <2>6. Begun' = Begun
    BY <2>1 DEF Begun
  <2> QED
    BY <2>1, <2>4, <2>5, <2>6
<1>9. CASE BrowserGoesOn
  <2> DEFINE rest == Frame("cont", replying, 2, TRUE)
  <2>1. /\ toConn' = Append(toConn, rest) /\ replying' = Nil
        /\ UNCHANGED <<reader, partial>>
    BY <1>9 DEF BrowserGoesOn, BrowserWrites
  <2>2. rest \in Frames /\ replying' \in Ids \cup {Nil}
    BY <1>9, KnownIds DEF BrowserGoesOn, Frame, Control, Frames, Ops, HeardInv
  <2>3. Linked(rest, replying, replying')
    BY <1>9, <2>1, KnownIds DEF BrowserGoesOn, Linked, Frame, Control, HeardInv
  <2> HIDE DEF rest
  <2>4. PICK half \in Halves(toConn) :
          half[0] = Begun /\ half[Len(toConn)] = replying /\ Chained(toConn, half)
    BY <2>1
  <2>5. \E h \in Halves(toConn') :
          h[0] = half[0] /\ h[Len(toConn')] = replying' /\ Chained(toConn', h)
    BY <2>1, <2>2, <2>3, <2>4, AppendHalf
  <2>6. Begun' = Begun
    BY <2>1 DEF Begun
  <2> QED
    BY <2>1, <2>4, <2>5, <2>6
<1>10. CASE BrowserCloses
  <2> DEFINE bye == Control("close")
  <2>1. /\ toConn' = Append(toConn, bye) /\ replying' = replying
        /\ UNCHANGED <<reader, partial>>
    BY <1>10 DEF BrowserCloses, BrowserWrites
  <2>2. bye \in Frames /\ replying' \in Ids \cup {Nil}
    BY <1>10, KnownIds DEF BrowserCloses, Frame, Control, Frames, Ops, HeardInv
  <2>3. Linked(bye, replying, replying')
    BY <1>10, <2>1, KnownIds DEF BrowserCloses, Linked, Frame, Control, HeardInv
  <2> HIDE DEF bye
  <2>4. PICK half \in Halves(toConn) :
          half[0] = Begun /\ half[Len(toConn)] = replying /\ Chained(toConn, half)
    BY <2>1
  <2>5. \E h \in Halves(toConn') :
          h[0] = half[0] /\ h[Len(toConn')] = replying' /\ Chained(toConn', h)
    BY <2>1, <2>2, <2>3, <2>4, AppendHalf
  <2>6. Begun' = Begun
    BY <2>1 DEF Begun
  <2> QED
    BY <2>1, <2>4, <2>5, <2>6
<1>11. CASE \E frame \in HealthyExtras \cup FaultyExtras : BrowserAdds(frame)
  <2>1. PICK frame \in HealthyExtras \cup FaultyExtras : BrowserAdds(frame)
    BY <1>11
  <2>2. /\ toConn' = Append(toConn, frame) /\ frame \in HealthyExtras
        /\ UNCHANGED <<reader, partial, replying>>
    BY <2>1 DEF BrowserAdds, BrowserWrites
  <2>3. frame \in Frames /\ replying \in Ids \cup {Nil}
    BY KnownIds, ExtraFrames DEF HeardInv
  <2>4. Linked(frame, replying, replying)
    BY <2>2 DEF HealthyExtras, Linked, Frame, Control
  <2>5. PICK half \in Halves(toConn) :
          half[0] = Begun /\ half[Len(toConn)] = replying /\ Chained(toConn, half)
    BY <2>2
  <2>6. \E h \in Halves(toConn') :
          h[0] = half[0] /\ h[Len(toConn')] = replying /\ Chained(toConn', h)
    BY <2>2, <2>3, <2>4, <2>5, AppendHalf
  <2>7. Begun' = Begun
    BY <2>2 DEF Begun
  <2> QED
    BY <2>2, <2>5, <2>6, <2>7
<1> HIDE DEF Sound
<1> QED
  BY <1>1, <1>2, <1>3, <1>4, <1>5, <1>6, <1>7, <1>8, <1>9, <1>10, <1>11
     DEF Next, CallStep, ReadStep, BrowserStep

\* No step ends the connection to a healthy browser but after a close.
LEMMA CloseStep ==
  ASSUME CdpInv, [Next]_vars
  PROVE  CloseInv'
<1>a. CallTypes /\ StreamTypes /\ IdsInv /\ HeardInv /\ ResponseInv /\ HealthyInv /\ CloseInv
  BY DEF CdpInv
<1> USE <1>a, NilAssumption DEF CloseInv, OnlyAClosureEnds, conn, calls, reading, streams,
        remote
<1>1. ASSUME NEW c \in Callers,
              Call(c) \/ Register(c) \/ Refuse(c) \/ MarshalFails(c) \/ LockWrite(c) \/
              Write(c) \/ WriteFails(c) \/ TakeResponse(c) \/ GiveUp(c) \/ Forget(c) \/
              Cancel(c)
       PROVE  CloseInv'
  <2>1. UNCHANGED <<toConn, reader, leaving, connErr, open, browser>>
    BY <1>1
       DEF Call, Move, Register, Refuse, Return, MarshalFails, LockWrite, Write, WriteFails,
           TakeResponse, GiveUp, Forget, Cancel
  <2> QED
    BY <2>1
<1>2. CASE ReadControl("ping", "pong")
  <2>1. /\ toConn' = Tail(toConn) /\ toConn # <<>> /\ UNCHANGED <<leaving, connErr, open, browser>>
        /\ reader' = "pong"
    BY <1>2 DEF ReadControl, Take, Step
  <2>2. \A i \in DOMAIN toConn' : toConn'[i].op = "close" => leaving
    BY <2>1, TailElements DEF StreamTypes
  <2> QED
    BY <2>1, <2>2
<1>3. CASE ReadControl("close", "bye")
  <2>1. /\ toConn' = Tail(toConn) /\ toConn # <<>> /\ UNCHANGED <<leaving, connErr, open, browser>>
        /\ Head(toConn).op = "close"
    BY <1>3 DEF ReadControl, Take, NextFrame
  <2>2. leaving /\ \A i \in DOMAIN toConn' : toConn'[i].op = "close" => leaving
    BY <2>1, TailElements DEF StreamTypes
  <2> QED
    BY <2>1, <2>2
<1>4. CASE ReadData
  <2>1. /\ toConn' = Tail(toConn) /\ toConn # <<>> /\ UNCHANGED <<leaving, connErr, open, browser>>
        /\ reader' \in {"decode", "frame"}
    BY <1>4 DEF ReadData, Take, Step
  <2>2. \A i \in DOMAIN toConn' : toConn'[i].op = "close" => leaving
    BY <2>1, TailElements DEF StreamTypes
  <2> QED
    BY <2>1, <2>2
<1>5. CASE ReadMisfit
  <2>1. /\ toConn' = Tail(toConn) /\ toConn # <<>> /\ UNCHANGED <<leaving, open, browser>>
        /\ reader = "frame" /\ reader' = "ended"
        /\ Head(toConn).op \in {"text", "cont"} /\ ~Fits(Head(toConn))
    BY <1>5 DEF ReadMisfit, Take, NextFrame, Fail, Step
  <2>2. \A i \in DOMAIN toConn' : toConn'[i].op = "close" => leaving
    BY <2>1, TailElements DEF StreamTypes
  <2>3. ASSUME browser = "healthy" PROVE FALSE
    <3>1. PICK half \in Halves(toConn) : half[0] = Begun /\ Chained(toConn, half)
      BY <2>1, <2>3 DEF HealthyInv
    <3>2. Linked(toConn[1], half[0], half[1]) /\ Head(toConn) = toConn[1]
      BY <2>1, <3>1, TakeHalf
    <3>3. partial # <<>> => Begun = partial[1].id /\ partial[1].id \in Ids
      BY <2>1, <2>3 DEF HealthyInv, Begun
    <3>4. partial = <<>> => Begun = Nil
      BY DEF Begun
    <3> QED
      BY <2>1, <3>1, <3>2, <3>3, <3>4 DEF Linked, Fits
  <2> QED
    BY <2>1, <2>2, <2>3
<1>6. CASE ReadFails \/ LockControl("pong", "sendPong") \/ LockControl("bye", "sendBye") \/
          WritePong \/ PongFails \/ WriteBye \/ DecodeResponse \/ DecodeEvent \/ Dispatch \/
          Deliver \/ BrowserReads \/ BrowserCloses \/ Close \/ UNCHANGED vars
  BY <1>6
     DEF ReadFails, Fail, Step, LockControl, WritePong, PongFails, WriteBye, DecodeResponse,
         DecodeEvent, Dispatch, Deliver, BrowserReads, BrowserCloses, BrowserWrites, Close,
         vars
<1>7. CASE DecodeFails
  <2>1. reader = "decode" /\ ~Whole(partial) /\ UNCHANGED <<leaving, open, browser, toConn>> /\ reader' = "ended"
    BY <1>7 DEF DecodeFails, Fail, Step
  <2>2. browser # "healthy"
    BY <2>1 DEF HealthyInv
  <2> QED
    BY <2>1, <2>2
<1>8. CASE \E m \in unanswered, of \in {1, 2} : BrowserReplies(m, of)
  <2>0. PICK m \in unanswered, of \in {1, 2} : BrowserReplies(m, of)
    BY <1>8
  <2> DEFINE reply == Frame("text", m, of, of = 1)
  <2>1. /\ toConn' = Append(toConn, reply) /\ UNCHANGED <<leaving, connErr, open, browser, reader>>
    BY <2>0 DEF BrowserReplies, BrowserWrites
  <2>2. reply \in Frames /\ reply.op # "close"
    BY <2>0, KnownIds DEF BrowserReplies, Frame, Control, Frames, Ops, HeardInv
  <2> HIDE DEF reply
  <2>3. \A i \in DOMAIN toConn' : toConn'[i].op = "close" => leaving
    BY <2>1, <2>2, AppendElements DEF StreamTypes
  <2> QED
    BY <2>1, <2>3
<1>9. CASE BrowserGoesOn
  <2> DEFINE rest == Frame("cont", replying, 2, TRUE)
  <2>1. /\ toConn' = Append(toConn, rest) /\ UNCHANGED <<leaving, connErr, open, browser, reader>>
    BY <1>9 DEF BrowserGoesOn, BrowserWrites
  <2>2. rest \in Frames /\ rest.op # "close"
    BY <1>9, KnownIds DEF BrowserGoesOn, Frame, Control, Frames, Ops, HeardInv
  <2> HIDE DEF rest
  <2>3. \A i \in DOMAIN toConn' : toConn'[i].op = "close" => leaving
    BY <2>1, <2>2, AppendElements DEF StreamTypes
  <2> QED
    BY <2>1, <2>3
<1>10. CASE \E frame \in HealthyExtras \cup FaultyExtras : BrowserAdds(frame)
  <2>1. PICK frame \in HealthyExtras \cup FaultyExtras : BrowserAdds(frame)
    BY <1>10
  <2>2. /\ toConn' = Append(toConn, frame) /\ UNCHANGED <<leaving, connErr, open, browser, reader>>
    BY <2>1 DEF BrowserAdds, BrowserWrites
  <2>3. frame \in Frames /\ frame.op # "close"
    BY ExtraFrames DEF HealthyExtras, FaultyExtras, Control, Garbage, Frame
  <2>4. \A i \in DOMAIN toConn' : toConn'[i].op = "close" => leaving
    BY <2>2, <2>3, AppendElements DEF StreamTypes
  <2> QED
    BY <2>2, <2>4
<1> QED
  BY <1>1, <1>2, <1>3, <1>4, <1>5, <1>6, <1>7, <1>8, <1>9, <1>10
     DEF Next, CallStep, ReadStep, BrowserStep

-----------------------------------------------------------------------------
\* The invariant, for any number of goroutines, commands and frames.
LEMMA CdpInvariant == Spec => []CdpInv
<1>1. Init => CdpInv
  <2> SUFFICES ASSUME Init PROVE CdpInv
    OBVIOUS
  <2> USE BoundAssumption, NilAssumption DEF Init, Ids, Known
  <2>1. CallTypes
    <3>0. connErr \in BOOLEAN
      BY Zenon
    <3>1. nextId \in 0 .. MaxId /\ pending \in SUBSET Ids
      OBVIOUS
    <3>2. pc \in [Callers -> Stages] /\ outcome \in [Ids -> Outcomes] /\ reader \in ReaderStages
      BY DEF Stages, ReaderStages, Outcomes
    <3>3. /\ id \in [Callers -> Ids \cup {Nil}] /\ response \in [Callers -> Ids \cup {Nil}]
          /\ cancelled \in [Callers -> BOOLEAN] /\ writeMutex \in Callers \cup {Nil, "reader"}
      OBVIOUS
    <3> QED
      BY <3>0, <3>1, <3>2, <3>3 DEF CallTypes
  <2>2. StreamTypes
    BY DEF StreamTypes
  <2>3. IdsInv
    BY DEF IdsInv
  <2>4. HeardInv
    BY DEF HeardInv
  <2>5. ResponseInv
    BY DEF ResponseInv
  <2>6. HealthyInv
    <3>1. [i \in {0} |-> Nil] \in Halves(toConn) /\ Chained(toConn, [i \in {0} |-> Nil]) /\ Len(toConn) = 0
      BY DEF Halves, Chained
    <3> QED
      BY <3>1 DEF HealthyInv, Begun
  <2>7. CloseInv
    BY DEF CloseInv, OnlyAClosureEnds
  <2> QED
    BY <2>1, <2>2, <2>3, <2>4, <2>5, <2>6, <2>7 DEF CdpInv
<1>2. CdpInv /\ [Next]_vars => CdpInv'
  <2> SUFFICES ASSUME CdpInv, [Next]_vars PROVE CdpInv'
    OBVIOUS
  <2>1. CallTypes' /\ StreamTypes' /\ IdsInv' /\ HeardInv' /\ ResponseInv'
    BY CallTypesStep, StreamTypesStep, IdsStep, HeardStep, ResponseStep DEF CdpInv
  <2> QED
    BY <2>1, HealthyStep, CloseStep DEF CdpInv
<1> QED
  BY <1>1, <1>2, PTL DEF Spec

\* The reader always finds room in the channel it delivers a response to, however
\* many goroutines call and whatever the browser sends; and a registered command is
\* one that is waited for.
THEOREM ReaderNeverBlocksCorrect == Spec => []ReaderNeverBlocks
<1>1. CdpInv => ReaderNeverBlocks
  <2> SUFFICES ASSUME CdpInv PROVE ReaderNeverBlocks
    OBVIOUS
  <2>1. TypeOK
    <3>1. CallTypes
      BY DEF CdpInv
    <3>2. \A m \in pending : \E c \in Callers :
            id[c] = m /\ pc[c] \notin {"idle", "register"} /\ response[c] = Nil
      BY DEF CdpInv, ResponseInv, Busy
    <3> QED
      BY <3>1, <3>2 DEF CallTypes, TypeOK
  <2>2. reader = "deliver" /\ id[target] = received => response[target] = Nil
    BY DEF CdpInv, ResponseInv
  <2> QED
    BY <2>1, <2>2 DEF ReaderNeverBlocks
<1> QED
  BY <1>1, CdpInvariant, PTL

\* Nothing a healthy browser sends ends the connection, in whatever order its
\* fragments, pings and events come, until one side closes.
THEOREM OnlyAClosureEndsCorrect == Spec => []OnlyAClosureEnds
<1>1. CdpInv => OnlyAClosureEnds
  BY DEF CdpInv, CloseInv
<1> QED
  BY <1>1, CdpInvariant, PTL

\* A step of the connection is a step of the channel, or none.
LEMMA ChannelStep ==
  ASSUME CdpInv, [Next]_vars
  PROVE  [Channel!Next]_(Channel!vars)
<1>a. CallTypes /\ StreamTypes /\ IdsInv /\ HeardInv /\ ResponseInv
  BY DEF CdpInv
<1> USE <1>a, NilAssumption DEF Channel!vars, conn, calls, reading, streams, remote
<1>b. ASSUME connErr' = TRUE, UNCHANGED <<outcome, replied>> PROVE [Channel!Next]_(Channel!vars)
  BY <1>b DEF CallTypes, Channel!Next, Channel!End
<1>1. ASSUME NEW c \in Callers, Call(c) PROVE [Channel!Next]_(Channel!vars)
  <2>1. nextId + 1 \in Ids /\ outcome[nextId + 1] = "none"
    BY <1>1, BoundAssumption DEF Call, CallTypes, IdsInv, Known, Ids
  <2>2. Channel!Ask(nextId + 1)
    BY <1>1, <2>1 DEF Call, Channel!Ask
  <2> QED
    BY <2>1, <2>2 DEF Channel!Next
<1>2. ASSUME NEW c \in Callers,
              Register(c) \/ MarshalFails(c) \/ LockWrite(c) \/ Write(c) \/ WriteFails(c) \/
              GiveUp(c) \/ Cancel(c)
       PROVE  [Channel!Next]_(Channel!vars)
  BY <1>2
     DEF Register, Move, MarshalFails, LockWrite, Write, WriteFails, GiveUp, Cancel
<1>3. ASSUME NEW c \in Callers, Refuse(c) PROVE [Channel!Next]_(Channel!vars)
  <2>1. id[c] \in Ids /\ outcome[id[c]] \in {"open", "late"}
    BY <1>3, KnownIds DEF Refuse, Return, Move, IdsInv
  <2>2. Channel!Fail(id[c])
    BY <1>3, <2>1 DEF Refuse, Return, Channel!Fail
  <2> QED
    BY <2>1, <2>2 DEF Channel!Next
<1>4. ASSUME NEW c \in Callers, TakeResponse(c) PROVE [Channel!Next]_(Channel!vars)
  <2>1. /\ id[c] \in Ids /\ response[c] = id[c] /\ id[c] \in replied /\ outcome[id[c]] = "open"
    BY <1>4, KnownIds DEF TakeResponse, Return, Move, ResponseInv, IdsInv, Busy
  <2>2. Channel!Answer(id[c])
    BY <1>4, <2>1 DEF TakeResponse, Return, Channel!Answer
  <2> QED
    BY <2>1, <2>2 DEF Channel!Next
<1>5. ASSUME NEW c \in Callers, Forget(c) PROVE [Channel!Next]_(Channel!vars)
  <2>1. id[c] \in Ids /\ outcome[id[c]] \in {"open", "late"}
    BY <1>5, KnownIds DEF Forget, Return, Move, IdsInv
  <2>2. Channel!Fail(id[c])
    BY <1>5, <2>1 DEF Forget, Return, Channel!Fail
  <2> QED
    BY <2>1, <2>2 DEF Channel!Next
<1>6. CASE ReadControl("ping", "pong") \/ ReadControl("close", "bye") \/ ReadData \/
          LockControl("pong", "sendPong") \/ LockControl("bye", "sendBye") \/ WritePong \/
          DecodeResponse \/ DecodeEvent \/ Dispatch \/ Deliver \/ BrowserReads \/
          BrowserGoesOn \/ BrowserCloses \/ Close \/ UNCHANGED vars
  BY <1>6
     DEF ReadControl, Take, NextFrame, Step, ReadData, Fits, Piece, LockControl, WritePong,
         DecodeResponse, DecodeEvent, Dispatch, Deliver, BrowserReads, BrowserGoesOn,
         BrowserWrites, BrowserCloses, Close, vars
<1>7. CASE ReadMisfit \/ ReadFails \/ PongFails \/ WriteBye \/ DecodeFails
  BY <1>7, <1>b
     DEF ReadMisfit, Fail, Step, ReadFails, PongFails, WriteBye, DecodeFails
<1>8. CASE \E m \in unanswered, of \in {1, 2} : BrowserReplies(m, of)
  <2>1. PICK m \in unanswered, of \in {1, 2} : BrowserReplies(m, of)
    BY <1>8
  <2>2. m \in Ids /\ outcome[m] # "none"
    BY KnownIds DEF HeardInv, IdsInv
  <2>3. Channel!Reply(m)
    BY <2>1, <2>2 DEF BrowserReplies, Channel!Reply
  <2> QED
    BY <2>2, <2>3 DEF Channel!Next
<1>9. CASE \E frame \in HealthyExtras \cup FaultyExtras : BrowserAdds(frame)
  BY <1>9 DEF BrowserAdds, BrowserWrites
<1> QED
  BY <1>1, <1>2, <1>3, <1>4, <1>5, <1>6, <1>7, <1>8, <1>9
     DEF Next, CallStep, ReadStep, BrowserStep

\* The connection implements the channel: each command is answered with the
\* browser's reply to it or fails, once.
THEOREM AnswersMatchCorrect == Spec => AnswersMatch
<1>1. Init => Channel!Init
  BY DEF Init, Channel!Init
<1>2. CdpInv /\ [Next]_vars => [Channel!Next]_(Channel!vars)
  BY ChannelStep
<1> QED
  BY <1>1, <1>2, CdpInvariant, PTL DEF Spec, AnswersMatch, Channel!Spec

=============================================================================
