------------------------------- MODULE Framer -------------------------------
(***************************************************************************)
(* The framer (framer.go) and the streams it takes data from               *)
(* (send_stream.go).  The applications' goroutines store data in a stream  *)
(* and then tell the framer (onHasStreamData); the session's goroutine     *)
(* takes frames from the streams, in turn, while it holds the framer's     *)
(* mutex.  A stream that has data and is not among activeStreams would     *)
(* wait until something else makes it active.                              *)
(*                                                                         *)
(* SendStream models one stream with its flow control and its errors in    *)
(* detail.  Here the streams have what decides about their turn: how many  *)
(* bytes wait, the FIN, lost frames, and whether they were canceled.       *)
(*                                                                         *)
(* Besides the Streams there may be a crowd: many streams that are queued, *)
(* and completed (a stream that retransmitted its last frame claims to     *)
(* have more, and the frame is acknowledged).  They count when the packet  *)
(* is shared out, and are gone after the next round.  Crowd is their ID in *)
(* the queue, and they are taken from it in one step: nobody else looks at *)
(* them.                                                                   *)
(***************************************************************************)
EXTENDS Wire

CONSTANTS Streams,              \* stream IDs
          Crowd, CrowdSize,     \* the ID that stands for the crowd; how many they are
          MinStreamFrameSize,   \* 128
          WriteSizes,           \* what Write may be called with
          MaxWrites,            \* bound: calls of Write per stream
          ControlFrames,        \* frames that may be queued
          MaxEvents             \* bound: events other than Write and Close in a behaviour

VARIABLES
    stream,         \* the sendStreams
    notify,         \* streams whose goroutine is about to call AddActiveStream
    activeStreams,
    streamQueue,
    controlFrames,
    numEvents,      \* for MaxEvents
    round           \* the local variables of AppendStreamFrames and the configured
                    \* StreamMultiplexLimit, or NoRound

queueVars == <<stream, notify, activeStreams, streamQueue, controlFrames, round>>
framerVars == <<queueVars, numEvents>>

NoRound == [at |-> "idle"]
NoFrame == [type |-> "none"]

\* f.mutex is held.
Locked == round # NoRound

\* One of the events that the model has few of.
Event ==
    /\ numEvents < MaxEvents
    /\ numEvents' = numEvents + 1

FramerInit ==
    /\ stream = [s \in Streams |->
                   [dataForWriting |-> 0, writeOffset |-> 0, finishedWriting |-> FALSE,
                    finSent |-> FALSE, canceledWrite |-> FALSE, completed |-> FALSE,
                    retransmissionQueue |-> <<>>, numOutstandingFrames |-> 0, writes |-> 0,
                    finForgotten |-> FALSE]]
    /\ notify = {}
    /\ streamQueue \in {<<>>, <<Crowd>>}
    /\ activeStreams = ToSet(streamQueue)
    /\ controlFrames = <<>>
    /\ numEvents = 0
    /\ round = NoRound

-----------------------------------------------------------------------------
(* The streams. *)

isNewlyCompleted(str) ==
    (str.finSent \/ str.canceledWrite) /\ str.numOutstandingFrames = 0
        /\ str.retransmissionQueue = <<>> /\ ~str.completed

CheckCompleted(str) == [str EXCEPT !.completed = @ \/ isNewlyCompleted(str)]

\* A Write that stores its data, and waits until it is taken.
StreamWrite(s) ==
    /\ ~stream[s].finishedWriting /\ ~stream[s].canceledWrite
    /\ stream[s].dataForWriting = 0 /\ s \notin notify
    /\ stream[s].writes < MaxWrites
    /\ \E n \in WriteSizes :
          stream' = [stream EXCEPT ![s].dataForWriting = n, ![s].writes = @ + 1]
    /\ notify' = notify \cup {s}
    /\ UNCHANGED <<activeStreams, streamQueue, controlFrames, numEvents, round>>

\* The deadline of a Write passes: it takes back what was not sent.
StreamWriteDeadline(s) ==
    /\ Event
    /\ stream[s].dataForWriting > 0 /\ s \notin notify
    /\ stream' = [stream EXCEPT ![s].dataForWriting = 0]
    /\ UNCHANGED <<notify, activeStreams, streamQueue, controlFrames, round>>

\* Close is not called during a Write.
StreamClose(s) ==
    /\ ~stream[s].finishedWriting /\ ~stream[s].canceledWrite
    /\ stream[s].dataForWriting = 0 /\ s \notin notify
    /\ stream' = [stream EXCEPT ![s].finishedWriting = TRUE]
    /\ notify' = notify \cup {s}
    /\ UNCHANGED <<activeStreams, streamQueue, controlFrames, numEvents, round>>

StreamCancelWrite(s) ==
    /\ Event
    /\ ~stream[s].canceledWrite
    /\ stream' = [stream EXCEPT ![s] = CheckCompleted([@ EXCEPT !.canceledWrite = TRUE])]
    /\ controlFrames' = Append(controlFrames,
                           [type |-> "ResetStream", StreamID |-> s, ErrorCode |-> 0,
                            ByteOffset |-> stream[s].writeOffset])
    /\ UNCHANGED <<notify, activeStreams, streamQueue, round>>

\* getDataForWriting and what popNewStreamFrame makes of it.  Without room for a
\* byte, a FIN that comes alone is not sent, and the stream claims to have no more.
popNewStreamFrame(str, id, maxBytes) ==
    LET empty == [type |-> "Stream", StreamID |-> id, Offset |-> str.writeOffset, FinBit |-> FALSE,
                  DataLenPresent |-> TRUE, DataLen |-> 0]
        maxDataLen == MaxDataLen(empty, maxBytes)
        n == IF maxDataLen < str.dataForWriting THEN maxDataLen ELSE str.dataForWriting
        fin == str.finishedWriting /\ n = str.dataForWriting /\ ~str.finSent
        popped == [str EXCEPT !.dataForWriting = @ - n, !.writeOffset = @ + n,
                              !.finSent = @ \/ fin]
    IN  IF str.canceledWrite THEN [frame |-> NoFrame, more |-> FALSE, str |-> str]
        ELSE IF maxDataLen = 0
        THEN [frame |-> NoFrame, more |-> str.dataForWriting > 0,
              str |-> [str EXCEPT !.finForgotten = @ \/ fin]]
        ELSE [frame |-> IF n = 0 /\ ~fin THEN NoFrame
                        ELSE [empty EXCEPT !.DataLen = n, !.FinBit = fin],
              more |-> popped.dataForWriting > 0, str |-> popped]

popNewOrRetransmittedStreamFrame_LostIsLast(str, id, maxBytes) ==
    LET f == Head(str.retransmissionQueue)
        split == MaybeSplitOffFrame(f, maxBytes)
    IN  IF str.retransmissionQueue = <<>> THEN popNewStreamFrame(str, id, maxBytes)
        ELSE IF split.split = "no room" THEN [frame |-> NoFrame, more |-> TRUE, str |-> str]
        ELSE IF split.split = "done"
        THEN [frame |-> split.new, more |-> FALSE,
              str |-> [str EXCEPT !.retransmissionQueue = <<split.left>> \o Tail(@)]]
        ELSE [frame |-> f, more |-> FALSE, str |-> [str EXCEPT !.retransmissionQueue = Tail(@)]]

\* A lost frame first.  The stream then claims to have more.
popNewOrRetransmittedStreamFrame(str, id, maxBytes) ==
    LET f == Head(str.retransmissionQueue)
        split == MaybeSplitOffFrame(f, maxBytes)
    IN  IF str.retransmissionQueue = <<>> THEN popNewStreamFrame(str, id, maxBytes)
        ELSE IF split.split = "no room" THEN [frame |-> NoFrame, more |-> TRUE, str |-> str]
        ELSE IF split.split = "done"
        THEN [frame |-> split.new, more |-> TRUE,
              str |-> [str EXCEPT !.retransmissionQueue = <<split.left>> \o Tail(@)]]
        ELSE [frame |-> f, more |-> TRUE, str |-> [str EXCEPT !.retransmissionQueue = Tail(@)]]

popStreamFrame(str, id, maxBytes) ==
    LET pop == popNewOrRetransmittedStreamFrame(str, id, maxBytes)
    IN  IF pop.frame = NoFrame THEN pop
        ELSE [pop EXCEPT !.str.numOutstandingFrames = @ + 1]

-----------------------------------------------------------------------------
(* The framer. *)

QueueControlFrame ==
    /\ Event
    /\ \E f \in ControlFrames : controlFrames' = Append(controlFrames, f)
    /\ UNCHANGED <<stream, notify, activeStreams, streamQueue, round>>

\* AddActiveStream's update; the caller has or gets the mutex.
Activate(s) ==
    /\ streamQueue' = IF s \in activeStreams THEN streamQueue ELSE Append(streamQueue, s)
    /\ activeStreams' = activeStreams \cup {s}

AddActiveStream_NoMutex(s) ==
    /\ s \in notify
    /\ notify' = notify \ {s}
    /\ Activate(s)
    /\ UNCHANGED <<stream, controlFrames, numEvents, round>>

\* onHasStreamData, from the goroutine that called Write or Close.
AddActiveStream(s) ==
    /\ s \in notify /\ ~Locked
    /\ notify' = notify \ {s}
    /\ Activate(s)
    /\ UNCHANGED <<stream, controlFrames, numEvents, round>>

\* The control frames that AppendControlFrames takes, the last one first.
AppendedControlFrames(maxLen) ==
    LET newest(k) == Reverse(SubSeq(controlFrames, Len(controlFrames) - k + 1, Len(controlFrames)))
        fits(k) == Sum([i \in 1 .. k |-> Length(newest(k)[i])]) <= maxLen
    IN  newest(Max({k \in 0 .. Len(controlFrames) : \A j \in 0 .. k : fits(j)}))

\* How many streams of the queue an entry stands for.
SizeOf(id) == IF id = Crowd THEN CrowdSize ELSE 1

\* AppendStreamFrames, up to its loop.
NewRound(maxLen, limit) ==
    [at |-> "pop", i |-> 0, multiplexedStreams |-> 0, limit |-> limit,
     numActiveStreams |-> Sum([k \in DOMAIN streamQueue |-> SizeOf(streamQueue[k])]),
     maxLen |-> maxLen, length |-> 0, frames |-> <<>>]

RoundOver(r) ==
    /\ r.at = "pop"
    /\ \/ r.i = r.numActiveStreams
       \/ r.multiplexedStreams = r.limit
       \/ MinStreamFrameSize + r.length > r.maxLen

\* What this stream may take: its share of the packet, and the length field
\* that the last frame is going to lose.
RemainingLen(r) ==
    LET share == r.maxLen \div Min({r.numActiveStreams, r.limit})
        remaining == Min({r.maxLen - r.length, share})
    IN  remaining + VarIntLen(remaining)

\* The loop's body up to popStreamFrame.
PopStreamFrame ==
    /\ round.at = "pop" /\ ~RoundOver(round)
    /\ LET id == Head(streamQueue)
       IN  IF id = Crowd \/ stream[id].completed
           THEN /\ activeStreams' = activeStreams \ {id}
                /\ round' = [round EXCEPT !.i = @ + SizeOf(id)]
                /\ UNCHANGED stream
           ELSE \E maxBytes \in {RemainingLen(round)} :
                \E pop \in {popStreamFrame(stream[id], id, maxBytes)} :
                   /\ stream' = [stream EXCEPT ![id] = pop.str]
                   /\ round' = [round EXCEPT !.at = "popped", !.multiplexedStreams = @ + 1]
                                 @@ [id |-> id, frame |-> pop.frame, more |-> pop.more]
                   /\ UNCHANGED activeStreams
    /\ streamQueue' = Tail(streamQueue)
    /\ UNCHANGED <<notify, controlFrames, numEvents>>

\* The rest of it.
RequeueStream ==
    /\ round.at = "popped"
    /\ IF round.more
       THEN streamQueue' = Append(streamQueue, round.id) /\ UNCHANGED activeStreams
       ELSE activeStreams' = activeStreams \ {round.id} /\ UNCHANGED streamQueue
    /\ LET none == round.frame = NoFrame
       IN  round' = [at |-> "pop", i |-> round.i + 1, limit |-> round.limit,
                     multiplexedStreams |-> round.multiplexedStreams,
                     numActiveStreams |-> round.numActiveStreams, maxLen |-> round.maxLen,
                     length |-> round.length + (IF none THEN 0 ELSE Length(round.frame)),
                     frames |-> IF none THEN round.frames ELSE Append(round.frames, round.frame)]
    /\ UNCHANGED <<stream, notify, controlFrames, numEvents>>

\* After the loop the last frame loses its length.
AppendedStreamFrames(r) ==
    IF r.frames = <<>> THEN <<>>
    ELSE Append(Front(r.frames), [Last(r.frames) EXCEPT !.DataLenPresent = FALSE])

-----------------------------------------------------------------------------
(* What becomes of STREAM frames; the session's goroutine calls these. *)

frameAcked(strs, f) ==
    [strs EXCEPT ![f.StreamID] = CheckCompleted([@ EXCEPT !.numOutstandingFrames = @ - 1])]

queueRetransmission(strs, f) ==
    [strs EXCEPT ![f.StreamID] =
        [@ EXCEPT !.numOutstandingFrames = @ - 1,
                  !.retransmissionQueue = Append(@, [f EXCEPT !.DataLenPresent = TRUE])]]
=============================================================================
