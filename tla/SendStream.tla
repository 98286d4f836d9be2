----------------------------- MODULE SendStream -----------------------------
(***************************************************************************)
(* The sending half of a stream (quic-go/send_stream.go): a goroutine in   *)
(* Write, one in Close, CancelWrite or SetWriteDeadline, and the run loop, *)
(* which pops frames for a packet, learns of their fate, and handles       *)
(* STOP_SENDING and MAX_STREAM_DATA frames.                                *)
(*                                                                         *)
(* A section between two operations on the stream's mutex is one step.     *)
(* A frame is the interval of its bytes and its FIN bit.  The room of a    *)
(* packet is how many bytes of data a frame may have; with room 0 not even *)
(* its header fits.  active says whether the framer will ask the stream    *)
(* for frames (framer.go).                                                 *)
(***************************************************************************)
EXTENDS Integers, Sequences, FiniteSets

CONSTANTS Length,        \* bound: bytes the application writes
          Rooms,         \* room a packet may have for this stream
          MaxLosses      \* bound: frames declared lost

VARIABLES
    dataForWriting,      \* bytes that Write still has to send (0: nil)
    writeOffset,
    finishedWriting, canceledWrite, closedForShutdown, finSent, completed,
    writeChan, deadline, \* a signal in the channel; "none", "set", "expired"
    writer,              \* where Write is, and whether it has set a timer
    doing,               \* what App and RunLoop do after unlocking
    retransmissionQueue, numOutstandingFrames,
    inFlight, ackedBytes, finAcked, losses,
    sendWindow, connWindow, lastBlockedAt, blockedFrames,
    active,
    resetOffsets,        \* final offsets of the RESET_STREAM frames queued
    completions,         \* calls of onStreamCompleted
    deletions            \* of the whole stream, from the streams map (module Stream)

endVars   == <<finishedWriting, canceledWrite, closedForShutdown>>
writeVars == <<dataForWriting, writer, deadline>>
sentVars  == <<writeOffset, finSent, retransmissionQueue, numOutstandingFrames,
               inFlight, ackedBytes, finAcked, losses>>
flowVars  == <<sendWindow, connWindow, lastBlockedAt, blockedFrames>>
doneVars  == <<completed, completions, resetOffsets>>
vars == <<endVars, writeVars, sentVars, flowVars, doneVars, writeChan, doing, active>>

Frame  == [start : 0 .. Length, end : 0 .. Length, fin : BOOLEAN]
Actors == {"App", "RunLoop"}

TypeOK ==
    /\ dataForWriting \in 0 .. Length /\ writeOffset \in 0 .. Length
    /\ {finishedWriting, canceledWrite, closedForShutdown, finSent, completed,
        writeChan, finAcked, active} \subseteq BOOLEAN
    /\ deadline \in {"none", "set", "expired"}
    /\ writer \in {"idle", "notify", "notifyTimer", "wait", "waitTimer"}
    /\ doing \in [Actors -> {"nothing", "close", "reset", "resetCompleted", "completed"}]
    /\ retransmissionQueue \in Seq(Frame) /\ inFlight \subseteq Frame
    /\ numOutstandingFrames = Cardinality(inFlight)
    /\ ackedBytes \subseteq 0 .. Length - 1 /\ losses \in 0 .. MaxLosses
    /\ {sendWindow, connWindow, lastBlockedAt} \subseteq 0 .. Length
    /\ blockedFrames \subseteq 0 .. Length
    /\ resetOffsets \subseteq 0 .. Length /\ completions \in 0 .. 2

Init ==
    /\ dataForWriting = 0 /\ writeOffset = 0
    /\ finishedWriting = FALSE /\ canceledWrite = FALSE /\ closedForShutdown = FALSE
    /\ finSent = FALSE /\ completed = FALSE
    /\ writeChan = FALSE /\ deadline = "none" /\ writer = "idle"
    /\ doing = [a \in Actors |-> "nothing"]
    /\ retransmissionQueue = <<>> /\ numOutstandingFrames = 0
    /\ inFlight = {} /\ ackedBytes = {} /\ finAcked = FALSE /\ losses = 0
    /\ sendWindow \in 0 .. 1 /\ connWindow \in 0 .. 1
    /\ lastBlockedAt = 0 /\ blockedFrames = {}
    /\ active = FALSE
    /\ resetOffsets = {} /\ completions = 0

MinOf(a, b) == IF a <= b THEN a ELSE b

signalWrite_Lost == UNCHANGED writeChan

signalWrite == writeChan' = TRUE

\* onHasStreamData: the framer will ask the stream for frames.
onHasStreamData == active' = TRUE

-----------------------------------------------------------------------------
(* Write. *)

Waiting == IF deadline = "set" THEN "waitTimer" ELSE "wait"

Write(n) ==
    /\ writer = "idle"
    /\ ~finishedWriting /\ ~canceledWrite /\ ~closedForShutdown /\ deadline # "expired"
    /\ dataForWriting' = n
    /\ writer' = IF deadline = "set" THEN "notifyTimer" ELSE "notify"
    /\ UNCHANGED <<endVars, deadline, sentVars, flowVars, doneVars, writeChan, doing,
                   active>>

\* onHasStreamData is called without the mutex, then Write waits.
NotifySender ==
    /\ writer \in {"notify", "notifyTimer"}
    /\ onHasStreamData
    /\ writer' = IF writer = "notify" THEN "wait" ELSE "waitTimer"
    /\ UNCHANGED <<endVars, dataForWriting, deadline, sentVars, flowVars, doneVars,
                   writeChan, doing>>

\* A signal or the timer ends the wait.  After the deadline what was not sent
\* is dropped.
WriteWoken ==
    /\ \/ writer \in {"wait", "waitTimer"} /\ writeChan /\ writeChan' = FALSE
       \/ writer = "waitTimer" /\ deadline = "expired" /\ UNCHANGED writeChan
    /\ \/ /\ deadline = "expired"
          /\ dataForWriting' = 0
          /\ writer' = "idle"
       \/ /\ deadline # "expired"
          /\ writer' = IF dataForWriting = 0 \/ canceledWrite \/ closedForShutdown
                       THEN "idle" ELSE Waiting
          /\ UNCHANGED dataForWriting
    /\ UNCHANGED <<endVars, deadline, sentVars, flowVars, doneVars, doing, active>>

-----------------------------------------------------------------------------
(* Frames. *)

\* SendWindowSize, of the stream and of the connection.
WindowSize == MinOf(sendWindow, connWindow) - writeOffset

IsNewlyBlocked == sendWindow = writeOffset /\ sendWindow # lastBlockedAt

Sends_NotCounted(f) ==
    /\ inFlight' = inFlight \cup {f}
    /\ numOutstandingFrames' = numOutstandingFrames

Sends(f) ==
    /\ inFlight' = inFlight \cup {f}
    /\ numOutstandingFrames' = numOutstandingFrames + 1

\* MaybeSplitOffFrame: the part that is sent now, and what stays queued.
SplitOff(f, room) == [f EXCEPT !.end = f.start + room, !.fin = FALSE]

Remainder_Whole(f, room) == f

Remainder(f, room) == [f EXCEPT !.start = f.start + room]

\* maybeGetRetransmission: the first queued frame, or as much as has room.
\* The stream always claims to have more.
PopRetransmission(room) ==
    /\ active /\ deletions = 0 /\ retransmissionQueue # <<>>
    /\ room > 0
    /\ LET f == Head(retransmissionQueue)
       IN  IF f.end - f.start <= room
           THEN /\ Sends(f)
                /\ retransmissionQueue' = Tail(retransmissionQueue)
           ELSE /\ Sends(SplitOff(f, room))
                /\ retransmissionQueue' =
                     [retransmissionQueue EXCEPT ![1] = Remainder(f, room)]
    /\ UNCHANGED <<endVars, writeVars, writeOffset, finSent, ackedBytes, finAcked,
                   losses, flowVars, doneVars, writeChan, doing, active>>

\* popNewStreamFrame, and what the framer does with a stream that claims to
\* have no more data.
NewBytes(room) == MinOf(MinOf(dataForWriting, room), WindowSize)

HasFin(n) == finishedWriting /\ n = dataForWriting /\ ~finSent

PopsNew_IgnoresCancel ==
    /\ active /\ deletions = 0 /\ retransmissionQueue = <<>>
    /\ ~closedForShutdown

PopsNew ==
    /\ active /\ deletions = 0 /\ retransmissionQueue = <<>>
    /\ ~canceledWrite /\ ~closedForShutdown

PopNothingMore ==
    /\ active
    /\ \/ deletions > 0
       \/ retransmissionQueue = <<>> /\ (canceledWrite \/ closedForShutdown)
    /\ active' = FALSE
    /\ UNCHANGED <<endVars, writeVars, sentVars, flowVars, doneVars, writeChan, doing>>

PopNoRoom ==
    /\ PopsNew
    /\ 0 \in Rooms
    /\ active' = (dataForWriting > 0)
    /\ UNCHANGED <<endVars, writeVars, sentVars, flowVars, doneVars, writeChan, doing>>

PopBlocked(room) ==
    /\ PopsNew
    /\ room > 0 /\ NewBytes(room) = 0 /\ ~HasFin(0)
    /\ active' = (dataForWriting > 0 /\ ~IsNewlyBlocked)
    /\ IF dataForWriting > 0 /\ IsNewlyBlocked
       THEN /\ lastBlockedAt' = sendWindow
            /\ blockedFrames' = blockedFrames \cup {sendWindow}
       ELSE UNCHANGED <<lastBlockedAt, blockedFrames>>
    /\ UNCHANGED <<endVars, writeVars, sentVars, sendWindow, connWindow, doneVars,
                   writeChan, doing>>

PopNew(room) ==
    /\ PopsNew
    /\ room > 0
    /\ LET n == NewBytes(room)
       IN  /\ n > 0 \/ HasFin(0)
           /\ Sends([start |-> writeOffset, end |-> writeOffset + n, fin |-> HasFin(n)])
           /\ finSent' = (finSent \/ HasFin(n))
           /\ writeOffset' = writeOffset + n
           /\ dataForWriting' = dataForWriting - n
           /\ active' = (dataForWriting' > 0)
           /\ IF n > 0 /\ dataForWriting' = 0 THEN signalWrite ELSE UNCHANGED writeChan
    /\ UNCHANGED <<endVars, writer, deadline, retransmissionQueue, ackedBytes, finAcked,
                   losses, flowVars, doneVars, doing>>

\* isNewlyCompleted, for the values the caller leaves behind.
CanComplete(canceled, outstanding) ==
    (finSent \/ canceled) /\ outstanding = 0 /\ retransmissionQueue = <<>>

NewlyCompleted(canceled, outstanding) == CanComplete(canceled, outstanding) /\ ~completed

frameAcked(f) ==
    /\ f \in inFlight
    /\ inFlight' = inFlight \ {f}
    /\ numOutstandingFrames' = numOutstandingFrames - 1
    /\ ackedBytes' = ackedBytes \cup (f.start .. f.end - 1)
    /\ finAcked' = (finAcked \/ f.fin)
    /\ IF NewlyCompleted(canceledWrite, numOutstandingFrames')
       THEN completed' = TRUE /\ doing' = [doing EXCEPT !["RunLoop"] = "completed"]
       ELSE UNCHANGED <<completed, doing>>
    /\ UNCHANGED <<endVars, writeVars, writeOffset, finSent, retransmissionQueue, losses,
                   flowVars, completions, resetOffsets, writeChan, active>>

\* The packet with the frame was lost.
queueRetransmission(f) ==
    /\ f \in inFlight /\ losses < MaxLosses
    /\ losses' = losses + 1
    /\ inFlight' = inFlight \ {f}
    /\ numOutstandingFrames' = numOutstandingFrames - 1
    /\ retransmissionQueue' = Append(retransmissionQueue, f)
    /\ onHasStreamData
    /\ UNCHANGED <<endVars, writeVars, writeOffset, finSent, ackedBytes, finAcked,
                   flowVars, doneVars, writeChan, doing>>

-----------------------------------------------------------------------------
(* Ending the stream. *)

Close ==
    /\ doing["App"] = "nothing" /\ writer = "idle"
    /\ ~canceledWrite
    /\ finishedWriting' = TRUE
    /\ doing' = [doing EXCEPT !["App"] = "close"]
    /\ UNCHANGED <<canceledWrite, closedForShutdown, writeVars, sentVars, flowVars,
                   doneVars, writeChan, active>>

CloseNotifies ==
    /\ doing["App"] = "close"
    /\ onHasStreamData
    /\ doing' = [doing EXCEPT !["App"] = "nothing"]
    /\ UNCHANGED <<endVars, writeVars, sentVars, flowVars, doneVars, writeChan>>

\* CancelWrite by the application, or STOP_SENDING in the run loop.
cancelWriteImpl(a) ==
    /\ doing[a] = "nothing" /\ ~canceledWrite
    /\ a = "RunLoop" => deletions = 0 /\ ~closedForShutdown
    /\ canceledWrite' = TRUE
    /\ IF NewlyCompleted(TRUE, numOutstandingFrames)
       THEN completed' = TRUE /\ doing' = [doing EXCEPT ![a] = "resetCompleted"]
       ELSE doing' = [doing EXCEPT ![a] = "reset"] /\ UNCHANGED completed
    /\ UNCHANGED <<finishedWriting, closedForShutdown, writeVars, sentVars, flowVars,
                   completions, resetOffsets, writeChan, active>>

\* After unlocking: wake Write, queue RESET_STREAM with the offset read now.
QueueReset(a) ==
    /\ doing[a] \in {"reset", "resetCompleted"}
    /\ signalWrite
    /\ resetOffsets' = resetOffsets \cup {writeOffset}
    /\ doing' = [doing EXCEPT ![a] = IF @ = "reset" THEN "nothing" ELSE "completed"]
    /\ UNCHANGED <<endVars, writeVars, sentVars, flowVars, completed, completions, active>>

OnStreamCompleted(a) ==
    /\ doing[a] = "completed"
    /\ completions' = completions + 1
    /\ doing' = [doing EXCEPT ![a] = "nothing"]
    /\ UNCHANGED <<endVars, writeVars, sentVars, flowVars, completed, resetOffsets,
                   writeChan, active>>

closeForShutdown ==
    /\ doing["RunLoop"] = "nothing" /\ ~closedForShutdown
    /\ closedForShutdown' = TRUE
    /\ signalWrite
    /\ UNCHANGED <<finishedWriting, canceledWrite, writeVars, sentVars, flowVars,
                   doneVars, doing, active>>

SetWriteDeadline(d) ==
    /\ doing["App"] = "nothing" /\ deadline # d
    /\ deadline' = d
    /\ signalWrite
    /\ UNCHANGED <<endVars, dataForWriting, writer, sentVars, flowVars, doneVars, doing,
                   active>>

TimePasses ==
    /\ deadline = "set"
    /\ deadline' = "expired"
    /\ UNCHANGED <<endVars, dataForWriting, writer, sentVars, flowVars, doneVars,
                   writeChan, doing, active>>

handleMaxStreamDataFrame ==
    /\ sendWindow < Length /\ deletions = 0
    /\ sendWindow' = sendWindow + 1
    /\ active' = (active \/ dataForWriting > 0)
    /\ UNCHANGED <<endVars, writeVars, sentVars, connWindow, lastBlockedAt,
                   blockedFrames, doneVars, writeChan, doing>>

handleMaxDataFrame ==
    /\ connWindow < Length
    /\ connWindow' = connWindow + 1
    /\ UNCHANGED <<endVars, writeVars, sentVars, sendWindow, lastBlockedAt,
                   blockedFrames, doneVars, writeChan, doing, active>>

-----------------------------------------------------------------------------
\* The run loop packs no frames while it handles one, nor after shutdown.
RunLoopReady == doing["RunLoop"] = "nothing" /\ ~closedForShutdown

Pop ==
    /\ RunLoopReady
    /\ \/ PopNothingMore \/ PopNoRoom
       \/ \E room \in Rooms : PopRetransmission(room) \/ PopBlocked(room) \/ PopNew(room)

PopData ==
    RunLoopReady /\ \E room \in Rooms : PopRetransmission(room) \/ PopNew(room)

Acked == RunLoopReady /\ \E f \in inFlight : frameAcked(f)
Lost  == RunLoopReady /\ \E f \in inFlight : queueRetransmission(f)

RaiseStreamLimit == RunLoopReady /\ handleMaxStreamDataFrame
RaiseConnectionLimit == RunLoopReady /\ handleMaxDataFrame

WriteStep == NotifySender \/ WriteWoken

After(a) == (a = "App" /\ CloseNotifies) \/ QueueReset(a) \/ OnStreamCompleted(a)

Next ==
    \/ \E n \in 1 .. Length - writeOffset : Write(n)
    \/ WriteStep \/ Pop \/ Acked \/ Lost
    \/ Close \/ closeForShutdown
    \/ \E a \in Actors : cancelWriteImpl(a) \/ After(a)
    \/ \E d \in {"none", "set"} : SetWriteDeadline(d)
    \/ TimePasses
    \/ RaiseStreamLimit \/ RaiseConnectionLimit

-----------------------------------------------------------------------------
(* Properties. *)

FrameBytes(f) == f.start .. f.end - 1
Queued == {retransmissionQueue[i] : i \in 1 .. Len(retransmissionQueue)}

\* Splitting, losing and retransmitting frames neither drops nor duplicates a
\* byte: each byte sent is acknowledged, in flight or queued, and only once.
EveryByteOnce ==
    /\ (UNION {FrameBytes(f) : f \in inFlight \cup Queued}) \cup ackedBytes
         = 0 .. writeOffset - 1
    /\ \A f, g \in inFlight \cup Queued :
         f # g => FrameBytes(f) \cap FrameBytes(g) = {}
    /\ \A f \in inFlight \cup Queued : FrameBytes(f) \cap ackedBytes = {}

\* However acknowledgements, losses, CancelWrite and STOP_SENDING race, a stream
\* is reported as completed once (twice would close the session), and unless it
\* was canceled all its data and its FIN are acknowledged by then.
CompletedOnceWhenAcked ==
    /\ completions <= 1
    /\ completed /\ ~canceledWrite => finAcked /\ ackedBytes = 0 .. writeOffset - 1

\* The final offset told to the peer, in a FIN or in a RESET_STREAM whose
\* offset is read without the mutex, is final.
FinalOffsetIsFinal ==
    [][finSent \/ resetOffsets # {} => writeOffset' = writeOffset]_vars

\* Write returns, once its data was sent or the stream was ended.
WriteReturns == writer # "idle" ~> writer = "idle"

\* Only the FIN is left to send, and the framer does not ask for it.
FinIsForgotten ==
    ~active /\ dataForWriting = 0 /\ ~finSent /\ retransmissionQueue = <<>>

\* A closed stream is completed, or canceled, or shut down, except if its FIN
\* came up in a packet without room for it (popNewStreamFrame then says that
\* there is no more to send).
ClosedIsCompletedOrForgotten ==
    finishedWriting ~> \/ completed \/ canceledWrite \/ closedForShutdown
                       \/ []FinIsForgotten
=============================================================================
