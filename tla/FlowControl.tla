----------------------------- MODULE FlowControl -----------------------------
(***************************************************************************)
(* Flow control of one direction of a connection: the sending half of the  *)
(* flow controllers of one endpoint, the receiving half of those of its    *)
(* peer (quic-go/core/flowcontrol), the peer's windowUpdateQueue, and the  *)
(* peer's receive streams as the callers of the controllers                *)
(* (receive_stream.go): Read, CancelRead, and the run loop that handles    *)
(* STREAM and RESET_STREAM frames.  The streams are bidirectional and their *)
(* other half stays open, so that none of them is deleted.                 *)
(*                                                                         *)
(* STREAM data may arrive in any order, late, repeatedly or not at all: any *)
(* offset the sender reached is deliverable at any time.  So is every limit *)
(* ever announced, the transport parameters being the first one.           *)
(*                                                                         *)
(* A receiving controller is a record: read and highest are bytesRead and  *)
(* highestReceived, window and size are receiveWindow and                  *)
(* receiveWindowSize, epoch is epochStartOffset.                           *)
(***************************************************************************)
EXTENDS Integers, FiniteSets

CONSTANTS Streams,
          StreamWindow, MaxStreamWindow,  \* initial and maximal window sizes
          ConnWindow, MaxConnWindow,
          Ending,       \* the streams that end; the others are sent and read only
          MaxData,      \* bound, for each stream: bytes sent on it
          MaxAbandons   \* bound: a stream completed so often gets no further FIN

ASSUME FlowControlAssumption ==
    /\ IsFiniteSet(Streams)
    /\ StreamWindow \in Nat /\ MaxStreamWindow \in Nat
    /\ ConnWindow \in Nat /\ MaxConnWindow \in Nat
    /\ MaxData \in [Streams -> Nat] /\ MaxAbandons \in Nat

VARIABLES
    bytesSent, sendWindow, finished,   \* sender, for each stream
    connBytesSent, connSendWindow,     \* sender, for the connection
    maxStreamData, maxData,            \* limits announced by the receiver
    rcv, conn,                         \* receiving controllers
    receivedFinalOffset,               \* streams whose final offset is known
    canceledRead, resetRemotely, finRead,  \* receive streams with these flags
    abandons,                          \* calls of streamCompleted, up to MaxAbandons
    caller,                            \* calls in progress
    queue, queuedConn,                 \* windowUpdateQueue
    err,                               \* error that closes the connection
    counted                            \* history: bytes of each stream that the
                                       \* connection counted as read

sendVars  == <<bytesSent, sendWindow, finished, connBytesSent, connSendWindow>>
netVars   == <<maxStreamData, maxData>>
finVars   == <<receivedFinalOffset, canceledRead, resetRemotely, finRead, abandons>>
queueVars == <<queue, queuedConn>>
vars == <<sendVars, netVars, finVars, queueVars, rcv, conn, caller, err, counted>>

\* The goroutines that call the controllers of a stream.  There is one run
\* loop for all streams.
Callers == {"Read", "CancelRead", "run"}

Controller == [read : Nat, highest : Nat, window : Nat, size : Nat, epoch : Nat]
CallerPC   == {"idle", "copied", "streamCheck", "streamQueue", "completed",
               "connRead", "connCheck", "connQueue"}
Call       == [pc : CallerPC, n : Nat, last : BOOLEAN]

TypeOK ==
    /\ bytesSent \in [Streams -> Nat] /\ sendWindow \in [Streams -> Nat]
    /\ finished \subseteq Streams
    /\ connBytesSent \in Nat /\ connSendWindow \in Nat
    /\ maxStreamData \in [Streams -> SUBSET Nat] /\ maxData \in SUBSET Nat
    /\ rcv \in [Streams -> Controller] /\ conn \in Controller
    /\ receivedFinalOffset \subseteq Streams /\ canceledRead \subseteq Streams
    /\ resetRemotely \subseteq Streams /\ finRead \subseteq Streams
    /\ abandons \in [Streams -> Nat]
    /\ caller \in [Callers \X Streams -> Call]
    /\ queue \subseteq Streams /\ queuedConn \in BOOLEAN
    /\ err \in {"none", "FinalSizeError", "FlowControlError"}
    /\ counted \in [Streams -> Nat]

Idle == [pc |-> "idle", n |-> 0, last |-> FALSE]

NewController(window) ==
    [read |-> 0, highest |-> 0, window |-> window, size |-> window, epoch |-> 0]

Init ==
    /\ bytesSent = [s \in Streams |-> 0] /\ sendWindow = [s \in Streams |-> 0]
    /\ finished = {}
    /\ connBytesSent = 0 /\ connSendWindow = 0
    /\ maxStreamData = [s \in Streams |-> {StreamWindow}] /\ maxData = {ConnWindow}
    /\ rcv = [s \in Streams |-> NewController(StreamWindow)]
    /\ conn = NewController(ConnWindow)
    /\ receivedFinalOffset = {}
    /\ canceledRead = {} /\ resetRemotely = {} /\ finRead = {}
    /\ abandons = [s \in Streams |-> 0]
    /\ caller = [c \in Callers \X Streams |-> Idle]
    /\ queue = {} /\ queuedConn = FALSE
    /\ err = "none"
    /\ counted = [s \in Streams |-> 0]

WithHighest(fc, highest) ==
    [read |-> fc.read, highest |-> highest, window |-> fc.window,
     size |-> fc.size, epoch |-> fc.epoch]

WithRead(fc, read) ==
    [read |-> read, highest |-> fc.highest, window |-> fc.window,
     size |-> fc.size, epoch |-> fc.epoch]

MinOf(a, b) == IF a <= b THEN a ELSE b

-----------------------------------------------------------------------------
(* Sending. *)

sendWindowSize(window, sent) == IF sent > window THEN 0 ELSE window - sent

SendWindowSize(s) ==
    MinOf(sendWindowSize(sendWindow[s], bytesSent[s]),
          sendWindowSize(connSendWindow, connBytesSent))

\* popNewStreamFrame takes at most SendWindowSize bytes for a STREAM frame.
AddBytesSent(s, n) ==
    /\ s \notin finished
    /\ n \in 1 .. SendWindowSize(s) /\ bytesSent[s] + n <= MaxData[s]
    /\ bytesSent' = [bytesSent EXCEPT ![s] = @ + n]
    /\ connBytesSent' = connBytesSent + n
    /\ UNCHANGED <<sendWindow, finished, connSendWindow, netVars,
                   finVars, queueVars, rcv, conn, caller,
                   err, counted>>

\* The stream's final offset is fixed by Close or CancelWrite.
Finish(s) ==
    /\ finished' = finished \cup {s}
    /\ UNCHANGED <<bytesSent, sendWindow, connBytesSent, connSendWindow,
                   netVars, finVars, queueVars, rcv, conn, caller,
                   err, counted>>

\* A limit that does not exceed the current one is ignored.
UpdateStreamSendWindow(s, offset) ==
    /\ offset > sendWindow[s]
    /\ sendWindow' = [sendWindow EXCEPT ![s] = offset]
    /\ UNCHANGED <<bytesSent, finished, connBytesSent, connSendWindow,
                   netVars, finVars, queueVars, rcv, conn, caller,
                   err, counted>>

UpdateConnSendWindow(offset) ==
    /\ offset > connSendWindow
    /\ connSendWindow' = offset
    /\ UNCHANGED <<bytesSent, sendWindow, finished, connBytesSent, netVars, finVars, queueVars, rcv, conn, caller,
                   err, counted>>

-----------------------------------------------------------------------------
(* Receiving STREAM and RESET_STREAM frames. *)

\* The final offset may not change, and no data may lie beyond it.
FinalSizeError(s, offset, final) ==
    \/ s \in receivedFinalOffset /\ final /\ offset # rcv[s].highest
    \/ s \in receivedFinalOffset /\ offset > rcv[s].highest
    \/ final /\ offset < rcv[s].highest

\* checkFlowControlViolation of the stream, then of the connection.
FlowControlError(s, offset) ==
    /\ offset > rcv[s].highest
    /\ \/ offset > rcv[s].window
       \/ conn.highest + (offset - rcv[s].highest) > conn.window

\* The error UpdateHighestReceived returns, for the offset of a frame.
ReceiveError(s, offset, final) ==
    IF FinalSizeError(s, offset, final) THEN "FinalSizeError"
    ELSE IF FlowControlError(s, offset) THEN "FlowControlError" ELSE "none"

IncrementHighestReceived_EveryFrame(s, offset) == conn.highest + offset

IncrementHighestReceived_Signed(s, offset) ==
    conn.highest + (offset - rcv[s].highest)

IncrementHighestReceived(s, offset) ==
    IF offset > rcv[s].highest THEN conn.highest + (offset - rcv[s].highest)
                               ELSE conn.highest

\* The stream's mutex is held during AddBytesRead of a Read.
Locked(s) == caller[<<"Read", s>>].pc \in
                 {"streamCheck", "streamQueue", "connRead", "connCheck", "connQueue"}

\* The run loop handles one frame after the other.
RunLoopIdle == \A s \in Streams : caller[<<"run", s>>].pc = "idle"

\* An error ends the session; what the controllers hold then is not read any
\* more.
UpdateHighestReceived(s, offset, final) ==
    /\ err = "none" /\ RunLoopIdle /\ ~Locked(s)
    /\ err' = ReceiveError(s, offset, final)
    /\ IF err' = "none"
       THEN /\ receivedFinalOffset' = IF final THEN receivedFinalOffset \cup {s}
                                               ELSE receivedFinalOffset
            /\ rcv' = [rcv EXCEPT ![s] = WithHighest(@,
                           IF offset > @.highest THEN offset ELSE @.highest)]
            /\ conn' = WithHighest(conn, IncrementHighestReceived(s, offset))
       ELSE UNCHANGED <<receivedFinalOffset, rcv, conn>>
    /\ UNCHANGED <<sendVars, netVars, queueVars, counted>>

\* streamCompleted is called after the mutex was released.
CompletedIf(condition, who, s) ==
    caller' = IF condition THEN [caller EXCEPT ![<<who, s>>].pc = "completed"]
                           ELSE caller

\* On a stream whose reader gave up, every FIN completes the stream.
handleStreamFrame(s, offset, fin) ==
    /\ fin /\ s \in canceledRead => abandons[s] < MaxAbandons
    /\ UpdateHighestReceived(s, offset, fin)
    /\ CompletedIf(err' = "none" /\ fin /\ s \in canceledRead, "run", s)
    /\ UNCHANGED <<canceledRead, resetRemotely, finRead, abandons>>

\* The first RESET_STREAM completes the stream, also if it was completed.
handleResetStreamFrame(s) ==
    /\ UpdateHighestReceived(s, bytesSent[s], TRUE)
    /\ resetRemotely' = IF err' = "none" THEN resetRemotely \cup {s}
                                         ELSE resetRemotely
    /\ CompletedIf(err' = "none" /\ s \notin resetRemotely, "run", s)
    /\ UNCHANGED <<canceledRead, finRead, abandons>>

-----------------------------------------------------------------------------
(* Reading: AddBytesRead of the stream's controller, in the steps of its   *)
(* critical sections.  The check for a window update is made under the     *)
(* controller's mutex and acted on after it was released.                  *)

\* bytesRemaining <= 0.75 * receiveWindowSize.  The subtraction is unsigned:
\* with more bytes read than the window allows it wraps to a huge number.
hasWindowUpdate(fc) ==
    fc.read <= fc.window /\ 4 * (fc.window - fc.read) <= 3 * fc.size

\* The caller continues at label, with n bytes that are not counted yet.
At(who, s, label, n) ==
    caller' = [caller EXCEPT ![<<who, s>>] = [pc |-> label, n |-> n, last |-> FALSE]]

\* Read copies n bytes with the mutex released.  The last ones, or none after
\* them, end the stream.
CopyBytes(s, n) ==
    /\ caller[<<"Read", s>>].pc = "idle"
    /\ s \notin finRead \cup canceledRead \cup resetRemotely
    /\ n <= rcv[s].highest - rcv[s].read
    /\ LET last == s \in receivedFinalOffset /\ rcv[s].read + n = rcv[s].highest
       IN  /\ n > 0 \/ last
           /\ caller' = [caller EXCEPT ![<<"Read", s>>] =
                           [pc |-> "copied", n |-> n, last |-> last]]
    /\ UNCHANGED <<sendVars, netVars, finVars, queueVars, rcv, conn, err, counted>>

\* With the mutex held again, the bytes are counted if no RESET_STREAM came
\* meanwhile.
ReadStream(s) ==
    LET c == caller[<<"Read", s>>]
    IN  /\ c.pc = "copied"
        /\ finRead' = IF c.last THEN finRead \cup {s} ELSE finRead
        /\ IF s \in resetRemotely
           THEN At("Read", s, "idle", 0) /\ UNCHANGED rcv
           ELSE /\ At("Read", s, "streamCheck", c.n)
                /\ rcv' = [rcv EXCEPT ![s] = WithRead(@, @.read + c.n)]
        /\ UNCHANGED <<sendVars, netVars, receivedFinalOffset, canceledRead,
                       resetRemotely, abandons, queueVars, conn, err, counted>>

\* maybeQueueWindowUpdate of the stream, then windowUpdateQueue.AddStream.
CheckStream(s) ==
    /\ caller[<<"Read", s>>].pc = "streamCheck"
    /\ At("Read", s, IF s \notin receivedFinalOffset /\ hasWindowUpdate(rcv[s])
                     THEN "streamQueue" ELSE "connRead", caller[<<"Read", s>>].n)
    /\ UNCHANGED <<sendVars, netVars, finVars, queueVars, rcv, conn, err, counted>>

AddStream(s) ==
    /\ caller[<<"Read", s>>].pc = "streamQueue"
    /\ queue' = queue \cup {s}
    /\ At("Read", s, "connRead", caller[<<"Read", s>>].n)
    /\ UNCHANGED <<sendVars, netVars, finVars, queuedConn, rcv, conn, err, counted>>

\* AddBytesRead of the connection, for a Read or an Abandon.
ReadConn(who, s) ==
    LET c == caller[<<who, s>>]
    IN  /\ c.pc = "connRead"
        /\ conn' = WithRead(conn, conn.read + c.n)
        /\ counted' = [counted EXCEPT ![s] = @ + c.n]
        /\ At(who, s, "connCheck", 0)
        /\ UNCHANGED <<sendVars, netVars, finVars, queueVars, rcv, err>>

\* maybeQueueWindowUpdate of the connection, then AddConnection.
CheckConn(who, s) ==
    /\ caller[<<who, s>>].pc = "connCheck"
    /\ At(who, s, IF hasWindowUpdate(conn) THEN "connQueue" ELSE "idle", 0)
    /\ UNCHANGED <<sendVars, netVars, finVars, queueVars, rcv, conn, err, counted>>

AddConnection(who, s) ==
    /\ caller[<<who, s>>].pc = "connQueue"
    /\ queuedConn' = TRUE
    /\ At(who, s, "idle", 0)
    /\ UNCHANGED <<sendVars, netVars, finVars, queue, rcv, conn, err, counted>>

-----------------------------------------------------------------------------
(* Giving up. *)

CancelRead(s) ==
    /\ s \in Ending /\ ~Locked(s)
    /\ s \notin finRead \cup canceledRead \cup resetRemotely
    /\ canceledRead' = canceledRead \cup {s}
    /\ CompletedIf(s \in receivedFinalOffset, "CancelRead", s)
    /\ UNCHANGED <<sendVars, netVars, receivedFinalOffset, resetRemotely, finRead,
                   abandons, queueVars, rcv, conn, err, counted>>

UnreadBytes(s) == rcv[s].highest - rcv[s].read

\* streamCompleted: if the end was not read, Abandon counts what is unread.
\* It reads the two counters without a mutex: a Read may have copied bytes
\* that it has not counted yet, and Abandon may have been called before.
Abandon_CountsNothing(who, s) ==
    /\ caller[<<who, s>>].pc = "completed" /\ ~Locked(s)
    /\ At(who, s, "idle", 0)
    /\ abandons' = [abandons EXCEPT ![s] = MinOf(@ + 1, MaxAbandons)]
    /\ UNCHANGED <<sendVars, netVars, receivedFinalOffset, canceledRead,
                   resetRemotely, finRead, queueVars, rcv, conn, err, counted>>

Abandon(who, s) ==
    /\ caller[<<who, s>>].pc = "completed" /\ ~Locked(s)
    /\ LET n == UnreadBytes(s)
       IN  IF s \notin finRead /\ n > 0
           THEN At(who, s, "connRead", n)
           ELSE At(who, s, "idle", 0)
    /\ abandons' = [abandons EXCEPT ![s] = MinOf(@ + 1, MaxAbandons)]
    /\ UNCHANGED <<sendVars, netVars, receivedFinalOffset, canceledRead,
                   resetRemotely, finRead, queueVars, rcv, conn, err, counted>>

-----------------------------------------------------------------------------
(* Window updates.  Auto-tuning compares wall-clock times: whether the RTT *)
(* is known and whether the window was consumed too fast is a choice.      *)

Outcomes == {"noRTT", "slow", "fast"}

\* startNewAutoTuningEpoch, with the window size of the new epoch.
NewEpoch(fc, size) ==
    [read |-> fc.read, highest |-> fc.highest, window |-> fc.window,
     size |-> size, epoch |-> fc.read]

maybeAdjustWindowSize_NoMaximum(fc, maxSize, outcome) ==
    IF fc.read - fc.epoch <= fc.size \div 2 \/ outcome = "noRTT" THEN fc
    ELSE NewEpoch(fc, IF outcome = "fast" THEN 2 * fc.size ELSE fc.size)

maybeAdjustWindowSize(fc, maxSize, outcome) ==
    IF fc.read - fc.epoch <= fc.size \div 2 \/ outcome = "noRTT" THEN fc
    ELSE NewEpoch(fc, IF outcome = "fast" THEN MinOf(2 * fc.size, maxSize)
                                          ELSE fc.size)

getWindowUpdate(fc, maxSize, outcome) ==
    IF ~hasWindowUpdate(fc) THEN fc
    ELSE LET tuned == maybeAdjustWindowSize(fc, maxSize, outcome)
         IN  [tuned EXCEPT !.window = tuned.read + tuned.size]

\* The offset returned by GetWindowUpdate: 0 if no update is necessary.  A
\* MAX_DATA frame with 0 is sent all the same, and changes nothing.
UpdateOffset(fc, updated) == IF hasWindowUpdate(fc) THEN updated.window ELSE 0

EnsureMinimumWindowSize(fc, inc) ==
    IF inc > fc.size THEN NewEpoch(fc, MinOf(inc, MaxConnWindow)) ELSE fc

\* ConnectionFlowControlMultiplier = 1.5
ConnSizeFor(size) == (3 * size) \div 2

\* The streams for which QueueAll announces a new limit.
Updates == {s \in queue \ receivedFinalOffset : hasWindowUpdate(rcv[s])}

\* The stream controllers after QueueAll, given how auto-tuning decided.
StreamsUpdated(outcome) ==
    [s \in Streams |->
        IF s \in Updates THEN getWindowUpdate(rcv[s], MaxStreamWindow, outcome[s])
                         ELSE rcv[s]]

ConnUpdated(outcome) ==
    IF queuedConn THEN getWindowUpdate(conn, MaxConnWindow, outcome) ELSE conn

\* windowUpdateQueue.QueueAll, called by the run loop before it sends: first
\* the connection, then every queued stream.  A stream without an update
\* (final offset known, or nothing to announce) stays in the queue.  The
\* largest stream window that grew decides the connection's window size.
QueueAll ==
    /\ RunLoopIdle
    /\ queue # {} \/ queuedConn
    /\ \E connOutcome \in Outcomes, outcome \in [queue -> Outcomes] :
         LET rcvNew  == StreamsUpdated(outcome)
             connNew == ConnUpdated(connOutcome)
             grown   == {s \in Updates : rcvNew[s].size > rcv[s].size}
         IN  /\ rcv' = rcvNew
             /\ \E largest \in {0} \cup {rcvNew[s].size : s \in grown} :
                  /\ \A s \in grown : rcvNew[s].size <= largest
                  /\ conn' = EnsureMinimumWindowSize(connNew, ConnSizeFor(largest))
             /\ maxData' = IF queuedConn
                           THEN maxData \cup ({UpdateOffset(conn, connNew)} \ {0})
                           ELSE maxData
             /\ maxStreamData' = [s \in Streams |->
                   IF s \in Updates THEN maxStreamData[s] \cup {rcvNew[s].window}
                                    ELSE maxStreamData[s]]
    /\ queue' = queue \ Updates
    /\ queuedConn' = FALSE
    /\ UNCHANGED <<sendVars, finVars, caller, err, counted>>

-----------------------------------------------------------------------------
SendStep(s) ==
    \/ \E n \in 1 .. MaxData[s] : AddBytesSent(s, n)
    \/ s \in Ending \ finished /\ Finish(s)
    \/ \E offset \in maxStreamData[s] : UpdateStreamSendWindow(s, offset)

\* The final offset comes with a FIN, or with a RESET_STREAM if the sender
\* cancelled.
ReceiveStep(s) ==
    \/ \E offset \in 0 .. bytesSent[s] : handleStreamFrame(s, offset, FALSE)
    \/ s \in finished /\ handleStreamFrame(s, bytesSent[s], TRUE)
    \/ s \in finished /\ handleResetStreamFrame(s)

ReadStep(s) ==
    \/ \E n \in 0 .. MaxData[s] : CopyBytes(s, n)
    \/ ReadStream(s) \/ CheckStream(s) \/ AddStream(s)

CountStep(who, s) ==
    \/ ReadConn(who, s) \/ CheckConn(who, s) \/ AddConnection(who, s)
    \/ Abandon(who, s)

Next ==
    \/ \E s \in Streams :
         \/ SendStep(s) \/ ReceiveStep(s) \/ ReadStep(s) \/ CancelRead(s)
         \/ \E who \in Callers : CountStep(who, s)
    \/ \E offset \in maxData : UpdateConnSendWindow(offset)
    \/ QueueAll

Spec == Init /\ [][Next]_vars

\* What drives a transfer to its end: the sender sends while it may, lost
\* frames are retransmitted until one copy of the highest offset, of the final
\* offset and of the latest limit arrives, STOP_SENDING reaches the sender and
\* makes it cancel, the application keeps reading unless it cancelled, and the
\* run loop sends the queued window updates.
Fairness ==
    /\ \A s \in Streams :
         /\ WF_vars(\E n \in 1 .. MaxData[s] : AddBytesSent(s, n))
         /\ WF_vars(s \in canceledRead \ finished /\ Finish(s))
         /\ WF_vars(\E offset \in maxStreamData[s] :
                        /\ \A o \in maxStreamData[s] : o <= offset
                        /\ UpdateStreamSendWindow(s, offset))
         /\ WF_vars(rcv[s].highest < bytesSent[s]
                        /\ handleStreamFrame(s, bytesSent[s], FALSE))
         /\ WF_vars(/\ s \in finished \ receivedFinalOffset
                    /\ \/ handleStreamFrame(s, bytesSent[s], TRUE)
                       \/ handleResetStreamFrame(s))
         /\ WF_vars(ReadStep(s) \/ CountStep("Read", s))
         /\ WF_vars(CountStep("CancelRead", s)) /\ WF_vars(CountStep("run", s))
    /\ WF_vars(\E offset \in maxData : /\ \A o \in maxData : o <= offset
                                       /\ UpdateConnSendWindow(offset))
    /\ WF_vars(QueueAll)

LiveSpec == Spec /\ Fairness

-----------------------------------------------------------------------------
(* Properties. *)

\* The configured maxima leave room for the initial windows.
ConfigOK == StreamWindow <= MaxStreamWindow /\ ConnWindow <= MaxConnWindow

\* A sender that respects the windows it was told of is never accused of a
\* flow control or final size violation, whatever is lost or reordered.
NoFalseError == err = "none"

\* By its own count, a controller buffers no more than the configured
\* maximum.
BufferedDataBounded ==
    /\ \A s \in Streams : rcv[s].highest - rcv[s].read <= MaxStreamWindow
    /\ conn.highest - conn.read <= MaxConnWindow

\* A limit once announced is never taken back.
WindowsNeverShrink ==
    [][/\ \A s \in Streams : rcv'[s].window >= rcv[s].window
       /\ conn'.window >= conn.window]_vars

\* The connection counted bytes of a stream twice (Abandon called while a Read
\* had copied and not counted, or called again for a further FIN or for a
\* RESET_STREAM after CancelRead), or never (a Read of the last bytes during
\* which RESET_STREAM came: neither Read nor Abandon counts them).
Miscounted ==
    \E s \in Streams :
        \/ counted[s] > rcv[s].highest
        \/ /\ s \in finRead \cap resetRemotely /\ counted[s] < rcv[s].highest
           /\ \A who \in Callers : caller[<<who, s>>].pc = "idle"

\* Flow control never blocks a transfer for good: as long as the receiver
\* reads, every byte a stream still wants to send gets through, although other
\* streams of the connection end, are reset or cancelled.  Excluded is what
\* follows once receive_stream.go counts bytes twice or not at all
\* (Miscounted): the connection's bytesRead then passes its window, so that
\* the subtraction of hasWindowUpdate wraps, or stays behind what was read,
\* and no MAX_DATA is sent any more.
EverythingIsRead ==
    \A s \in Streams : <>(s \in finished \/ rcv[s].read = MaxData[s] \/ Miscounted)
=============================================================================
