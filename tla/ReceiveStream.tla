---------------------------- MODULE ReceiveStream ----------------------------
(***************************************************************************)
(* The receiving half of a stream (quic-go/receive_stream.go): one         *)
(* goroutine in Read, one in CancelRead or SetReadDeadline, and the run    *)
(* loop that handles STREAM and RESET_STREAM frames.                       *)
(*                                                                         *)
(* A section between two operations on the stream's mutex is one step.     *)
(* Read releases the mutex while it waits for a signal on readChan and     *)
(* while it copies; streamCompleted runs after it was released.  The frame *)
(* sorter returns what module ReorderBuffer allows, in frames of any       *)
(* length.  It returns the next byte if it has it, as long as the peer     *)
(* retransmits frames whole; after frames that overlap it may keep it back *)
(* (module FrameSorter).  The flow controllers are the counters that       *)
(* AddBytesRead and Abandon change.                                        *)
(***************************************************************************)
EXTENDS Integers, FiniteSets

CONSTANTS Length,           \* bytes of the stream: its final offset
          MaxRead,          \* bound: size of the slice passed to Read
          MaxCompletions    \* bound: no more frames after as many completions

Actors == {"Read", "App", "RunLoop"}
Infinity == Length + 1      \* protocol.MaxByteCount

VARIABLES
    received, highest,      \* the frame sorter, the offset of the flow controller
    frames, overlapped,     \* the frames pushed to the sorter; two differ and overlap
    sorterPos,              \* the sorter's readPos
    frame, posInFrame,      \* currentFrame (nil, len, last), readPosInFrame
    readOffset, finalOffset,
    finRead, canceledRead, resetRemotely, closedForShutdown,
    readChan,               \* whether the channel holds a signal
    deadline,               \* "none", "set" or "expired"
    reader,                 \* Read: where it is, the space left, bytes read
    completing,             \* streamCompleted, for each actor
    bytesRead, connBytesRead,  \* flow control: of the stream, of the connection
    completions,            \* calls of onStreamCompleted
    deletions               \* of the whole stream, from the streams map (module Stream)

dataVars == <<received, highest, frames, overlapped, finalOffset>>
readVars == <<sorterPos, frame, posInFrame, readOffset, finRead, reader>>
endVars  == <<canceledRead, resetRemotely, closedForShutdown>>
flowVars == <<bytesRead, connBytesRead>>
vars == <<dataVars, readVars, endVars, flowVars, readChan, deadline, completing,
          completions>>

TypeOK ==
    /\ received \subseteq 0 .. Length - 1 /\ highest \in 0 .. Length
    /\ frames \subseteq (0 .. Length) \X (0 .. Length) /\ overlapped \in BOOLEAN
    /\ sorterPos \in 0 .. Length
    /\ frame \in [nil : BOOLEAN, len : 0 .. Length, last : BOOLEAN]
    /\ posInFrame \in 0 .. frame.len /\ readOffset \in 0 .. Length
    /\ finalOffset \in {Length, Infinity}
    /\ finRead \in BOOLEAN /\ canceledRead \in BOOLEAN
    /\ resetRemotely \in BOOLEAN /\ closedForShutdown \in BOOLEAN
    /\ readChan \in BOOLEAN /\ deadline \in {"none", "set", "expired"}
    /\ reader \in [pc : {"idle", "wait", "waitTimer", "copy", "account", "completing"},
                   space : 0 .. MaxRead, n : 0 .. MaxRead, m : 0 .. MaxRead]
    /\ completing \in [Actors -> {"no", "check", "abandon", "notify"}]
    /\ bytesRead \in 0 .. Length /\ connBytesRead \in Nat
    /\ completions \in Nat

Nil(last) == [nil |-> TRUE, len |-> 0, last |-> last]

Init ==
    /\ received = {} /\ highest = 0 /\ frames = {} /\ overlapped = FALSE /\ sorterPos = 0
    /\ frame = Nil(FALSE) /\ posInFrame = 0 /\ readOffset = 0
    /\ finalOffset = Infinity
    /\ finRead = FALSE /\ canceledRead = FALSE /\ resetRemotely = FALSE
    /\ closedForShutdown = FALSE
    /\ readChan = FALSE /\ deadline = "none"
    /\ reader = [pc |-> "idle", space |-> 0, n |-> 0, m |-> 0]
    /\ completing = [a \in Actors |-> "no"]
    /\ bytesRead = 0 /\ connBytesRead = 0 /\ completions = 0

MinOf(a, b) == IF a <= b THEN a ELSE b

-----------------------------------------------------------------------------
(* Read. *)

\* What dequeueNextFrame may get from the sorter: the frame that starts at its
\* position, or nothing.  Of frames that overlapped it has pieces, and may keep
\* them back.
Pieces ==
    {k \in 1 .. Length - sorterPos :
        /\ sorterPos .. sorterPos + k - 1 \subseteq received
        /\ overlapped \/ <<sorterPos, sorterPos + k>> \in frames}

Dequeued ==
    {[nil |-> FALSE, len |-> k, last |-> sorterPos + k >= finalOffset] : k \in Pieces}
        \cup (IF overlapped \/ Pieces = {} THEN {Nil(sorterPos >= finalOffset)} ELSE {})

dequeueNextFrame ==
    /\ frame' \in Dequeued
    /\ sorterPos' = sorterPos + frame'.len
    /\ posInFrame' = 0

\* Where Read goes on, once currentFrame was updated: it returns on an error
\* or an expired deadline, copies if there is a frame or the end, or waits.
Errors == canceledRead \/ resetRemotely \/ closedForShutdown

Continue ==
    IF Errors \/ deadline = "expired" THEN "idle"
    ELSE IF ~frame'.nil \/ frame'.last THEN "copy"
    ELSE IF deadline = "set" THEN "waitTimer" ELSE "wait"

\* One turn of Read's outer loop, up to where the mutex is released.
LoopTurn(space, n) ==
    /\ IF frame.nil \/ posInFrame >= frame.len THEN dequeueNextFrame
       ELSE UNCHANGED <<frame, sorterPos, posInFrame>>
    /\ reader' = [pc |-> IF frame'.nil /\ n > 0 THEN "idle" ELSE Continue,
                  space |-> space, n |-> n, m |-> 0]

MayRead == ~finRead /\ ~Errors

\* Read is called with room for space bytes.
Read(space) ==
    /\ reader.pc = "idle"
    /\ MayRead
    /\ LoopTurn(space, 0)
    /\ UNCHANGED <<dataVars, endVars, flowVars, readOffset, finRead, readChan,
                   deadline, completing, completions>>

\* The wait ends with a signal or the deadline.  Only now is a frame dequeued.
Woken ==
    /\ \/ reader.pc \in {"wait", "waitTimer"} /\ readChan /\ readChan' = FALSE
       \/ reader.pc = "waitTimer" /\ deadline = "expired" /\ UNCHANGED readChan
    /\ dequeueNextFrame
    /\ reader' = [reader EXCEPT !.pc = Continue]
    /\ UNCHANGED <<dataVars, endVars, flowVars, readOffset, finRead, deadline,
                   completing, completions>>

\* The bytes are copied without the mutex.
BytesToCopy == MinOf(reader.space, frame.len - posInFrame)

Copy ==
    /\ reader.pc = "copy"
    /\ LET m == BytesToCopy
       IN  /\ posInFrame' = posInFrame + m
           /\ readOffset' = readOffset + m
           /\ reader' = [pc |-> "account", space |-> reader.space - m,
                         n |-> reader.n + m, m |-> m]
    /\ UNCHANGED <<dataVars, endVars, flowVars, sorterPos, frame, finRead, readChan,
                   deadline, completing, completions>>

CountsBytes == ~resetRemotely

\* AddBytesRead; then the end of the stream, the next turn, or the end of Read.
Account ==
    /\ reader.pc = "account"
    /\ IF CountsBytes
       THEN /\ bytesRead' = bytesRead + reader.m
            /\ connBytesRead' = connBytesRead + reader.m
       ELSE UNCHANGED flowVars
    /\ IF posInFrame >= frame.len /\ frame.last
       THEN /\ finRead' = TRUE
            /\ reader' = [reader EXCEPT !.pc = "completing"]
            /\ completing' = [completing EXCEPT !["Read"] = "check"]
            /\ UNCHANGED <<frame, sorterPos, posInFrame>>
       ELSE /\ IF reader.space > 0 THEN LoopTurn(reader.space, reader.n)
               ELSE /\ reader' = [reader EXCEPT !.pc = "idle"]
                    /\ UNCHANGED <<frame, sorterPos, posInFrame>>
            /\ UNCHANGED <<finRead, completing>>
    /\ UNCHANGED <<dataVars, endVars, readOffset, readChan, deadline, completions>>

ReadReturns ==
    /\ reader.pc = "completing" /\ completing["Read"] = "no"
    /\ reader' = [reader EXCEPT !.pc = "idle"]
    /\ UNCHANGED <<dataVars, endVars, flowVars, sorterPos, frame, posInFrame,
                   readOffset, finRead, readChan, deadline, completing, completions>>

-----------------------------------------------------------------------------
(* streamCompleted, by any actor. *)

AfterCheck_NeverAbandon == "notify"

AfterCheck == IF finRead THEN "notify" ELSE "abandon"

CheckFinRead(a) ==
    /\ completing[a] = "check"
    /\ completing' = [completing EXCEPT ![a] = AfterCheck]
    /\ UNCHANGED <<dataVars, readVars, endVars, flowVars, readChan, deadline,
                   completions>>

\* Abandon counts what was not read as read, for the connection only.
Abandon(a) ==
    /\ completing[a] = "abandon"
    /\ connBytesRead' = connBytesRead + (highest - bytesRead)
    /\ completing' = [completing EXCEPT ![a] = "notify"]
    /\ UNCHANGED <<dataVars, readVars, endVars, bytesRead, readChan, deadline,
                   completions>>

OnStreamCompleted(a) ==
    /\ completing[a] = "notify"
    /\ completions' = completions + 1
    /\ completing' = [completing EXCEPT ![a] = "no"]
    /\ UNCHANGED <<dataVars, readVars, endVars, flowVars, readChan, deadline>>

Completed(a, done) ==
    completing' = IF done THEN [completing EXCEPT ![a] = "check"] ELSE completing

-----------------------------------------------------------------------------
(* The application. *)

signalRead_Lost == UNCHANGED readChan

signalRead == readChan' = TRUE

CancelRead ==
    /\ completing["App"] = "no"
    /\ ~finRead /\ ~canceledRead /\ ~resetRemotely
    /\ canceledRead' = TRUE
    /\ signalRead
    /\ Completed("App", finalOffset # Infinity)
    /\ UNCHANGED <<dataVars, readVars, flowVars, resetRemotely, closedForShutdown,
                   deadline, completions>>

SetReadDeadline(d) ==
    /\ completing["App"] = "no" /\ deadline # d
    /\ deadline' = d
    /\ signalRead
    /\ UNCHANGED <<dataVars, readVars, endVars, flowVars, completing, completions>>

TimePasses ==
    /\ deadline = "set"
    /\ deadline' = "expired"
    /\ UNCHANGED <<dataVars, readVars, endVars, flowVars, readChan, completing,
                   completions>>

-----------------------------------------------------------------------------
(* The run loop.  It finds a stream until that was deleted.                *)

Handles ==
    /\ completing["RunLoop"] = "no"
    /\ ~closedForShutdown
    /\ deletions = 0 /\ completions < MaxCompletions

Overlaps(start, end) ==
    \E f \in frames : f # <<start, end>> /\ f[1] < end /\ start < f[2]

\* Push to the sorter.
Push(start, end) ==
    /\ received' = received \cup (start .. end - 1)
    /\ overlapped' = (overlapped \/ Overlaps(start, end))
    /\ frames' = IF overlapped' THEN {}
                  ELSE frames \cup {f \in {<<start, end>>} : start < end}

handleStreamFrame(start, end, fin) ==
    /\ Handles
    /\ highest' = IF end > highest THEN end ELSE highest
    /\ finalOffset' = IF fin THEN end ELSE finalOffset
    /\ IF canceledRead
       THEN /\ Completed("RunLoop", fin)
            /\ UNCHANGED <<received, frames, overlapped, readChan>>
       ELSE /\ Push(start, end)
            /\ signalRead
            /\ UNCHANGED completing
    /\ UNCHANGED <<readVars, endVars, flowVars, deadline, completions>>

handleResetStreamFrame ==
    /\ Handles
    /\ highest' = Length /\ finalOffset' = Length
    /\ IF resetRemotely THEN UNCHANGED <<resetRemotely, readChan, completing>>
       ELSE /\ resetRemotely' = TRUE
            /\ signalRead
            /\ Completed("RunLoop", TRUE)
    /\ UNCHANGED <<received, frames, overlapped, readVars, canceledRead, closedForShutdown, flowVars,
                   deadline, completions>>

closeForShutdown ==
    /\ completing["RunLoop"] = "no" /\ ~closedForShutdown
    /\ closedForShutdown' = TRUE
    /\ signalRead
    /\ UNCHANGED <<dataVars, readVars, canceledRead, resetRemotely, flowVars,
                   deadline, completing, completions>>

-----------------------------------------------------------------------------
ReadStep == Woken \/ Copy \/ Account \/ ReadReturns

CompletedStep(a) == CheckFinRead(a) \/ Abandon(a) \/ OnStreamCompleted(a)

Next ==
    \/ \E space \in 1 .. MaxRead : Read(space)
    \/ ReadStep
    \/ \E a \in Actors : CompletedStep(a)
    \/ CancelRead \/ TimePasses
    \/ \E d \in {"none", "set"} : SetReadDeadline(d)
    \/ \E start \in 0 .. Length, end \in 0 .. Length :
          start <= end /\ (\/ start < end /\ handleStreamFrame(start, end, FALSE)
                           \/ end = Length /\ handleStreamFrame(start, end, TRUE))
    \/ handleResetStreamFrame \/ closeForShutdown

-----------------------------------------------------------------------------
(* Properties. *)

\* Read returns only bytes that were received, each of them once, and reports
\* the end of the stream only after it returned every byte, in whatever order
\* data, FIN, RESET_STREAM and CancelRead came.
ReadReturnsTheStream ==
    /\ 0 .. readOffset - 1 \subseteq received
    /\ readOffset = sorterPos - (frame.len - posInFrame)
    /\ finRead => readOffset = Length /\ received = 0 .. Length - 1

\* The connection counts every byte of the stream as read once: one too many,
\* and the peer is allowed more than the window; one too few, and it is missing
\* from the window forever.  And a stream is completed once: deleting it again
\* closes the session.  Excluded are CancelRead (a Read that is copying, or a
\* FIN that comes again, then counts and completes once more) and RESET_STREAM
\* (Read of the last frame and Abandon may leave bytes to each other, and both
\* complete).
Quiet == reader.pc = "idle" /\ \A a \in Actors : completing[a] = "no"
AccountedOnce ==
    /\ ~canceledRead => connBytesRead <= highest
    /\ completions > 0 /\ Quiet /\ ~resetRemotely => connBytesRead >= highest
    /\ ~canceledRead /\ ~resetRemotely => completions <= 1

\* A Read that waits is unblocked: by CancelRead, RESET_STREAM and shutdown, by
\* a deadline that expires even if it was set meanwhile, and by the end of the
\* stream once everything was received.  The last is not promised to a peer that
\* retransmits a part of a frame, or two frames as one: then frames overlap, and
\* the sorter may keep data back for ever.
MustReturn == Errors \/ deadline = "expired"
ReadIsUnblocked ==
    /\ MustReturn ~> reader.pc = "idle" \/ ~MustReturn
    /\ [](finalOffset = Length /\ received = 0 .. Length - 1 =>
             <>(finRead \/ Errors \/ deadline # "none" \/ overlapped))
=============================================================================
