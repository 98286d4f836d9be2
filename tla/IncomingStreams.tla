--------------------------- MODULE IncomingStreams ---------------------------
(***************************************************************************)
(* The map of streams opened by the peer                                   *)
(* (quic-go/streams_map_incoming_generic.go and its two generated copies). *)
(*                                                                         *)
(* Every critical section of m.mutex is one action.  Acceptors are the     *)
(* application goroutines that call AcceptStream in a loop; GetOrOpenStream *)
(* is only called by the session's run loop.  newStreamChan is unbuffered: *)
(* a send on it succeeds only while an acceptor is parked in its select.   *)
(***************************************************************************)
EXTENDS Integers, FiniteSets

CONSTANTS Acceptors,      \* goroutines that call AcceptStream
          Cancellable,    \* those whose context may be cancelled
          MaxNumStreams,  \* m.maxNumStreams
          MaxOpen         \* bound: the highest stream number the peer uses

VARIABLES
    streams,             \* numbers of the streams in m.streams
    streamsToDelete,     \* completed before they were accepted
    nextStreamToAccept,
    nextStreamToOpen,
    maxStream,           \* highest number the peer may open
    maxStreamsFrames,    \* limits announced in MAX_STREAMS frames
    closeErr,            \* m.closeErr # nil
    chanClosed,          \* newStreamChan is closed
    opening,             \* GetOrOpenStream between RUnlock and Lock: its num
    runLoop,             \* "running", "failed" (limit exceeded), "closing"
    pc,                  \* control of each acceptor
    ctxDone              \* acceptors whose context is cancelled

acceptVars == <<pc, ctxDone>>
loopVars   == <<opening, runLoop>>
closeVars  == <<closeErr, chanClosed>>
creditVars == <<streams, streamsToDelete, maxStream, maxStreamsFrames>>
vars == <<creditVars, nextStreamToAccept, nextStreamToOpen, closeVars,
          loopVars, acceptVars>>

NotOpening == 0
PC == {"idle", "unlocked", "select", "woken", "stopped"}

TypeOK ==
    /\ streams \subseteq 1 .. MaxOpen
    /\ streamsToDelete \subseteq streams
    /\ nextStreamToAccept \in 1 .. nextStreamToOpen
    /\ nextStreamToOpen \in 1 .. MaxOpen + 1
    /\ maxStream \in 0 .. MaxOpen + MaxNumStreams
    /\ maxStreamsFrames \subseteq 1 .. maxStream
    /\ closeErr \in BOOLEAN /\ chanClosed \in BOOLEAN
    /\ opening \in 0 .. MaxOpen
    /\ runLoop \in {"running", "failed", "closing"}
    /\ pc \in [Acceptors -> PC]
    /\ ctxDone \subseteq Cancellable

Init ==
    /\ streams = {} /\ streamsToDelete = {}
    /\ nextStreamToAccept = 1 /\ nextStreamToOpen = 1
    /\ maxStream = MaxNumStreams
    /\ maxStreamsFrames = {}
    /\ closeErr = FALSE /\ chanClosed = FALSE
    /\ opening = NotOpening /\ runLoop = "running"
    /\ pc = [a \in Acceptors |-> "idle"]
    /\ ctxDone = {}

Goto(a, label) == pc' = [pc EXCEPT ![a] = label]

-----------------------------------------------------------------------------
(* deleteStream, called with the mutex held. *)

NewLimit_CountsFromAccepted(left) ==
    nextStreamToAccept + (MaxNumStreams - Cardinality(left)) - 1

NewLimit_OffByOne(left) ==
    nextStreamToOpen + (MaxNumStreams - Cardinality(left))

NewLimit(left) ==
    nextStreamToOpen + (MaxNumStreams - Cardinality(left)) - 1

\* The stream leaves the map and the peer may open another one.
removeStream(num) ==
    LET left == streams \ {num}
    IN  /\ streams' = left
        /\ IF MaxNumStreams > Cardinality(left)
           THEN /\ maxStream' = NewLimit(left)
                /\ maxStreamsFrames' = maxStreamsFrames \cup {NewLimit(left)}
           ELSE UNCHANGED <<maxStream, maxStreamsFrames>>

\* A stream that was not accepted yet is only marked.
deleteStream(num) ==
    IF num >= nextStreamToAccept
    THEN /\ streamsToDelete' = streamsToDelete \cup {num}
         /\ UNCHANGED <<streams, maxStream, maxStreamsFrames>>
    ELSE removeStream(num) /\ UNCHANGED streamsToDelete

-----------------------------------------------------------------------------
(* AcceptStream. *)

\* The loop body, with the mutex held: on entry and after every wake-up.
AcceptFindsClosed(a) ==
    /\ pc[a] \in {"idle", "woken"} /\ closeErr
    /\ Goto(a, "stopped")
    /\ UNCHANGED <<creditVars, nextStreamToAccept, nextStreamToOpen, closeVars,
                   loopVars, ctxDone>>

AcceptFindsNone(a) ==
    /\ pc[a] \in {"idle", "woken"} /\ ~closeErr
    /\ nextStreamToAccept \notin streams
    /\ Goto(a, "unlocked")
    /\ UNCHANGED <<creditVars, nextStreamToAccept, nextStreamToOpen, closeVars,
                   loopVars, ctxDone>>

\* A stream that completed before it was accepted is deleted right away.
AcceptReturnsStream(a) ==
    /\ pc[a] \in {"idle", "woken"} /\ ~closeErr
    /\ nextStreamToAccept \in streams
    /\ nextStreamToAccept' = nextStreamToAccept + 1
    /\ IF nextStreamToAccept \in streamsToDelete
       THEN /\ streamsToDelete' = streamsToDelete \ {nextStreamToAccept}
            /\ removeStream(nextStreamToAccept)
       ELSE UNCHANGED creditVars
    /\ Goto(a, "idle")
    /\ UNCHANGED <<nextStreamToOpen, closeVars, loopVars, ctxDone>>

\* The goroutine reaches its select some time after it released the mutex.
EnterSelect(a) ==
    /\ pc[a] = "unlocked"
    /\ Goto(a, "select")
    /\ UNCHANGED <<creditVars, nextStreamToAccept, nextStreamToOpen, closeVars,
                   loopVars, ctxDone>>

SelectCtxDone(a) ==
    /\ pc[a] = "select" /\ a \in ctxDone
    /\ Goto(a, "stopped")
    /\ UNCHANGED <<creditVars, nextStreamToAccept, nextStreamToOpen, closeVars,
                   loopVars, ctxDone>>

SelectChanClosed(a) ==
    /\ pc[a] = "select" /\ chanClosed
    /\ Goto(a, "woken")
    /\ UNCHANGED <<creditVars, nextStreamToAccept, nextStreamToOpen, closeVars,
                   loopVars, ctxDone>>

CancelContext(a) ==
    /\ a \in Cancellable \ ctxDone
    /\ ctxDone' = ctxDone \cup {a}
    /\ UNCHANGED <<creditVars, nextStreamToAccept, nextStreamToOpen, closeVars,
                   loopVars, pc>>

-----------------------------------------------------------------------------
(* GetOrOpenStream, called by the run loop for a frame on stream num.  A    *)
(* number below nextStreamToOpen only looks the stream up.                 *)

GetOrOpenStreamFails(num) ==
    /\ runLoop = "running" /\ opening = NotOpening
    /\ num > maxStream
    /\ runLoop' = "failed"
    /\ UNCHANGED <<creditVars, nextStreamToAccept, nextStreamToOpen, closeVars,
                   opening, acceptVars>>

GetOrOpenStreamChecks(num) ==
    /\ runLoop = "running" /\ opening = NotOpening
    /\ num <= maxStream /\ num >= nextStreamToOpen
    /\ opening' = num
    /\ UNCHANGED <<creditVars, nextStreamToAccept, nextStreamToOpen, closeVars,
                   runLoop, acceptVars>>

\* Each new stream offers one value on newStreamChan, without waiting.
Wake(count) ==
    LET parked == {a \in Acceptors : pc[a] = "select"}
    IN  \E woken \in SUBSET parked :
          /\ Cardinality(woken) = IF count < Cardinality(parked)
                                  THEN count ELSE Cardinality(parked)
          /\ pc' = [a \in Acceptors |-> IF a \in woken THEN "woken" ELSE pc[a]]

GetOrOpenStreamOpens ==
    /\ opening # NotOpening
    /\ streams' = streams \cup (nextStreamToOpen .. opening)
    /\ Wake(opening - nextStreamToOpen + 1)
    /\ nextStreamToOpen' = opening + 1
    /\ opening' = NotOpening
    /\ UNCHANGED <<streamsToDelete, maxStream, maxStreamsFrames,
                   nextStreamToAccept, closeVars, runLoop, ctxDone>>

\* A stream completes, once: called by the run loop or by the application.
DeleteStream(num) ==
    /\ num \in streams \ streamsToDelete
    /\ deleteStream(num)
    /\ UNCHANGED <<nextStreamToAccept, nextStreamToOpen, closeVars, loopVars,
                   acceptVars>>

-----------------------------------------------------------------------------
(* CloseWithError: the channel is closed after the mutex is released. *)

CloseWithError ==
    /\ runLoop # "closing" /\ opening = NotOpening
    /\ runLoop' = "closing"
    /\ closeErr' = TRUE
    /\ UNCHANGED <<creditVars, nextStreamToAccept, nextStreamToOpen,
                   chanClosed, opening, acceptVars>>

CloseChan ==
    /\ closeErr /\ ~chanClosed
    /\ chanClosed' = TRUE
    /\ UNCHANGED <<creditVars, nextStreamToAccept, nextStreamToOpen, closeErr,
                   loopVars, acceptVars>>

-----------------------------------------------------------------------------
Accept(a) ==
    \/ AcceptFindsClosed(a) \/ AcceptFindsNone(a) \/ AcceptReturnsStream(a)
    \/ EnterSelect(a) \/ SelectCtxDone(a) \/ SelectChanClosed(a)

GetOrOpenStream(num) == GetOrOpenStreamFails(num) \/ GetOrOpenStreamChecks(num)

Next ==
    \/ \E a \in Acceptors : Accept(a) \/ CancelContext(a)
    \/ \E num \in 1 .. MaxOpen : GetOrOpenStream(num) \/ DeleteStream(num)
    \/ GetOrOpenStreamOpens
    \/ CloseWithError \/ CloseChan

\* The goroutines inside a call make progress when nothing blocks them.
Spec ==
    /\ Init /\ [][Next]_vars
    /\ \A a \in Acceptors : WF_vars(Accept(a))
    /\ WF_vars(GetOrOpenStreamOpens) /\ WF_vars(CloseChan)

-----------------------------------------------------------------------------
(* Properties. *)

\* The limit announced to the peer always leaves room for exactly the streams
\* that may still be opened: numbers used plus free slots.
CreditIsExact ==
    maxStream = (nextStreamToOpen - 1) + (MaxNumStreams - Cardinality(streams))

\* Closing the map makes every blocked AcceptStream return.
CloseUnblocksAcceptors ==
    closeErr ~> \A a \in Acceptors : pc[a] \in {"idle", "stopped"}
=============================================================================
