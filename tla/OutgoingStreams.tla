--------------------------- MODULE OutgoingStreams ---------------------------
(***************************************************************************)
(* The map of streams opened by this endpoint                              *)
(* (quic-go/streams_map_outgoing_generic.go and its two generated copies). *)
(*                                                                         *)
(* Every critical section of m.mutex is one action.  A goroutine that      *)
(* calls OpenStreamSync is a member of Callers; it makes one call.  Its    *)
(* wait channel is identified with its queue position, because the code    *)
(* makes one channel per position.                                         *)
(***************************************************************************)
EXTENDS Integers, Sequences, FiniteSets, Functions

CONSTANTS Callers,      \* goroutines that call OpenStreamSync, once each
          Cancellable,  \* those whose context may be cancelled
          MaxLimit      \* bound: the largest limit the peer ever grants

VARIABLES
    streams,         \* m.streams: numbers of the streams that are open
    nextStream,      \* number of the next stream to be opened
    openQueue,       \* m.openQueue: position -> "chan", or "nil" once woken
    lowestInQueue,
    highestInQueue,
    maxStream,       \* highest number the peer allows
    blockedSent,     \* STREAMS_BLOCKED already sent for this maxStream
    blockedFrames,   \* limits of the STREAMS_BLOCKED frames queued, in order
    closeErr,        \* m.closeErr # nil
    closedChans,     \* wait channels on which close() was called
    panicked,        \* a closed or nil channel was closed
    pc, queuePos, got, \* control, local variable and result of each caller
    ctxDone          \* callers whose context is cancelled

streamVars  == <<streams, nextStream>>
queueVars   == <<openQueue, lowestInQueue, highestInQueue>>
blockedVars == <<blockedSent, blockedFrames>>
chanVars    == <<closedChans, panicked>>
callVars    == <<pc, queuePos, got>>
mapVars     == <<streamVars, queueVars, blockedVars, chanVars, maxStream, closeErr>>
vars        == <<mapVars, callVars, ctxDone>>

NoPos     == -1
NoStream  == 0
Positions == 0 .. Cardinality(Callers) - 1
PC        == {"idle", "select", "woken", "cancelled", "ok", "closed", "ctxErr"}

TypeOK ==
    /\ streams \subseteq 1 .. MaxLimit
    /\ DOMAIN openQueue \subseteq Positions
    /\ openQueue \in [DOMAIN openQueue -> {"chan", "nil"}]
    /\ lowestInQueue  \in 0 .. Cardinality(Callers)
    /\ highestInQueue \in 0 .. Cardinality(Callers)
    /\ nextStream \in 1 .. MaxLimit + 1
    /\ maxStream \in 0 .. MaxLimit
    /\ blockedSent \in BOOLEAN /\ closeErr \in BOOLEAN /\ panicked \in BOOLEAN
    /\ closedChans \subseteq Positions
    /\ blockedFrames \in Seq(0 .. MaxLimit)
    /\ pc \in [Callers -> PC]
    /\ queuePos \in [Callers -> Positions \cup {NoPos}]
    /\ got \in [Callers -> 0 .. MaxLimit]
    /\ ctxDone \subseteq Cancellable

Init ==
    /\ streams = {}
    /\ openQueue = << >>
    /\ lowestInQueue = 0
    /\ highestInQueue = 0
    /\ nextStream = 1
    /\ maxStream = 0
    /\ blockedSent = FALSE
    /\ closeErr = FALSE
    /\ closedChans = {}
    /\ blockedFrames = << >>
    /\ panicked = FALSE
    /\ pc = [c \in Callers |-> "idle"]
    /\ queuePos = [c \in Callers |-> NoPos]
    /\ got = [c \in Callers |-> NoStream]
    /\ ctxDone = {}

-----------------------------------------------------------------------------
(* Helpers called with the mutex held. *)

Delete(q, p) == Restrict(q, DOMAIN q \ {p})

openStream ==
    /\ streams' = streams \cup {nextStream}
    /\ nextStream' = nextStream + 1

maybeSendBlockedFrame ==
    /\ blockedSent' = TRUE
    /\ blockedFrames' = IF blockedSent THEN blockedFrames
                                       ELSE Append(blockedFrames, maxStream)

\* close(c) for the channels at positions ps of q: a nil channel or one that
\* is already closed panics.
CloseChans(q, ps) ==
    /\ closedChans' = closedChans \cup ps
    /\ panicked' = (panicked \/ \E p \in ps : q[p] = "nil" \/ p \in closedChans)

unblockOpenSync_WakesNobody(q) ==
    openQueue' = q /\ UNCHANGED <<lowestInQueue, closedChans, panicked>>

\* Wakes the waiter with the lowest position, starting at lowestInQueue.
unblockOpenSync(q) ==
    LET waiting == {p \in DOMAIN q : lowestInQueue <= p /\ p <= highestInQueue}
    IN  IF waiting = {}
        THEN /\ openQueue' = q
             /\ UNCHANGED <<lowestInQueue, closedChans, panicked>>
        ELSE LET qp == CHOOSE p \in waiting : \A r \in waiting : p <= r
             IN  /\ CloseChans(q, {qp})
                 /\ openQueue' = [q EXCEPT ![qp] = "nil"]
                 /\ lowestInQueue' = qp + 1

-----------------------------------------------------------------------------
(* OpenStream: never blocks.  (With closeErr set it only returns the error.) *)

StreamAvailable_OffByOne == nextStream <= maxStream + 1

StreamAvailable == nextStream <= maxStream

OpenStream ==
    /\ ~closeErr
    /\ openQueue = << >> /\ StreamAvailable
    /\ openStream
    /\ UNCHANGED <<queueVars, blockedVars, chanVars, maxStream, closeErr,
                   callVars, ctxDone>>

OpenStreamTooMany ==
    /\ ~closeErr
    /\ openQueue # << >> \/ ~StreamAvailable
    /\ maybeSendBlockedFrame
    /\ UNCHANGED <<streamVars, queueVars, chanVars, maxStream, closeErr,
                   callVars, ctxDone>>

-----------------------------------------------------------------------------
(* OpenStreamSync. *)

Goto(c, label) == pc' = [pc EXCEPT ![c] = label]

OpenStreamSyncFails(c) ==
    /\ pc[c] = "idle"
    /\ closeErr \/ c \in ctxDone
    /\ Goto(c, IF closeErr THEN "closed" ELSE "ctxErr")
    /\ UNCHANGED <<mapVars, queuePos, got, ctxDone>>

OpenStreamSyncFast(c) ==
    /\ pc[c] = "idle" /\ ~closeErr /\ c \notin ctxDone
    /\ openQueue = << >> /\ StreamAvailable
    /\ openStream
    /\ got' = [got EXCEPT ![c] = nextStream]
    /\ Goto(c, "ok")
    /\ UNCHANGED <<queueVars, blockedVars, chanVars, maxStream, closeErr,
                   queuePos, ctxDone>>

OpenStreamSyncEnqueue(c) ==
    /\ pc[c] = "idle" /\ ~closeErr /\ c \notin ctxDone
    /\ openQueue # << >> \/ ~StreamAvailable
    /\ queuePos' = [queuePos EXCEPT ![c] = highestInQueue]
    /\ highestInQueue' = highestInQueue + 1
    /\ lowestInQueue' = IF openQueue = << >> THEN highestInQueue
                                             ELSE lowestInQueue
    /\ openQueue' = [p \in DOMAIN openQueue \cup {highestInQueue} |->
                        IF p = highestInQueue THEN "chan" ELSE openQueue[p]]
    /\ maybeSendBlockedFrame
    /\ Goto(c, "select")
    /\ UNCHANGED <<streamVars, chanVars, maxStream, closeErr, got, ctxDone>>

\* The two cases of the select; when both are ready Go picks either.
SelectCtxDone(c) ==
    /\ pc[c] = "select" /\ c \in ctxDone
    /\ Goto(c, "cancelled")
    /\ UNCHANGED <<mapVars, queuePos, got, ctxDone>>

SelectWaitChan(c) ==
    /\ pc[c] = "select" /\ queuePos[c] \in closedChans
    /\ Goto(c, "woken")
    /\ UNCHANGED <<mapVars, queuePos, got, ctxDone>>

\* The context was cancelled: leave the queue without waking anyone.
CancelledReturns(c) ==
    /\ pc[c] = "cancelled"
    /\ openQueue' = Delete(openQueue, queuePos[c])
    /\ Goto(c, "ctxErr")
    /\ UNCHANGED <<streamVars, lowestInQueue, highestInQueue, blockedVars,
                   chanVars, maxStream, closeErr, queuePos, got, ctxDone>>

WokenClosed(c) ==
    /\ pc[c] = "woken" /\ closeErr
    /\ Goto(c, "closed")
    /\ UNCHANGED <<mapVars, queuePos, got, ctxDone>>

WokenContinues(c) ==
    /\ pc[c] = "woken" /\ ~closeErr /\ ~StreamAvailable
    /\ Goto(c, "select")
    /\ UNCHANGED <<mapVars, queuePos, got, ctxDone>>

WokenOpens(c) ==
    /\ pc[c] = "woken" /\ ~closeErr /\ StreamAvailable
    /\ openStream
    /\ unblockOpenSync(Delete(openQueue, queuePos[c]))
    /\ got' = [got EXCEPT ![c] = nextStream]
    /\ Goto(c, "ok")
    /\ UNCHANGED <<highestInQueue, blockedVars, maxStream, closeErr, queuePos,
                   ctxDone>>

-----------------------------------------------------------------------------
(* Called by the session's run loop, so never after CloseWithError. *)

\* A stream completes (onStreamCompleted); an unknown number is an error.
DeleteStream(num) ==
    /\ num \in streams /\ ~closeErr
    /\ streams' = streams \ {num}
    /\ UNCHANGED <<nextStream, queueVars, blockedVars, chanVars, maxStream,
                   closeErr, callVars, ctxDone>>

\* Transport parameters or MAX_STREAMS; a limit that is not higher is ignored.
SetMaxStream(num) ==
    /\ ~closeErr
    /\ num > maxStream
    /\ maxStream' = num
    /\ blockedSent' = FALSE
    /\ unblockOpenSync(openQueue)
    /\ UNCHANGED <<streamVars, highestInQueue, blockedFrames, closeErr,
                   callVars, ctxDone>>

ChansToClose_NilToo == DOMAIN openQueue

ChansToClose == {p \in DOMAIN openQueue : openQueue[p] # "nil"}

\* Closes every wait channel that is not nil; the entries stay in the queue.
CloseWithError ==
    /\ ~closeErr
    /\ closeErr' = TRUE
    /\ CloseChans(openQueue, ChansToClose)
    /\ UNCHANGED <<streamVars, queueVars, blockedVars, maxStream, callVars,
                   ctxDone>>

CancelContext(c) ==
    /\ c \in Cancellable \ ctxDone
    /\ ctxDone' = ctxDone \cup {c}
    /\ UNCHANGED <<mapVars, callVars>>

-----------------------------------------------------------------------------
Resume(c) ==
    \/ SelectCtxDone(c) \/ SelectWaitChan(c)
    \/ CancelledReturns(c) \/ WokenClosed(c) \/ WokenContinues(c) \/ WokenOpens(c)

Call(c) ==
    \/ OpenStreamSyncFails(c) \/ OpenStreamSyncFast(c) \/ OpenStreamSyncEnqueue(c)

Next ==
    \/ OpenStream \/ OpenStreamTooMany
    \/ \E c \in Callers : Call(c) \/ Resume(c) \/ CancelContext(c)
    \/ \E num \in 1 .. MaxLimit : DeleteStream(num) \/ SetMaxStream(num)
    \/ CloseWithError

\* A goroutine whose select has a ready case, or that waits for the mutex,
\* eventually runs: the Go scheduler and sync.RWMutex starve nobody.
Spec == Init /\ [][Next]_vars /\ \A c \in Callers : WF_vars(Resume(c))

-----------------------------------------------------------------------------
(* Properties. *)

Waiting(c) == pc[c] \in {"select", "woken", "cancelled"}

\* No stream number is handed to two callers and none exceeds the limit the
\* peer granted, whatever the order in which woken waiters run.
StreamsUniqueAndWithinLimit ==
    /\ nextStream <= maxStream + 1
    /\ \A c, d \in Callers :
          got[c] # NoStream => /\ got[c] < nextStream
                               /\ got[c] = got[d] => c = d

\* A stream the peer allows does not stay unopened while calls wait for one:
\* each waiter that opens a stream hands over to the next.  A cancelled call
\* may take the wake-up with it (CancelledReturns wakes nobody), so this is
\* only promised while no context is cancelled.
CreditReachesWaiters ==
    (StreamAvailable /\ \E c \in Callers : Waiting(c))
        ~> \/ ~StreamAvailable \/ ~\E c \in Callers : Waiting(c)
           \/ ctxDone # {}

\* CloseWithError makes every blocked OpenStreamSync return, and neither it nor
\* unblockOpenSync closes a channel twice, or a nil one (Go would panic).
CloseUnblocksCallers ==
    [](~panicked) /\ (closeErr ~> ~\E c \in Callers : Waiting(c))
=============================================================================
