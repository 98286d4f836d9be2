----------------------------- MODULE StreamLimits -----------------------------
(***************************************************************************)
(* Two endpoints and one type of stream: the opener's outgoing map, the    *)
(* acceptor's incoming map, and the frames between them.  The network may  *)
(* lose, delay, duplicate and reorder: every limit that was announced and  *)
(* every stream that was opened stays deliverable for ever, and nothing    *)
(* has to be delivered.  (Frame retransmission is what makes delivery      *)
(* repeat in the code.)                                                    *)
(*                                                                         *)
(* The opener's peer is either such an acceptor or any peer at all, which  *)
(* announces limits as it likes.  What the peer sees of OpenStreamSync is  *)
(* what it sees of OpenStream, so its callers only take part in the second *)
(* case, where the acceptor's map stays as it is.                          *)
(***************************************************************************)
EXTENDS Integers, FiniteSets

CONSTANTS Callers,        \* goroutines that call OpenStreamSync
          Acceptors,      \* goroutines that call AcceptStream
          Cancellable,    \* callers and acceptors whose context may be cancelled
          MaxNumStreams,
          MaxOpen,        \* bound: the highest stream number that is opened
          AnyLimit        \* bound: the highest limit that any peer announces

ASSUME StreamLimitsAssumption ==
    /\ IsFiniteSet(Callers) /\ IsFiniteSet(Acceptors)
    /\ Cancellable \subseteq Callers \cup Acceptors
    /\ MaxNumStreams \in Nat /\ MaxOpen \in Nat /\ AnyLimit \in 0 .. MaxOpen

VARIABLES
    peer,            \* "acceptor" or "any"
    outStreams, nextStream, openQueue, lowestInQueue, highestInQueue,
    outMaxStream, blockedSent, blockedFrames, outCloseErr, closedChans,
    panicked, callPC, queuePos, got, callCtxDone,
    inStreams, streamsToDelete, nextStreamToAccept, nextStreamToOpen,
    inMaxStream, maxStreamsFrames, inCloseErr, chanClosed, opening, runLoop,
    acceptPC, acceptCtxDone,
    rogue            \* the peer sent a frame on a stream beyond its limit

outVars  == <<outStreams, nextStream, openQueue, lowestInQueue, highestInQueue,
              outMaxStream, blockedSent, blockedFrames, outCloseErr,
              closedChans, panicked, callPC, queuePos, got, callCtxDone>>
inVars   == <<inStreams, streamsToDelete, nextStreamToAccept, nextStreamToOpen,
              inMaxStream, maxStreamsFrames, inCloseErr, chanClosed, opening,
              runLoop, acceptPC, acceptCtxDone>>
peerVars == <<peer, rogue>>
vars     == <<outVars, inVars, peerVars>>

Out == INSTANCE OutgoingStreams WITH
    Cancellable <- Cancellable \cap Callers, MaxLimit <- MaxOpen,
    streams <- outStreams, maxStream <- outMaxStream, closeErr <- outCloseErr,
    pc <- callPC, ctxDone <- callCtxDone

In == INSTANCE IncomingStreams WITH
    Cancellable <- Cancellable \cap Acceptors,
    streams <- inStreams, maxStream <- inMaxStream,
    closeErr <- inCloseErr, pc <- acceptPC, ctxDone <- acceptCtxDone

Init == Out!Init /\ In!Init /\ peer \in {"acceptor", "any"} /\ rogue = FALSE

\* processTransportParameters on the opener, then MAX_STREAMS frames.
AnnouncedLimits == IF peer = "any" THEN 1 .. AnyLimit
                                   ELSE {MaxNumStreams} \cup maxStreamsFrames

ActiveCallers == IF peer = "any" THEN Callers ELSE {}

OpenerStep ==
    /\ \/ Out!OpenStream \/ Out!OpenStreamTooMany
       \/ \E c \in ActiveCallers : Out!Call(c) \/ Out!Resume(c) \/ Out!CancelContext(c)
       \/ \E num \in 1 .. MaxOpen : Out!DeleteStream(num)
    /\ UNCHANGED <<inVars, peerVars>>

DeliverLimit ==
    /\ \E num \in AnnouncedLimits : num \in 1 .. MaxOpen /\ Out!SetMaxStream(num)
    /\ UNCHANGED <<inVars, peerVars>>

AcceptorStep ==
    /\ peer = "acceptor"
    /\ \/ \E a \in Acceptors : In!Accept(a) \/ In!CancelContext(a)
       \/ \E num \in 1 .. MaxOpen : In!DeleteStream(num)
       \/ In!GetOrOpenStreamOpens
    /\ UNCHANGED <<outVars, peerVars>>

\* A frame of a stream that the opener opened at some time arrives.
DeliverStreamFrame ==
    /\ peer = "acceptor"
    /\ \E num \in 1 .. nextStream - 1 : In!GetOrOpenStream(num)
    /\ UNCHANGED <<outVars, peerVars>>

\* A frame of a stream that was never opened arrives, beyond the limit: the
\* acceptor's peer is not an opener that obeys it.
DeliverRogueFrame ==
    /\ peer = "acceptor"
    /\ \E num \in nextStream .. MaxOpen : In!GetOrOpenStreamFails(num)
    /\ rogue' = TRUE
    /\ UNCHANGED <<outVars, peer>>

\* Either endpoint may close the connection.
Close ==
    /\ \/ Out!CloseWithError /\ UNCHANGED inVars
       \/ /\ peer = "acceptor"
          /\ In!CloseWithError \/ In!CloseChan
          /\ UNCHANGED outVars
    /\ UNCHANGED peerVars

Next ==
    \/ OpenerStep \/ DeliverLimit \/ AcceptorStep
    \/ DeliverStreamFrame \/ DeliverRogueFrame \/ Close

\* The goroutines of both endpoints make progress when nothing blocks them: the
\* Go scheduler and sync.RWMutex starve nobody.
Spec ==
    /\ Init /\ [][Next]_vars
    /\ \A c \in Callers : WF_vars(Out!Resume(c) /\ UNCHANGED <<inVars, peerVars>>)
    /\ \A a \in Acceptors :
          WF_vars(peer = "acceptor" /\ In!Accept(a) /\ UNCHANGED <<outVars, peerVars>>)
    /\ WF_vars(peer = "acceptor" /\ In!CloseChan /\ UNCHANGED <<outVars, peerVars>>)

-----------------------------------------------------------------------------
(* Properties. *)

TypeOK == Out!TypeOK /\ In!TypeOK /\ peer \in {"acceptor", "any"} /\ rogue \in BOOLEAN

\* No stream number is handed to two calls of OpenStreamSync and none exceeds the
\* limit the peer granted, whatever the order in which woken waiters run; and an
\* opener that obeys the limits is never accused of exceeding them:
\* GetOrOpenStream does not fail, however late and in whatever order the
\* frames arrive.
StreamsWithinLimit ==
    /\ Out!StreamsUniqueAndWithinLimit
    /\ runLoop = "failed" => rogue

\* The credit announced with MAX_STREAMS is exact, whatever the order in which
\* streams complete and are accepted (deleteStream).
CreditIsExact == In!CreditIsExact

\* A stream the peer allows does not stay unopened while calls of OpenStreamSync
\* wait for one, unless a context is cancelled (unblockOpenSync).
CreditReachesWaiters == Out!CreditReachesWaiters

\* CloseWithError makes every blocked OpenStreamSync and AcceptStream return, and
\* no channel is closed twice or while it is nil (Go would panic).
CloseUnblocksCalls == Out!CloseUnblocksCallers /\ In!CloseUnblocksAcceptors
=============================================================================
