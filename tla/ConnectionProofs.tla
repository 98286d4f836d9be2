--------------------------- MODULE ConnectionProofs ---------------------------
(***************************************************************************)
(* Session implements SessionLife, for any number of goroutines that close *)
(* and destroy it, any handshake and any number of packets in a turn; and  *)
(* a client that relies on SessionLife recreates its session at most once, *)
(* for any versions and any number of Version Negotiation packets.         *)
(*                                                                         *)
(* Of the many steps of the run loop, the send queue and the handshake     *)
(* only five kinds matter to those outside: steps that leave the closing   *)
(* of the session alone, calls of closeLocal, destroyImpl and closeRemote, *)
(* the run loop taking the close error, its handling, and the return of    *)
(* run.                                                                    *)
(***************************************************************************)
EXTENDS Connection, WellFoundedInduction, TLAPS

\* A set of natural numbers has a least element.
LEMMA LeastNat ==
    ASSUME NEW T \in SUBSET Nat, T # {}
    PROVE  \E x \in T : \A y \in T : x <= y
<1>1. PICK x \in T : \A y \in T : <<y, x>> \notin OpToRel(<, Nat)
  BY NatLessThanWellFounded, WFMin, Zenon
<1>2. \A y \in T : ~(y < x)
  BY <1>1, Zenon DEF OpToRel
<1> QED BY <1>2

Ending   == {"closing", "cryptoClose", "waitTLS", "done"}
Answered == {"cryptoClose", "waitTLS", "done"}

Reason == IF closeChan # "empty" THEN closeChan ELSE closeErr

\* The entry of the packetHandlerMap that fits the reason.
Fits(why) ==
    IF why = "local" THEN IF loop \in Answered THEN "closedLocal" ELSE "session"
    ELSE IF why = "remote" THEN "closedRemote" ELSE "none"

\* A close error is in the channel or was taken from it, but never both, and
\* there is one if and only if closeOnce was used.
CloseInv ==
    /\ closeOnce \in BOOLEAN
    /\ closeChan \in Reasons \cup {"empty"}
    /\ closeErr \in Reasons \cup {"none"}
    /\ closeOnce <=> Reason # "none"
    /\ closeChan # "empty" => closeErr = "none"
    /\ loop \in Ending <=> closeErr # "none"
    /\ handler = IF closeOnce THEN Fits(Reason) ELSE "session"

-----------------------------------------------------------------------------
(* The kinds of steps. *)

SameSide == loop' = loop \/ (loop \notin Ending /\ loop' \notin Ending)

QuietStep ==
    /\ closeOnce' = closeOnce /\ closeChan' = closeChan /\ handler' = handler
    /\ closeErr' = closeErr
    /\ SameSide \/ (loop = "cryptoClose" /\ loop' = "waitTLS")

CloseStep ==
    /\ closeLocal \/ destroyImpl \/ closeRemote
    /\ closeErr' = closeErr
    /\ SameSide

TakeStep ==
    /\ loop \notin Ending /\ loop' = "closing"
    /\ closeChan # "empty"
    /\ closeErr' = closeChan /\ closeChan' = "empty"
    /\ closeOnce' = closeOnce /\ handler' = handler

AnswerStep ==
    /\ loop = "closing" /\ loop' = "cryptoClose"
    /\ handler' = IF closeErr = "local" THEN "closedLocal" ELSE handler
    /\ closeOnce' = closeOnce /\ closeChan' = closeChan /\ closeErr' = closeErr

StopStep ==
    /\ loop = "waitTLS" /\ loop' = "done"
    /\ closeOnce' = closeOnce /\ closeChan' = closeChan /\ closeErr' = closeErr
    /\ handler' = handler

AnyKind == QuietStep \/ CloseStep \/ TakeStep \/ AnswerStep \/ StopStep

\* What the session may do, whatever its scheduler does.
SessionSafety == Init /\ [][Next]_vars

\* In a connection, the session does nothing else.
LEMMA ConnectionIsSession ==
    ConnectionSpec => SessionSafety
<1>1. ConnectionInit => Init
  BY Zenon DEF ConnectionInit
<1>2. [ConnectionNext]_connectionVars => [Next]_vars
  BY Zenon DEF ConnectionNext, InSession, InClient, connectionVars
<1> QED BY <1>1, <1>2, PTL DEF ConnectionSpec, SessionSafety

\* Steps of the run loop (session.go: run, and what it calls).
LEMMA LoopKinds ==
    ASSUME LoopStep \/ SelectTimer \/ SelectPacket \/ SelectMessage
    PROVE  AnyKind
<1> USE DEF AnyKind, SameSide, Ending, closeVars, endVars, Goto
<1>1. CASE ClientHello
  BY <1>1 DEF ClientHello, QuietStep
<1>2. CASE Top
  <2>1. CASE ReceiveCloseErr
    BY <1>2, <2>1 DEF Top, ReceiveCloseErr, TakeStep
  <2>2. CASE handleHandshakeComplete("select")
    BY <1>2, <2>2 DEF Top, handleHandshakeComplete, QuietStep, CloseStep
  <2>3. CASE Goto("select") /\ UNCHANGED closeVars
    BY <1>2, <2>3 DEF Top, QuietStep
  <2> QED BY <1>2, <2>1, <2>2, <2>3, Zenon DEF Top
<1>3. CASE Select
  <2>1. CASE ReceiveCloseErr
    BY <1>3, <2>1 DEF Select, ReceiveCloseErr, TakeStep
  <2>2. CASE handleHandshakeComplete("work")
    BY <1>3, <2>2 DEF Select, handleHandshakeComplete, QuietStep, CloseStep
  <2> QED BY <1>3, <2>1, <2>2, Zenon DEF Select
<1>4. CASE NoMoreKeys
  BY <1>4 DEF NoMoreKeys, QuietStep
<1>5. CASE Timeout
  BY <1>5 DEF Timeout, CloseStep
<1>6. CASE SendPackets
  BY <1>6 DEF SendPackets, QuietStep, CloseStep
<1>7. CASE SendPacket
  BY <1>7 DEF SendPacket, QuietStep
<1>8. CASE SendingEnds
  BY <1>8 DEF SendingEnds, QuietStep, CloseStep
<1>9. CASE handleCloseError
  BY <1>9 DEF handleCloseError, AnswerStep
<1>10. CASE cryptoSetupClose
  BY <1>10 DEF cryptoSetupClose, QuietStep
<1>11. CASE RunReturns
  BY <1>11 DEF RunReturns, StopStep
<1>12. CASE SelectTimer
  BY <1>12 DEF SelectTimer, QuietStep
<1>13. CASE SelectPacket
  BY <1>13 DEF SelectPacket, QuietStep, CloseStep
<1>14. CASE SelectMessage
  BY <1>14 DEF SelectMessage, QuietStep
<1> QED
  BY <1>1, <1>2, <1>3, <1>4, <1>5, <1>6, <1>7, <1>8, <1>9, <1>10, <1>11, <1>12, <1>13, <1>14, ZenonT(60)
     DEF LoopStep

\* Steps of the other goroutines (send_queue.go, crypto_setup.go, Close, destroy).
LEMMA OtherKinds ==
    ASSUME SendQueueRun \/ Handshake \/ RunHandshake
             \/ \E a \in Apps : CloseCalled(a) \/ CloseReturns(a)
    PROVE  AnyKind
<1> USE DEF AnyKind, SameSide, Ending, closeVars, endVars, loopVars
<1>1. CASE SendQueueRun
  BY <1>1, ZenonT(60) DEF SendQueueRun, SenderTakes, SenderStops, SenderWrites, SenderFails, SenderStep,
              QuietStep, CloseStep
<1>2. CASE Handshake
  <2>1. CASE HandOverKeys
    BY <2>1, Zenon DEF HandOverKeys, TLSStep, Goto, QuietStep
  <2> QED
    BY <1>2, <2>1 DEF Handshake, WriteClientHello, ReadHandshakeMessage, ProcessMessage,
                      SendAlert, TLSStep, QuietStep
<1>3. CASE RunHandshake
  BY <1>3, ZenonT(60) DEF RunHandshake, RunHandshakeCompletes, RunHandshakeAborts, RunHandshakeAlerted,
              RunHandshakeDrained, RunnerStep, QuietStep, CloseStep
<1>4. ASSUME NEW a \in Apps, CloseCalled(a) \/ CloseReturns(a)
      PROVE  AnyKind
  BY <1>4 DEF CloseCalled, CloseReturns, QuietStep, CloseStep
<1> QED BY <1>1, <1>2, <1>3, <1>4, Zenon

\* Every step is of one of these kinds.
LEMMA NextKinds == ASSUME [Next]_vars PROVE AnyKind
<1>1. CASE Next
  BY <1>1, LoopKinds, OtherKinds, Zenon DEF Next
<1>2. CASE UNCHANGED vars
  BY <1>2 DEF AnyKind, QuietStep, SameSide, vars, closeVars, loopVars, endVars
<1> QED BY <1>1, <1>2

-----------------------------------------------------------------------------
\* A new session is not closed.
LEMMA CloseInvInit == Init => CloseInv
  BY ZenonT(60) DEF Init, CloseInv, Reason, Reasons, Fits, Ending

\* Each kind of step preserves the invariant.
LEMMA CloseInvStep == ASSUME CloseInv, AnyKind PROVE CloseInv'
<1> USE DEF CloseInv, Reason, Reasons, Fits, Ending, Answered, SameSide
<1>1. CASE QuietStep  BY <1>1 DEF QuietStep
<1>2. CASE CloseStep
  <2>1. CASE closeOnce
    BY <1>2, <2>1, ZenonT(60) DEF CloseStep, closeLocal, destroyImpl, closeRemote, First
  <2>2. CASE ~closeOnce
    <3>1. CASE closeLocal   BY <1>2, <2>2, <3>1, Zenon DEF CloseStep, closeLocal, First
    <3>2. CASE destroyImpl  BY <1>2, <2>2, <3>2, Zenon DEF CloseStep, destroyImpl, First
    <3>3. CASE closeRemote  BY <1>2, <2>2, <3>3, Zenon DEF CloseStep, closeRemote, First
    <3> QED BY <1>2, <3>1, <3>2, <3>3, Zenon DEF CloseStep
  <2> QED BY <2>1, <2>2
<1>3. CASE TakeStep   BY <1>3 DEF TakeStep
<1>4. CASE AnswerStep BY <1>4 DEF AnswerStep
<1>5. CASE StopStep   BY <1>5 DEF StopStep
<1> QED BY <1>1, <1>2, <1>3, <1>4, <1>5, ZenonT(60) DEF AnyKind

\* The close error, closeOnce and the entry in the packetHandlerMap fit each
\* other in every state, whoever closes the session and when.
LEMMA ClosingInvariant == SessionSafety => []CloseInv
<1>1. CloseInv /\ [Next]_vars => CloseInv'
  BY NextKinds, CloseInvStep, Zenon
<1> QED BY CloseInvInit, <1>1, PTL DEF SessionSafety

-----------------------------------------------------------------------------
\* Each kind of step is a step of SessionLife, or none.
LEMMA LifeStep == ASSUME CloseInv, AnyKind PROVE [Life!LifeNext]_(Life!lifeVars)
<1> USE DEF CloseInv, Reason, Reasons, Fits, Ending, Answered, SameSide, Life!lifeVars
<1>1. CASE QuietStep  BY <1>1 DEF QuietStep
<1>2. CASE CloseStep
  <2>1. CASE closeOnce
    BY <1>2, <2>1, Zenon DEF CloseStep, closeLocal, destroyImpl, closeRemote, First
  <2>2. CASE ~closeOnce
    <3> USE DEF Life!LifeNext, Life!Decide, Life!CloseReasons
    <3>1. CASE closeLocal
      <4>1. Life!Decide("local")
        BY <1>2, <2>2, <3>1, Zenon DEF CloseStep, closeLocal, First
      <4> QED BY <4>1
    <3>2. CASE destroyImpl
      <4>1. Life!Decide("destroy")
        BY <1>2, <2>2, <3>2, Zenon DEF CloseStep, destroyImpl, First
      <4> QED BY <4>1
    <3>3. CASE closeRemote
      <4>1. Life!Decide("remote")
        BY <1>2, <2>2, <3>3, Zenon DEF CloseStep, closeRemote, First
      <4> QED BY <4>1
    <3> QED BY <1>2, <3>1, <3>2, <3>3, ZenonT(60) DEF CloseStep
  <2> QED BY <2>1, <2>2, Zenon
<1>3. CASE TakeStep   BY <1>3 DEF TakeStep
<1>4. CASE AnswerStep BY <1>4 DEF AnswerStep, Life!LifeNext, Life!Answer
<1>5. CASE StopStep   BY <1>5 DEF StopStep, Life!LifeNext, Life!Stop
<1> QED BY <1>1, <1>2, <1>3, <1>4, <1>5, Zenon DEF AnyKind

\* A new session starts a new life.
LEMMA LifeStart == Init => Life!LifeInit
  BY DEF Init, Life!LifeInit

\* The session (session.go) lives the life that those who run it rely on:
\* closed once, for the first reason, with the entry of the packetHandlerMap that
\* fits it before run returns.
THEOREM SessionImplementsLife ==
    (Spec => ImplementsLife) /\ (ConnectionSpec => ImplementsLife)
<1>1. CloseInv /\ [Next]_vars => [Life!LifeNext]_(Life!lifeVars)
  BY NextKinds, LifeStep
<1>2. SessionSafety => ImplementsLife
  BY LifeStart, ClosingInvariant, <1>1, PTL DEF SessionSafety, ImplementsLife, Life!LifeSpec
<1>3. Spec => SessionSafety
  BY PTL DEF Spec, SessionSafety
<1> QED BY <1>2, <1>3, ConnectionIsSession, PTL

-----------------------------------------------------------------------------
(* What holds when Close, CloseWithError and destroy return. *)

HandshakeOver == {"ok", "err"}

ReturnInv ==
    /\ app \in [Apps -> {"idle", "waiting", "returned"}]
    /\ loop \in Answered => streamsClosed
    /\ connCloseSent => loop \in Answered /\ closeErr = "local"
    /\ loop = "done" => queueClosed /\ tls \in HandshakeOver
    /\ \A a \in Apps : app[a] = "returned" => loop = "done"

TLSContinues == tls' = tls \/ tls \notin HandshakeOver

LoopGoesOn ==
    /\ app' = app /\ queueClosed' = queueClosed /\ streamsClosed' = streamsClosed
    /\ connCloseSent' = connCloseSent /\ closeErr' = closeErr
    /\ TLSContinues
    /\ SameSide \/ (loop = "cryptoClose" /\ loop' = "waitTLS")

LoopEnds ==
    /\ app' = app /\ queueClosed' = queueClosed /\ tls' = tls
    /\ streamsClosed' = streamsClosed /\ connCloseSent' = connCloseSent
    /\ loop \notin Ending /\ loop' = "closing"

CloseErrorHandled ==
    /\ app' = app /\ queueClosed' = queueClosed /\ tls' = tls /\ closeErr' = closeErr
    /\ loop = "closing" /\ loop' = "cryptoClose" /\ streamsClosed'
    /\ closeErr = "local" \/ connCloseSent' = connCloseSent

RunEnds ==
    /\ app' = app /\ streamsClosed' = streamsClosed /\ connCloseSent' = connCloseSent
    /\ closeErr' = closeErr /\ tls' = tls
    /\ loop = "waitTLS" /\ loop' = "done" /\ tls \in HandshakeOver /\ queueClosed'

AppStep ==
    /\ queueClosed' = queueClosed /\ streamsClosed' = streamsClosed
    /\ connCloseSent' = connCloseSent /\ closeErr' = closeErr /\ tls' = tls /\ loop' = loop
    /\ \E a \in Apps : \/ app' = [app EXCEPT ![a] = "waiting"]
                       \/ loop = "done" /\ app' = [app EXCEPT ![a] = "returned"]

AnyEffect == LoopGoesOn \/ LoopEnds \/ CloseErrorHandled \/ RunEnds \/ AppStep

\* Steps of the run loop (session.go).
LEMMA LoopEffects ==
    ASSUME LoopStep \/ SelectTimer \/ SelectPacket \/ SelectMessage
    PROVE  AnyEffect
<1> USE DEF AnyEffect, SameSide, Ending, TLSContinues, closeVars, endVars, queueVars, tlsVars, Goto
<1>1. CASE ClientHello
  BY <1>1 DEF ClientHello, LoopGoesOn
<1>2. CASE Top
  <2>1. CASE ReceiveCloseErr
    BY <1>2, <2>1, Zenon DEF Top, ReceiveCloseErr, LoopEnds
  <2>2. CASE handleHandshakeComplete("select")
    BY <1>2, <2>2, Zenon DEF Top, handleHandshakeComplete, LoopGoesOn
  <2>3. CASE /\ Goto("select")
             /\ UNCHANGED <<perspective, closeVars, queueVars, tlsVars, runVars, app>>
    BY <1>2, <2>3, Zenon DEF Top, LoopGoesOn
  <2> QED BY <1>2, <2>1, <2>2, <2>3, Zenon DEF Top
<1>3. CASE Select
  <2>1. CASE ReceiveCloseErr
    BY <1>3, <2>1, Zenon DEF Select, ReceiveCloseErr, LoopEnds
  <2>2. CASE handleHandshakeComplete("work")
    BY <1>3, <2>2, ZenonT(60) DEF Select, handleHandshakeComplete, LoopGoesOn
  <2> QED BY <1>3, <2>1, <2>2 DEF Select
<1>4. CASE NoMoreKeys
  BY <1>4 DEF NoMoreKeys, LoopGoesOn
<1>5. CASE Timeout
  BY <1>5 DEF Timeout, LoopGoesOn
<1>6. CASE SendPackets
  BY <1>6 DEF SendPackets, LoopGoesOn
<1>7. CASE SendPacket
  BY <1>7 DEF SendPacket, LoopGoesOn
<1>8. CASE SendingEnds
  BY <1>8 DEF SendingEnds, LoopGoesOn
<1>9. CASE handleCloseError
  BY <1>9 DEF handleCloseError, CloseErrorHandled
<1>10. CASE cryptoSetupClose
  BY <1>10 DEF cryptoSetupClose, LoopGoesOn
<1>11. CASE RunReturns
  BY <1>11 DEF RunReturns, sendQueueClose, HandshakeOver, RunEnds
<1>12. CASE SelectTimer
  BY <1>12, Zenon DEF SelectTimer, LoopGoesOn
<1>13. CASE SelectPacket
  BY <1>13, Zenon DEF SelectPacket, LoopGoesOn
<1>14. CASE SelectMessage
  BY <1>14, Zenon DEF SelectMessage, LoopGoesOn
<1> QED
  BY <1>1, <1>2, <1>3, <1>4, <1>5, <1>6, <1>7, <1>8, <1>9, <1>10, <1>11, <1>12, <1>13, <1>14
     DEF LoopStep

\* Steps of the other goroutines.
LEMMA OtherEffects ==
    ASSUME SendQueueRun \/ Handshake \/ RunHandshake
             \/ \E a \in Apps : CloseCalled(a) \/ CloseReturns(a)
    PROVE  AnyEffect
<1> USE DEF AnyEffect, SameSide, Ending, TLSContinues, HandshakeOver, closeVars, endVars, queueVars,
            tlsVars, loopVars
<1>1. CASE SendQueueRun
  BY <1>1, Zenon DEF SendQueueRun, SenderTakes, SenderStops, SenderWrites, SenderFails, SenderStep,
              LoopGoesOn
<1>2. CASE Handshake
  <2>1. CASE HandOverKeys
    BY <2>1, Zenon DEF HandOverKeys, TLSStep, Goto, LoopGoesOn
  <2> QED
    BY <1>2, <2>1, Zenon DEF Handshake, WriteClientHello, ReadHandshakeMessage, ProcessMessage,
                      SendAlert, TLSStep, LoopGoesOn
<1>3. CASE RunHandshake
  BY <1>3, Zenon DEF RunHandshake, RunHandshakeCompletes, RunHandshakeAborts, RunHandshakeAlerted,
              RunHandshakeDrained, RunnerStep, LoopGoesOn
<1>4. ASSUME NEW a \in Apps, CloseCalled(a) \/ CloseReturns(a)
      PROVE  AnyEffect
  BY <1>4, ZenonT(60) DEF CloseCalled, CloseReturns, CtxDone, AppStep
<1> QED BY <1>1, <1>2, <1>3, <1>4

\* Every step has one of these effects.
LEMMA NextEffects == ASSUME [Next]_vars PROVE AnyEffect
<1>1. CASE Next
  BY <1>1, LoopEffects, OtherEffects DEF Next
<1>2. CASE UNCHANGED vars
  BY <1>2, Zenon DEF AnyEffect, LoopGoesOn, SameSide, TLSContinues, vars, closeVars, queueVars, tlsVars,
              loopVars, endVars
<1> QED BY <1>1, <1>2

\* Each effect preserves the invariant.
LEMMA ReturnInvStep == ASSUME CloseInv, ReturnInv, AnyEffect PROVE ReturnInv'
<1> USE DEF ReturnInv, CloseInv, Ending, Answered, SameSide
<1>1. CASE LoopGoesOn        BY <1>1 DEF LoopGoesOn, TLSContinues
<1>2. CASE LoopEnds          BY <1>2 DEF LoopEnds
<1>3. CASE CloseErrorHandled BY <1>3 DEF CloseErrorHandled
<1>4. CASE RunEnds           BY <1>4 DEF RunEnds
<1>5. CASE AppStep           BY <1>5 DEF AppStep
<1> QED BY <1>1, <1>2, <1>3, <1>4, <1>5, ZenonT(60) DEF AnyEffect

\* So it is in every state of the session.
LEMMA ReturnInvariant == SessionSafety => []ReturnInv
<1>1. Init => ReturnInv
  BY DEF Init, ReturnInv, Answered
<1>2. CloseInv /\ ReturnInv /\ [Next]_vars => ReturnInv'
  BY NextEffects, ReturnInvStep
<1> QED BY <1>1, <1>2, ClosingInvariant, PTL DEF SessionSafety

\* Whoever waits in Close, CloseWithError or destroy (session.go) returns only
\* when the streams are closed, qtls has returned, the send queue is closed and
\* the packetHandlerMap no longer holds the session; and where CONNECTION_CLOSE
\* was sent, it holds the closed session that can repeat it.
THEOREM ClosedBeforeReturning ==
    (Spec => []ClosedWhenReturned) /\ (ConnectionSpec => []ClosedWhenReturned)
<1>1. CloseInv /\ ReturnInv => ClosedWhenReturned
  BY DEF CloseInv, ReturnInv, ClosedWhenReturned, Reason, Reasons, Fits, Ending, Answered,
         HandshakeOver
<1>2. SessionSafety => []ClosedWhenReturned
  BY <1>1, ClosingInvariant, ReturnInvariant, PTL
<1>3. Spec => SessionSafety
  BY PTL DEF Spec, SessionSafety
<1> QED BY <1>2, <1>3, ConnectionIsSession, PTL

-----------------------------------------------------------------------------
(* Types of the session's variables that do not concern its closing. *)

SessionPlaces ==
    /\ perspective \in {"client", "server"}
    /\ loop \in LoopPC
    /\ sender \in {"select", "write", "failed", "stopped"}
    /\ tls \in {"start", "reading", "working", "keys", "alert", "ok", "err"}
    /\ runner \in {"select", "alerted", "draining", "exited"}

SessionFlags ==
    {queueClosed, messagesClosed, cryptoClosed, handshakeDone, handshakeComplete,
     streamsClosed, connCloseSent} \subseteq BOOLEAN

SessionCounters ==
    /\ toSend \in 0 .. MaxBurst /\ queue \in 0 .. 1
    /\ delivered \in 0 .. Len(Flight) /\ messageChan \in 0 .. delivered

\* Every goroutine of the session is at a place that exists.
LEMMA SessionPlacesStep ==
    ASSUME SessionPlaces, Next
    PROVE  SessionPlaces'
<1> USE DEF closeVars, queueVars, tlsVars, runVars, loopVars, endVars, SessionPlaces, LoopPC
<1>1. CASE ClientHello
  BY <1>1, Zenon DEF ClientHello, Goto
<1>2. CASE Top
  BY <1>2, ZenonT(60) DEF Top, ReceiveCloseErr, handleHandshakeComplete, Goto
<1>3. CASE Select
  BY <1>3 DEF Select, ReceiveCloseErr, handleHandshakeComplete
<1>4. CASE NoMoreKeys
  BY <1>4, Zenon DEF NoMoreKeys, Goto
<1>5. CASE Timeout
  BY <1>5, Zenon DEF Timeout, Goto
<1>6. CASE SendPackets
  BY <1>6, Zenon DEF SendPackets
<1>7. CASE SendPacket
  BY <1>7, Zenon DEF SendPacket, QueueHasRoom
<1>8. CASE SendingEnds
  BY <1>8, ZenonT(60) DEF SendingEnds
<1>9. CASE handleCloseError
  BY <1>9 DEF handleCloseError
<1>10. CASE cryptoSetupClose
  BY <1>10, Zenon DEF cryptoSetupClose, SignalCryptoClose, Goto
<1>11. CASE RunReturns
  BY <1>11, Zenon DEF RunReturns, sendQueueClose, Goto
<1>12. CASE SelectTimer
  BY <1>12, Zenon DEF SelectTimer, Goto
<1>13. CASE SelectPacket
  BY <1>13, ZenonT(60) DEF SelectPacket, Goto
<1>14. CASE SelectMessage
  BY <1>14, Zenon DEF SelectMessage, Goto
<1>15. CASE SendQueueRun
  BY <1>15, Zenon DEF SendQueueRun, SenderTakes, SenderStops, SenderWrites, SenderFails, SenderStep
<1>16. CASE WriteClientHello
  BY <1>16, Zenon DEF WriteClientHello, TLSStep
<1>17. CASE ReadHandshakeMessage
  BY <1>17, Zenon DEF ReadHandshakeMessage, TLSStep
<1>18. CASE ProcessMessage
  BY <1>18, Zenon DEF ProcessMessage, TLSStep
<1>19. CASE HandOverKeys
  BY <1>19, Zenon DEF HandOverKeys, TLSStep, Goto
<1>20. CASE SendAlert
  BY <1>20, Zenon DEF SendAlert, TLSStep
<1>21. CASE RunHandshake
  BY <1>21, ZenonT(60) DEF RunHandshake, RunHandshakeCompletes, RunHandshakeAborts, RunHandshakeAlerted,
                  RunHandshakeDrained, RunnerStep
<1>22. CASE \E a \in Apps : CloseCalled(a) \/ CloseReturns(a)
  BY <1>22 DEF CloseCalled, CloseReturns
<1> QED BY <1>1, <1>2, <1>3, <1>4, <1>5, <1>6, <1>7, <1>8, <1>9, <1>10, <1>11, <1>12,
           <1>13, <1>14, <1>15, <1>16, <1>17, <1>18, <1>19, <1>20, <1>21, <1>22, ZenonT(60)
        DEF Next, LoopStep, Handshake

\* The flags of the session are Boolean.
LEMMA SessionFlagsStep ==
    ASSUME SessionFlags, Next
    PROVE  SessionFlags'
<1> USE DEF closeVars, queueVars, tlsVars, runVars, loopVars, endVars, SessionFlags
<1>1. CASE ClientHello
  BY <1>1, Zenon DEF ClientHello, Goto
<1>2. CASE Top
  BY <1>2, Zenon DEF Top, ReceiveCloseErr, handleHandshakeComplete, Goto
<1>3. CASE Select
  BY <1>3, ZenonT(60) DEF Select, ReceiveCloseErr, handleHandshakeComplete
<1>4. CASE NoMoreKeys
  BY <1>4 DEF NoMoreKeys, Goto
<1>5. CASE Timeout
  BY <1>5, Zenon DEF Timeout, Goto
<1>6. CASE SendPackets
  BY <1>6, Zenon DEF SendPackets
<1>7. CASE SendPacket
  BY <1>7, Zenon DEF SendPacket, QueueHasRoom
<1>8. CASE SendingEnds
  BY <1>8, Zenon DEF SendingEnds
<1>9. CASE handleCloseError
  BY <1>9, ZenonT(60) DEF handleCloseError
<1>10. CASE cryptoSetupClose
  BY <1>10 DEF cryptoSetupClose, SignalCryptoClose, Goto
<1>11. CASE RunReturns
  BY <1>11 DEF RunReturns, sendQueueClose, Goto
<1>12. CASE SelectTimer
  BY <1>12 DEF SelectTimer, Goto
<1>13. CASE SelectPacket
  BY <1>13, Zenon DEF SelectPacket, Goto
<1>14. CASE SelectMessage
  BY <1>14, Zenon DEF SelectMessage, Goto
<1>15. CASE SendQueueRun
  BY <1>15, Zenon DEF SendQueueRun, SenderTakes, SenderStops, SenderWrites, SenderFails, SenderStep
<1>16. CASE WriteClientHello
  BY <1>16, Zenon DEF WriteClientHello, TLSStep
<1>17. CASE ReadHandshakeMessage
  BY <1>17, Zenon DEF ReadHandshakeMessage, TLSStep
<1>18. CASE ProcessMessage
  BY <1>18, Zenon DEF ProcessMessage, TLSStep
<1>19. CASE HandOverKeys
  BY <1>19, Zenon DEF HandOverKeys, TLSStep, Goto
<1>20. CASE SendAlert
  BY <1>20, Zenon DEF SendAlert, TLSStep
<1>21. CASE RunHandshake
  BY <1>21, ZenonT(60) DEF RunHandshake, RunHandshakeCompletes, RunHandshakeAborts, RunHandshakeAlerted,
                  RunHandshakeDrained, RunnerStep
<1>22. CASE \E a \in Apps : CloseCalled(a) \/ CloseReturns(a)
  BY <1>22, Zenon DEF CloseCalled, CloseReturns
<1> QED BY <1>1, <1>2, <1>3, <1>4, <1>5, <1>6, <1>7, <1>8, <1>9, <1>10, <1>11, <1>12,
           <1>13, <1>14, <1>15, <1>16, <1>17, <1>18, <1>19, <1>20, <1>21, <1>22, ZenonT(60)
        DEF Next, LoopStep, Handshake

\* No more messages wait than were delivered, and at most one packet in the send queue.
LEMMA SessionCountersStep ==
    ASSUME SessionCounters, Next
    PROVE  SessionCounters'
<1> USE DEF closeVars, queueVars, tlsVars, runVars, loopVars, endVars, SessionCounters
<1>0. MaxBurst \in Nat /\ Len(Flight) \in Nat
  BY SessionAssumption
<1>1. CASE ClientHello
  BY <1>0, <1>1, Zenon DEF ClientHello, Goto
<1>2. CASE Top
  BY <1>0, <1>2, Zenon DEF Top, ReceiveCloseErr, handleHandshakeComplete, Goto
<1>3. CASE Select
  BY <1>0, <1>3, Zenon DEF Select, ReceiveCloseErr, handleHandshakeComplete
<1>4. CASE NoMoreKeys
  BY <1>0, <1>4, Zenon DEF NoMoreKeys, Goto
<1>5. CASE Timeout
  BY <1>0, <1>5, Zenon DEF Timeout, Goto
<1>6. CASE SendPackets
  BY <1>0, <1>6, Zenon DEF SendPackets
<1>7. CASE SendPacket
  BY <1>0, <1>7, SMTT(60) DEF SendPacket, QueueHasRoom
<1>8. CASE SendingEnds
  BY <1>0, <1>8, SMTT(60) DEF SendingEnds
<1>9. CASE handleCloseError
  BY <1>0, <1>9, Zenon DEF handleCloseError
<1>10. CASE cryptoSetupClose
  BY <1>0, <1>10, Zenon DEF cryptoSetupClose, SignalCryptoClose, Goto
<1>11. CASE RunReturns
  BY <1>0, <1>11, Zenon DEF RunReturns, sendQueueClose, Goto
<1>12. CASE SelectTimer
  BY <1>0, <1>12, Zenon DEF SelectTimer, Goto
<1>13. CASE SelectPacket
  BY <1>0, <1>13, Zenon DEF SelectPacket, Goto
<1>14. CASE SelectMessage
  BY <1>0, <1>14, SMTT(60) DEF SelectMessage, Goto
<1>15. CASE SendQueueRun
  BY <1>0, <1>15, SMTT(60) DEF SendQueueRun, SenderTakes, SenderStops, SenderWrites, SenderFails, SenderStep
<1>16. CASE WriteClientHello
  BY <1>0, <1>16, Zenon DEF WriteClientHello, TLSStep
<1>17. CASE ReadHandshakeMessage
  BY <1>0, <1>17, SMTT(60) DEF ReadHandshakeMessage, TLSStep
<1>18. CASE ProcessMessage
  BY <1>0, <1>18, Zenon DEF ProcessMessage, TLSStep
<1>19. CASE HandOverKeys
  BY <1>0, <1>19, Zenon DEF HandOverKeys, TLSStep, Goto
<1>20. CASE SendAlert
  BY <1>0, <1>20, Zenon DEF SendAlert, TLSStep
<1>21. CASE RunHandshake
  BY <1>0, <1>21, Zenon DEF RunHandshake, RunHandshakeCompletes, RunHandshakeAborts, RunHandshakeAlerted,
                  RunHandshakeDrained, RunnerStep
<1>22. CASE \E a \in Apps : CloseCalled(a) \/ CloseReturns(a)
  BY <1>0, <1>22, Zenon DEF CloseCalled, CloseReturns
<1> QED BY <1>1, <1>2, <1>3, <1>4, <1>5, <1>6, <1>7, <1>8, <1>9, <1>10, <1>11, <1>12,
           <1>13, <1>14, <1>15, <1>16, <1>17, <1>18, <1>19, <1>20, <1>21, <1>22, ZenonT(60)
        DEF Next, LoopStep, Handshake

\* All variables of the session have their types in every state.
LEMMA SessionTypes ==
    SessionSafety => []TypeOK
<1> DEFINE T == SessionPlaces /\ SessionFlags /\ SessionCounters
<1>1. Init => T
  <2>1. Init => SessionPlaces
    BY DEF Init, SessionPlaces, LoopPC
  <2>2. Init => SessionFlags
    BY ZenonT(60) DEF Init, SessionFlags
  <2>3. Init => SessionCounters
    BY SessionAssumption DEF Init, SessionCounters
  <2> QED BY <2>1, <2>2, <2>3, ZenonT(60)
<1>2. T /\ [Next]_vars => T'
  <2>1. CASE Next
    BY <2>1, SessionPlacesStep, SessionFlagsStep, SessionCountersStep, ZenonT(60)
  <2>2. CASE UNCHANGED vars
    BY <2>2, ZenonT(60) DEF SessionPlaces, SessionFlags, SessionCounters, vars, closeVars, queueVars,
                       tlsVars, runVars, loopVars, endVars
  <2> QED BY <2>1, <2>2, ZenonT(60)
<1>3. T /\ CloseInv /\ ReturnInv => TypeOK
  <2> SUFFICES ASSUME T, CloseInv, ReturnInv
               PROVE  TypeOK
    BY Zenon
  <2>1. handler \in {"session", "closedLocal", "closedRemote", "none"}
    BY Zenon DEF CloseInv, Fits
  <2>2. /\ closeOnce \in BOOLEAN /\ closeChan \in Reasons \cup {"empty"}
        /\ closeErr \in Reasons \cup {"none"}
        /\ app \in [Apps -> {"idle", "waiting", "returned"}]
    BY Zenon DEF CloseInv, ReturnInv
  <2> QED BY <2>1, <2>2, ZenonT(60) DEF TypeOK, SessionPlaces, SessionFlags, SessionCounters
<1> HIDE DEF T
<1> QED BY <1>1, <1>2, <1>3, ClosingInvariant, ReturnInvariant, PTL DEF SessionSafety

-----------------------------------------------------------------------------
(* The client. *)

Places ==
    /\ reason \in CloseReasons \cup {"none"}
    /\ entry \in {"session", "closedLocal", "closedRemote", "none"}
    /\ dialer \in {"start", "create", "select", "closing", "ok", "failed"}
    /\ running \in {"none", "run", "closeConn", "waitListen", "report"}
    /\ errorChan \in {"empty", "recreate", "error"}
    /\ mutex \in {"free", "vn", "destroy"} /\ vn \in {"idle", "destroying", "recreating"}
    /\ listen \in {"no", "read", "closing", "stopped"}
    /\ destroying \in {"no", "lock", "wait"}
    /\ closedRun \in {"no", "running", "unowned", "stopped"}

Flags ==
    {done, createdPacketConn, cancelled, established, hung, receivedVN, versionNegotiated,
     socketOpen, known, retireTimer} \subseteq BOOLEAN

Counters ==
    /\ generation \in 0 .. 2
    /\ initialPacketNumber \in 0 .. MaxPN /\ nextPN \in 0 .. MaxPN
    /\ highestSent \in -1 .. MaxPN - 1
    /\ vnWaiting \in 0 .. MaxVN

OurVersions == {version, sessVersion} \subseteq {Versions[i] : i \in 1 .. Len(Versions)}

\* Where the dialer, the goroutine that runs the session and the session are:
\* the dialer creates another session only after the error of the last one,
\* which was closed for it, was reported.
Stage ==
    /\ dialer = "start" => generation = 0
    /\ generation = 0 =>
          /\ dialer \in {"start", "create", "failed"}
          /\ reason = "none" /\ ~done /\ running = "none" /\ errorChan = "empty"
          /\ destroying = "no"
    /\ dialer = "create" /\ generation > 0 =>
          reason = "recreate" /\ done /\ running = "none" /\ errorChan = "empty"
    /\ running \notin {"none", "run"} => done
    /\ errorChan # "empty" => done /\ running = "none"
    /\ errorChan = "recreate" => reason = "recreate"

\* Who holds c.mutex; and a version is negotiated once, for a session of a
\* version that the server does not know.
Negotiation ==
    /\ mutex = "vn" <=> vn # "idle"
    /\ mutex = "destroy" <=> destroying = "wait"
    /\ listen = "read" => destroying = "no"
    /\ vnWaiting > 0 \/ vn # "idle" \/ receivedVN => generation > 0
    /\ vn = "recreating" => receivedVN
    /\ IF receivedVN THEN version \in serverVersions ELSE sessVersion = version
    /\ generation = 2 => receivedVN /\ sessVersion \in serverVersions
    /\ reason = "recreate" => generation = 1 /\ receivedVN /\ sessVersion \notin serverVersions

\* Once c.mutex is released after closeForRecreating, the next session's first
\* packet number is the one that the closed session did not use.
Numbers ==
    /\ nextPN > highestSent
    /\ generation = 0 => highestSent = -1 /\ initialPacketNumber = 0
    /\ reason = "recreate" /\ vn # "recreating" => done /\ initialPacketNumber = nextPN

\* The version that is chosen is one of ours that the server knows.
LEMMA ChosenVersion ==
    ASSUME NEW S, NEW k \in 1 .. Len(Versions), Versions[k] \in S
    PROVE  /\ ChooseSupportedVersion(Versions, S) \in S
           /\ ChooseSupportedVersion(Versions, S) \in {Versions[i] : i \in 1 .. Len(Versions)}
<1> DEFINE common == {i \in 1 .. Len(Versions) : Versions[i] \in S}
           c == CHOOSE i \in common : \A j \in common : i <= j
<1>1. common \in SUBSET Nat /\ common # {}
  BY ClientAssumption
<1>2. \E i \in common : \A j \in common : i <= j
  BY <1>1, LeastNat, ZenonT(60)
<1>3. c \in common
  BY <1>2, ZenonT(60)
<1>4. ChooseSupportedVersion(Versions, S) = Versions[c]
  BY Zenon DEF ChooseSupportedVersion
<1> HIDE DEF c
<1> QED BY <1>3, <1>4, ZenonT(60)

\* Every variable of the client names a place that exists.
LEMMA PlacesStep ==
    ASSUME Counters, Stage, Negotiation, Numbers, Places, ClientNext
    PROVE  Places'
<1> USE DEF lifeVars, dialVars, sessVars, runVarsC, vnVars, mapVars, Places, CloseReasons
<1>1. CASE dialContext
  BY <1>1, SMTT(60) DEF dialContext, AddConn
<1>2. CASE createNewTLSSession
  BY <1>2, SMTT(60) DEF createNewTLSSession, NewSession
<1>3. CASE SelectCtxDone
  <2>1. reason' \in {reason, "local"} /\ entry' \in {entry, "none", "closedRemote"}
    BY <1>3, Zenon DEF SelectCtxDone, DecideOnce, Decide
  <2>2. /\ dialer' = "closing"
        /\ UNCHANGED <<running, errorChan, mutex, vn, listen, destroying, closedRun>>
    BY <1>3, ZenonT(60) DEF SelectCtxDone, DialerStep
  <2> QED BY <2>1, <2>2, SMTT(60)
<1>4. CASE SelectError
  BY <1>4, SMTT(60) DEF SelectError, DialerStep
<1>5. CASE SelectHandshakeComplete
  BY <1>5, SMTT(60) DEF SelectHandshakeComplete, DialerStep
<1>6. CASE SessionClosed
  BY <1>6, SMTT(60) DEF SessionClosed, DialerStep
<1>7. CASE CancelDial
  BY <1>7, SMTT(60) DEF CancelDial
<1>8. CASE SessionSends
  BY <1>8, SMTT(60) DEF SessionSends, SessionStep
<1>9. CASE HandshakeCompletes
  BY <1>9, SMTT(60) DEF HandshakeCompletes, SessionStep
<1>10. CASE SessionCloses
  BY <1>10, SMTT(60) DEF SessionCloses, SessionStep, Decide
<1>11. CASE SessionTimesOut
  BY <1>11, SMTT(60) DEF SessionTimesOut, SessionStep, Decide
<1>25. CASE SessionHangs
  BY <1>25, SMTT(60) DEF SessionHangs, SessionStep
<1>12. CASE HandleCloseError
  BY <1>12, SMTT(60) DEF HandleCloseError, SessionStep, Answer
<1>13. CASE RunLoopStops
  BY <1>13, SMTT(60) DEF RunLoopStops, SessionStep, Stop
<1>14. CASE RunReturned
  BY <1>14, SMTT(60) DEF RunReturned
<1>15. CASE ClosePacketHandlers
  BY <1>15, SMTT(60) DEF ClosePacketHandlers
<1>16. CASE ReportError
  BY <1>16, SMTT(60) DEF ReportError
<1>17. CASE HandleVNPacket
  BY <1>17, SMTT(60) DEF HandleVNPacket
<1>18. CASE HandlePacket
  BY <1>18, SMTT(60) DEF HandlePacket
<1>19. CASE handleVersionNegotiationPacket
  BY <1>19, SMTT(60) DEF handleVersionNegotiationPacket, IgnoresVN, DecideOnce, Decide
<1>20. CASE SessionDestroyed
  BY <1>20, SMTT(60) DEF SessionDestroyed
<1>21. CASE ReadFails
  BY <1>21, SMTT(60) DEF ReadFails, MapClosed, StopClosedSession
<1>22. CASE DestroyClient
  BY <1>22, SMTT(60) DEF DestroyClient, DecideOnce, Decide
<1>23. CASE ListenReturns
  BY <1>23, SMTT(60) DEF ListenReturns, RemoveConn
<1>24. CASE RetiredEntryDeleted
  BY <1>24 DEF RetiredEntryDeleted
<1> QED BY <1>1, <1>2, <1>3, <1>4, <1>5, <1>6, <1>7, <1>8, <1>9, <1>10, <1>11, <1>12,
           <1>13, <1>14, <1>15, <1>16, <1>17, <1>18, <1>19, <1>20, <1>21, <1>22, <1>23, <1>24,
           <1>25, ZenonT(60)
        DEF ClientNext, Dialer, Runner, VNHandler

\* Flags are Boolean.
LEMMA FlagsStep ==
    ASSUME Counters, Stage, Negotiation, Numbers, Flags, ClientNext
    PROVE  Flags'
<1> USE DEF lifeVars, dialVars, sessVars, runVarsC, vnVars, mapVars, Flags
<1>1. CASE dialContext
  BY <1>1, Zenon DEF dialContext, AddConn
<1>2. CASE createNewTLSSession
  BY <1>2, ZenonT(60) DEF createNewTLSSession, NewSession
<1>3. CASE SelectCtxDone
  BY <1>3 DEF SelectCtxDone, DialerStep, DecideOnce, Decide
<1>4. CASE SelectError
  BY <1>4 DEF SelectError, DialerStep
<1>5. CASE SelectHandshakeComplete
  BY <1>5, Zenon DEF SelectHandshakeComplete, DialerStep
<1>6. CASE SessionClosed
  BY <1>6, ZenonT(60) DEF SessionClosed, DialerStep
<1>7. CASE CancelDial
  BY <1>7, ZenonT(60) DEF CancelDial
<1>8. CASE SessionSends
  BY <1>8, Zenon DEF SessionSends, SessionStep
<1>9. CASE HandshakeCompletes
  BY <1>9, Zenon DEF HandshakeCompletes, SessionStep
<1>10. CASE SessionCloses
  BY <1>10, ZenonT(60) DEF SessionCloses, SessionStep, Decide
<1>11. CASE SessionTimesOut
  BY <1>11 DEF SessionTimesOut, SessionStep, Decide
<1>25. CASE SessionHangs
  BY <1>25, SMTT(60) DEF SessionHangs, SessionStep
<1>12. CASE HandleCloseError
  BY <1>12 DEF HandleCloseError, SessionStep, Answer
<1>13. CASE RunLoopStops
  BY <1>13, ZenonT(60) DEF RunLoopStops, SessionStep, Stop
<1>14. CASE RunReturned
  BY <1>14, Zenon DEF RunReturned
<1>15. CASE ClosePacketHandlers
  BY <1>15, ZenonT(60) DEF ClosePacketHandlers
<1>16. CASE ReportError
  BY <1>16 DEF ReportError
<1>17. CASE HandleVNPacket
  BY <1>17 DEF HandleVNPacket
<1>18. CASE HandlePacket
  BY <1>18, Zenon DEF HandlePacket
<1>19. CASE handleVersionNegotiationPacket
  BY <1>19, ZenonT(60) DEF handleVersionNegotiationPacket, IgnoresVN, DecideOnce, Decide
<1>20. CASE SessionDestroyed
  BY <1>20 DEF SessionDestroyed
<1>21. CASE ReadFails
  BY <1>21, Zenon DEF ReadFails, MapClosed, StopClosedSession
<1>22. CASE DestroyClient
  BY <1>22, ZenonT(60) DEF DestroyClient, DecideOnce, Decide
<1>23. CASE ListenReturns
  BY <1>23, Zenon DEF ListenReturns, RemoveConn
<1>24. CASE RetiredEntryDeleted
  BY <1>24, ZenonT(60) DEF RetiredEntryDeleted
<1> QED BY <1>1, <1>2, <1>3, <1>4, <1>5, <1>6, <1>7, <1>8, <1>9, <1>10, <1>11, <1>12,
           <1>13, <1>14, <1>15, <1>16, <1>17, <1>18, <1>19, <1>20, <1>21, <1>22, <1>23, <1>24,
           <1>25, ZenonT(60)
        DEF ClientNext, Dialer, Runner, VNHandler

\* The counters stay within their bounds; in particular there is no third session.
LEMMA CountersStep ==
    ASSUME Counters, Stage, Negotiation, Numbers, Counters, ClientNext
    PROVE  Counters'
<1> USE DEF lifeVars, dialVars, sessVars, runVarsC, vnVars, mapVars, Counters
<1>1. CASE dialContext
  BY <1>1, ClientAssumption, ZenonT(60) DEF dialContext, AddConn, Stage, Negotiation
<1>2. CASE createNewTLSSession
  BY <1>2, ClientAssumption, SMTT(60) DEF createNewTLSSession, NewSession, Stage, Negotiation
<1>3. CASE SelectCtxDone
  BY <1>3, ClientAssumption, ZenonT(60) DEF SelectCtxDone, DialerStep, DecideOnce, Decide, Stage, Negotiation
<1>4. CASE SelectError
  BY <1>4, ClientAssumption, Zenon DEF SelectError, DialerStep, Stage, Negotiation
<1>5. CASE SelectHandshakeComplete
  BY <1>5, ClientAssumption, Zenon DEF SelectHandshakeComplete, DialerStep, Stage, Negotiation
<1>6. CASE SessionClosed
  BY <1>6, ClientAssumption, Zenon DEF SessionClosed, DialerStep, Stage, Negotiation
<1>7. CASE CancelDial
  BY <1>7, ClientAssumption, ZenonT(60) DEF CancelDial, Stage, Negotiation
<1>8. CASE SessionSends
  BY <1>8, ClientAssumption, SMTT(60) DEF SessionSends, SessionStep, Stage, Negotiation
<1>9. CASE HandshakeCompletes
  BY <1>9, ClientAssumption, Zenon DEF HandshakeCompletes, SessionStep, Stage, Negotiation
<1>10. CASE SessionCloses
  BY <1>10, ClientAssumption, Zenon DEF SessionCloses, SessionStep, Decide, Stage, Negotiation
<1>11. CASE SessionTimesOut
  BY <1>11, ClientAssumption, Zenon DEF SessionTimesOut, SessionStep, Decide, Stage, Negotiation
<1>25. CASE SessionHangs
  BY <1>25, SMTT(60) DEF SessionHangs, SessionStep
<1>12. CASE HandleCloseError
  BY <1>12, ClientAssumption, Zenon DEF HandleCloseError, SessionStep, Answer, Stage, Negotiation
<1>13. CASE RunLoopStops
  BY <1>13, ClientAssumption, Zenon DEF RunLoopStops, SessionStep, Stop, Stage, Negotiation
<1>14. CASE RunReturned
  BY <1>14, ClientAssumption, Zenon DEF RunReturned, Stage, Negotiation
<1>15. CASE ClosePacketHandlers
  BY <1>15, ClientAssumption, ZenonT(60) DEF ClosePacketHandlers, Stage, Negotiation
<1>16. CASE ReportError
  BY <1>16, ClientAssumption, ZenonT(60) DEF ReportError, Stage, Negotiation
<1>17. CASE HandleVNPacket
  BY <1>17, ClientAssumption, SMTT(60) DEF HandleVNPacket, Stage, Negotiation
<1>18. CASE HandlePacket
  BY <1>18, ClientAssumption, ZenonT(60) DEF HandlePacket, Stage, Negotiation
<1>19. CASE handleVersionNegotiationPacket
  BY <1>19, ClientAssumption, SMTT(60) DEF handleVersionNegotiationPacket, IgnoresVN, DecideOnce, Decide, Stage, Negotiation
<1>20. CASE SessionDestroyed
  BY <1>20, ClientAssumption, Zenon DEF SessionDestroyed, Stage, Negotiation
<1>21. CASE ReadFails
  BY <1>21, ClientAssumption, Zenon DEF ReadFails, MapClosed, StopClosedSession, Stage, Negotiation
<1>22. CASE DestroyClient
  BY <1>22, ClientAssumption, Zenon DEF DestroyClient, DecideOnce, Decide, Stage, Negotiation
<1>23. CASE ListenReturns
  BY <1>23, ClientAssumption, Zenon DEF ListenReturns, RemoveConn, Stage, Negotiation
<1>24. CASE RetiredEntryDeleted
  BY <1>24, ClientAssumption, Zenon DEF RetiredEntryDeleted, Stage, Negotiation
<1> QED BY <1>1, <1>2, <1>3, <1>4, <1>5, <1>6, <1>7, <1>8, <1>9, <1>10, <1>11, <1>12,
           <1>13, <1>14, <1>15, <1>16, <1>17, <1>18, <1>19, <1>20, <1>21, <1>22, <1>23, <1>24,
           <1>25, ZenonT(60)
        DEF ClientNext, Dialer, Runner, VNHandler

\* Sessions have versions of the configuration.
LEMMA OurVersionsStep ==
    ASSUME Counters, Stage, Negotiation, Numbers, OurVersions, ClientNext
    PROVE  OurVersions'
<1> USE DEF lifeVars, dialVars, sessVars, runVarsC, vnVars, mapVars, OurVersions
<1>1. CASE dialContext
  BY <1>1, ZenonT(60) DEF dialContext, AddConn
<1>2. CASE createNewTLSSession
  <2>1. version' = version /\ sessVersion' \in {version, sessVersion}
    BY <1>2, ZenonT(60) DEF createNewTLSSession, NewSession
  <2> QED BY <2>1, ZenonT(60)
<1>3. CASE SelectCtxDone
  BY <1>3, ZenonT(60) DEF SelectCtxDone, DialerStep, DecideOnce, Decide
<1>4. CASE SelectError
  BY <1>4, ZenonT(60) DEF SelectError, DialerStep
<1>5. CASE SelectHandshakeComplete
  BY <1>5, ZenonT(60) DEF SelectHandshakeComplete, DialerStep
<1>6. CASE SessionClosed
  BY <1>6, ZenonT(60) DEF SessionClosed, DialerStep
<1>7. CASE CancelDial
  BY <1>7, ZenonT(60) DEF CancelDial
<1>8. CASE SessionSends
  BY <1>8, ZenonT(60) DEF SessionSends, SessionStep
<1>9. CASE HandshakeCompletes
  BY <1>9, ZenonT(60) DEF HandshakeCompletes, SessionStep
<1>10. CASE SessionCloses
  BY <1>10, ZenonT(60) DEF SessionCloses, SessionStep, Decide
<1>11. CASE SessionTimesOut
  BY <1>11, ZenonT(60) DEF SessionTimesOut, SessionStep, Decide
<1>25. CASE SessionHangs
  BY <1>25, SMTT(60) DEF SessionHangs, SessionStep
<1>12. CASE HandleCloseError
  BY <1>12, ZenonT(60) DEF HandleCloseError, SessionStep, Answer
<1>13. CASE RunLoopStops
  BY <1>13, ZenonT(60) DEF RunLoopStops, SessionStep, Stop
<1>14. CASE RunReturned
  BY <1>14, ZenonT(60) DEF RunReturned
<1>15. CASE ClosePacketHandlers
  BY <1>15, ZenonT(60) DEF ClosePacketHandlers
<1>16. CASE ReportError
  BY <1>16, ZenonT(60) DEF ReportError
<1>17. CASE HandleVNPacket
  BY <1>17, ZenonT(60) DEF HandleVNPacket
<1>18. CASE HandlePacket
  BY <1>18, ZenonT(60) DEF HandlePacket
<1>19. CASE handleVersionNegotiationPacket
  <2>1. CASE UNCHANGED version
    BY <1>19, <2>1, ZenonT(60) DEF handleVersionNegotiationPacket
  <2>2. CASE /\ ~(\A i \in 1 .. Len(Versions) : Versions[i] \notin serverVersions)
             /\ version' = ChooseSupportedVersion(Versions, serverVersions)
    <3>1. version' \in {Versions[i] : i \in 1 .. Len(Versions)}
      BY <2>2, ChosenVersion, ZenonT(60)
    <3>2. sessVersion' = sessVersion
      BY <1>19, ZenonT(60) DEF handleVersionNegotiationPacket
    <3> QED BY <3>1, <3>2, ZenonT(60)
  <2> QED BY <1>19, <2>1, <2>2, ZenonT(60) DEF handleVersionNegotiationPacket
<1>20. CASE SessionDestroyed
  BY <1>20, ZenonT(60) DEF SessionDestroyed
<1>21. CASE ReadFails
  BY <1>21, ZenonT(60) DEF ReadFails, MapClosed, StopClosedSession
<1>22. CASE DestroyClient
  BY <1>22, ZenonT(60) DEF DestroyClient, DecideOnce, Decide
<1>23. CASE ListenReturns
  BY <1>23, ZenonT(60) DEF ListenReturns, RemoveConn
<1>24. CASE RetiredEntryDeleted
  BY <1>24, ZenonT(60) DEF RetiredEntryDeleted
<1> QED BY <1>1, <1>2, <1>3, <1>4, <1>5, <1>6, <1>7, <1>8, <1>9, <1>10, <1>11, <1>12,
           <1>13, <1>14, <1>15, <1>16, <1>17, <1>18, <1>19, <1>20, <1>21, <1>22, <1>23, <1>24,
           <1>25, ZenonT(60)
        DEF ClientNext, Dialer, Runner, VNHandler

\* The goroutines of a dial take their turns.
LEMMA StageStep ==
    ASSUME Counters, Stage, Negotiation, Numbers, Stage, ClientNext
    PROVE  Stage'
<1> USE DEF lifeVars, dialVars, sessVars, runVarsC, vnVars, mapVars, Stage
<1>1. CASE dialContext
  BY <1>1, SMTT(60) DEF dialContext, AddConn, Negotiation, Counters
<1>2. CASE createNewTLSSession
  BY <1>2, SMTT(60) DEF createNewTLSSession, NewSession, Negotiation, Counters
<1>3. CASE SelectCtxDone
  BY <1>3, SMTT(60) DEF SelectCtxDone, DialerStep, DecideOnce, Decide, Negotiation, Counters
<1>4. CASE SelectError
  BY <1>4, Zenon DEF SelectError, DialerStep, Negotiation, Counters
<1>5. CASE SelectHandshakeComplete
  BY <1>5, Zenon DEF SelectHandshakeComplete, DialerStep, Negotiation, Counters
<1>6. CASE SessionClosed
  BY <1>6, Zenon DEF SessionClosed, DialerStep, Negotiation, Counters
<1>7. CASE CancelDial
  BY <1>7, Zenon DEF CancelDial, Negotiation, Counters
<1>8. CASE SessionSends
  BY <1>8, Zenon DEF SessionSends, SessionStep, Negotiation, Counters
<1>9. CASE HandshakeCompletes
  BY <1>9, ZenonT(60) DEF HandshakeCompletes, SessionStep, Negotiation, Counters
<1>10. CASE SessionCloses
  BY <1>10, SMTT(60) DEF SessionCloses, SessionStep, Decide, Negotiation, Counters
<1>11. CASE SessionTimesOut
  BY <1>11, SMTT(60) DEF SessionTimesOut, SessionStep, Decide, Negotiation, Counters
<1>25. CASE SessionHangs
  BY <1>25, SMTT(60) DEF SessionHangs, SessionStep
<1>12. CASE HandleCloseError
  BY <1>12, Zenon DEF HandleCloseError, SessionStep, Answer, Negotiation, Counters
<1>13. CASE RunLoopStops
  BY <1>13, Zenon DEF RunLoopStops, SessionStep, Stop, Negotiation, Counters
<1>14. CASE RunReturned
  BY <1>14, Zenon DEF RunReturned, Negotiation, Counters
<1>15. CASE ClosePacketHandlers
  BY <1>15, Zenon DEF ClosePacketHandlers, Negotiation, Counters
<1>16. CASE ReportError
  BY <1>16, Zenon DEF ReportError, Negotiation, Counters
<1>17. CASE HandleVNPacket
  BY <1>17, Zenon DEF HandleVNPacket, Negotiation, Counters
<1>18. CASE HandlePacket
  BY <1>18, ZenonT(60) DEF HandlePacket, Negotiation, Counters
<1>19. CASE handleVersionNegotiationPacket
  BY <1>19, SMTT(60) DEF handleVersionNegotiationPacket, IgnoresVN, DecideOnce, Decide, Negotiation, Counters
<1>20. CASE SessionDestroyed
  BY <1>20, Zenon DEF SessionDestroyed, Negotiation, Counters
<1>21. CASE ReadFails
  BY <1>21, SMTT(60) DEF ReadFails, MapClosed, StopClosedSession, Negotiation, Counters
<1>22. CASE DestroyClient
  BY <1>22, Zenon DEF DestroyClient, DecideOnce, Decide, Negotiation, Counters
<1>23. CASE ListenReturns
  BY <1>23, ZenonT(60) DEF ListenReturns, RemoveConn, Negotiation, Counters
<1>24. CASE RetiredEntryDeleted
  BY <1>24 DEF RetiredEntryDeleted, Negotiation, Counters
<1> QED BY <1>1, <1>2, <1>3, <1>4, <1>5, <1>6, <1>7, <1>8, <1>9, <1>10, <1>11, <1>12,
           <1>13, <1>14, <1>15, <1>16, <1>17, <1>18, <1>19, <1>20, <1>21, <1>22, <1>23, <1>24,
           <1>25, ZenonT(60)
        DEF ClientNext, Dialer, Runner, VNHandler

\* A version is negotiated once.
LEMMA NegotiationStep ==
    ASSUME Counters, Stage, Negotiation, Numbers, Negotiation, ClientNext
    PROVE  Negotiation'
<1> USE DEF lifeVars, dialVars, sessVars, runVarsC, vnVars, mapVars, Negotiation
<1>1. CASE dialContext
  BY <1>1, ZenonT(60) DEF dialContext, AddConn, Stage, Counters
<1>2. CASE createNewTLSSession
  BY <1>2, SMTT(60) DEF createNewTLSSession, NewSession, Stage, Counters
<1>3. CASE SelectCtxDone
  BY <1>3, Zenon DEF SelectCtxDone, DialerStep, DecideOnce, Decide, Stage, Counters
<1>4. CASE SelectError
  BY <1>4, Zenon DEF SelectError, DialerStep, Stage, Counters
<1>5. CASE SelectHandshakeComplete
  BY <1>5, Zenon DEF SelectHandshakeComplete, DialerStep, Stage, Counters
<1>6. CASE SessionClosed
  BY <1>6, Zenon DEF SessionClosed, DialerStep, Stage, Counters
<1>7. CASE CancelDial
  BY <1>7, Zenon DEF CancelDial, Stage, Counters
<1>8. CASE SessionSends
  BY <1>8, Zenon DEF SessionSends, SessionStep, Stage, Counters
<1>9. CASE HandshakeCompletes
  BY <1>9, Zenon DEF HandshakeCompletes, SessionStep, Stage, Counters
<1>10. CASE SessionCloses
  BY <1>10, Zenon DEF SessionCloses, SessionStep, Decide, Stage, Counters
<1>11. CASE SessionTimesOut
  BY <1>11, Zenon DEF SessionTimesOut, SessionStep, Decide, Stage, Counters
<1>25. CASE SessionHangs
  BY <1>25, SMTT(60) DEF SessionHangs, SessionStep
<1>12. CASE HandleCloseError
  BY <1>12, Zenon DEF HandleCloseError, SessionStep, Answer, Stage, Counters
<1>13. CASE RunLoopStops
  BY <1>13, Zenon DEF RunLoopStops, SessionStep, Stop, Stage, Counters
<1>14. CASE RunReturned
  BY <1>14, Zenon DEF RunReturned, Stage, Counters
<1>15. CASE ClosePacketHandlers
  BY <1>15, Zenon DEF ClosePacketHandlers, Stage, Counters
<1>16. CASE ReportError
  BY <1>16, Zenon DEF ReportError, Stage, Counters
<1>17. CASE HandleVNPacket
  BY <1>17, ZenonT(60) DEF HandleVNPacket, Stage, Counters
<1>18. CASE HandlePacket
  BY <1>18 DEF HandlePacket, Stage, Counters
<1>19. CASE handleVersionNegotiationPacket
  <2>1. CASE IgnoresVN
    BY <1>19, <2>1, ZenonT(60) DEF handleVersionNegotiationPacket, Counters
  <2>2. CASE ~IgnoresVN /\ \A i \in 1 .. Len(Versions) : Versions[i] \notin serverVersions
    <3>1. vn' = "destroying" /\ mutex' = "vn" /\ DecideOnce("destroy") /\ ~receivedVN
      BY <1>19, <2>2, ZenonT(60) DEF handleVersionNegotiationPacket, IgnoresVN
    <3> QED BY <1>19, <3>1, ZenonT(60) DEF handleVersionNegotiationPacket, DecideOnce, Decide, Counters
  <2>3. CASE ~IgnoresVN /\ ~\A i \in 1 .. Len(Versions) : Versions[i] \notin serverVersions
    <3>1. /\ vn' = "recreating" /\ mutex' = "vn" /\ DecideOnce("recreate") /\ receivedVN' = TRUE
          /\ version' = ChooseSupportedVersion(Versions, serverVersions)
          /\ ~receivedVN /\ version \notin serverVersions
      BY <1>19, <2>3, ZenonT(60) DEF handleVersionNegotiationPacket, IgnoresVN
    <3>2. version' \in serverVersions
      BY <2>3, <3>1, ChosenVersion, ZenonT(60)
    <3>3. generation > 0 /\ generation # 2
      BY <1>19, <3>1, ZenonT(60) DEF handleVersionNegotiationPacket
    <3>4. generation = 1
      BY <3>3, SMTT(60) DEF Counters
    <3> QED BY <1>19, <3>1, <3>2, <3>4, ZenonT(60) DEF handleVersionNegotiationPacket, DecideOnce, Decide
  <2> QED BY <2>1, <2>2, <2>3, ZenonT(60)
<1>20. CASE SessionDestroyed
  BY <1>20, Zenon DEF SessionDestroyed, Stage, Counters
<1>21. CASE ReadFails
  BY <1>21, Zenon DEF ReadFails, MapClosed, StopClosedSession, Stage, Counters
<1>22. CASE DestroyClient
  BY <1>22, Zenon DEF DestroyClient, DecideOnce, Decide, Stage, Counters
<1>23. CASE ListenReturns
  BY <1>23, Zenon DEF ListenReturns, RemoveConn, Stage, Counters
<1>24. CASE RetiredEntryDeleted
  BY <1>24, Zenon DEF RetiredEntryDeleted, Stage, Counters
<1> QED BY <1>1, <1>2, <1>3, <1>4, <1>5, <1>6, <1>7, <1>8, <1>9, <1>10, <1>11, <1>12,
           <1>13, <1>14, <1>15, <1>16, <1>17, <1>18, <1>19, <1>20, <1>21, <1>22, <1>23, <1>24,
           <1>25, ZenonT(60)
        DEF ClientNext, Dialer, Runner, VNHandler

\* Packet numbers go on in the next session.
LEMMA NumbersStep ==
    ASSUME Counters, Stage, Negotiation, Numbers, Numbers, ClientNext
    PROVE  Numbers'
<1> USE DEF lifeVars, dialVars, sessVars, runVarsC, vnVars, mapVars, Numbers
<1>1. CASE dialContext
  BY <1>1, Zenon DEF dialContext, AddConn, Stage, Negotiation, Counters
<1>2. CASE createNewTLSSession
  BY <1>2, SMTT(60) DEF createNewTLSSession, NewSession, Stage, Negotiation, Counters
<1>3. CASE SelectCtxDone
  BY <1>3, SMTT(60) DEF SelectCtxDone, DialerStep, DecideOnce, Decide, Stage, Negotiation, Counters
<1>4. CASE SelectError
  BY <1>4, Zenon DEF SelectError, DialerStep, Stage, Negotiation, Counters
<1>5. CASE SelectHandshakeComplete
  BY <1>5, Zenon DEF SelectHandshakeComplete, DialerStep, Stage, Negotiation, Counters
<1>6. CASE SessionClosed
  BY <1>6, Zenon DEF SessionClosed, DialerStep, Stage, Negotiation, Counters
<1>7. CASE CancelDial
  BY <1>7, ZenonT(60) DEF CancelDial, Stage, Negotiation, Counters
<1>8. CASE SessionSends
  BY <1>8, SMTT(60) DEF SessionSends, SessionStep, Stage, Negotiation, Counters
<1>9. CASE HandshakeCompletes
  BY <1>9, Zenon DEF HandshakeCompletes, SessionStep, Stage, Negotiation, Counters
<1>10. CASE SessionCloses
  BY <1>10, Zenon DEF SessionCloses, SessionStep, Decide, Stage, Negotiation, Counters
<1>11. CASE SessionTimesOut
  BY <1>11, Zenon DEF SessionTimesOut, SessionStep, Decide, Stage, Negotiation, Counters
<1>25. CASE SessionHangs
  BY <1>25, SMTT(60) DEF SessionHangs, SessionStep
<1>12. CASE HandleCloseError
  BY <1>12, Zenon DEF HandleCloseError, SessionStep, Answer, Stage, Negotiation, Counters
<1>13. CASE RunLoopStops
  BY <1>13, Zenon DEF RunLoopStops, SessionStep, Stop, Stage, Negotiation, Counters
<1>14. CASE RunReturned
  BY <1>14, Zenon DEF RunReturned, Stage, Negotiation, Counters
<1>15. CASE ClosePacketHandlers
  BY <1>15, Zenon DEF ClosePacketHandlers, Stage, Negotiation, Counters
<1>16. CASE ReportError
  BY <1>16, Zenon DEF ReportError, Stage, Negotiation, Counters
<1>17. CASE HandleVNPacket
  BY <1>17, Zenon DEF HandleVNPacket, Stage, Negotiation, Counters
<1>18. CASE HandlePacket
  BY <1>18, Zenon DEF HandlePacket, Stage, Negotiation, Counters
<1>19. CASE handleVersionNegotiationPacket
  BY <1>19, Zenon DEF handleVersionNegotiationPacket, IgnoresVN, DecideOnce, Decide, Stage, Negotiation, Counters
<1>20. CASE SessionDestroyed
  BY <1>20, Zenon DEF SessionDestroyed, Stage, Negotiation, Counters
<1>21. CASE ReadFails
  BY <1>21, Zenon DEF ReadFails, MapClosed, StopClosedSession, Stage, Negotiation, Counters
<1>22. CASE DestroyClient
  BY <1>22, Zenon DEF DestroyClient, DecideOnce, Decide, Stage, Negotiation, Counters
<1>23. CASE ListenReturns
  BY <1>23, Zenon DEF ListenReturns, RemoveConn, Stage, Negotiation, Counters
<1>24. CASE RetiredEntryDeleted
  BY <1>24, Zenon DEF RetiredEntryDeleted, Stage, Negotiation, Counters
<1> QED BY <1>1, <1>2, <1>3, <1>4, <1>5, <1>6, <1>7, <1>8, <1>9, <1>10, <1>11, <1>12,
           <1>13, <1>14, <1>15, <1>16, <1>17, <1>18, <1>19, <1>20, <1>21, <1>22, <1>23, <1>24,
           <1>25, ZenonT(60)
        DEF ClientNext, Dialer, Runner, VNHandler

ClientInv ==
    /\ Places /\ Flags /\ Counters /\ OurVersions
    /\ Stage /\ Negotiation /\ Numbers

\* The client before it dials.
LEMMA ClientInvInit ==
    ClientInit => ClientInv
<1> SUFFICES ASSUME ClientInit
             PROVE  ClientInv
  BY ZenonT(60)
<1>1. Places
  BY DEF ClientInit, LifeInit, Places
<1>2. Flags
  BY ZenonT(60) DEF ClientInit, LifeInit, Flags
<1>3. Counters
  BY ClientAssumption DEF ClientInit, Counters
<1>4. OurVersions
  <2>1. Head(Versions) = Versions[1] /\ 1 \in 1 .. Len(Versions)
    BY ClientAssumption, SMTT(60)
  <2> QED BY <2>1, ZenonT(60) DEF ClientInit, OurVersions
<1>5. Stage
  BY Zenon DEF ClientInit, LifeInit, Stage
<1>6. Negotiation
  BY SMTT(60) DEF ClientInit, LifeInit, Negotiation
<1>7. Numbers
  BY DEF ClientInit, LifeInit, Numbers
<1> QED BY <1>1, <1>2, <1>3, <1>4, <1>5, <1>6, <1>7, ZenonT(60) DEF ClientInv

\* Steps of the session in detail leave the client alone.
LEMMA ClientIdle ==
    ASSUME ClientInv, UNCHANGED clientVars
    PROVE  ClientInv'
<1>1. UNCHANGED <<lifeVars, dialVars, sessVars, runVarsC, mutex, vnVars, mapVars>>
  BY Zenon DEF clientVars
<1>2. UNCHANGED <<reason, entry, done, createdPacketConn, cancelled, dialer, generation>>
  BY <1>1, Zenon DEF lifeVars, dialVars
<1>3. /\ UNCHANGED <<established, sessVersion, nextPN, highestSent, offered, serverVersions,
                    hung>>
      /\ UNCHANGED <<running, errorChan, mutex>>
  BY <1>1, Zenon DEF sessVars, runVarsC
<1>4. /\ UNCHANGED <<version, initialPacketNumber, receivedVN, versionNegotiated, vnWaiting, vn>>
      /\ UNCHANGED <<socketOpen, listen, known, destroying, closedRun, retireTimer>>
  BY <1>1, Zenon DEF vnVars, mapVars
<1>5. Places'
  BY <1>2, <1>3, <1>4, SMTT(60) DEF ClientInv, Places
<1>6. Flags'
  BY <1>2, <1>3, <1>4, Zenon DEF ClientInv, Flags
<1>7. Counters' /\ OurVersions'
  BY <1>2, <1>3, <1>4, Zenon DEF ClientInv, Counters, OurVersions
<1>8. Stage' /\ Numbers'
  BY <1>2, <1>3, <1>4, Zenon DEF ClientInv, Stage, Numbers
<1>9. Negotiation'
  BY <1>2, <1>3, <1>4, Zenon DEF ClientInv, Negotiation
<1> QED BY <1>5, <1>6, <1>7, <1>8, <1>9, Zenon DEF ClientInv

\* The invariant of the client.
LEMMA ClientInvariant ==
    ConnectionSpec => []ClientInv
<1>1. ASSUME ClientInv, [ConnectionNext]_connectionVars
      PROVE  ClientInv'
  <2>1. CASE ClientNext
    BY <1>1, <2>1, PlacesStep, FlagsStep, CountersStep, OurVersionsStep, StageStep,
       NegotiationStep, NumbersStep, Zenon DEF ClientInv
  <2>2. CASE UNCHANGED clientVars
    BY <1>1, <2>2, ClientIdle, ZenonT(60)
  <2> QED
    BY <1>1, <2>1, <2>2, Zenon DEF ConnectionNext, InSession, InClient, connectionVars
<1>2. ConnectionInit => ClientInv
  BY ClientInvInit, ZenonT(60) DEF ConnectionInit
<1> QED BY <1>1, <1>2, PTL DEF ConnectionSpec

-----------------------------------------------------------------------------
\* The variables of the session and the client have their types: in particular
\* a dial creates no third session (client.go, dialContext and
\* establishSecureConnection).
THEOREM ConnectionTypeCorrect ==
    ConnectionSpec => []ConnectionTypeOK
<1>1. ClientInv => ClientTypeOK
  BY ZenonT(60) DEF ClientInv, Places, Flags, Counters, OurVersions, ClientTypeOK
<1>2. TypeOK /\ ClientInv => ConnectionTypeOK
  BY <1>1, ZenonT(60) DEF ConnectionTypeOK
<1> QED BY <1>2, SessionTypes, ConnectionIsSession, ClientInvariant, PTL

\* The session that is made after version negotiation uses none of the packet
\* numbers of the first one, and is the last; and no session is given up whose
\* version the server knows (client.go, handleVersionNegotiationPacket).
THEOREM NewSessionIsSafe ==
    ConnectionSpec => []NewSessionContinues
<1>1. ClientInv => NewSessionContinues
  BY Zenon DEF ClientInv, Negotiation, Numbers, NewSessionContinues
<1> QED BY <1>1, ClientInvariant, PTL
=============================================================================
