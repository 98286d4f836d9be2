------------------------------ MODULE Session ------------------------------
(***************************************************************************)
(* The life of a session (quic-go/session.go): its run loop, the goroutine *)
(* of the sendQueue (send_queue.go), the two goroutines of the handshake   *)
(* (core/handshake/crypto_setup.go: RunHandshake and qtls), and the        *)
(* goroutines that close or destroy the session.                           *)
(*                                                                         *)
(* What packets carry is abstract: the run loop sees one that it cannot    *)
(* use, an ordinary one, the next handshake message, CONNECTION_CLOSE, or  *)
(* one that violates the protocol.  A handshake message is "sync" if       *)
(* HandleMessage waits for the keys that qtls derives from it.             *)
(***************************************************************************)
EXTENDS Integers, Sequences, FiniteSets

CONSTANTS Closers,      \* goroutines that call Close or CloseWithError
          Destroyers,   \* goroutines that call destroy or closeForRecreating
          Flight,       \* the peer's handshake messages: "sync" or "async"
          MaxBurst      \* bound: packets sent in one turn of the run loop

ASSUME SessionAssumption ==
    /\ Closers \cap Destroyers = {}
    /\ Flight \in Seq({"sync", "async"}) /\ Flight # <<>> /\ Flight[Len(Flight)] = "sync"
    /\ MaxBurst \in Nat

VARIABLES
    perspective,
    loop, toSend,        \* run loop: where it is, packets left to send
    closeOnce,           \* whether closeOnce was used
    closeChan,           \* the close error in the channel: who caused it
    closeErr,            \* the one the run loop received
    queue, sender, queueClosed,                 \* sendQueue
    tls, delivered, messageChan, messagesClosed, \* qtls and its messages
    runner, cryptoClosed,                       \* RunHandshake
    handshakeDone, handshakeComplete,  \* handshakeCompleteChan closed; seen
    handler,             \* the entry for the session in the packetHandlerMap
    streamsClosed, connCloseSent,
    app                  \* the goroutines that close the session

closeVars == <<closeOnce, closeChan, handler>>
queueVars == <<queue, sender, queueClosed>>
tlsVars   == <<tls, delivered, messageChan, messagesClosed>>
runVars   == <<runner, cryptoClosed, handshakeDone>>
endVars   == <<closeErr, streamsClosed, connCloseSent>>
loopVars  == <<loop, toSend, handshakeComplete, endVars>>
vars == <<perspective, closeVars, queueVars, tlsVars, runVars, loopVars, app>>

Apps    == Closers \cup Destroyers
Reasons == {"local", "destroy", "remote"}
LoopPC  == {"hello", "top", "select", "work", "keys", "send", "closing",
            "cryptoClose", "waitTLS", "done"}

TypeOK ==
    /\ perspective \in {"client", "server"}
    /\ loop \in LoopPC /\ toSend \in 0 .. MaxBurst
    /\ closeOnce \in BOOLEAN /\ closeChan \in Reasons \cup {"empty"}
    /\ closeErr \in Reasons \cup {"none"}
    /\ queue \in 0 .. 1 /\ sender \in {"select", "write", "failed", "stopped"}
    /\ tls \in {"start", "reading", "working", "keys", "alert", "ok", "err"}
    /\ delivered \in 0 .. Len(Flight) /\ messageChan \in 0 .. delivered
    /\ runner \in {"select", "alerted", "draining", "exited"}
    /\ {queueClosed, messagesClosed, cryptoClosed, handshakeDone, handshakeComplete,
        streamsClosed, connCloseSent} \subseteq BOOLEAN
    /\ handler \in {"session", "closedLocal", "closedRemote", "none"}
    /\ app \in [Apps -> {"idle", "waiting", "returned"}]

Init ==
    /\ perspective \in {"client", "server"}
    /\ loop = IF perspective = "client" THEN "hello" ELSE "top"
    /\ tls = IF perspective = "client" THEN "start" ELSE "reading"
    /\ toSend = 0 /\ closeOnce = FALSE /\ closeChan = "empty" /\ closeErr = "none"
    /\ queue = 0 /\ sender = "select" /\ queueClosed = FALSE
    /\ delivered = 0 /\ messageChan = 0 /\ messagesClosed = FALSE
    /\ runner = "select" /\ cryptoClosed = FALSE
    /\ handshakeDone = FALSE /\ handshakeComplete = FALSE
    /\ handler = "session" /\ streamsClosed = FALSE /\ connCloseSent = FALSE
    /\ app = [a \in Apps |-> "idle"]

-----------------------------------------------------------------------------
(* Who is first decides how the session ends. *)

First(reason) ==
    /\ closeOnce' = TRUE
    /\ closeChan' = IF closeOnce THEN closeChan ELSE reason

closeLocal == First("local") /\ UNCHANGED handler

destroyImpl ==
    /\ First("destroy")
    /\ handler' = IF closeOnce THEN handler ELSE "none"

closeRemote_ReplacesAnyway ==
    /\ First("remote")
    /\ handler' = "closedRemote"

closeRemote ==
    /\ First("remote")
    /\ handler' = IF closeOnce THEN handler ELSE "closedRemote"

-----------------------------------------------------------------------------
(* The run loop. *)

Goto(label) == loop' = label /\ UNCHANGED <<toSend, handshakeComplete, endVars>>

\* The client waits for the ClientHello.  A close error is put back.
ClientHello ==
    /\ loop = "hello"
    /\ tls # "start" \/ closeChan # "empty"
    /\ Goto("top")
    /\ UNCHANGED <<perspective, closeVars, queueVars, tlsVars, runVars, app>>

ReceiveCloseErr ==
    /\ closeChan # "empty"
    /\ closeErr' = closeChan /\ closeChan' = "empty"
    /\ loop' = "closing"
    /\ UNCHANGED <<perspective, closeOnce, handler, queueVars, tlsVars, runVars, toSend,
                   handshakeComplete, streamsClosed, connCloseSent, app>>

\* handleHandshakeComplete; the server may fail to make a token.
handleHandshakeComplete(next) ==
    /\ handshakeDone /\ ~handshakeComplete
    /\ handshakeComplete' = TRUE
    /\ loop' = next
    /\ \/ UNCHANGED closeVars
       \/ perspective = "server" /\ closeLocal
    /\ UNCHANGED <<perspective, queueVars, tlsVars, runVars, toSend, endVars, app>>

\* The first select: "Close immediately if requested".
Top ==
    /\ loop = "top"
    /\ \/ ReceiveCloseErr
       \/ handleHandshakeComplete("select")
       \/ /\ closeChan = "empty" /\ (handshakeComplete \/ ~handshakeDone)
          /\ Goto("select")
          /\ UNCHANGED <<perspective, closeVars, queueVars, tlsVars, runVars, app>>

\* The second one; whatever is ready may be chosen.
Select == loop = "select" /\ (ReceiveCloseErr \/ handleHandshakeComplete("work"))

\* The timer fires or scheduleSending was called.
SelectTimer ==
    /\ loop = "select"
    /\ Goto("work")
    /\ UNCHANGED <<perspective, closeVars, queueVars, tlsVars, runVars, app>>

\* handlePacketImpl, for a packet that carries no handshake message.
SelectPacket ==
    /\ loop = "select"
    /\ \/ Goto("top") /\ UNCHANGED closeVars       \* not processed
       \/ Goto("work") /\ UNCHANGED closeVars
       \/ Goto("top") /\ closeLocal                \* a frame handler failed
       \/ Goto("work") /\ closeLocal               \* HandleMessage reported an error
       \/ Goto("work") /\ closeRemote              \* CONNECTION_CLOSE
    /\ UNCHANGED <<perspective, queueVars, tlsVars, runVars, app>>

\* cryptoSetup.HandleMessage.
SelectMessage ==
    /\ loop = "select" /\ delivered < Len(Flight)
    /\ delivered' = delivered + 1 /\ messageChan' = messageChan + 1
    /\ Goto(IF Flight[delivered + 1] = "sync" THEN "keys" ELSE "work")
    /\ UNCHANGED <<perspective, closeVars, queueVars, tls, messagesClosed, runVars, app>>

\* HandleMessage stops waiting for keys when qtls has returned.
NoMoreKeys ==
    /\ loop = "keys" /\ tls \in {"ok", "err"}
    /\ Goto("work")
    /\ UNCHANGED <<perspective, closeVars, queueVars, tlsVars, runVars, app>>

\* The rest of a turn: the idle or handshake timeout, waiting for the pacing
\* deadline (nothing is sent), or sending.  The loss detection may fail first.
Timeout ==
    /\ loop = "work"
    /\ destroyImpl
    /\ Goto("top")
    /\ UNCHANGED <<perspective, queueVars, tlsVars, runVars, app>>

SendPackets ==
    /\ loop = "work"
    /\ \E n \in 0 .. MaxBurst : toSend' = n
    /\ loop' = "send"
    /\ UNCHANGED closeVars \/ closeLocal
    /\ UNCHANGED <<perspective, queueVars, tlsVars, runVars, handshakeComplete, endVars, app>>

QueueHasRoom_Ignored == TRUE

QueueHasRoom == queue = 0

\* sendQueue.Send waits until there is room.
SendPacket ==
    /\ loop = "send" /\ toSend > 0 /\ QueueHasRoom
    /\ queue' = queue + 1 /\ toSend' = toSend - 1
    /\ UNCHANGED <<perspective, closeVars, sender, queueClosed, tlsVars, runVars, loop,
                   handshakeComplete, endVars, app>>

SendingEnds ==
    /\ loop = "send"
    /\ \/ toSend = 0 /\ UNCHANGED closeVars
       \/ toSend > 0 /\ closeLocal      \* packing failed
    /\ loop' = "top" /\ toSend' = 0
    /\ UNCHANGED <<perspective, queueVars, tlsVars, runVars, handshakeComplete, endVars, app>>

-----------------------------------------------------------------------------
(* After the loop. *)

\* CONNECTION_CLOSE is written to the connection, not to the sendQueue.  If it
\* cannot be packed or written, that is only logged.
handleCloseError ==
    /\ loop = "closing"
    /\ streamsClosed' = TRUE
    /\ IF closeErr = "local"
       THEN connCloseSent' \in BOOLEAN /\ handler' = "closedLocal"
       ELSE UNCHANGED <<connCloseSent, handler>>
    /\ loop' = "cryptoClose"
    /\ UNCHANGED <<perspective, closeOnce, closeChan, closeErr, queueVars, tlsVars, runVars,
                   toSend, handshakeComplete, app>>

SignalCryptoClose_Not == UNCHANGED cryptoClosed

SignalCryptoClose == cryptoClosed' = TRUE

cryptoSetupClose ==
    /\ loop = "cryptoClose"
    /\ SignalCryptoClose
    /\ Goto("waitTLS")
    /\ UNCHANGED <<perspective, closeVars, queueVars, tlsVars, runner, handshakeDone, app>>

sendQueueClose == queueClosed' = TRUE

\* sendQueue.Close, and the deferred ctxCancel.
RunReturns ==
    /\ loop = "waitTLS" /\ tls \in {"ok", "err"}
    /\ sendQueueClose
    /\ Goto("done")
    /\ UNCHANGED <<perspective, closeVars, queue, sender, tlsVars, runVars, app>>

-----------------------------------------------------------------------------
(* sendQueue.Run. *)

SenderStep(next) ==
    sender' = next /\ UNCHANGED <<perspective, tlsVars, runVars, loopVars, app>>

SenderTakes ==
    /\ sender = "select" /\ queue = 1
    /\ queue' = 0
    /\ SenderStep("write")
    /\ UNCHANGED <<closeVars, queueClosed>>

SenderStops ==
    /\ sender = "select" /\ queueClosed
    /\ SenderStep("stopped")
    /\ UNCHANGED <<closeVars, queue, queueClosed>>

\* Writing to the socket may fail; Run then returns, and closeLocal is called.
SenderWrites ==
    /\ sender = "write"
    /\ \E next \in {"select", "failed"} : SenderStep(next)
    /\ UNCHANGED <<closeVars, queue, queueClosed>>

SenderFails ==
    /\ sender = "failed"
    /\ closeLocal
    /\ SenderStep("stopped")
    /\ UNCHANGED <<queue, queueClosed>>

-----------------------------------------------------------------------------
(* qtls, and RunHandshake. *)

TLSStep(next) ==
    tls' = next /\ UNCHANGED <<perspective, closeVars, queueVars, delivered, messagesClosed, app>>

WriteClientHello ==
    /\ tls = "start"
    /\ TLSStep("reading")
    /\ UNCHANGED <<messageChan, runVars, loopVars>>

ReadHandshakeMessage ==
    /\ tls = "reading"
    /\ \/ messageChan > 0 /\ messageChan' = messageChan - 1 /\ TLSStep("working")
       \/ messageChan = 0 /\ messagesClosed /\ UNCHANGED messageChan /\ TLSStep("err")
    /\ UNCHANGED <<runVars, loopVars>>

\* The message taken last is number delivered - messageChan.
ProcessMessage ==
    /\ tls = "working"
    /\ \E next \in {"alert", IF Flight[delivered - messageChan] = "sync" THEN "keys"
                             ELSE "reading"} : TLSStep(next)
    /\ UNCHANGED <<messageChan, runVars, loopVars>>

\* SetReadKey and SetWriteKey block until HandleMessage takes the key.
HandOverKeys ==
    /\ tls = "keys" /\ loop = "keys"
    /\ TLSStep(IF delivered = Len(Flight) THEN "ok" ELSE "reading")
    /\ Goto("work")
    /\ UNCHANGED <<messageChan, runVars>>

\* SendAlert blocks until RunHandshake takes the alert; then qtls returns.
SendAlert ==
    /\ tls = "alert" /\ runner = "select"
    /\ TLSStep("err")
    /\ runner' = "alerted"
    /\ UNCHANGED <<messageChan, cryptoClosed, handshakeDone, loopVars>>

RunnerStep(next) ==
    runner' = next /\ UNCHANGED <<perspective, queueVars, tls, delivered, messageChan,
                                  cryptoClosed, loopVars, app>>

\* OnHandshakeComplete; then the server may fail to make a session ticket.
RunHandshakeCompletes ==
    /\ runner = "select" /\ tls = "ok"
    /\ handshakeDone' = TRUE
    /\ UNCHANGED closeVars \/ (perspective = "server" /\ closeLocal)
    /\ RunnerStep("exited")
    /\ UNCHANGED messagesClosed

RunHandshakeAborts ==
    /\ runner = "select" /\ cryptoClosed
    /\ messagesClosed' = TRUE
    /\ RunnerStep("draining")
    /\ UNCHANGED <<closeVars, handshakeDone>>

RunHandshakeAlerted ==
    /\ runner = "alerted"
    /\ closeLocal
    /\ RunnerStep("exited")
    /\ UNCHANGED <<messagesClosed, handshakeDone>>

RunHandshakeDrained ==
    /\ runner = "draining" /\ tls \in {"ok", "err"}
    /\ RunnerStep("exited")
    /\ UNCHANGED <<closeVars, messagesClosed, handshakeDone>>

-----------------------------------------------------------------------------
(* Close, CloseWithError and destroy wait for the context of the session. *)

CtxDone_Early == loop \in {"cryptoClose", "waitTLS", "done"}

CtxDone == loop = "done"

CloseCalled(a) ==
    /\ app[a] = "idle"
    /\ \/ a \in Closers /\ closeLocal
       \/ a \in Destroyers /\ destroyImpl
    /\ app' = [app EXCEPT ![a] = "waiting"]
    /\ UNCHANGED <<perspective, queueVars, tlsVars, runVars, loopVars>>

CloseReturns(a) ==
    /\ app[a] = "waiting" /\ CtxDone
    /\ app' = [app EXCEPT ![a] = "returned"]
    /\ UNCHANGED <<perspective, closeVars, queueVars, tlsVars, runVars, loopVars>>

-----------------------------------------------------------------------------
LoopStep ==
    \/ ClientHello \/ Top \/ Select \/ NoMoreKeys
    \/ Timeout \/ SendPackets \/ SendPacket \/ SendingEnds
    \/ handleCloseError \/ cryptoSetupClose \/ RunReturns

SendQueueRun == SenderTakes \/ SenderStops \/ SenderWrites \/ SenderFails

Handshake == WriteClientHello \/ ReadHandshakeMessage \/ ProcessMessage \/ HandOverKeys \/ SendAlert

RunHandshake ==
    RunHandshakeCompletes \/ RunHandshakeAborts \/ RunHandshakeAlerted \/ RunHandshakeDrained

Next ==
    \/ LoopStep \/ SelectTimer \/ SelectPacket \/ SelectMessage
    \/ SendQueueRun \/ Handshake \/ RunHandshake
    \/ \E a \in Apps : CloseCalled(a) \/ CloseReturns(a)

\* Goroutines that can go on do.  Nothing is assumed of packets and timers.
Spec ==
    /\ Init /\ [][Next]_vars
    /\ WF_vars(LoopStep) /\ WF_vars(SendQueueRun) /\ WF_vars(Handshake)
    /\ WF_vars(RunHandshake) /\ \A a \in Apps : WF_vars(CloseReturns(a))

-----------------------------------------------------------------------------
(* Properties. *)

\* However many close the session at once, it goes through the life that those
\* who run it rely on: one reason wins, and the packetHandlerMap ends with what
\* fits it, before run returns.
Life == INSTANCE SessionLife
            WITH reason <- IF closeChan # "empty" THEN closeChan ELSE closeErr,
                 entry  <- handler,
                 done   <- loop = "done"

ImplementsLife == Life!LifeSpec

\* Whoever closed or destroyed the session, and in whatever order: when run
\* has returned, the packetHandlerMap delivers no packet to the session any
\* more, and if CONNECTION_CLOSE was sent, the closed session that can repeat it
\* is what is left there (it may not have been sent at all: handleCloseError
\* only logs an error).  Close, CloseWithError and destroy return only then, with
\* the streams closed, qtls returned and the send queue closed.
ClosedWhenReturned ==
    /\ loop = "done" =>
          handler # "session" /\ (connCloseSent => handler = "closedLocal")
    /\ \A a \in Apps : app[a] = "returned" =>
          loop = "done" /\ streamsClosed /\ queueClosed /\ tls \in {"ok", "err"}

\* The run loop waits in Send for a goroutine that has returned.
SendBlocked == loop = "send" /\ toSend > 0 /\ queue = 1 /\ sender = "stopped"

\* qtls waits in SendAlert for RunHandshake, which waits for qtls.
AlertBlocked == tls = "alert" /\ runner = "draining"

\* Close, CloseWithError and destroy return, whatever the run loop, the send
\* queue and the handshake are doing, except in these two situations; and once
\* the run loop has stopped the other goroutines of the session end.
ClosingEnds ==
    /\ \A a \in Apps :
          app[a] = "waiting" ~> app[a] = "returned" \/ []SendBlocked \/ []AlertBlocked
    /\ loop = "done" ~> sender = "stopped" /\ runner = "exited"

\* "It waits until the run loop has stopped before returning": Close returns.
CloseAlwaysReturns == \A a \in Closers : app[a] = "waiting" ~> app[a] = "returned"
=============================================================================
