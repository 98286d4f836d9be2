------------------------------- MODULE Server -------------------------------
(***************************************************************************)
(* The server (quic-go/server.go), the map of packet handlers it shares    *)
(* with its sessions (packet_handler_map.go), and the two locks they hold: *)
(* the mutex of the server and the mutex of the map.  One goroutine        *)
(* handles each Initial packet, one waits for each new session to finish   *)
(* its handshake, one reads from the socket.                               *)
(*                                                                         *)
(* A session is what module Session says of one that stops: its first      *)
(* close reason, the entry it leaves in the map, and that its run loop     *)
(* returned.                                                               *)
(***************************************************************************)
EXTENDS Integers, FiniteSets

CONSTANTS Conns,               \* connection attempts
          Acceptors,           \* goroutines that call Accept
          Closers,             \* goroutines that call Close on the server
          MaxAcceptQueueSize

ASSUME ServerAssumption ==
    /\ IsFiniteSet(Conns) /\ IsFiniteSet(Acceptors)
    /\ "free" \notin Closers
    /\ MaxAcceptQueueSize \in Nat \ {0}

VARIABLES
    createdPacketConn,   \* whether the server opened the socket itself
    initial,             \* the goroutine that handles the Initial of a conn
    sess,                \* the session: running, told how to end, stopped
    newSession,          \* its handleNewSession goroutine
    handlers, retiring,  \* entries of the map, ids with a deletion timer
    sessionQueueLen,
    accept,              \* the goroutines in Accept
    listen, destroying,  \* the goroutine that reads; whom it destroys
    hLocked,             \* whether it holds the mutex of the map
    connClosed,
    serverSet,           \* h.server # nil
    sMutex,              \* who holds the mutex of the server
    closed, errorChan,   \* how often errorChan was closed
    closer, closing,     \* the goroutines in Close; the sessions they wait for
    late                 \* attempts not yet in the map when CloseServer ran

sessVars  == <<initial, sess>>
mapVars   == <<handlers, retiring>>
queueVars == <<newSession, sessionQueueLen, accept>>
readVars  == <<listen, destroying, hLocked>>
closeVars == <<serverSet, sMutex, closed, errorChan, closer, closing, late>>
vars == <<createdPacketConn, sessVars, mapVars, queueVars, readVars, connClosed, closeVars>>
Init ==
    /\ createdPacketConn \in BOOLEAN
    /\ initial = [i \in Conns |-> "none"] /\ sess = [i \in Conns |-> "none"]
    /\ newSession = [i \in Conns |-> "none"] /\ handlers = [i \in Conns |-> "none"]
    /\ retiring = {} /\ sessionQueueLen = 0 /\ accept = [a \in Acceptors |-> "idle"]
    /\ listen = "reading" /\ destroying = {} /\ hLocked = FALSE /\ connClosed = FALSE
    /\ serverSet = TRUE /\ sMutex = "free" /\ closed = FALSE /\ errorChan = 0
    /\ closer = [c \in Closers |-> "idle"] /\ closing = [c \in Closers |-> {}] /\ late = {}

-----------------------------------------------------------------------------
(* An Initial packet that belongs to no session. *)

ReceiveInitial(i) ==
    /\ listen = "reading" /\ ~connClosed /\ serverSet
    /\ initial[i] = "none"
    /\ initial' = [initial EXCEPT ![i] = "received"]
    /\ UNCHANGED <<createdPacketConn, sess, mapVars, queueVars, readVars,
                   connClosed, closeVars>>

\* A retry was sent, the packet was unusable, or the accept queue is full.
Reject(i) ==
    /\ initial[i] = "received"
    /\ initial' = [initial EXCEPT ![i] = "rejected"]
    /\ UNCHANGED <<createdPacketConn, sess, mapVars, queueVars, readVars,
                   connClosed, closeVars>>

\* createNewSession starts the run loop and handleNewSession.
createNewSession(i) ==
    /\ initial[i] = "received"
    /\ sessionQueueLen < MaxAcceptQueueSize
    /\ initial' = [initial EXCEPT ![i] = "created"]
    /\ sess' = [sess EXCEPT ![i] = "running"]
    /\ newSession' = [newSession EXCEPT ![i] = "waiting"]
    /\ UNCHANGED <<createdPacketConn, mapVars, sessionQueueLen, accept, readVars,
                   connClosed, closeVars>>

\* Only then is the session entered, whatever the map holds by then.
Add(i) ==
    /\ initial[i] = "created" /\ ~hLocked
    /\ initial' = [initial EXCEPT ![i] = "added"]
    /\ handlers' = [handlers EXCEPT ![i] = "session"]
    /\ UNCHANGED <<createdPacketConn, sess, retiring, queueVars, readVars,
                   connClosed, closeVars>>

-----------------------------------------------------------------------------
(* The session. *)

Runs(i) == sess[i] \in {"running", "close", "destroy"}

HandshakeCompletes(i) ==
    /\ Runs(i) /\ newSession[i] = "waiting"
    /\ newSession' = [newSession EXCEPT ![i] = "ready"]
    /\ UNCHANGED <<createdPacketConn, sessVars, mapVars, sessionQueueLen, accept, readVars,
                   connClosed, closeVars>>

\* The application, the peer, an error or a timeout ends it.  A timeout takes
\* longer than handling the Initial.
SessionEnds(i, reason) ==
    /\ sess[i] = "running"
    /\ reason = "destroy" => initial[i] = "added"
    /\ sess' = [sess EXCEPT ![i] = reason]
    /\ UNCHANGED <<createdPacketConn, initial, mapVars, queueVars, readVars,
                   connClosed, closeVars>>

Retire_Never(i) == UNCHANGED retiring

Retire(i) == retiring' = retiring \cup {i}

\* Remove, or ReplaceWithClosed and Retire.  Then the run loop returns.
SessionStops(i) ==
    /\ sess[i] \in {"close", "destroy"} /\ ~hLocked
    /\ IF sess[i] = "destroy"
       THEN handlers' = [handlers EXCEPT ![i] = "none"] /\ UNCHANGED retiring
       ELSE handlers' = [handlers EXCEPT ![i] = "closed"] /\ Retire(i)
    /\ sess' = [sess EXCEPT ![i] = "stopped"]
    /\ UNCHANGED <<createdPacketConn, initial, queueVars, readVars, connClosed,
                   closeVars>>

\* The deletion timer; it takes longer than handling the Initial.
DeleteRetired(i) ==
    /\ i \in retiring /\ ~hLocked /\ initial[i] = "added"
    /\ handlers' = [handlers EXCEPT ![i] = "none"]
    /\ retiring' = retiring \ {i}
    /\ UNCHANGED <<createdPacketConn, sessVars, queueVars, readVars, connClosed, closeVars>>

-----------------------------------------------------------------------------
(* handleNewSession, and Accept. *)

QueueStep(i, next) ==
    /\ newSession' = [newSession EXCEPT ![i] = next]
    /\ UNCHANGED <<createdPacketConn, sessVars, mapVars, readVars, connClosed, closeVars>>

EnqueueSession(i) ==
    /\ newSession[i] = "ready"
    /\ sessionQueueLen' = sessionQueueLen + 1
    /\ QueueStep(i, "queued")
    /\ UNCHANGED accept

Leave_Uncounted == UNCHANGED sessionQueueLen

Leave == sessionQueueLen' = sessionQueueLen - 1

NotQueued == UNCHANGED sessionQueueLen

HandshakeFailed(i) ==
    /\ newSession[i] \in {"waiting", "ready"} /\ sess[i] = "stopped"
    /\ NotQueued
    /\ QueueStep(i, "returned")
    /\ UNCHANGED accept

DequeueClosed(i) ==
    /\ newSession[i] = "queued" /\ sess[i] = "stopped"
    /\ Leave
    /\ QueueStep(i, "returned")
    /\ UNCHANGED accept

AcceptStep(a, next) ==
    /\ accept' = [accept EXCEPT ![a] = next]
    /\ UNCHANGED <<createdPacketConn, sessVars, mapVars, readVars, connClosed, closeVars>>

AcceptCalled(a) ==
    /\ accept[a] = "idle" /\ errorChan = 0
    /\ AcceptStep(a, "waiting")
    /\ UNCHANGED <<newSession, sessionQueueLen>>

\* The rendezvous on sessionQueue; the counter is decremented afterwards.
AcceptTakes(a, i) ==
    /\ accept[a] = "waiting" /\ newSession[i] = "queued"
    /\ AcceptStep(a, "taken")
    /\ newSession' = [newSession EXCEPT ![i] = "returned"]
    /\ UNCHANGED sessionQueueLen

AcceptReturns(a) ==
    /\ accept[a] = "taken"
    /\ Leave
    /\ AcceptStep(a, "idle")
    /\ UNCHANGED newSession

AcceptFails(a) ==
    /\ accept[a] = "waiting" /\ errorChan > 0
    /\ AcceptStep(a, "idle")
    /\ UNCHANGED <<newSession, sessionQueueLen>>

-----------------------------------------------------------------------------
(* packetHandlerMap.listen, and packetHandlerMap.close when it fails. *)

ReadFails ==
    /\ listen = "reading"
    /\ listen' = "failed"
    /\ UNCHANGED <<createdPacketConn, sessVars, mapVars, queueVars, destroying, hLocked,
                   connClosed, closeVars>>

End(ids, reason) ==
    [i \in Conns |-> IF i \in ids /\ sess[i] = "running" THEN reason ELSE sess[i]]

InMap == {i \in Conns : handlers[i] = "session"}

NotifiesServer == serverSet

\* close takes the mutex and destroys every session of the map.
CloseMap ==
    /\ listen = "failed"
    /\ sess' = End(InMap, "destroy") /\ destroying' = InMap
    /\ IF NotifiesServer
       THEN hLocked' = TRUE /\ listen' = "setCloseError"
       ELSE listen' = "waiting" /\ UNCHANGED hLocked
    /\ UNCHANGED <<createdPacketConn, initial, mapVars, queueVars, connClosed,
                   closeVars>>

AlreadyClosed == closed

CloseErrorChan == errorChan' = IF errorChan = 2 THEN 2 ELSE errorChan + 1

\* setCloseError needs the server's mutex while the map's is held.
setCloseError ==
    /\ listen = "setCloseError" /\ sMutex = "free"
    /\ closed' = TRUE
    /\ IF AlreadyClosed THEN UNCHANGED errorChan ELSE CloseErrorChan
    /\ hLocked' = FALSE /\ listen' = "waiting"
    /\ UNCHANGED <<createdPacketConn, sessVars, mapVars, queueVars, destroying, connClosed,
                   serverSet, sMutex, closer, closing, late>>

ListenReturns ==
    /\ listen = "waiting" /\ \A i \in destroying : sess[i] = "stopped"
    /\ listen' = "done" /\ destroying' = {}
    /\ UNCHANGED <<createdPacketConn, sessVars, mapVars, queueVars, hLocked,
                   connClosed, closeVars>>

-----------------------------------------------------------------------------
(* baseServer.Close, which holds the mutex of the server to the end. *)

CloserAt(c, pc, next) ==
    /\ closer[c] = pc
    /\ closer' = [closer EXCEPT ![c] = next]
    /\ UNCHANGED <<createdPacketConn, initial, mapVars, queueVars>>

Lock(c) ==
    /\ sMutex = "free"
    /\ \/ ~AlreadyClosed /\ CloserAt(c, "idle", "closeServer") /\ sMutex' = c
       \/ AlreadyClosed /\ CloserAt(c, "idle", "already") /\ UNCHANGED sMutex
    /\ UNCHANGED <<sess, readVars, connClosed, serverSet, closed, errorChan, closing, late>>

WaitFor_Nobody == {}

WaitFor == InMap

CloseServer(c) ==
    /\ ~hLocked
    /\ CloserAt(c, "closeServer", "waitSessions")
    /\ serverSet' = FALSE
    /\ sess' = End(InMap, "close")
    /\ closing' = [closing EXCEPT ![c] = WaitFor]
    /\ late' = {i \in Conns : initial[i] \in {"received", "created"}}
    /\ UNCHANGED <<readVars, connClosed, sMutex, closed, errorChan>>

SessionsClosed(c) ==
    /\ \A i \in closing[c] : sess[i] = "stopped"
    /\ closing' = [closing EXCEPT ![c] = {}]
    /\ CloserAt(c, "waitSessions", IF createdPacketConn THEN "closeConn" ELSE "finish")
    /\ UNCHANGED <<sess, readVars, connClosed, serverSet, sMutex, closed, errorChan, late>>

SocketClosed == connClosed' = TRUE

\* Closing the socket may fail.
CloseConn(c) ==
    /\ \/ CloserAt(c, "closeConn", "waitListen") /\ SocketClosed
       \/ CloserAt(c, "closeConn", "finish") /\ UNCHANGED connClosed
    /\ UNCHANGED <<sess, readVars, serverSet, sMutex, closed, errorChan, closing, late>>

ListenStopped(c) ==
    /\ listen = "done"
    /\ CloserAt(c, "waitListen", "finish")
    /\ UNCHANGED <<sess, readVars, connClosed, serverSet, sMutex, closed, errorChan, closing, late>>

FinishClose(c) ==
    /\ CloserAt(c, "finish", "returned")
    /\ closed' = TRUE /\ CloseErrorChan
    /\ sMutex' = "free"
    /\ UNCHANGED <<sess, readVars, connClosed, serverSet, closing, late>>

-----------------------------------------------------------------------------
ReadLoop == CloseMap \/ setCloseError \/ ListenReturns \/ (connClosed /\ ReadFails)

ConnRuns(i) ==
    \/ createNewSession(i) \/ Reject(i) \/ Add(i)
    \/ SessionStops(i) \/ DeleteRetired(i)
    \/ EnqueueSession(i) \/ HandshakeFailed(i) \/ DequeueClosed(i)

AcceptRuns(a) == AcceptReturns(a) \/ AcceptFails(a) \/ \E i \in Conns : AcceptTakes(a, i)

CloseRuns(c) ==
    CloseServer(c) \/ SessionsClosed(c) \/ CloseConn(c) \/ ListenStopped(c) \/ FinishClose(c)

\* What goroutines and timers do by themselves.
Progress ==
    \/ ReadLoop
    \/ \E i \in Conns : ConnRuns(i)
    \/ \E a \in Acceptors : AcceptRuns(a)
    \/ \E c \in Closers : CloseRuns(c)

Next ==
    \/ Progress \/ ReadFails
    \/ \E i \in Conns :
          \/ ReceiveInitial(i) \/ HandshakeCompletes(i)
          \/ \E reason \in {"close", "destroy"} : SessionEnds(i, reason)
    \/ \E a \in Acceptors : AcceptCalled(a)
    \/ \E c \in Closers : Lock(c)

\* Goroutines that can go on do, timers fire, sessions that were told to stop
\* stop.  With finitely many connections nobody goes on forever, so that weak
\* fairness of all of them together is enough.  Nothing is assumed of packets,
\* of the application, or of reading from a socket that is open.
Spec == Init /\ [][Next]_vars /\ WF_vars(Progress)

-----------------------------------------------------------------------------
(* Properties. *)

\* sessionQueueLen counts the sessions that wait to be accepted and those that
\* Accept has just taken, whether they were taken or ended while they waited.
QueueLenExact ==
    sessionQueueLen = Cardinality({i \in Conns : newSession[i] = "queued"})
                      + Cardinality({a \in Acceptors : accept[a] = "taken"})

\* When Close returns, every session that was in the map when it closed the
\* server has stopped; only attempts still on their way into it may run.
ClosedServerHasNoSessions ==
    \A c \in Closers : closer[c] = "returned" =>
        {i \in Conns : Runs(i)} \subseteq late

\* Close holds the server's mutex and waits for the map's; the read loop holds
\* that and waits for the server's.
LockCycle == \E c \in Closers : sMutex = c /\ closer[c] = "closeServer" /\ hLocked

\* Close returns, also while sessions start and end and the read loop fails,
\* unless the two locks are taken in opposite orders.  No Accept keeps waiting
\* once the read loop has ended, and errorChan, which wakes it, is closed once
\* although Close and the read loop both do it.  A session that stopped
\* disappears from the map, even if it stopped before it was added.
ClosingAndSessionsEnd ==
    /\ \A c \in Closers :
          closer[c] = "closeServer" ~> closer[c] = "returned" \/ []LockCycle
    /\ \A a \in Acceptors :
          listen = "done" /\ accept[a] = "waiting" ~> accept[a] # "waiting"
    /\ [](errorChan <= 1)
    /\ \A i \in Conns : sess[i] = "stopped" ~> [](handlers[i] = "none") \/ []LockCycle
=============================================================================
