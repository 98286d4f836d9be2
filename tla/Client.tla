------------------------------- MODULE Client -------------------------------
(***************************************************************************)
(* A client that dials (quic-go/client.go), with the packetHandlerMap of   *)
(* its connection (packet_handler_map.go), the multiplexer                 *)
(* (multiplexer.go) and the closed session that is left in the map         *)
(* (closed_session.go).  Of the session itself only what SessionLife says  *)
(* is known, and that its run loop may hang (SendBlocked and AlertBlocked of *)
(* module Session).                                                        *)
(*                                                                         *)
(* Version negotiation runs in goroutines of its own, which hold c.mutex   *)
(* while they wait for the session to end; so does destroy.  Other         *)
(* sections with c.mutex are one step, as is handling a packet in the read *)
(* loop.  The server answers a packet of a version that it knows with an   *)
(* ordinary packet, and others with a Version Negotiation packet; answers  *)
(* may be lost, repeated and late.                                         *)
(***************************************************************************)
EXTENDS Integers, Sequences, SessionLife

CONSTANTS Versions,        \* config.Versions, in order of preference
          ServerVersions,  \* the sets of versions a server may have
          MaxPN,           \* bound: packet numbers that are used
          MaxVN            \* bound: goroutines that handle Version Negotiation packets

ASSUME ClientAssumption ==
    /\ Len(Versions) \in Nat \ {0}
    /\ MaxPN \in Nat /\ MaxVN \in Nat

VARIABLES
    createdPacketConn, \* DialAddr: the client owns the socket
    cancelled,         \* the context of Dial
    dialer,            \* where dialContext is
    generation,        \* sessions created so far
    established,       \* the session's HandshakeComplete context
    running,           \* the goroutine that calls session.run
    errorChan,
    mutex,             \* holder of c.mutex, while it waits for the session
    version, initialPacketNumber, receivedVN, versionNegotiated,
    vnWaiting, vn,     \* goroutines that wait for c.mutex, what the one with it does
    sessVersion, nextPN, \* of the session
    highestSent,       \* highest packet number sent by any session
    offered, serverVersions, \* versions of packets sent; of the server
    hung,              \* the run loop of the session is blocked for good
    socketOpen, listen, known, \* the socket, the read loop, in the multiplexer
    destroying,        \* the client that the read loop destroys, at its end
    closedRun,         \* the goroutine of a closedLocalSession; "unowned" if it is
                       \* in no map that will be closed
    retireTimer        \* the entry will be deleted

dialVars   == <<createdPacketConn, cancelled, dialer, generation>>
sessVars   == <<established, sessVersion, nextPN, highestSent, offered, serverVersions,
                hung>>
runVarsC   == <<running, errorChan>>
vnVars     == <<version, initialPacketNumber, receivedVN, versionNegotiated, vnWaiting, vn>>
mapVars    == <<socketOpen, listen, known, destroying, closedRun, retireTimer>>
clientVars == <<lifeVars, dialVars, sessVars, runVarsC, mutex, vnVars, mapVars>>

ClientTypeOK ==
    /\ reason \in CloseReasons \cup {"none"}
    /\ entry \in {"session", "closedLocal", "closedRemote", "none"}
    /\ {done, createdPacketConn, cancelled, established, hung, receivedVN, versionNegotiated,
        socketOpen, known, retireTimer} \subseteq BOOLEAN
    /\ dialer \in {"start", "create", "select", "closing", "ok", "failed"}
    /\ generation \in 0 .. 2
    /\ running \in {"none", "run", "closeConn", "waitListen", "report"}
    /\ errorChan \in {"empty", "recreate", "error"}
    /\ mutex \in {"free", "vn", "destroy"} /\ vn \in {"idle", "destroying", "recreating"}
    /\ {version, sessVersion} \subseteq {Versions[i] : i \in 1 .. Len(Versions)}
    /\ {initialPacketNumber, nextPN} \subseteq 0 .. MaxPN
    /\ highestSent \in -1 .. MaxPN - 1
    /\ vnWaiting \in 0 .. MaxVN
    /\ listen \in {"no", "read", "closing", "stopped"}
    /\ destroying \in {"no", "lock", "wait"}
    /\ closedRun \in {"no", "running", "unowned", "stopped"}

ClientInit ==
    /\ LifeInit
    /\ createdPacketConn \in BOOLEAN /\ cancelled = FALSE /\ dialer = "start"
    /\ generation = 0 /\ established = FALSE
    /\ running = "none" /\ errorChan = "empty" /\ mutex = "free"
    /\ version = Head(Versions) /\ sessVersion = Head(Versions)
    /\ initialPacketNumber = 0 /\ nextPN = 0 /\ highestSent = -1
    /\ receivedVN = FALSE /\ versionNegotiated = FALSE /\ vnWaiting = 0 /\ vn = "idle"
    /\ offered = {} /\ serverVersions \in ServerVersions /\ hung = FALSE
    /\ socketOpen = TRUE /\ listen = "no" /\ known = FALSE
    /\ destroying = "no" /\ closedRun = "no" /\ retireTimer = FALSE

-----------------------------------------------------------------------------
(* dialContext. *)

\* A new packetHandlerMap starts its read loop.
AddConn == known' = TRUE /\ listen' = "read"

\* AddConn; then newClient, which may fail.
dialContext ==
    /\ dialer = "start"
    /\ dialer' \in {"create", "failed"}
    /\ AddConn
    /\ UNCHANGED <<lifeVars, createdPacketConn, cancelled, generation, sessVars, runVarsC,
                   mutex, vnVars, socketOpen, destroying, closedRun, retireTimer>>

NewSession ==
    /\ reason' = "none" /\ entry' = "session" /\ done' = FALSE
    /\ generation' = generation + 1
    /\ sessVersion' = version /\ nextPN' = initialPacketNumber /\ established' = FALSE
    /\ running' = "run" /\ errorChan' = "empty"
    /\ dialer' = "select"

createNewTLSSession_NoMutex ==
    /\ dialer = "create"
    /\ \/ NewSession
       \/ dialer' = "failed" /\ UNCHANGED <<lifeVars, generation, sessVersion, nextPN,
                                           established, runVarsC>>
    /\ UNCHANGED <<createdPacketConn, cancelled, highestSent, offered, serverVersions, hung,
                   mutex, vnVars, mapVars>>

\* newClientSession may fail.
createNewTLSSession ==
    /\ dialer = "create" /\ mutex = "free"
    /\ \/ NewSession
       \/ dialer' = "failed" /\ UNCHANGED <<lifeVars, generation, sessVersion, nextPN,
                                           established, runVarsC>>
    /\ UNCHANGED <<createdPacketConn, cancelled, highestSent, offered, serverVersions, hung,
                   mutex, vnVars, mapVars>>

DialerStep(next) ==
    /\ dialer' = next
    /\ UNCHANGED <<createdPacketConn, cancelled, generation, sessVars, running, mutex, vnVars,
                   mapVars>>

\* The cases of the select in establishSecureConnection.
SelectCtxDone ==
    /\ dialer = "select" /\ cancelled
    /\ DecideOnce("local")
    /\ DialerStep("closing")
    /\ UNCHANGED errorChan

SelectError ==
    /\ dialer = "select" /\ errorChan # "empty"
    /\ DialerStep(IF errorChan = "recreate" THEN "create" ELSE "failed")
    /\ errorChan' = "empty"
    /\ UNCHANGED lifeVars

SelectHandshakeComplete ==
    /\ dialer = "select" /\ established
    /\ DialerStep("ok")
    /\ UNCHANGED <<lifeVars, errorChan>>

\* session.Close returns.
SessionClosed ==
    /\ dialer = "closing" /\ done
    /\ DialerStep("failed")
    /\ UNCHANGED <<lifeVars, errorChan>>

CancelDial ==
    /\ ~cancelled
    /\ cancelled' = TRUE
    /\ UNCHANGED <<lifeVars, createdPacketConn, dialer, generation, sessVars, runVarsC, mutex,
                   vnVars, mapVars>>

-----------------------------------------------------------------------------
(* The session, and the goroutine in establishSecureConnection. *)

SessionStep ==
    UNCHANGED <<dialVars, runVarsC, mutex, vnVars, socketOpen, listen, known, destroying>>

SessionSends ==
    /\ generation > 0 /\ ~done /\ ~hung /\ nextPN < MaxPN
    /\ nextPN' = nextPN + 1 /\ highestSent' = nextPN
    /\ offered' = offered \cup {sessVersion}
    /\ SessionStep
    /\ UNCHANGED <<lifeVars, established, sessVersion, serverVersions, hung, closedRun,
                   retireTimer>>

HandshakeCompletes ==
    /\ generation > 0 /\ ~done /\ ~hung /\ ~established
    /\ sessVersion \in serverVersions \cap offered
    /\ established' = TRUE
    /\ SessionStep
    /\ UNCHANGED <<lifeVars, sessVersion, nextPN, highestSent, offered, serverVersions, hung,
                   closedRun, retireTimer>>

\* Closed by an error, by the application once it has the session, or by the
\* peer: ReplaceWithClosed deletes the entry later.
SessionCloses ==
    /\ generation > 0
    /\ \/ Decide("local") /\ UNCHANGED retireTimer
       \/ /\ ~hung /\ sessVersion \in serverVersions \cap offered
          /\ Decide("remote")
          /\ retireTimer' = TRUE
    /\ SessionStep
    /\ UNCHANGED <<sessVars, closedRun>>

\* The handshake timeout, the idle timeout, or a stateless reset.
SessionTimesOut ==
    /\ generation > 0
    /\ Decide("destroy")
    /\ SessionStep
    /\ UNCHANGED <<sessVars, closedRun, retireTimer>>

\* The run loop waits in sendQueue.Send after a failed write, or for qtls,
\* which waits in SendAlert.
SessionHangs ==
    /\ generation > 0 /\ ~done /\ ~hung
    /\ hung' = TRUE
    /\ SessionStep
    /\ UNCHANGED <<lifeVars, established, sessVersion, nextPN, highestSent, offered,
                   serverVersions, closedRun, retireTimer>>

\* newClosedLocalSession starts a goroutine.
HandleCloseError ==
    /\ ~hung
    /\ Answer
    /\ closedRun' = IF listen = "read" THEN "running" ELSE "unowned"
    /\ retireTimer' = TRUE
    /\ SessionStep
    /\ UNCHANGED sessVars

RunLoopStops ==
    /\ ~hung
    /\ Stop
    /\ SessionStep
    /\ UNCHANGED <<sessVars, closedRun, retireTimer>>

KeepsConn_Always == TRUE

KeepsConn == reason = "recreate" \/ ~createdPacketConn

\* session.run returned.
RunReturned ==
    /\ running = "run" /\ done
    /\ running' = IF KeepsConn THEN "report" ELSE "closeConn"
    /\ UNCHANGED <<lifeVars, dialVars, sessVars, errorChan, mutex, vnVars, mapVars>>

\* packetHandlers.Close: only the first close of the socket succeeds and waits.
ClosePacketHandlers ==
    /\ \/ /\ running = "closeConn"
          /\ socketOpen' = FALSE
          /\ running' = IF socketOpen THEN "waitListen" ELSE "report"
       \/ /\ running = "waitListen" /\ listen = "stopped"
          /\ running' = "report"
          /\ UNCHANGED socketOpen
    /\ UNCHANGED <<lifeVars, dialVars, sessVars, errorChan, mutex, vnVars, listen, known,
                   destroying, closedRun, retireTimer>>

ReportError ==
    /\ running = "report"
    /\ running' = "none"
    /\ errorChan' = IF reason = "recreate" THEN "recreate" ELSE "error"
    /\ UNCHANGED <<lifeVars, dialVars, sessVars, mutex, vnVars, mapVars>>

-----------------------------------------------------------------------------
(* Packets. *)

\* handlePacket, for a Version Negotiation packet.
HandleVNPacket ==
    /\ listen = "read" /\ socketOpen /\ entry = "session" /\ generation > 0
    /\ offered \ serverVersions # {}
    /\ vnWaiting < MaxVN
    /\ vnWaiting' = vnWaiting + 1
    /\ UNCHANGED <<lifeVars, dialVars, sessVars, runVarsC, mutex, version, initialPacketNumber,
                   receivedVN, versionNegotiated, vn, mapVars>>

\* handlePacket, for any other packet.
HandlePacket ==
    /\ listen = "read" /\ socketOpen /\ entry = "session" /\ generation > 0
    /\ offered \cap serverVersions # {}
    /\ versionNegotiated' = TRUE
    /\ UNCHANGED <<lifeVars, dialVars, sessVars, runVarsC, mutex, version, initialPacketNumber,
                   receivedVN, vnWaiting, vn, mapVars>>

ChooseSupportedVersion(ours, theirs) ==
    LET common == {i \in 1 .. Len(ours) : ours[i] \in theirs}
    IN  ours[CHOOSE i \in common : \A j \in common : i <= j]

IgnoresVN == receivedVN \/ versionNegotiated \/ version \in serverVersions

handleVersionNegotiationPacket ==
    /\ vnWaiting > 0 /\ mutex = "free"
    /\ vnWaiting' = vnWaiting - 1
    /\ IF IgnoresVN
       THEN UNCHANGED <<lifeVars, mutex, vn, receivedVN, version>>
       ELSE /\ mutex' = "vn"
            /\ IF \A i \in 1 .. Len(Versions) : Versions[i] \notin serverVersions
               THEN /\ DecideOnce("destroy")
                    /\ vn' = "destroying"
                    /\ UNCHANGED <<receivedVN, version>>
               ELSE /\ DecideOnce("recreate")
                    /\ vn' = "recreating"
                    /\ receivedVN' = TRUE
                    /\ version' = ChooseSupportedVersion(Versions, serverVersions)
    /\ UNCHANGED <<dialVars, sessVars, runVarsC, initialPacketNumber, versionNegotiated, mapVars>>

\* destroy returned; closeForRecreating returns the next packet number.
SessionDestroyed ==
    /\ vn # "idle" /\ done
    /\ initialPacketNumber' = IF vn = "recreating" THEN nextPN ELSE initialPacketNumber
    /\ vn' = "idle" /\ mutex' = "free"
    /\ UNCHANGED <<lifeVars, dialVars, sessVars, runVarsC, version, receivedVN, versionNegotiated,
                   vnWaiting, mapVars>>

-----------------------------------------------------------------------------
(* The packetHandlerMap. *)

\* closedLocalSession.destroy.
StopClosedSession == closedRun' = IF entry = "closedLocal" THEN "stopped" ELSE closedRun

\* close destroys what is in the map.
MapClosed ==
    /\ listen' = "closing"
    /\ destroying' = IF entry = "session" /\ generation > 0 THEN "lock" ELSE "no"
    /\ StopClosedSession

\* ReadFrom fails.
ReadFails ==
    /\ listen = "read"
    /\ MapClosed
    /\ UNCHANGED <<lifeVars, dialVars, sessVars, runVarsC, mutex, vnVars, socketOpen, known,
                   retireTimer>>

\* client.destroy.
DestroyClient ==
    /\ \/ /\ destroying = "lock" /\ mutex = "free"
          /\ DecideOnce("destroy")
          /\ mutex' = "destroy" /\ destroying' = "wait"
       \/ /\ destroying = "wait" /\ done
          /\ mutex' = "free" /\ destroying' = "no"
          /\ UNCHANGED lifeVars
    /\ UNCHANGED <<dialVars, sessVars, runVarsC, vnVars, socketOpen, listen, known, closedRun,
                   retireTimer>>

RemoveConn == known' = FALSE

ListenReturns ==
    /\ listen = "closing" /\ destroying = "no"
    /\ RemoveConn
    /\ listen' = "stopped"
    /\ UNCHANGED <<lifeVars, dialVars, sessVars, runVarsC, mutex, vnVars, socketOpen, destroying,
                   closedRun, retireTimer>>

RetiredEntryDeleted ==
    /\ retireTimer
    /\ retireTimer' = FALSE /\ entry' = "none"
    /\ closedRun' = IF closedRun = "running" /\ listen = "read" THEN "unowned" ELSE closedRun
    /\ UNCHANGED <<reason, done, dialVars, sessVars, runVarsC, mutex, vnVars, socketOpen, listen,
                   known, destroying>>

-----------------------------------------------------------------------------
Dialer ==
    \/ dialContext \/ createNewTLSSession
    \/ SelectCtxDone \/ SelectError \/ SelectHandshakeComplete \/ SessionClosed

RunSession == HandleCloseError \/ RunLoopStops \/ (~established /\ ~hung /\ SessionTimesOut)
Runner     == RunReturned \/ ClosePacketHandlers \/ ReportError
VNHandler  == handleVersionNegotiationPacket \/ SessionDestroyed
ReadLoop   == (~socketOpen /\ ReadFails) \/ ListenReturns

ClientNext ==
    \/ Dialer \/ CancelDial
    \/ SessionSends \/ HandshakeCompletes \/ SessionCloses \/ SessionTimesOut
    \/ SessionHangs
    \/ HandleCloseError \/ RunLoopStops \/ Runner
    \/ HandleVNPacket \/ HandlePacket \/ VNHandler
    \/ ReadFails \/ DestroyClient \/ ListenReturns \/ RetiredEntryDeleted

-----------------------------------------------------------------------------
(* Properties. *)

\* The session made after version negotiation goes on where the old one ended
\* (closeForRecreating): no packet number is used twice, whatever the order in
\* which the goroutines that negotiate and dial run.  Only a session whose
\* version the server does not know is given up, and only once, however often
\* the Version Negotiation packet is repeated.
NewSessionContinues ==
    /\ generation > 0 /\ ~(dialer = "create") => nextPN > highestSent
    /\ reason = "recreate" => sessVersion \notin serverVersions
    /\ generation = 2 => receivedVN /\ sessVersion \in serverVersions

\* Dialing ends: the goroutines that wait for each other with c.mutex, for the
\* session, and for the read loop always go on, unless the run loop of the
\* session hangs: after a failed write to the socket, or when qtls is blocked in
\* SendAlert.  Then nobody who waits for the session returns.
DialEnds ==
    dialer \in {"create", "select", "closing"} ~> dialer \in {"ok", "failed"} \/ hung

\* DialAddr failed before a session ran, or when its context was canceled just
\* while the session was being recreated: nobody closes the socket.
Abandoned == dialer = "failed" /\ reason \in {"none", "recreate"}

\* "It uses a new UDP connection and closes this connection when the QUIC session
\* is closed" (DialAddr): the socket, the read loop, the entry in the multiplexer
\* and the goroutine of the closed session all go, except in the case above and
\* for a closed session that the map dropped before it was closed, or got after:
\* the goroutine of such a session ("unowned") is never stopped.
NothingIsLeftOpen ==
    createdPacketConn /\ (dialer = "failed" \/ (dialer = "ok" /\ done))
        ~> \/ ~socketOpen /\ listen = "stopped" /\ ~known /\ closedRun # "running"
           \/ Abandoned
=============================================================================
