----------------------------- MODULE Connection -----------------------------
(***************************************************************************)
(* A connection seen from both sides of SessionLife: the session in detail *)
(* (module Session), which implements it, and the client around a session  *)
(* (module Client), which relies on it.  Which of the two a behaviour is   *)
(* about is chosen at the start.                                           *)
(***************************************************************************)
EXTENDS Session, Client

VARIABLE inDetail    \* "session" or "client"

connectionVars == <<inDetail, vars, clientVars>>

ConnectionInit ==
    /\ inDetail \in {"session", "client"}
    /\ Init /\ ClientInit
    /\ inDetail = "client" => perspective = "client"
    /\ inDetail = "session" =>
          createdPacketConn /\ \A other \in ServerVersions : serverVersions \subseteq other

InSession(A) == inDetail = "session" /\ A /\ UNCHANGED <<inDetail, clientVars>>
InClient(A)  == inDetail = "client" /\ A /\ UNCHANGED <<inDetail, vars>>

ConnectionNext == InSession(Next) \/ InClient(ClientNext)

\* Goroutines that can go on do, whoever holds c.mutex releases it fairly, and
\* a handshake that does not complete times out.  Nothing is assumed of a run
\* loop that hangs.
SessionFairness ==
    /\ WF_vars(InSession(LoopStep)) /\ WF_vars(InSession(SendQueueRun))
    /\ WF_vars(InSession(Handshake)) /\ WF_vars(InSession(RunHandshake))
    /\ \A a \in Apps : WF_vars(InSession(CloseReturns(a)))

ClientFairness ==
    /\ SF_clientVars(InClient(createNewTLSSession)) /\ WF_clientVars(InClient(Dialer))
    /\ WF_clientVars(InClient(RunSession)) /\ WF_clientVars(InClient(Runner))
    /\ WF_clientVars(InClient(VNHandler)) /\ WF_clientVars(InClient(ReadLoop))
    /\ SF_clientVars(InClient(DestroyClient))

ConnectionSpec ==
    /\ ConnectionInit /\ [][ConnectionNext]_connectionVars
    /\ SessionFairness /\ ClientFairness

-----------------------------------------------------------------------------
\* The variables have their types.
ConnectionTypeOK == TypeOK /\ ClientTypeOK

\* Dialing ends, in whatever order the goroutines take c.mutex, and when the
\* session has ended nothing of what DialAddr opened is left (DialEnds and
\* NothingIsLeftOpen, which name the exceptions: a run loop that hangs, a dial
\* that failed before a session ran or while it was recreated, and the goroutine
\* of a closed session that is in no map).
DialingEnds == DialEnds /\ NothingIsLeftOpen
=============================================================================
