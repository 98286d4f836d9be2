----------------------------- MODULE SessionLife -----------------------------
(***************************************************************************)
(* What a session promises to those who run and close it                   *)
(* (quic-go/session.go): it is closed for one reason, the first one; the   *)
(* packetHandlerMap is told what fits that reason; and then run returns.   *)
(* Module Session implements this, and module Client relies on it.         *)
(***************************************************************************)

VARIABLES
    reason,     \* why the session was closed; "none": it was not
    entry,      \* what the packetHandlerMap holds for the session
    done        \* run has returned

lifeVars == <<reason, entry, done>>

CloseReasons == {"local", "destroy", "recreate", "remote"}

LifeInit == reason = "none" /\ entry = "session" /\ done = FALSE

\* closeOnce: destroyed sessions are removed from the map, those that the peer
\* closed are replaced.
Decide(r) ==
    /\ reason = "none" /\ reason' = r
    /\ entry' = IF r \in {"destroy", "recreate"} THEN "none"
                ELSE IF r = "remote" THEN "closedRemote" ELSE entry
    /\ UNCHANGED done

\* closeLocal, destroy or closeRemote, when the session may be closed already.
DecideOnce(r) == Decide(r) \/ (reason # "none" /\ UNCHANGED lifeVars)

\* CONNECTION_CLOSE was sent, unless that failed, and may have to be sent again.
Answer ==
    /\ reason = "local" /\ entry = "session"
    /\ entry' = "closedLocal"
    /\ UNCHANGED <<reason, done>>

Stop ==
    /\ reason # "none" /\ ~done
    /\ reason = "local" => entry # "session"
    /\ done' = TRUE
    /\ UNCHANGED <<reason, entry>>

LifeNext == (\E r \in CloseReasons : Decide(r)) \/ Answer \/ Stop

LifeSpec == LifeInit /\ [][LifeNext]_lifeVars
=============================================================================
