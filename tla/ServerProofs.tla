---------------------------- MODULE ServerProofs ----------------------------
(***************************************************************************)
(* Proofs about Server, for any finite sets of connection attempts and of  *)
(* goroutines in Accept, and any number of goroutines that call Close.     *)
(***************************************************************************)
EXTENDS Server, FiniteSetTheorems, TLAPS

\* How many elements of a function have a value.
Count(S, f, w) == Cardinality({y \in S : f[y] = w})

\* It is a number, and changes by one when an element gets or loses the value.
LEMMA CountAfterChange ==
    ASSUME NEW S, IsFiniteSet(S), NEW w, NEW f, NEW g, NEW x \in S,
           \A y \in S \ {x} : g[y] = f[y]
    PROVE  /\ Count(S, f, w) \in Nat
           /\ Count(S, g, w)
                = Count(S, f, w) + (IF g[x] = w THEN 1 ELSE 0) - (IF f[x] = w THEN 1 ELSE 0)
<1> DEFINE before == {y \in S : f[y] = w}
           after == {y \in S : g[y] = w}
<1>1. IsFiniteSet(before) /\ Cardinality(before) \in Nat
  BY FS_Subset, FS_CardinalityType
<1>2. x \in before <=> f[x] = w
  OBVIOUS
<1>3. g[x] = w => after = before \cup {x}
  OBVIOUS
<1>4. g[x] # w => after = before \ {x}
  OBVIOUS
<1> SUFFICES Cardinality(after) = Cardinality(before) + (IF g[x] = w THEN 1 ELSE 0)
                                                      - (IF x \in before THEN 1 ELSE 0)
  BY <1>1, <1>2 DEF Count
<1> HIDE DEF before, after
<1>5. CASE g[x] = w
  BY <1>1, <1>3, <1>5, FS_AddElement, SMTT(60)
<1>6. CASE g[x] # w
  BY <1>1, <1>4, <1>6, FS_RemoveElement, SMTT(60)
<1> QED
  BY <1>5, <1>6


ServerTypeOK ==
    /\ initial \in [Conns -> {"none", "received", "rejected", "created", "added"}]
    /\ sess \in [Conns -> {"none", "running", "close", "destroy", "stopped"}]
    /\ newSession \in [Conns -> {"none", "waiting", "ready", "queued", "returned"}]
    /\ handlers \in [Conns -> {"none", "session", "closed"}]
    /\ accept \in [Acceptors -> {"idle", "waiting", "taken"}]
    /\ closer \in [Closers -> {"idle", "closeServer", "waitSessions", "closeConn", "waitListen",
                               "finish", "returned", "already"}]
    /\ closing \in [Closers -> SUBSET Conns]
    /\ retiring \subseteq Conns
    /\ sMutex \in Closers \cup {"free"}
    /\ errorChan \in 0 .. 2

\* Which goroutines are between Lock and FinishClose.
InClose(c) == closer[c] \in {"closeServer", "waitSessions", "closeConn", "waitListen", "finish"}

\* Close holds the mutex from beginning to end, finds errorChan open when it gets
\* it, and nobody closes errorChan in between.  Hence one call of Close at most
\* gets beyond the lock.
MutexInv ==
    /\ \A c \in Closers : InClose(c) <=> sMutex = c
    /\ sMutex # "free" => ~closed
    /\ \A c \in Closers : closer[c] = "returned" => closed
    /\ errorChan = IF closed THEN 1 ELSE 0

\* There is no session, and no goroutine for it, before createNewSession.  A
\* session that runs and was added is in the map: it is replaced or removed only
\* when it stops, and deleted later only if it was retired.
MapInv ==
    /\ \A i \in Conns : initial[i] \in {"none", "received", "rejected"} =>
          sess[i] = "none" /\ newSession[i] = "none"
    /\ \A i \in Conns : Runs(i) /\ initial[i] = "added" => handlers[i] = "session"
    /\ \A i \in retiring : sess[i] = "stopped"

\* A call of Close that closed the server waits for every session that runs,
\* except for those that were not in the map, and no attempt is made after that.
WaitInv ==
    \A c \in Closers :
        /\ closer[c] \in {"waitSessions", "closeConn", "waitListen", "finish", "returned"} =>
              /\ ~serverSet
              /\ \A i \in Conns : initial[i] \in {"received", "created"} => i \in late
              /\ \A i \in Conns : Runs(i) => i \in closing[c] \cup late
        /\ closer[c] \in {"closeConn", "waitListen", "finish", "returned"} => closing[c] = {}

SessionsInv == ServerTypeOK /\ MutexInv /\ MapInv /\ WaitInv

\* errorChan, which wakes every Accept, is closed once, although Close and the
\* read loop both close it: a second close of a channel would panic.
ErrorChanClosedOnce == errorChan <= 1

-----------------------------------------------------------------------------
(* The type invariant. *)

\* Every step keeps the variables in their types.
LEMMA ServerTypeStep == ServerTypeOK /\ [Next]_vars => ServerTypeOK'
<1> SUFFICES ASSUME ServerTypeOK, [Next]_vars
             PROVE  ServerTypeOK'
  OBVIOUS
<1> USE DEF ServerTypeOK, sessVars, mapVars, queueVars, readVars, closeVars
<1>1. ASSUME NEW i \in Conns,
             ReceiveInitial(i) \/ Reject(i) \/ createNewSession(i) \/ Add(i)
      PROVE  ServerTypeOK'
  BY <1>1 DEF ReceiveInitial, Reject, createNewSession, Add
<1>2. ASSUME NEW i \in Conns, HandshakeCompletes(i) \/ SessionStops(i) \/ DeleteRetired(i)
      PROVE  ServerTypeOK'
  BY <1>2 DEF HandshakeCompletes, SessionStops, DeleteRetired, Retire
<1>3. ASSUME NEW i \in Conns, NEW reason \in {"close", "destroy"}, SessionEnds(i, reason)
      PROVE  ServerTypeOK'
  BY <1>3 DEF SessionEnds
<1>4. ASSUME NEW i \in Conns, EnqueueSession(i) \/ HandshakeFailed(i) \/ DequeueClosed(i)
      PROVE  ServerTypeOK'
  BY <1>4 DEF EnqueueSession, HandshakeFailed, DequeueClosed, QueueStep
<1>5. ASSUME NEW a \in Acceptors, AcceptCalled(a) \/ AcceptReturns(a) \/ AcceptFails(a)
      PROVE  ServerTypeOK'
  BY <1>5 DEF AcceptCalled, AcceptReturns, AcceptFails, AcceptStep
<1>6. ASSUME NEW a \in Acceptors, NEW i \in Conns, AcceptTakes(a, i)
      PROVE  ServerTypeOK'
  BY <1>6 DEF AcceptTakes, AcceptStep
<1>7. CASE ReadFails \/ ListenReturns
  BY <1>7 DEF ReadFails, ListenReturns
<1>8. CASE CloseMap
  BY <1>8 DEF CloseMap, End, InMap
<1>9. CASE setCloseError
  BY <1>9 DEF setCloseError, CloseErrorChan
<1>10. ASSUME NEW c \in Closers, Lock(c)
       PROVE  ServerTypeOK'
  BY <1>10 DEF Lock, CloserAt
<1>11. ASSUME NEW c \in Closers, CloseServer(c)
       PROVE  ServerTypeOK'
  BY <1>11 DEF CloseServer, CloserAt, End, InMap, WaitFor
<1>12. ASSUME NEW c \in Closers, SessionsClosed(c)
       PROVE  ServerTypeOK'
  BY <1>12 DEF SessionsClosed, CloserAt
<1>13. ASSUME NEW c \in Closers, CloseConn(c) \/ ListenStopped(c) \/ FinishClose(c)
       PROVE  ServerTypeOK'
  BY <1>13 DEF CloseConn, ListenStopped, FinishClose, CloserAt, CloseErrorChan
<1>14. CASE UNCHANGED vars
  BY <1>14 DEF vars
<1> HIDE DEF ServerTypeOK
<1> QED
  BY <1>1, <1>2, <1>3, <1>4, <1>5, <1>6, <1>7, <1>8, <1>9, <1>10, <1>11, <1>12, <1>13, <1>14
  DEF Next, Progress, ReadLoop, ConnRuns, AcceptRuns, CloseRuns

\* In the beginning too.
LEMMA ServerTypeInit == Init => ServerTypeOK
BY DEF Init, ServerTypeOK

-----------------------------------------------------------------------------
(* The map of packet handlers. *)

\* Every step keeps the map and the sessions together.
LEMMA MapStep == ServerTypeOK /\ MapInv /\ [Next]_vars => MapInv'
<1> SUFFICES ASSUME ServerTypeOK, MapInv, [Next]_vars
             PROVE  MapInv'
  OBVIOUS
<1> USE DEF ServerTypeOK, MapInv, Runs, sessVars, mapVars, queueVars, readVars, closeVars
<1>1. ASSUME NEW i \in Conns,
             ReceiveInitial(i) \/ Reject(i) \/ createNewSession(i) \/ Add(i)
      PROVE  MapInv'
  BY <1>1 DEF ReceiveInitial, Reject, createNewSession, Add
<1>2. ASSUME NEW i \in Conns, HandshakeCompletes(i) \/ SessionStops(i) \/ DeleteRetired(i)
      PROVE  MapInv'
  BY <1>2 DEF HandshakeCompletes, SessionStops, DeleteRetired, Retire
<1>3. ASSUME NEW i \in Conns, NEW reason \in {"close", "destroy"}, SessionEnds(i, reason)
      PROVE  MapInv'
  BY <1>3 DEF SessionEnds
<1>4. ASSUME NEW i \in Conns, EnqueueSession(i) \/ HandshakeFailed(i) \/ DequeueClosed(i)
      PROVE  MapInv'
  BY <1>4 DEF EnqueueSession, HandshakeFailed, DequeueClosed, QueueStep
<1>5. ASSUME NEW a \in Acceptors, AcceptCalled(a) \/ AcceptReturns(a) \/ AcceptFails(a)
      PROVE  MapInv'
  BY <1>5 DEF AcceptCalled, AcceptReturns, AcceptFails, AcceptStep
<1>6. ASSUME NEW a \in Acceptors, NEW i \in Conns, AcceptTakes(a, i)
      PROVE  MapInv'
  BY <1>6 DEF AcceptTakes, AcceptStep
<1>7. CASE ReadFails \/ ListenReturns \/ setCloseError
  BY <1>7 DEF ReadFails, ListenReturns, setCloseError
<1>8. CASE CloseMap
  BY <1>8 DEF CloseMap, End, InMap
<1>9. ASSUME NEW c \in Closers, CloseServer(c)
      PROVE  MapInv'
  BY <1>9 DEF CloseServer, CloserAt, End, InMap
<1>10. ASSUME NEW c \in Closers,
              Lock(c) \/ SessionsClosed(c) \/ CloseConn(c) \/ ListenStopped(c) \/ FinishClose(c)
       PROVE  MapInv'
  BY <1>10 DEF Lock, SessionsClosed, CloseConn, ListenStopped, FinishClose, CloserAt
<1>11. CASE UNCHANGED vars
  BY <1>11 DEF vars
<1> HIDE DEF ServerTypeOK, MapInv
<1> QED
  BY <1>1, <1>2, <1>3, <1>4, <1>5, <1>6, <1>7, <1>8, <1>9, <1>10, <1>11
  DEF Next, Progress, ReadLoop, ConnRuns, AcceptRuns, CloseRuns

\* Nothing is in the map in the beginning.
LEMMA MapInit == Init => MapInv
BY DEF Init, MapInv, Runs

-----------------------------------------------------------------------------
(* sessionQueueLen. *)

\* sessionQueueLen counts exactly the sessions that wait to be accepted and those
\* that an Accept has just taken: handleNewSession and Accept count up and down
\* in different goroutines, and neither a session that ends while it waits nor a
\* failed handshake is counted twice or not at all.
THEOREM QueueLenCorrect == Spec => []QueueLenExact
<1> DEFINE Inv == ServerTypeOK /\ MapInv /\ QueueLenExact
<1> USE ServerAssumption
<1>1. Init => Inv
  <2> SUFFICES ASSUME Init
               PROVE  QueueLenExact
    BY ServerTypeInit, MapInit
  <2>1. /\ {i \in Conns : newSession[i] = "queued"} = {}
        /\ {a \in Acceptors : accept[a] = "taken"} = {}
    BY DEF Init
  <2> QED
    BY <2>1, FS_EmptySet DEF Init, QueueLenExact
<1>2. Inv /\ [Next]_vars => Inv'
  <2> SUFFICES ASSUME ServerTypeOK, MapInv, QueueLenExact, [Next]_vars
               PROVE  QueueLenExact'
    BY ServerTypeStep, MapStep
  <2> DEFINE Queued == Count(Conns, newSession, "queued")
             Taken == Count(Acceptors, accept, "taken")
  <2>1. ASSUME NEW i \in Conns, \A j \in Conns \ {i} : newSession'[j] = newSession[j]
        PROVE  Queued' = Queued + (IF newSession'[i] = "queued" THEN 1 ELSE 0)
                                - (IF newSession[i] = "queued" THEN 1 ELSE 0)
    BY <2>1, CountAfterChange
  <2>2. ASSUME NEW a \in Acceptors, \A b \in Acceptors \ {a} : accept'[b] = accept[b]
        PROVE  Taken' = Taken + (IF accept'[a] = "taken" THEN 1 ELSE 0)
                              - (IF accept[a] = "taken" THEN 1 ELSE 0)
    BY <2>2, CountAfterChange
  <2>3. Queued \in Nat /\ Taken \in Nat
    BY FS_Subset, FS_CardinalityType DEF Count
  <2>4. sessionQueueLen = Queued + Taken
    BY DEF QueueLenExact, Count
  <2>5. SUFFICES sessionQueueLen' = Queued' + Taken'
    BY DEF QueueLenExact, Count
  <2> HIDE DEF Queued, Taken
  <2>6. ASSUME UNCHANGED queueVars
        PROVE  sessionQueueLen' = Queued' + Taken'
    BY <2>4, <2>6 DEF queueVars, Queued, Taken
  <2>7. ASSUME NEW i \in Conns, createNewSession(i)
        PROVE  sessionQueueLen' = Queued' + Taken'
    <3>1. newSession[i] = "none"
      BY <2>7 DEF createNewSession, MapInv
    <3> QED
      BY <2>1, <2>3, <2>4, <2>7, <3>1 DEF createNewSession, Taken, ServerTypeOK
  <2>8. ASSUME NEW i \in Conns,
               HandshakeCompletes(i) \/ EnqueueSession(i) \/ HandshakeFailed(i) \/ DequeueClosed(i)
        PROVE  sessionQueueLen' = Queued' + Taken'
    BY <2>1, <2>3, <2>4, <2>8
    DEF HandshakeCompletes, EnqueueSession, HandshakeFailed, DequeueClosed, QueueStep, Leave,
        NotQueued, Taken, ServerTypeOK
  <2>9. ASSUME NEW a \in Acceptors, AcceptCalled(a) \/ AcceptReturns(a) \/ AcceptFails(a)
        PROVE  sessionQueueLen' = Queued' + Taken'
    BY <2>2, <2>3, <2>4, <2>9 DEF AcceptCalled, AcceptReturns, AcceptFails, AcceptStep, Leave, Queued,
                                    ServerTypeOK
  <2>10. ASSUME NEW a \in Acceptors, NEW i \in Conns, AcceptTakes(a, i)
         PROVE  sessionQueueLen' = Queued' + Taken'
    BY <2>1, <2>2, <2>3, <2>4, <2>10 DEF AcceptTakes, AcceptStep, ServerTypeOK
  <2>11. ASSUME NEW i \in Conns,
                \/ ReceiveInitial(i) \/ Reject(i) \/ Add(i) \/ SessionStops(i) \/ DeleteRetired(i)
                \/ \E reason \in {"close", "destroy"} : SessionEnds(i, reason)
         PROVE  UNCHANGED queueVars
    BY <2>11 DEF ReceiveInitial, Reject, Add, SessionStops, DeleteRetired, SessionEnds, queueVars
  <2>12. CASE ReadFails \/ ReadLoop
    BY <2>6, <2>12, Zenon
    DEF ReadLoop, ReadFails, CloseMap, setCloseError, ListenReturns, queueVars
  <2>13. ASSUME NEW c \in Closers, Lock(c) \/ CloseRuns(c)
         PROVE  UNCHANGED queueVars
    BY <2>13 DEF Lock, CloseRuns, CloseServer, SessionsClosed, CloseConn, ListenStopped,
                 FinishClose, CloserAt, queueVars
  <2>14. CASE UNCHANGED vars
    BY <2>6, <2>14 DEF vars, queueVars
  <2> QED
    BY <2>6, <2>7, <2>8, <2>9, <2>10, <2>11, <2>12, <2>13, <2>14
    DEF Next, Progress, ConnRuns, AcceptRuns
<1> QED
  BY <1>1, <1>2, PTL DEF Spec

-----------------------------------------------------------------------------
(* Close. *)

\* Every step respects the mutex of the server.
LEMMA MutexStep == ServerTypeOK /\ MutexInv /\ [Next]_vars => MutexInv'
<1> SUFFICES ASSUME ServerTypeOK, MutexInv, [Next]_vars
             PROVE  MutexInv'
  OBVIOUS
<1> USE ServerAssumption DEF ServerTypeOK, MutexInv, InClose
<1>1. ASSUME UNCHANGED <<closer, sMutex, closed, errorChan>>
      PROVE  MutexInv'
  BY <1>1, ZenonT(60)
<1>2. ASSUME NEW i \in Conns,
             \/ ConnRuns(i) \/ ReceiveInitial(i) \/ HandshakeCompletes(i)
             \/ \E reason \in {"close", "destroy"} : SessionEnds(i, reason)
      PROVE  UNCHANGED <<closer, sMutex, closed, errorChan>>
  BY <1>2 DEF ConnRuns, ReceiveInitial, Reject, createNewSession, Add, HandshakeCompletes,
              SessionStops, DeleteRetired, EnqueueSession, HandshakeFailed, DequeueClosed,
              QueueStep, SessionEnds, closeVars
<1>3. ASSUME NEW a \in Acceptors, AcceptCalled(a) \/ AcceptRuns(a)
      PROVE  UNCHANGED <<closer, sMutex, closed, errorChan>>
  BY <1>3 DEF AcceptCalled, AcceptRuns, AcceptReturns, AcceptFails, AcceptTakes, AcceptStep,
              closeVars
<1>4. ASSUME ReadFails \/ CloseMap \/ ListenReturns
      PROVE  UNCHANGED <<closer, sMutex, closed, errorChan>>
  BY <1>4 DEF ReadFails, CloseMap, ListenReturns, closeVars
<1>5. CASE setCloseError
  BY <1>5 DEF setCloseError, AlreadyClosed, CloseErrorChan
<1>6. ASSUME NEW c \in Closers, Lock(c)
      PROVE  MutexInv'
  BY <1>6 DEF Lock, CloserAt, AlreadyClosed
<1>7. ASSUME NEW c \in Closers,
             CloseServer(c) \/ SessionsClosed(c) \/ CloseConn(c) \/ ListenStopped(c)
      PROVE  MutexInv'
  BY <1>7 DEF CloseServer, SessionsClosed, CloseConn, ListenStopped, CloserAt
<1>8. ASSUME NEW c \in Closers, FinishClose(c)
      PROVE  MutexInv'
  BY <1>8 DEF FinishClose, CloserAt, CloseErrorChan
<1>9. CASE UNCHANGED vars
  BY <1>1, <1>9 DEF vars, closeVars
<1> HIDE DEF ServerTypeOK, MutexInv
<1> QED
  BY <1>1, <1>2, <1>3, <1>4, <1>5, <1>6, <1>7, <1>8, <1>9, Zenon
  DEF Next, Progress, ReadLoop, CloseRuns

\* It is free in the beginning.
LEMMA MutexInit == Init => MutexInv
BY ServerAssumption DEF Init, MutexInv, InClose

\* errorChan, which wakes every Accept, is closed at most once, however many
\* goroutines call Close while the read loop fails.
THEOREM NoDoubleClose == Spec => []ErrorChanClosedOnce
<1> DEFINE Inv == ServerTypeOK /\ MutexInv
<1>1. Init => Inv
  BY ServerTypeInit, MutexInit
<1>2. Inv /\ [Next]_vars => Inv'
  BY ServerTypeStep, MutexStep
<1>3. Inv => ErrorChanClosedOnce
  BY DEF MutexInv, ErrorChanClosedOnce
<1> QED
  BY <1>1, <1>2, <1>3, PTL DEF Spec

\* Every step keeps what a call of Close waits for.
LEMMA WaitStep ==
    ServerTypeOK /\ MutexInv /\ MapInv /\ WaitInv /\ [Next]_vars => WaitInv'
<1> SUFFICES ASSUME ServerTypeOK, MutexInv, MapInv, WaitInv, [Next]_vars
             PROVE  WaitInv'
  BY Zenon
<1> USE DEF ServerTypeOK, MapInv, WaitInv, Runs, sessVars, closeVars
<1>1. ASSUME NEW i \in Conns,
             ReceiveInitial(i) \/ Reject(i) \/ createNewSession(i) \/ Add(i)
      PROVE  WaitInv'
  BY <1>1, SMTT(60) DEF ReceiveInitial, Reject, createNewSession, Add
<1>2. ASSUME NEW i \in Conns,
             \/ HandshakeCompletes(i) \/ SessionStops(i) \/ DeleteRetired(i)
             \/ EnqueueSession(i) \/ HandshakeFailed(i) \/ DequeueClosed(i)
             \/ \E reason \in {"close", "destroy"} : SessionEnds(i, reason)
      PROVE  WaitInv'
  BY <1>2 DEF HandshakeCompletes, SessionStops, DeleteRetired, EnqueueSession, HandshakeFailed,
              DequeueClosed, QueueStep, SessionEnds
<1>3. ASSUME NEW a \in Acceptors, AcceptCalled(a) \/ AcceptRuns(a)
      PROVE  WaitInv'
  BY <1>3 DEF AcceptCalled, AcceptRuns, AcceptReturns, AcceptFails, AcceptTakes, AcceptStep
<1>4. CASE ReadFails \/ setCloseError \/ ListenReturns
  BY <1>4 DEF ReadFails, setCloseError, ListenReturns
<1>5. CASE CloseMap
  BY <1>5 DEF CloseMap, End
<1>6. ASSUME NEW c \in Closers, Lock(c)
      PROVE  WaitInv'
  BY <1>6 DEF Lock, CloserAt
<1>7. ASSUME NEW c \in Closers, CloseServer(c)
      PROVE  WaitInv'
  <2>1. \A d \in Closers \ {c} : closer[d] \in {"idle", "already"}
    BY <1>7, ServerAssumption DEF CloseServer, CloserAt, MutexInv, InClose
  <2>2. \A i \in Conns : sess'[i] \in {"running", "close", "destroy"} =>
           i \in InMap \/ initial[i] = "created"
    BY <1>7 DEF CloseServer, End, InMap
  <2> QED
    BY <1>7, <2>1, <2>2 DEF CloseServer, CloserAt, WaitFor
<1>8. ASSUME NEW c \in Closers, SessionsClosed(c)
      PROVE  WaitInv'
  BY <1>8, SMTT(60) DEF SessionsClosed, CloserAt
<1>9. ASSUME NEW c \in Closers, CloseConn(c) \/ ListenStopped(c) \/ FinishClose(c)
      PROVE  WaitInv'
  BY <1>9 DEF CloseConn, ListenStopped, FinishClose, CloserAt
<1>10. CASE UNCHANGED vars
  BY <1>10 DEF vars
<1> HIDE DEF ServerTypeOK, MapInv, WaitInv
<1> QED
  BY <1>1, <1>2, <1>3, <1>4, <1>5, <1>6, <1>7, <1>8, <1>9, <1>10, Zenon
  DEF Next, Progress, ReadLoop, ConnRuns, CloseRuns

\* When Close returns, no session runs that was in the map when the server was
\* closed, for any number of attempts, of calls of Close, and of sessions that
\* begin, end and are destroyed by the read loop meanwhile.
THEOREM CloseWaitsForSessions == Spec => []ClosedServerHasNoSessions
<1>1. Init => SessionsInv
  BY ServerTypeInit, MutexInit, MapInit DEF Init, SessionsInv, WaitInv
<1>2. SessionsInv /\ [Next]_vars => SessionsInv'
  BY ServerTypeStep, MutexStep, MapStep, WaitStep DEF SessionsInv
<1>3. SessionsInv => ClosedServerHasNoSessions
  BY DEF SessionsInv, WaitInv, ClosedServerHasNoSessions, ServerTypeOK
<1> QED
  BY <1>1, <1>2, <1>3, PTL DEF Spec
=============================================================================
