-------------------------- MODULE FlowControlProofs --------------------------
(***************************************************************************)
(* Proofs about FlowControl, for any finite set of streams, any window     *)
(* sizes and any loss, delay, repetition and reordering.                   *)
(*                                                                         *)
(* The connection's counters are sums over the streams.  They are handled  *)
(* as cardinalities: ByteSet(f) is the set of the bytes below offset f[s]  *)
(* of every stream s, so that a pointwise smaller function has a smaller   *)
(* set, hence a smaller sum.                                               *)
(***************************************************************************)
EXTENDS FlowControl, FiniteSetTheorems, TLAPS

ByteSet(f) == {b \in Streams \X Nat : b[2] < f[b[1]]}

Highest == [s \in Streams |-> rcv[s].highest]

\* What the sender was allowed never exceeds what the receiver allows now.
StreamLimitsInv ==
    \A s \in Streams :
        /\ bytesSent[s] <= sendWindow[s]
        /\ sendWindow[s] <= rcv[s].window
        /\ \A offset \in maxStreamData[s] : offset <= rcv[s].window

ConnLimitsInv ==
    /\ connBytesSent <= connSendWindow
    /\ connSendWindow <= conn.window
    /\ \A offset \in maxData : offset <= conn.window

\* The receiver knows of no byte that was not sent, and a final offset it
\* knows is the one the sender chose.
ReceivedInv ==
    \A s \in Streams :
        /\ rcv[s].highest <= bytesSent[s]
        /\ s \in receivedFinalOffset => s \in finished /\ rcv[s].highest = bytesSent[s]

\* The connection's counters are the sums over the streams.
SumInv ==
    /\ IsFiniteSet(ByteSet(bytesSent)) /\ connBytesSent = Cardinality(ByteSet(bytesSent))
    /\ IsFiniteSet(ByteSet(Highest))   /\ conn.highest = Cardinality(ByteSet(Highest))

\* Window sizes obey the configuration, and no window reaches further than
\* its size beyond what was read.
SizeInv ==
    /\ \A s \in Streams : /\ rcv[s].size <= MaxStreamWindow
                          /\ rcv[s].window <= rcv[s].read + rcv[s].size
    /\ conn.size <= MaxConnWindow
    /\ conn.window <= conn.read + conn.size

IInv ==
    /\ TypeOK /\ StreamLimitsInv /\ ConnLimitsInv /\ ReceivedInv /\ SumInv
    /\ SizeInv /\ NoFalseError

-----------------------------------------------------------------------------
(* Facts about ByteSet. *)

\* Raising one stream's offset by n adds n bytes.
LEMMA ByteSetGrows ==
    ASSUME NEW f \in [Streams -> Nat], NEW s \in Streams, NEW n \in Nat,
           IsFiniteSet(ByteSet(f))
    PROVE  LET g == [f EXCEPT ![s] = f[s] + n]
           IN  /\ IsFiniteSet(ByteSet(g))
               /\ Cardinality(ByteSet(g)) = Cardinality(ByteSet(f)) + n
<1> DEFINE g == [f EXCEPT ![s] = f[s] + n]
           new == {s} \X (f[s] .. f[s] + n - 1)
<1>1. f[s] \in Nat
  OBVIOUS
<1>2. /\ IsFiniteSet(f[s] .. f[s] + n - 1)
      /\ Cardinality(f[s] .. f[s] + n - 1) = n
  <2>1. f[s] \in Int /\ f[s] + n - 1 \in Int
    BY <1>1
  <2> QED
    BY <1>1, <2>1, FS_Interval
<1>3. IsFiniteSet({s}) /\ Cardinality({s}) = 1
  BY FS_Singleton, Zenon
<1>4. IsFiniteSet(new) /\ Cardinality(new) = n
  <2>1. /\ IsFiniteSet(new)
        /\ Cardinality(new) = Cardinality({s}) * Cardinality(f[s] .. f[s] + n - 1)
    BY <1>2, <1>3, FS_Product, Zenon
  <2> QED
    BY <1>2, <1>3, <2>1
<1>5. ByteSet(g) = ByteSet(f) \cup new
  <2>1. ASSUME NEW b \in Streams \X Nat
        PROVE  b[2] < g[b[1]] <=> b[2] < f[b[1]] \/ b \in new
    <3>1. CASE b[1] = s
      BY <1>1, <3>1
    <3>2. CASE b[1] # s
      BY <1>1, <3>2
    <3> QED
      BY <3>1, <3>2
  <2>2. new \subseteq Streams \X Nat
    BY <1>1
  <2> QED
    BY <2>1, <2>2 DEF ByteSet
<1>6. ByteSet(f) \cap new = {}
  BY <1>1 DEF ByteSet
<1>7. Cardinality(ByteSet(f) \cap new) = 0
  BY <1>6, FS_EmptySet
<1>8. Cardinality(ByteSet(f)) \in Nat
  BY FS_CardinalityType
<1> HIDE DEF new
<1>9. /\ IsFiniteSet(ByteSet(f) \cup new)
      /\ Cardinality(ByteSet(f) \cup new) = Cardinality(ByteSet(f)) + n
  BY <1>4, <1>7, <1>8, FS_Union
<1> QED
  BY <1>5, <1>9, Zenon

\* A pointwise smaller function has no more bytes.
LEMMA ByteSetMonotone ==
    ASSUME NEW f \in [Streams -> Nat], NEW g \in [Streams -> Nat],
           \A s \in Streams : f[s] <= g[s],
           IsFiniteSet(ByteSet(g))
    PROVE  Cardinality(ByteSet(f)) <= Cardinality(ByteSet(g))
<1>1. ByteSet(f) \subseteq ByteSet(g)
  BY DEF ByteSet
<1> QED
  BY <1>1, FS_Subset

\* Nothing sent, no bytes.
LEMMA ByteSetOfZero ==
    ASSUME NEW f \in [Streams -> Nat], \A s \in Streams : f[s] = 0
    PROVE  IsFiniteSet(ByteSet(f)) /\ Cardinality(ByteSet(f)) = 0
<1>1. ByteSet(f) = {}
  BY DEF ByteSet
<1> QED
  BY <1>1, FS_EmptySet

-----------------------------------------------------------------------------
(* Facts about window updates. *)

\* A window update keeps the counters, never shrinks the window or its size,
\* and stays within the configured maximum.
LEMMA WindowUpdateGrows ==
    ASSUME NEW fc \in Controller, NEW maxSize \in Nat, NEW outcome
    PROVE  LET g == getWindowUpdate(fc, maxSize, outcome)
           IN  /\ g \in Controller
               /\ g.read = fc.read /\ g.highest = fc.highest
               /\ fc.size <= maxSize =>
                    /\ fc.size <= g.size /\ g.size <= maxSize
                    /\ fc.window <= g.window
                    /\ fc.window <= fc.read + fc.size => g.window <= g.read + g.size
<1> DEFINE t == maybeAdjustWindowSize(fc, maxSize, outcome)
<1>1. /\ t \in Controller
      /\ t.read = fc.read /\ t.highest = fc.highest /\ t.window = fc.window
      /\ fc.size <= maxSize => fc.size <= t.size /\ t.size <= maxSize
  BY DEF maybeAdjustWindowSize, NewEpoch, MinOf, Controller
<1>2. hasWindowUpdate(fc) => fc.window <= fc.read + fc.size
  BY DEF hasWindowUpdate, Controller
<1> HIDE DEF t
<1>3. CASE hasWindowUpdate(fc)
  <2>1. getWindowUpdate(fc, maxSize, outcome) = [t EXCEPT !.window = t.read + t.size]
    BY <1>3 DEF getWindowUpdate, t
  <2> QED
    BY <1>1, <1>2, <1>3, <2>1 DEF Controller
<1>4. CASE ~hasWindowUpdate(fc)
  BY <1>4 DEF getWindowUpdate, Controller
<1> QED
  BY <1>3, <1>4

\* The connection's controller after the window of a stream grew.
LEMMA EnsureMinimumGrows ==
    ASSUME NEW fc \in Controller, NEW inc \in Nat
    PROVE  LET g == EnsureMinimumWindowSize(fc, inc)
           IN  /\ g \in Controller
               /\ g.read = fc.read /\ g.highest = fc.highest /\ g.window = fc.window
               /\ fc.size <= MaxConnWindow =>
                    fc.size <= g.size /\ g.size <= MaxConnWindow
  BY FlowControlAssumption DEF EnsureMinimumWindowSize, NewEpoch, MinOf, Controller

-----------------------------------------------------------------------------
(* Type correctness. *)

\* What QueueAll does, in the terms the proofs use.
LEMMA QueueAllEffect ==
    ASSUME TypeOK, QueueAll
    PROVE  \E connOutcome \in Outcomes, outcome \in [queue -> Outcomes], inc \in Nat :
             /\ rcv' = StreamsUpdated(outcome)
             /\ conn' = EnsureMinimumWindowSize(ConnUpdated(connOutcome), inc)
             /\ ConnUpdated(connOutcome) \in Controller
             /\ maxData' \subseteq maxData \cup {0, ConnUpdated(connOutcome).window}
             /\ maxStreamData' = [s \in Streams |->
                   IF s \in Updates
                   THEN maxStreamData[s] \cup {StreamsUpdated(outcome)[s].window}
                   ELSE maxStreamData[s]]
             /\ StreamsUpdated(outcome) \in [Streams -> Controller]
<1>1. PICK connOutcome \in Outcomes, outcome \in [queue -> Outcomes] :
        LET rcvNew  == StreamsUpdated(outcome)
            connNew == ConnUpdated(connOutcome)
            grown   == {s \in Updates : rcvNew[s].size > rcv[s].size}
        IN  /\ rcv' = rcvNew
            /\ \E largest \in {0} \cup {rcvNew[s].size : s \in grown} :
                 /\ \A s \in grown : rcvNew[s].size <= largest
                 /\ conn' = EnsureMinimumWindowSize(connNew, ConnSizeFor(largest))
            /\ maxData' = IF queuedConn
                          THEN maxData \cup ({UpdateOffset(conn, connNew)} \ {0})
                          ELSE maxData
            /\ maxStreamData' = [s \in Streams |->
                  IF s \in Updates THEN maxStreamData[s] \cup {rcvNew[s].window}
                                   ELSE maxStreamData[s]]
  BY Zenon DEF QueueAll
<1>2. StreamsUpdated(outcome) \in [Streams -> Controller]
  <2>1. ASSUME NEW s \in Streams
        PROVE  getWindowUpdate(rcv[s], MaxStreamWindow, outcome[s]) \in Controller
    BY FlowControlAssumption, WindowUpdateGrows DEF TypeOK
  <2> QED
    BY <2>1 DEF StreamsUpdated, TypeOK
<1>3. ConnUpdated(connOutcome) \in Controller
  BY FlowControlAssumption, WindowUpdateGrows DEF ConnUpdated, TypeOK
<1>4. PICK largest \in {0} \cup {StreamsUpdated(outcome)[s].size : s \in Updates} :
        conn' = EnsureMinimumWindowSize(ConnUpdated(connOutcome), ConnSizeFor(largest))
  BY <1>1
<1>5. ConnSizeFor(largest) \in Nat
  <2>1. largest \in Nat
    BY <1>2 DEF Controller, Updates, TypeOK
  <2> QED
    BY <2>1 DEF ConnSizeFor
<1>6. maxData' \subseteq maxData \cup {0, ConnUpdated(connOutcome).window}
  BY <1>1 DEF UpdateOffset
<1> WITNESS connOutcome \in Outcomes, outcome \in [queue -> Outcomes],
            ConnSizeFor(largest) \in Nat
<1> QED
  BY <1>1, <1>2, <1>3, <1>4, <1>6

\* The controllers start with natural numbers (NewStreamFlowController).
LEMMA TypeInit == Init => TypeOK
<1> SUFFICES ASSUME Init PROVE TypeOK
  OBVIOUS
<1> QED
  BY FlowControlAssumption, Zenon DEF Init, TypeOK, NewController, Controller, Call, CallerPC, Callers, Idle

\* A caller that moves on keeps its type.
LEMMA AtType ==
    ASSUME TypeOK, NEW who \in Callers, NEW s \in Streams, NEW label \in CallerPC,
           NEW n \in Nat, At(who, s, label, n)
    PROVE  caller' \in [Callers \X Streams -> Call]
  BY DEF At, TypeOK, Call

\* So does one that is about to call streamCompleted.
LEMMA CompletedType ==
    ASSUME TypeOK, NEW who \in Callers, NEW s \in Streams, NEW condition,
           CompletedIf(condition, who, s)
    PROVE  caller' \in [Callers \X Streams -> Call]
  BY DEF CompletedIf, TypeOK, Call, CallerPC

\* Every action keeps the types.
LEMMA TypeStep == TypeOK /\ [Next]_vars => TypeOK'
<1> SUFFICES ASSUME TypeOK, [Next]_vars PROVE TypeOK'
  OBVIOUS
<1> USE FlowControlAssumption
<1>1. ASSUME NEW s \in Streams, NEW n \in 1 .. MaxData[s], AddBytesSent(s, n)
      PROVE  TypeOK'
  BY <1>1 DEF AddBytesSent, TypeOK, netVars, finVars, queueVars
<1>2. ASSUME NEW s \in Streams, Finish(s)
      PROVE  TypeOK'
  BY <1>2 DEF Finish, TypeOK, netVars, finVars, queueVars
<1>3. ASSUME NEW s \in Streams, NEW offset \in maxStreamData[s],
             UpdateStreamSendWindow(s, offset)
      PROVE  TypeOK'
  <2>1. offset \in Nat
    BY DEF TypeOK
  <2> QED
    BY <1>3, <2>1 DEF UpdateStreamSendWindow, TypeOK, netVars, finVars, queueVars
<1>4. ASSUME NEW offset \in maxData, UpdateConnSendWindow(offset)
      PROVE  TypeOK'
  BY <1>4 DEF UpdateConnSendWindow, TypeOK, netVars, finVars, queueVars
<1>5. ASSUME NEW s \in Streams, NEW offset \in Nat, NEW final \in BOOLEAN,
             UpdateHighestReceived(s, offset, final),
             canceledRead' = canceledRead, finRead' = finRead, abandons' = abandons,
             resetRemotely' \subseteq resetRemotely \cup {s},
             NEW completed, CompletedIf(completed, "run", s)
      PROVE  TypeOK'
  <2>1. err' \in {"none", "FinalSizeError", "FlowControlError"}
    BY <1>5 DEF UpdateHighestReceived, ReceiveError
  <2>2. receivedFinalOffset' \subseteq Streams /\ resetRemotely' \subseteq Streams
    BY <1>5 DEF UpdateHighestReceived, TypeOK
  <2>3. rcv' \in [Streams -> Controller]
    BY <1>5, SMTT(60) DEF UpdateHighestReceived, WithHighest, TypeOK, Controller
  <2>4. IncrementHighestReceived(s, offset) \in Nat
    BY DEF IncrementHighestReceived, TypeOK, Controller
  <2>5. conn' \in Controller
    BY <1>5, <2>4 DEF UpdateHighestReceived, WithHighest, TypeOK, Controller
  <2>6. caller' \in [Callers \X Streams -> Call]
    BY <1>5, CompletedType DEF Callers
  <2> QED
    BY <1>5, <2>1, <2>2, <2>3, <2>5, <2>6, ZenonT(60)
    DEF UpdateHighestReceived, TypeOK, sendVars, netVars, queueVars
<1>6. ASSUME NEW s \in Streams, NEW n \in 0 .. MaxData[s], CopyBytes(s, n)
      PROVE  TypeOK'
  <2>1. caller' \in [Callers \X Streams -> Call]
    BY <1>6 DEF CopyBytes, TypeOK, Call, CallerPC, Callers
  <2> QED
    BY <1>6, <2>1, Zenon
    DEF CopyBytes, TypeOK, sendVars, netVars, finVars, queueVars
<1>7. ASSUME NEW s \in Streams, ReadStream(s)
      PROVE  TypeOK'
  <2>1. caller[<<"Read", s>>].n \in Nat
    BY DEF TypeOK, Call, Callers
  <2>2. rcv' \in [Streams -> Controller]
    BY <1>7, <2>1 DEF ReadStream, WithRead, TypeOK, Controller
  <2>3. caller' \in [Callers \X Streams -> Call]
    BY <1>7, <2>1, AtType, Zenon DEF ReadStream, CallerPC, Callers
  <2>4. finRead' \subseteq Streams
    BY <1>7 DEF ReadStream, TypeOK
  <2> QED
    BY <1>7, <2>2, <2>3, <2>4, Zenon
    DEF ReadStream, TypeOK, sendVars, netVars, queueVars
<1>8. ASSUME NEW s \in Streams, CheckStream(s) \/ AddStream(s)
      PROVE  TypeOK'
  <2>1. caller[<<"Read", s>>].n \in Nat
    BY DEF TypeOK, Call, Callers
  <2>2. caller' \in [Callers \X Streams -> Call]
    BY <1>8, <2>1, AtType, Zenon DEF CheckStream, AddStream, CallerPC, Callers
  <2>3. queue' \subseteq Streams
    BY <1>8 DEF CheckStream, AddStream, TypeOK, queueVars
  <2> QED
    BY <1>8, <2>2, <2>3, Zenon
    DEF CheckStream, AddStream, TypeOK, sendVars, netVars, finVars, queueVars
<1>9. ASSUME NEW who \in Callers, NEW s \in Streams, ReadConn(who, s)
      PROVE  TypeOK'
  <2>1. caller[<<who, s>>].n \in Nat
    BY DEF TypeOK, Call
  <2>2. conn' \in Controller
    BY <1>9, <2>1, SMTT(60) DEF ReadConn, WithRead, TypeOK, Controller
  <2>3. caller' \in [Callers \X Streams -> Call]
    BY <1>9, AtType, Zenon DEF ReadConn, CallerPC
  <2>4. counted' \in [Streams -> Nat]
    BY <1>9, <2>1 DEF ReadConn, TypeOK
  <2> QED
    BY <1>9, <2>2, <2>3, <2>4, Zenon
    DEF ReadConn, TypeOK, sendVars, netVars, finVars, queueVars
<1>10. ASSUME NEW who \in Callers, NEW s \in Streams,
              CheckConn(who, s) \/ AddConnection(who, s)
       PROVE  TypeOK'
  <2>1. caller' \in [Callers \X Streams -> Call]
    BY <1>10, AtType, Zenon DEF CheckConn, AddConnection, CallerPC
  <2>2. queuedConn' \in BOOLEAN
    BY <1>10, Zenon DEF CheckConn, AddConnection, TypeOK, queueVars
  <2> QED
    BY <1>10, <2>1, <2>2, Zenon
    DEF CheckConn, AddConnection, TypeOK, sendVars, netVars, finVars, queueVars
<1>11. ASSUME NEW s \in Streams, CancelRead(s)
       PROVE  TypeOK'
  <2>1. caller' \in [Callers \X Streams -> Call]
    BY <1>11, CompletedType, Zenon DEF CancelRead, Callers
  <2>2. canceledRead' \subseteq Streams
    BY <1>11 DEF CancelRead, TypeOK
  <2> QED
    BY <1>11, <2>1, <2>2, Zenon
    DEF CancelRead, TypeOK, sendVars, netVars, queueVars
<1>12. ASSUME NEW who \in Callers, NEW s \in Streams, Abandon(who, s)
       PROVE  TypeOK'
  <2>1. UnreadBytes(s) > 0 => UnreadBytes(s) \in Nat
    BY DEF UnreadBytes, TypeOK, Controller
  <2>2. caller' \in [Callers \X Streams -> Call]
    BY <1>12, <2>1, AtType, Zenon DEF Abandon, CallerPC
  <2>3. abandons' \in [Streams -> Nat]
    BY <1>12 DEF Abandon, MinOf, TypeOK
  <2> QED
    BY <1>12, <2>2, <2>3, Zenon
    DEF Abandon, TypeOK, sendVars, netVars, queueVars
<1>13. ASSUME QueueAll
       PROVE  TypeOK'
  <2>1. PICK connOutcome \in Outcomes, outcome \in [queue -> Outcomes], inc \in Nat :
             /\ rcv' = StreamsUpdated(outcome)
             /\ conn' = EnsureMinimumWindowSize(ConnUpdated(connOutcome), inc)
             /\ ConnUpdated(connOutcome) \in Controller
             /\ maxData' \subseteq maxData \cup {0, ConnUpdated(connOutcome).window}
             /\ maxStreamData' = [s \in Streams |->
                   IF s \in Updates
                   THEN maxStreamData[s] \cup {StreamsUpdated(outcome)[s].window}
                   ELSE maxStreamData[s]]
             /\ StreamsUpdated(outcome) \in [Streams -> Controller]
    BY <1>13, QueueAllEffect
  <2>2. conn' \in Controller
    BY <2>1, EnsureMinimumGrows
  <2>3. maxData' \in SUBSET Nat
    BY <2>1 DEF TypeOK, Controller
  <2>4. maxStreamData' \in [Streams -> SUBSET Nat]
    BY <2>1 DEF TypeOK, Controller
  <2> QED
    BY <1>13, <2>1, <2>2, <2>3, <2>4, Zenon DEF QueueAll, TypeOK, sendVars, finVars
<1>14. CASE UNCHANGED vars
  BY <1>14 DEF vars, TypeOK, sendVars, netVars, finVars, queueVars
<1>15. ASSUME NEW s \in Streams, ReceiveStep(s)
       PROVE  TypeOK'
  <2>1. bytesSent[s] \in Nat /\ 0 .. bytesSent[s] \subseteq Nat
    BY DEF TypeOK
  <2>2. ASSUME NEW offset \in Nat, NEW fin \in BOOLEAN, handleStreamFrame(s, offset, fin)
        PROVE  TypeOK'
    BY <1>5, <2>2, Zenon DEF handleStreamFrame
  <2>3. CASE handleResetStreamFrame(s)
    <3>1. resetRemotely' \subseteq resetRemotely \cup {s}
      BY <2>3 DEF handleResetStreamFrame
    <3> QED
      BY <1>5, <2>1, <2>3, <3>1, Zenon DEF handleResetStreamFrame
  <2> QED
    BY <1>15, <2>1, <2>2, <2>3, ZenonT(60) DEF ReceiveStep
<1> QED
  BY <1>1, <1>2, <1>3, <1>4, <1>6, <1>7, <1>8, <1>9, <1>10, <1>11, <1>12,
     <1>13, <1>14, <1>15, ZenonT(60)
  DEF Next, SendStep, ReadStep, CountStep

\* The state of every flow controller, of both endpoints, keeps its type; no
\* counter ever becomes negative.
THEOREM TypeCorrect == Spec => []TypeOK
  BY TypeInit, TypeStep, PTL DEF Spec

-----------------------------------------------------------------------------
(* The inductive invariant. *)

\* The invariant holds for new controllers whose maxima are not below the windows.
LEMMA InvInit == ConfigOK /\ Init => IInv
<1> SUFFICES ASSUME ConfigOK, Init PROVE IInv
  OBVIOUS
<1> USE FlowControlAssumption
<1>1. TypeOK
  BY TypeInit
<1>2. StreamLimitsInv /\ ConnLimitsInv
  BY DEF Init, NewController, StreamLimitsInv, ConnLimitsInv
<1>3. ReceivedInv /\ SizeInv /\ NoFalseError
  BY DEF Init, NewController, ReceivedInv, SizeInv, NoFalseError, ConfigOK
<1>4. SumInv
  <2>1. bytesSent \in [Streams -> Nat] /\ \A s \in Streams : bytesSent[s] = 0
    BY DEF Init
  <2>2. Highest \in [Streams -> Nat] /\ \A s \in Streams : Highest[s] = 0
    BY DEF Init, NewController, Highest
  <2>3. connBytesSent = 0 /\ conn.highest = 0
    BY DEF Init, NewController
  <2> QED
    BY <2>1, <2>2, <2>3, ByteSetOfZero DEF SumInv
<1> QED
  BY <1>1, <1>2, <1>3, <1>4 DEF IInv

\* Sending: the new bytes stay within both send windows, and are counted once
\* for the stream and once for the connection.
LEMMA InvAddBytesSent ==
    ASSUME IInv, NEW s \in Streams, NEW n \in 1 .. MaxData[s], AddBytesSent(s, n), TypeOK'
    PROVE  IInv'
<1> USE FlowControlAssumption DEF IInv
<1>1. UNCHANGED <<sendWindow, finished, connSendWindow, maxStreamData, maxData,
                  receivedFinalOffset, rcv, conn, err>>
  BY DEF AddBytesSent, netVars, finVars
<1>2. /\ bytesSent' = [bytesSent EXCEPT ![s] = bytesSent[s] + n]
      /\ connBytesSent' = connBytesSent + n
      /\ s \notin finished
  BY DEF AddBytesSent
<1>3. /\ bytesSent[s] + n <= sendWindow[s]
      /\ connBytesSent + n <= connSendWindow
  BY DEF AddBytesSent, SendWindowSize, sendWindowSize, MinOf, TypeOK
<1>4. StreamLimitsInv'
  BY <1>1, <1>2, <1>3 DEF StreamLimitsInv, TypeOK
<1>5. ConnLimitsInv'
  BY <1>1, <1>2, <1>3 DEF ConnLimitsInv, TypeOK
<1>6. ReceivedInv'
  BY <1>1, <1>2 DEF ReceivedInv, TypeOK, Controller
<1>7. SumInv'
  <2>1. bytesSent \in [Streams -> Nat] /\ n \in Nat /\ IsFiniteSet(ByteSet(bytesSent))
    BY DEF TypeOK, SumInv
  <2>2. /\ IsFiniteSet(ByteSet(bytesSent'))
        /\ Cardinality(ByteSet(bytesSent')) = Cardinality(ByteSet(bytesSent)) + n
    BY <1>2, <2>1, ByteSetGrows, ZenonT(60)
  <2>3. Highest' = Highest
    BY <1>1 DEF Highest
  <2>4. ByteSet(bytesSent)' = ByteSet(bytesSent') /\ ByteSet(Highest)' = ByteSet(Highest)
    BY <2>3 DEF ByteSet
  <2> QED
    BY <1>1, <1>2, <2>2, <2>4 DEF SumInv
<1>8. SizeInv' /\ NoFalseError'
  BY <1>1 DEF SizeInv, NoFalseError
<1> QED
  BY <1>4, <1>5, <1>6, <1>7, <1>8

\* Receiving: every offset that may arrive was sent, so it lies within the
\* stream's window; and the sum of what was received, of every stream, is at
\* most the sum of what was sent, so it lies within the connection's window.
LEMMA InvUpdateHighestReceived ==
    ASSUME IInv, NEW s \in Streams, NEW offset \in 0 .. bytesSent[s],
           NEW final \in BOOLEAN, final => s \in finished /\ offset = bytesSent[s],
           UpdateHighestReceived(s, offset, final), TypeOK'
    PROVE  IInv'
<1> USE DEF IInv
<1> DEFINE n == IF offset > rcv[s].highest THEN offset - rcv[s].highest ELSE 0
           h == [Highest EXCEPT ![s] = Highest[s] + n]
<1>1. /\ bytesSent \in [Streams -> Nat] /\ bytesSent[s] \in Nat /\ offset \in Nat
      /\ rcv[s] \in Controller /\ rcv[s].highest \in Nat /\ conn \in Controller
      /\ n \in Nat
      /\ rcv[s].highest + n <= bytesSent[s]
  BY DEF TypeOK, Controller, ReceivedInv
<1>2. Highest \in [Streams -> Nat] /\ h \in [Streams -> Nat]
      /\ Highest[s] = rcv[s].highest
  BY <1>1 DEF Highest, TypeOK, Controller
<1>3. \A t \in Streams : h[t] <= bytesSent[t]
  BY <1>1, <1>2 DEF ReceivedInv, Highest, TypeOK, Controller
<1>4. /\ IsFiniteSet(ByteSet(h))
      /\ Cardinality(ByteSet(h)) = conn.highest + n
  <2>1. n \in Nat /\ IsFiniteSet(ByteSet(Highest))
        /\ conn.highest = Cardinality(ByteSet(Highest))
    BY <1>1, ZenonT(60) DEF SumInv
  <2> HIDE DEF n, IInv
  <2>2. \A k \in Nat : LET g == [Highest EXCEPT ![s] = Highest[s] + k]
                      IN  /\ IsFiniteSet(ByteSet(g))
                          /\ Cardinality(ByteSet(g)) = Cardinality(ByteSet(Highest)) + k
    BY <1>2, <2>1, ByteSetGrows, ZenonT(60)
  <2> QED
    BY <2>1, <2>2, Zenon
<1>5. conn.highest + n <= connBytesSent
  BY <1>1, <1>2, <1>3, <1>4, ByteSetMonotone, ZenonT(60) DEF SumInv
<1>6. ~FinalSizeError(s, offset, final)
  BY <1>1 DEF FinalSizeError, ReceivedInv
<1>7. ~FlowControlError(s, offset)
  <2>1. offset <= rcv[s].window
    BY <1>1 DEF StreamLimitsInv, TypeOK, Controller
  <2>2. conn.highest + n <= conn.window
    BY <1>1, <1>5 DEF ConnLimitsInv, TypeOK, Controller
  <2> QED
    BY <1>1, <2>1, <2>2, SMTT(60) DEF FlowControlError, Controller
<1>8. err' = "none"
  BY <1>6, <1>7 DEF UpdateHighestReceived, ReceiveError
<1>9. /\ rcv' = [rcv EXCEPT ![s] = WithHighest(rcv[s], rcv[s].highest + n)]
      /\ conn' = WithHighest(conn, conn.highest + n)
      /\ receivedFinalOffset' = IF final THEN receivedFinalOffset \cup {s}
                                         ELSE receivedFinalOffset
      /\ UNCHANGED <<bytesSent, sendWindow, finished, connBytesSent, connSendWindow,
                     maxStreamData, maxData>>
  <2>1. IncrementHighestReceived(s, offset) = conn.highest + n
    BY <1>1, SMTT(60) DEF IncrementHighestReceived, Controller
  <2>2. (IF offset > rcv[s].highest THEN offset ELSE rcv[s].highest) = rcv[s].highest + n
    BY <1>1, SMTT(60)
  <2> HIDE DEF n
  <2> QED
    BY <1>8, <2>1, <2>2, Zenon DEF UpdateHighestReceived, sendVars, netVars
<1> HIDE DEF n
<1>10. StreamLimitsInv'
  BY <1>1, <1>9 DEF StreamLimitsInv, WithHighest, TypeOK, Controller
<1>11. ConnLimitsInv' /\ NoFalseError'
  BY <1>8, <1>9 DEF ConnLimitsInv, WithHighest, NoFalseError
<1>12. ReceivedInv'
  <2> SUFFICES ASSUME NEW t \in Streams
               PROVE  /\ rcv'[t].highest <= bytesSent[t]
                      /\ t \in receivedFinalOffset' =>
                           t \in finished /\ rcv'[t].highest = bytesSent[t]
    BY <1>9 DEF ReceivedInv
  <2>1. CASE t = s
    <3>1. rcv'[t].highest = rcv[s].highest + n
      BY <1>9, <2>1, Zenon DEF WithHighest, TypeOK
    <3>2. s \in receivedFinalOffset => s \in finished /\ rcv[s].highest = bytesSent[s]
      BY DEF ReceivedInv
    <3>3. final => rcv[s].highest + n = bytesSent[s]
      BY <1>1 DEF n, ReceivedInv
    <3> QED
      BY <1>1, <1>9, <2>1, <3>1, <3>2, <3>3, SMTT(60)
  <2>2. CASE t # s
    <3>1. rcv'[t] = rcv[t] /\ (t \in receivedFinalOffset' => t \in receivedFinalOffset)
      BY <1>9, <2>2, Zenon DEF TypeOK
    <3> QED
      BY <3>1 DEF ReceivedInv
  <2> QED
    BY <2>1, <2>2, ZenonT(60)
<1>13. SumInv'
  <2>1. Highest' = h
    BY <1>1, <1>2, <1>9, ZenonT(60) DEF Highest, WithHighest, TypeOK, Controller
  <2>2. conn'.highest = conn.highest + n
    BY <1>9 DEF WithHighest
  <2>3. ByteSet(Highest)' = ByteSet(h) /\ ByteSet(bytesSent)' = ByteSet(bytesSent)
    BY <1>9, <2>1, SMTT(60) DEF ByteSet
  <2> HIDE DEF h
  <2> QED
    BY <1>4, <1>9, <2>2, <2>3, ZenonT(60) DEF SumInv
<1>14. SizeInv'
  BY <1>1, <1>9 DEF SizeInv, WithHighest, TypeOK, Controller
<1> QED
  BY <1>10, <1>11, <1>12, <1>13, <1>14

\* Steps that touch nothing the invariant is about.
LEMMA InvUnchanged ==
    ASSUME IInv, TypeOK',
           UNCHANGED <<bytesSent, sendWindow, connBytesSent, connSendWindow,
                       maxStreamData, maxData, rcv, conn, receivedFinalOffset, err>>,
           finished \subseteq finished'
    PROVE  IInv'
<1> USE DEF IInv
<1>1. StreamLimitsInv' /\ ConnLimitsInv'
  BY DEF StreamLimitsInv, ConnLimitsInv
<1>2. ReceivedInv' /\ SizeInv' /\ NoFalseError'
  BY ZenonT(60) DEF ReceivedInv, SizeInv, NoFalseError
<1>3. SumInv'
  BY DEF SumInv, ByteSet, Highest
<1> QED
  BY <1>1, <1>2, <1>3

\* Steps that change the receiving controllers, and the limits announced,
\* but not what was received.
LEMMA InvControllers ==
    ASSUME IInv, TypeOK',
           UNCHANGED <<bytesSent, sendWindow, finished, connBytesSent,
                       connSendWindow, receivedFinalOffset, err>>,
           \A s \in Streams :
               /\ rcv'[s].highest = rcv[s].highest
               /\ rcv[s].window <= rcv'[s].window
               /\ \A offset \in maxStreamData'[s] :
                     offset \in maxStreamData[s] \/ offset <= rcv'[s].window,
           conn'.highest = conn.highest,
           conn.window <= conn'.window,
           \A offset \in maxData' : offset \in maxData \/ offset <= conn'.window,
           SizeInv'
    PROVE  IInv'
<1> USE DEF IInv
<1>1. StreamLimitsInv'
  BY DEF StreamLimitsInv, TypeOK, Controller
<1>2. ConnLimitsInv'
  BY SMTT(60) DEF ConnLimitsInv, TypeOK, Controller
<1>3. ReceivedInv' /\ NoFalseError'
  BY Zenon DEF ReceivedInv, NoFalseError
<1>4. SumInv'
  <2>1. Highest' = Highest
    BY Zenon DEF Highest
  <2> QED
    BY <2>1 DEF SumInv, ByteSet
<1> QED
  BY <1>1, <1>2, <1>3, <1>4, Zenon

\* QueueAll moves the windows forward, never beyond the maxima, and announces
\* no limit it does not enforce.
LEMMA QueueAllGrows ==
    ASSUME TypeOK, SizeInv, QueueAll
    PROVE  /\ \A s \in Streams :
                 /\ rcv'[s].highest = rcv[s].highest
                 /\ rcv[s].window <= rcv'[s].window
                 /\ \A offset \in maxStreamData'[s] :
                       offset \in maxStreamData[s] \/ offset <= rcv'[s].window
           /\ conn'.highest = conn.highest /\ conn.window <= conn'.window
           /\ \A offset \in maxData' : offset \in maxData \/ offset <= conn'.window
           /\ SizeInv'
<1> USE FlowControlAssumption
<1>1. PICK connOutcome \in Outcomes, outcome \in [queue -> Outcomes], inc \in Nat :
             /\ rcv' = StreamsUpdated(outcome)
             /\ conn' = EnsureMinimumWindowSize(ConnUpdated(connOutcome), inc)
             /\ ConnUpdated(connOutcome) \in Controller
             /\ maxData' \subseteq maxData \cup {0, ConnUpdated(connOutcome).window}
             /\ maxStreamData' = [s \in Streams |->
                   IF s \in Updates
                   THEN maxStreamData[s] \cup {StreamsUpdated(outcome)[s].window}
                   ELSE maxStreamData[s]]
             /\ StreamsUpdated(outcome) \in [Streams -> Controller]
  BY QueueAllEffect, Zenon
<1>2. ASSUME NEW s \in Streams
      PROVE  /\ rcv'[s].highest = rcv[s].highest
             /\ rcv[s].window <= rcv'[s].window
             /\ rcv'[s].size <= MaxStreamWindow
             /\ rcv'[s].window <= rcv'[s].read + rcv'[s].size
  <2>1. rcv[s] \in Controller /\ rcv[s].size <= MaxStreamWindow
        /\ rcv[s].window <= rcv[s].read + rcv[s].size /\ rcv[s].window \in Nat
    BY ZenonT(60) DEF TypeOK, SizeInv, Controller
  <2>2. CASE s \in Updates
    <3>1. rcv'[s] = getWindowUpdate(rcv[s], MaxStreamWindow, outcome[s])
      BY <1>1, <2>2, Zenon DEF StreamsUpdated
    <3> QED
      BY <2>1, <3>1, WindowUpdateGrows, SMTT(60)
  <2>3. CASE s \notin Updates
    <3>1. rcv'[s] = rcv[s]
      BY <1>1, <2>3, ZenonT(60) DEF StreamsUpdated
    <3> QED
      BY <2>1, <3>1, SMTT(60)
  <2> QED
    BY <2>2, <2>3, Zenon
<1>3. ASSUME NEW s \in Streams, NEW offset \in maxStreamData'[s]
      PROVE  offset \in maxStreamData[s] \/ offset <= rcv'[s].window
  <2>1. rcv'[s].window \in Nat
    BY <1>1, Zenon DEF Controller
  <2> QED
    BY <1>1, <2>1, SMTT(60)
<1> DEFINE connNew == ConnUpdated(connOutcome)
<1>4. /\ connNew \in Controller
      /\ connNew.highest = conn.highest /\ conn.window <= connNew.window
      /\ connNew.size <= MaxConnWindow
      /\ connNew.window <= connNew.read + connNew.size
  <2>1. conn \in Controller /\ conn.size <= MaxConnWindow
        /\ conn.window <= conn.read + conn.size /\ conn.window \in Nat
    BY Zenon DEF TypeOK, SizeInv, Controller
  <2>2. CASE queuedConn
    BY <2>1, <2>2, WindowUpdateGrows, SMTT(60) DEF ConnUpdated
  <2>3. CASE ~queuedConn
    BY <2>1, <2>3, SMTT(60) DEF ConnUpdated
  <2> QED
    BY <2>2, <2>3, Zenon
<1> HIDE DEF connNew
<1>5. /\ conn' \in Controller
      /\ conn'.read = connNew.read /\ conn'.highest = connNew.highest
      /\ conn'.window = connNew.window
      /\ connNew.size <= conn'.size /\ conn'.size <= MaxConnWindow
  <2>1. conn' = EnsureMinimumWindowSize(connNew, inc)
    BY <1>1, Zenon DEF connNew
  <2> QED
    BY <1>4, <2>1, EnsureMinimumGrows, Zenon
<1>6. SizeInv'
  BY <1>2, <1>4, <1>5 DEF SizeInv, Controller
<1>7. ASSUME NEW offset \in maxData'
      PROVE  offset \in maxData \/ offset <= conn'.window
  <2>1. offset \in maxData \/ offset = 0 \/ offset = connNew.window
    BY <1>1, <1>7, Zenon DEF connNew
  <2> QED
    BY <1>4, <1>5, <2>1, SMTT(60) DEF Controller
<1>8. conn'.highest = conn.highest /\ conn.window <= conn'.window
  BY <1>4, <1>5, Zenon
<1> QED
  BY <1>2, <1>3, <1>6, <1>7, <1>8, Zenon

\* Every step of sender, network, controllers and window update queue keeps it.
LEMMA InvStep == IInv /\ [Next]_vars => IInv'
<1> SUFFICES ASSUME IInv, [Next]_vars PROVE IInv'
  OBVIOUS
<1> USE FlowControlAssumption
<1>t. TypeOK /\ TypeOK'
  BY TypeStep DEF IInv
<1>1. ASSUME NEW s \in Streams, NEW n \in 1 .. MaxData[s], AddBytesSent(s, n)
      PROVE  IInv'
  BY <1>t, <1>1, InvAddBytesSent
<1>2. ASSUME NEW s \in Streams, Finish(s)
      PROVE  IInv'
  <2>1. /\ UNCHANGED <<bytesSent, sendWindow, connBytesSent, connSendWindow,
                       maxStreamData, maxData, rcv, conn, receivedFinalOffset, err>>
        /\ finished \subseteq finished'
    BY <1>2 DEF Finish, netVars, finVars
  <2> QED
    BY <1>t, <2>1, InvUnchanged
<1>3. ASSUME NEW s \in Streams, NEW offset \in maxStreamData[s],
             UpdateStreamSendWindow(s, offset)
      PROVE  IInv'
  <2>1. /\ sendWindow' = [sendWindow EXCEPT ![s] = offset]
        /\ offset > sendWindow[s]
        /\ UNCHANGED <<bytesSent, finished, connBytesSent, connSendWindow,
                       maxStreamData, maxData, rcv, conn, receivedFinalOffset, err>>
    BY <1>3, Zenon DEF UpdateStreamSendWindow, netVars, finVars
  <2>2. offset \in Nat
    BY <1>t, Zenon DEF TypeOK
  <2>3. StreamLimitsInv'
    BY <1>t, <2>1, <2>2, SMTT(60) DEF IInv, StreamLimitsInv, TypeOK
  <2>4. ConnLimitsInv' /\ ReceivedInv' /\ SizeInv' /\ NoFalseError'
    BY <2>1, ZenonT(60) DEF IInv, ConnLimitsInv, ReceivedInv, SizeInv, NoFalseError
  <2>5. SumInv'
    BY <2>1 DEF IInv, SumInv, ByteSet, Highest
  <2> QED
    BY <1>t, <2>3, <2>4, <2>5, Zenon DEF IInv
<1>4. ASSUME NEW offset \in maxData, UpdateConnSendWindow(offset)
      PROVE  IInv'
  <2>1. /\ connSendWindow' = offset
        /\ offset > connSendWindow
        /\ UNCHANGED <<bytesSent, sendWindow, finished, connBytesSent,
                       maxStreamData, maxData, rcv, conn, receivedFinalOffset, err>>
    BY <1>4, Zenon DEF UpdateConnSendWindow, netVars, finVars
  <2>2. ConnLimitsInv'
    BY <1>t, <2>1, SMTT(60) DEF IInv, ConnLimitsInv, TypeOK
  <2>3. StreamLimitsInv' /\ ReceivedInv' /\ SizeInv' /\ NoFalseError'
    BY <2>1, ZenonT(60) DEF IInv, StreamLimitsInv, ReceivedInv, SizeInv, NoFalseError
  <2>4. SumInv'
    BY <2>1 DEF IInv, SumInv, ByteSet, Highest
  <2> QED
    BY <1>t, <2>2, <2>3, <2>4 DEF IInv
<1>5. ASSUME NEW s \in Streams, ReceiveStep(s)
      PROVE  IInv'
  <2>1. CASE \E offset \in 0 .. bytesSent[s] : UpdateHighestReceived(s, offset, FALSE)
    BY <1>t, <2>1, InvUpdateHighestReceived, Zenon
  <2>2. CASE s \in finished /\ UpdateHighestReceived(s, bytesSent[s], TRUE)
    <3>1. bytesSent[s] \in 0 .. bytesSent[s]
      BY <1>t, SMTT(60) DEF TypeOK
    <3> QED
      BY <1>t, <2>2, <3>1, InvUpdateHighestReceived, ZenonT(60)
  <2> QED
    BY <1>5, <2>1, <2>2, ZenonT(60)
    DEF ReceiveStep, handleStreamFrame, handleResetStreamFrame
<1>6. ASSUME NEW s \in Streams, ReadStream(s)
      PROVE  IInv'
  <2> DEFINE n == caller[<<"Read", s>>].n
  <2>n. n \in Nat
    BY <1>t DEF TypeOK, Call, Callers
  <2> HIDE DEF n
  <2>1. /\ \/ rcv' = [rcv EXCEPT ![s] = WithRead(rcv[s], rcv[s].read + n)]
           \/ rcv' = rcv
        /\ UNCHANGED <<bytesSent, sendWindow, finished, connBytesSent,
                       connSendWindow, receivedFinalOffset, err,
                       maxStreamData, maxData, conn>>
    BY <1>6, Zenon DEF ReadStream, n, sendVars, netVars
  <2>2. \A t \in Streams : /\ rcv'[t].highest = rcv[t].highest
                            /\ rcv[t].window <= rcv'[t].window
    BY <1>t, <2>1, SMTT(60) DEF WithRead, TypeOK, Controller
  <2>3. SizeInv'
    BY <1>t, <2>n, <2>1, SMTT(60) DEF IInv, SizeInv, WithRead, TypeOK, Controller
  <2>4. conn.window <= conn'.window
    BY <1>t, <2>1 DEF TypeOK, Controller
  <2> QED
    BY <1>t, <2>1, <2>2, <2>3, <2>4, InvControllers
<1>7. ASSUME NEW who, NEW s \in Streams, NEW n,
             \/ CopyBytes(s, n) \/ CheckStream(s) \/ AddStream(s) \/ CancelRead(s)
             \/ CheckConn(who, s) \/ AddConnection(who, s) \/ Abandon(who, s)
      PROVE  IInv'
  <2>1. /\ UNCHANGED <<bytesSent, sendWindow, connBytesSent, connSendWindow,
                       maxStreamData, maxData, rcv, conn, receivedFinalOffset, err>>
        /\ finished' = finished
    BY <1>7, ZenonT(60) DEF CopyBytes, CheckStream, AddStream, CancelRead, CheckConn,
                AddConnection, Abandon, sendVars, netVars, finVars
  <2> QED
    BY <1>t, <2>1, InvUnchanged, Zenon
<1>8. ASSUME NEW who \in Callers, NEW s \in Streams, ReadConn(who, s)
      PROVE  IInv'
  <2> DEFINE n == caller[<<who, s>>].n
  <2>n. n \in Nat
    BY <1>t DEF TypeOK, Call
  <2> HIDE DEF n
  <2>1. /\ conn' = WithRead(conn, conn.read + n)
        /\ UNCHANGED <<bytesSent, sendWindow, finished, connBytesSent,
                       connSendWindow, receivedFinalOffset, err,
                       maxStreamData, maxData, rcv>>
    BY <1>8, ZenonT(60) DEF ReadConn, n, sendVars, netVars, finVars
  <2>2. conn'.highest = conn.highest /\ conn.window <= conn'.window
    BY <1>t, <2>1, SMTT(60) DEF WithRead, TypeOK, Controller
  <2>3. SizeInv'
    BY <1>t, <2>n, <2>1 DEF IInv, SizeInv, WithRead, TypeOK, Controller
  <2>4. \A t \in Streams : rcv[t].window <= rcv'[t].window
    BY <1>t, <2>1, SMTT(60) DEF TypeOK, Controller
  <2> QED
    BY <1>t, <2>1, <2>2, <2>3, <2>4, InvControllers, Zenon
<1>9. ASSUME QueueAll
      PROVE  IInv'
  <2>1. UNCHANGED <<bytesSent, sendWindow, finished, connBytesSent,
                    connSendWindow, receivedFinalOffset, err>>
    BY <1>9 DEF QueueAll, sendVars, finVars
  <2>2. SizeInv
    BY DEF IInv
  <2> QED
    BY <1>t, <1>9, <2>1, <2>2, QueueAllGrows, InvControllers, ZenonT(60)
<1>10. CASE UNCHANGED vars
  <2>1. /\ UNCHANGED <<bytesSent, sendWindow, connBytesSent, connSendWindow,
                       maxStreamData, maxData, rcv, conn, receivedFinalOffset, err>>
        /\ finished' = finished
    BY <1>10 DEF vars, sendVars, netVars, finVars
  <2> QED
    BY <1>t, <2>1, InvUnchanged
<1> QED
  BY <1>1, <1>2, <1>3, <1>4, <1>5, <1>6, <1>7, <1>8, <1>9, <1>10, ZenonT(60)
  DEF Next, SendStep, ReadStep, CountStep

\* The inductive invariant, for every configuration whose maximal windows are
\* at least the initial ones.
THEOREM Invariant == ConfigOK => (Spec => []IInv)
<1> SUFFICES ASSUME ConfigOK PROVE Spec => []IInv
  OBVIOUS
<1>1. Init => IInv
  BY InvInit
<1> QED
  BY <1>1, InvStep, PTL DEF Spec

-----------------------------------------------------------------------------
(* The properties. *)

\* UpdateHighestReceived never closes the connection of a sender that respects
\* the windows it was told of: every limit on the way, however late, is one
\* the receiver enforces.
THEOREM HonestSenderNeverFails == ConfigOK => (Spec => []NoFalseError)
<1> SUFFICES ASSUME ConfigOK PROVE Spec => []NoFalseError
  OBVIOUS
<1>1. Spec => []IInv
  BY Invariant
<1>2. IInv => NoFalseError
  BY DEF IInv
<1> QED
  BY <1>1, <1>2, PTL

\* The receiver never has to buffer more than the configured maximal windows,
\* however auto-tuning grows them.
THEOREM BufferBound == ConfigOK => (Spec => []BufferedDataBounded)
<1> SUFFICES ASSUME ConfigOK PROVE Spec => []BufferedDataBounded
  OBVIOUS
<1>1. Spec => []IInv
  BY Invariant
<1>2. IInv => BufferedDataBounded
  <2> SUFFICES ASSUME IInv PROVE BufferedDataBounded
    OBVIOUS
  <2>1. \A s \in Streams : rcv[s].highest - rcv[s].read <= MaxStreamWindow
    BY FlowControlAssumption
    DEF IInv, TypeOK, Controller, ReceivedInv, StreamLimitsInv, SizeInv
  <2>2. conn.highest <= connBytesSent
    <3>1. /\ Highest \in [Streams -> Nat] /\ bytesSent \in [Streams -> Nat]
          /\ \A s \in Streams : Highest[s] <= bytesSent[s]
          /\ IsFiniteSet(ByteSet(bytesSent))
      BY DEF IInv, TypeOK, Controller, Highest, ReceivedInv, SumInv
    <3>2. Cardinality(ByteSet(Highest)) <= Cardinality(ByteSet(bytesSent))
      BY <3>1, ByteSetMonotone, Zenon
    <3> QED
      BY <3>2 DEF IInv, SumInv
  <2>3. conn.highest - conn.read <= MaxConnWindow
    BY <2>2, FlowControlAssumption
    DEF IInv, TypeOK, Controller, ConnLimitsInv, SizeInv
  <2> QED
    BY <2>1, <2>3 DEF BufferedDataBounded
<1> QED
  BY <1>1, <1>2, PTL

\* No step of either endpoint takes back a limit, auto-tuning included.
THEOREM LimitsNeverTakenBack == ConfigOK => (Spec => WindowsNeverShrink)
<1> SUFFICES ASSUME ConfigOK PROVE Spec => WindowsNeverShrink
  OBVIOUS
<1> DEFINE Grows == /\ \A s \in Streams : rcv'[s].window >= rcv[s].window
                    /\ conn'.window >= conn.window
<1>1. Spec => []IInv
  BY Invariant
<1>2. IInv /\ [Next]_vars => [Grows]_vars
  <2> SUFFICES ASSUME IInv, Next PROVE Grows
    OBVIOUS
  <2> USE FlowControlAssumption
  <2>t. TypeOK /\ SizeInv
    BY DEF IInv
  <2>w. /\ \A t \in Streams : rcv[t].window \in Nat /\ rcv[t].window >= rcv[t].window
        /\ conn.window \in Nat /\ conn.window >= conn.window
    BY <2>t DEF TypeOK, Controller
  <2>1. ASSUME NEW s \in Streams, SendStep(s)
        PROVE  Grows
    <3>1. UNCHANGED <<rcv, conn>>
      BY <2>1, SMTT(60) DEF SendStep, AddBytesSent, Finish, UpdateStreamSendWindow
    <3> QED
      BY <2>w, <3>1, SMTT(60)
  <2>2. ASSUME NEW offset, UpdateConnSendWindow(offset)
        PROVE  Grows
    BY <2>w, <2>2 DEF UpdateConnSendWindow
  <2>3. ASSUME NEW s \in Streams, NEW offset, NEW final,
               UpdateHighestReceived(s, offset, final)
        PROVE  Grows
    BY <2>t, <2>w, <2>3, SMTT(60) DEF UpdateHighestReceived, WithHighest, TypeOK
  <2>4. ASSUME NEW s \in Streams, ReadStream(s)
        PROVE  Grows
    BY <2>t, <2>w, <2>4, SMTT(60) DEF ReadStream, WithRead, TypeOK
  <2>6. ASSUME NEW who, NEW s \in Streams, ReadConn(who, s)
        PROVE  Grows
    BY <2>t, <2>w, <2>6, SMTT(60) DEF ReadConn, WithRead, TypeOK
  <2>7. ASSUME NEW who, NEW s \in Streams, NEW n,
               \/ CopyBytes(s, n) \/ CheckStream(s) \/ AddStream(s) \/ CancelRead(s)
               \/ CheckConn(who, s) \/ AddConnection(who, s) \/ Abandon(who, s)
        PROVE  Grows
    <3>1. UNCHANGED <<rcv, conn>>
      BY <2>7, ZenonT(60) DEF CopyBytes, CheckStream, AddStream, CancelRead, CheckConn,
                              AddConnection, Abandon
    <3> QED
      BY <2>w, <3>1, SMTT(60)
  <2>5. ASSUME QueueAll
        PROVE  Grows
    <3>1. /\ \A s \in Streams : rcv[s].window <= rcv'[s].window
          /\ conn.window <= conn'.window
      BY <2>t, <2>5, QueueAllGrows, Zenon
    <3>2. TypeOK'
      BY <2>t, <2>5, TypeStep DEF Next
    <3> QED
      BY <2>w, <3>1, <3>2, ZenonT(60) DEF TypeOK, Controller
  <2> HIDE DEF Grows
  <2> QED
    BY <2>1, <2>2, <2>3, <2>4, <2>5, <2>6, <2>7, ZenonT(60)
    DEF Next, ReceiveStep, handleStreamFrame, handleResetStreamFrame, ReadStep, CountStep
<1> QED
  BY <1>1, <1>2, PTL DEF Spec, WindowsNeverShrink

-----------------------------------------------------------------------------
(* What the connection counts as read. *)

\* The streams that were neither cancelled nor reset.
Reading == Streams \ (canceledRead \cup resetRemotely)

\* What AddBytesRead of a Read has counted for the stream and not yet for the
\* connection.
Uncounted(s) ==
    IF caller[<<"Read", s>>].pc \in {"streamCheck", "streamQueue", "connRead"}
    THEN caller[<<"Read", s>>].n ELSE 0

CountedOnce(s) ==
    /\ counted[s] + Uncounted(s) = rcv[s].read
    /\ caller[<<"Read", s>>].pc # "completed"
    /\ caller[<<"CancelRead", s>>].pc = "idle"
    /\ caller[<<"run", s>>].pc = "idle"

\* The connection's bytesRead is the sum of what was counted for its streams,
\* and of a stream that was neither cancelled nor reset each byte read is
\* counted once.
CountInv ==
    /\ IsFiniteSet(ByteSet(counted)) /\ conn.read = Cardinality(ByteSet(counted))
    /\ \A s \in Reading : CountedOnce(s)

\* A step of the callers of one stream leaves the counts of the others alone.
LEMMA CountFrame ==
    ASSUME CountInv, NEW s \in Streams,
           counted' = counted, conn'.read = conn.read,
           canceledRead \subseteq canceledRead', resetRemotely \subseteq resetRemotely',
           \A t \in Streams \ {s} :
               /\ rcv'[t].read = rcv[t].read
               /\ \A who \in Callers : caller'[<<who, t>>] = caller[<<who, t>>],
           s \in Reading => s \notin Reading' \/ CountedOnce(s)'
    PROVE  CountInv'
<1>1. Reading' \subseteq Reading
  BY DEF Reading
<1>2. ASSUME NEW t \in Reading', t # s PROVE CountedOnce(t)'
  <2>1. CountedOnce(t) /\ t \in Streams \ {s}
    BY <1>1, <1>2, Zenon DEF CountInv, Reading
  <2> QED
    BY <2>1, Zenon DEF CountedOnce, Uncounted, Callers
<1>3. \A t \in Reading' : CountedOnce(t)'
  BY <1>1, <1>2, Zenon
<1>4. ByteSet(counted)' = ByteSet(counted)
  BY DEF ByteSet
<1> QED
  BY <1>3, <1>4, ZenonT(60) DEF CountInv

\* Steps that leave the callers and what was read alone.
LEMMA CountUnchanged ==
    ASSUME CountInv, UNCHANGED <<counted, caller, canceledRead, resetRemotely>>,
           conn'.read = conn.read,
           \A s \in Streams : rcv'[s].read = rcv[s].read
    PROVE  CountInv'
<1>1. \A s \in Reading' : CountedOnce(s)'
  BY Zenon DEF CountInv, CountedOnce, Uncounted, Reading
<1>2. ByteSet(counted)' = ByteSet(counted)
  BY DEF ByteSet
<1> QED
  BY <1>1, <1>2, Zenon DEF CountInv


\* What one call does to the calls of a stream.
LEMMA AtEffect ==
    ASSUME TypeOK, NEW who \in Callers, NEW s \in Streams, NEW label, NEW n,
           At(who, s, label, n)
    PROVE  /\ caller'[<<who, s>>].pc = label /\ caller'[<<who, s>>].n = n
           /\ \A c \in Callers, t \in Streams :
                 c # who \/ t # s => caller'[<<c, t>>] = caller[<<c, t>>]
  BY DEF At, TypeOK

\* getWindowUpdate does not change what was read.
LEMMA WindowUpdateKeepsRead ==
    ASSUME NEW fc \in Controller, NEW maxSize \in Nat, NEW outcome
    PROVE  getWindowUpdate(fc, maxSize, outcome).read = fc.read
<1> DEFINE g == getWindowUpdate(fc, maxSize, outcome)
<1>1. g.read = fc.read
  BY WindowUpdateGrows, ZenonT(60)
<1> QED
  BY <1>1, Zenon

\* Window updates do not change what was read.
LEMMA QueueAllKeepsRead ==
    ASSUME TypeOK, QueueAll
    PROVE  conn'.read = conn.read /\ \A s \in Streams : rcv'[s].read = rcv[s].read
<1> USE FlowControlAssumption
<1>1. PICK connOutcome \in Outcomes, outcome \in [queue -> Outcomes], inc \in Nat :
             /\ rcv' = StreamsUpdated(outcome)
             /\ conn' = EnsureMinimumWindowSize(ConnUpdated(connOutcome), inc)
             /\ ConnUpdated(connOutcome) \in Controller
  BY QueueAllEffect, Zenon
<1>2. conn'.read = ConnUpdated(connOutcome).read
  BY <1>1, EnsureMinimumGrows, Zenon
<1>3. ConnUpdated(connOutcome).read = conn.read
  BY WindowUpdateKeepsRead DEF ConnUpdated, TypeOK
<1>4. ASSUME NEW s \in Streams PROVE rcv'[s].read = rcv[s].read
  <2>1. rcv[s] \in Controller
    BY SMTT(60) DEF TypeOK
  <2>2. getWindowUpdate(rcv[s], MaxStreamWindow, outcome[s]).read = rcv[s].read
    <3>1. MaxStreamWindow \in Nat
      OBVIOUS
    <3> QED
      BY <2>1, <3>1, WindowUpdateKeepsRead, Zenon
  <2> QED
    BY <1>1, <2>2, Zenon DEF StreamsUpdated
<1> QED
  BY <1>2, <1>3, <1>4, Zenon

\* Every step counts each byte of a stream that is being read once.
LEMMA CountStepInv == TypeOK /\ CountInv /\ [Next]_vars => CountInv'
<1> SUFFICES ASSUME TypeOK, CountInv, [Next]_vars PROVE CountInv'
  OBVIOUS
<1>s. \A s \in Streams : s \in Reading => CountedOnce(s)
  BY DEF CountInv
<1>n. \A s \in Streams : /\ caller[<<"Read", s>>].n \in Nat
                          /\ rcv[s].read \in Nat /\ counted[s] \in Nat
  BY DEF TypeOK, Call, Callers, Controller
<1>c. "Read" \in Callers /\ "CancelRead" \in Callers /\ "run" \in Callers
  BY DEF Callers
<1>1. ASSUME NEW s \in Streams, SendStep(s)
      PROVE  CountInv'
  <2>1. UNCHANGED <<counted, caller, canceledRead, resetRemotely, conn, rcv>>
    BY <1>1, ZenonT(60)
    DEF SendStep, AddBytesSent, Finish, UpdateStreamSendWindow, finVars
  <2> QED
    BY <2>1, CountUnchanged, Zenon
<1>2. ASSUME NEW offset, UpdateConnSendWindow(offset)
      PROVE  CountInv'
  BY <1>2, CountUnchanged, Zenon DEF UpdateConnSendWindow, finVars
<1>3. ASSUME QueueAll
      PROVE  CountInv'
  <2>1. UNCHANGED <<counted, caller, canceledRead, resetRemotely>>
    BY <1>3, Zenon DEF QueueAll, finVars
  <2>2. conn'.read = conn.read /\ \A s \in Streams : rcv'[s].read = rcv[s].read
    BY <1>3, QueueAllKeepsRead
  <2> QED
    BY <2>1, <2>2, CountUnchanged, Zenon
<1>4. ASSUME NEW s \in Streams, NEW offset, NEW final, NEW completed,
             UpdateHighestReceived(s, offset, final),
             CompletedIf(completed, "run", s),
             canceledRead' = canceledRead, resetRemotely \subseteq resetRemotely',
             completed => s \notin Reading'
      PROVE  CountInv'
  <2>1. conn'.read = conn.read /\ counted' = counted
    BY <1>4, SMTT(60) DEF UpdateHighestReceived, WithHighest
  <2>2. \A t \in Streams : rcv'[t].read = rcv[t].read
    BY <1>4, SMTT(60) DEF UpdateHighestReceived, WithHighest, TypeOK, Controller
  <2>3. CASE completed
    <3>1. \A t \in Streams \ {s}, who \in Callers :
             caller'[<<who, t>>] = caller[<<who, t>>]
      BY <1>4, <2>3 DEF CompletedIf, TypeOK
    <3> QED
      BY <1>4, <2>1, <2>2, <2>3, <3>1, CountFrame, Zenon
  <2>4. CASE ~completed
    <3>1. caller' = caller
      BY <1>4, <2>4, Zenon DEF CompletedIf
    <3>2. s \in Reading /\ s \in Reading' => CountedOnce(s)'
      BY <1>s, <2>1, <2>2, <3>1, Zenon DEF CountedOnce, Uncounted
    <3> QED
      BY <1>4, <2>1, <2>2, <3>1, <3>2, CountFrame, Zenon
  <2> QED
    BY <2>3, <2>4, Zenon
<1>5. ASSUME NEW s \in Streams, ReceiveStep(s)
      PROVE  CountInv'
  <2>1. ASSUME NEW offset, NEW fin, handleStreamFrame(s, offset, fin)
        PROVE  CountInv'
    <3>1. err' = "none" /\ fin /\ s \in canceledRead => s \notin Reading'
      BY <2>1, Zenon DEF handleStreamFrame, Reading
    <3> QED
      BY <1>4, <2>1, <3>1, Zenon DEF handleStreamFrame
  <2>2. CASE handleResetStreamFrame(s)
    <3>1. err' = "none" /\ s \notin resetRemotely => s \notin Reading'
      BY <2>2, Zenon DEF handleResetStreamFrame, Reading
    <3>2. resetRemotely \subseteq resetRemotely'
      BY <2>2, Zenon DEF handleResetStreamFrame
    <3> QED
      BY <1>4, <2>2, <3>1, <3>2, Zenon DEF handleResetStreamFrame
  <2> QED
    BY <1>5, <2>1, <2>2, ZenonT(60) DEF ReceiveStep
<1>6. ASSUME NEW s \in Streams, NEW n, CopyBytes(s, n)
      PROVE  CountInv'
  <2>1. /\ caller[<<"Read", s>>].pc = "idle"
        /\ UNCHANGED <<counted, conn, rcv, canceledRead, resetRemotely>>
    BY <1>6, ZenonT(60) DEF CopyBytes, finVars
  <2>2. /\ caller'[<<"Read", s>>].pc = "copied"
        /\ \A who \in Callers, t \in Streams :
              who # "Read" \/ t # s => caller'[<<who, t>>] = caller[<<who, t>>]
    BY <1>6, <1>c DEF CopyBytes, TypeOK
  <2>3. s \in Reading => CountedOnce(s)'
    BY <1>s, <1>n, <1>c, <2>1, <2>2 DEF CountedOnce, Uncounted
  <2> QED
    BY <2>1, <2>2, <2>3, CountFrame, Zenon
<1>7. ASSUME NEW s \in Streams, ReadStream(s)
      PROVE  CountInv'
  <2> DEFINE n == caller[<<"Read", s>>].n
  <2>1. /\ caller[<<"Read", s>>].pc = "copied"
        /\ UNCHANGED <<counted, conn, canceledRead, resetRemotely>>
    BY <1>7, Zenon DEF ReadStream
  <2>2. CASE s \in resetRemotely
    <3>1. rcv' = rcv /\ At("Read", s, "idle", 0)
      BY <1>7, <2>2, Zenon DEF ReadStream
    <3>2. s \notin Reading
      BY <2>2 DEF Reading
    <3>3. \A c \in Callers, t \in Streams :
             c # "Read" \/ t # s => caller'[<<c, t>>] = caller[<<c, t>>]
      BY <1>c, <3>1, AtEffect, Zenon
    <3> QED
      BY <2>1, <3>1, <3>2, <3>3, CountFrame, ZenonT(60)
  <2>3. CASE s \notin resetRemotely
    <3>1. /\ rcv' = [rcv EXCEPT ![s] = WithRead(rcv[s], rcv[s].read + n)]
          /\ At("Read", s, "streamCheck", n)
      BY <1>7, <2>3, Zenon DEF ReadStream
    <3>2. /\ \A t \in Streams \ {s} : rcv'[t].read = rcv[t].read
          /\ rcv'[s].read = rcv[s].read + n
      BY <3>1 DEF WithRead, TypeOK
    <3>3. /\ caller'[<<"Read", s>>].pc = "streamCheck" /\ caller'[<<"Read", s>>].n = n
          /\ \A c \in Callers, t \in Streams :
                 c # "Read" \/ t # s => caller'[<<c, t>>] = caller[<<c, t>>]
      BY <1>c, <3>1, AtEffect, ZenonT(60)
    <3>4. s \in Reading => CountedOnce(s)'
      BY <1>s, <1>n, <1>c, <2>1, <3>2, <3>3 DEF CountedOnce, Uncounted
    <3> QED
      BY <2>1, <3>2, <3>3, <3>4, CountFrame, ZenonT(60)
  <2> QED
    BY <2>2, <2>3, Zenon
<1>8. ASSUME NEW s \in Streams, CheckStream(s) \/ AddStream(s)
      PROVE  CountInv'
  <2> DEFINE n == caller[<<"Read", s>>].n
  <2>1. /\ caller[<<"Read", s>>].pc \in {"streamCheck", "streamQueue"}
        /\ \E label \in {"streamQueue", "connRead"} : At("Read", s, label, n)
        /\ UNCHANGED <<counted, conn, rcv, canceledRead, resetRemotely>>
    BY <1>8, ZenonT(60) DEF CheckStream, AddStream, finVars
  <2>2. /\ caller'[<<"Read", s>>].pc \in {"streamQueue", "connRead"}
        /\ caller'[<<"Read", s>>].n = n
        /\ \A c \in Callers, t \in Streams :
               c # "Read" \/ t # s => caller'[<<c, t>>] = caller[<<c, t>>]
    BY <1>c, <2>1, AtEffect, ZenonT(60)
  <2>3. s \in Reading => CountedOnce(s)'
    BY <1>s, <1>n, <1>c, <2>1, <2>2 DEF CountedOnce, Uncounted
  <2> QED
    BY <2>1, <2>2, <2>3, CountFrame, ZenonT(60)
<1>9. ASSUME NEW who \in Callers, NEW s \in Streams, ReadConn(who, s)
      PROVE  CountInv'
  <2> DEFINE n == caller[<<who, s>>].n
  <2>1. /\ caller[<<who, s>>].pc = "connRead" /\ n \in Nat
        /\ conn' = WithRead(conn, conn.read + n)
        /\ counted' = [counted EXCEPT ![s] = counted[s] + n]
        /\ At(who, s, "connCheck", 0)
        /\ UNCHANGED <<rcv, canceledRead, resetRemotely>>
    BY <1>9, Zenon DEF ReadConn, finVars, TypeOK, Call
  <2>2. /\ IsFiniteSet(ByteSet(counted'))
        /\ Cardinality(ByteSet(counted')) = Cardinality(ByteSet(counted)) + n
    <3>1. counted \in [Streams -> Nat] /\ n \in Nat /\ IsFiniteSet(ByteSet(counted))
      BY <2>1 DEF TypeOK, CountInv
    <3> HIDE DEF n
    <3> QED
      BY <2>1, <3>1, ByteSetGrows, ZenonT(60)
  <2>3. conn'.read = Cardinality(ByteSet(counted'))
    BY <2>1, <2>2 DEF WithRead, CountInv
  <2>4. ByteSet(counted)' = ByteSet(counted')
    BY DEF ByteSet
  <2>5. /\ caller'[<<who, s>>].pc = "connCheck"
        /\ \A c \in Callers, t \in Streams :
               c # who \/ t # s => caller'[<<c, t>>] = caller[<<c, t>>]
    BY <2>1, AtEffect, Zenon
  <2>6. ASSUME NEW t \in Reading', t # s PROVE CountedOnce(t)'
    <3>1. t \in Streams /\ CountedOnce(t)
      BY <1>s, <2>1, <2>6, Zenon DEF Reading
    <3>2. /\ counted'[t] = counted[t]
          /\ \A c \in Callers : caller'[<<c, t>>] = caller[<<c, t>>]
      BY <2>1, <2>5, <2>6, <3>1, ZenonT(60) DEF TypeOK
    <3> QED
      BY <1>c, <2>1, <3>1, <3>2, Zenon DEF CountedOnce, Uncounted
  <2>7. ASSUME s \in Reading' PROVE CountedOnce(s)'
    <3>1. CountedOnce(s)
      BY <1>s, <2>1, <2>7, Zenon DEF Reading
    <3>2. who = "Read"
      BY <2>1, <3>1 DEF CountedOnce, Callers
    <3>3. counted'[s] = counted[s] + n
      BY <2>1, Zenon DEF TypeOK
    <3> QED
      BY <1>n, <1>c, <2>1, <2>5, <3>1, <3>2, <3>3 DEF CountedOnce, Uncounted
  <2> QED
    BY <2>2, <2>3, <2>4, <2>6, <2>7, ZenonT(60) DEF CountInv
<1>10. ASSUME NEW who \in Callers, NEW s \in Streams,
              CheckConn(who, s) \/ AddConnection(who, s)
       PROVE  CountInv'
  <2>1. /\ caller[<<who, s>>].pc \in {"connCheck", "connQueue"}
        /\ \E label \in {"connQueue", "idle"} : At(who, s, label, 0)
        /\ UNCHANGED <<counted, conn, rcv, canceledRead, resetRemotely>>
    BY <1>10, ZenonT(60) DEF CheckConn, AddConnection, finVars
  <2>2. /\ caller'[<<who, s>>].pc \in {"connQueue", "idle"}
        /\ \A c \in Callers, t \in Streams :
               c # who \/ t # s => caller'[<<c, t>>] = caller[<<c, t>>]
    BY <2>1, AtEffect, ZenonT(60)
  <2>3. ASSUME s \in Reading PROVE CountedOnce(s)'
    <3>1. CountedOnce(s)
      BY <1>s, <2>3, SMTT(60)
    <3>2. who = "Read"
      BY <2>1, <3>1 DEF CountedOnce, Callers
    <3> QED
      BY <1>n, <1>c, <2>1, <2>2, <3>1, <3>2 DEF CountedOnce, Uncounted
  <2> QED
    BY <2>1, <2>2, <2>3, CountFrame, ZenonT(60)
<1>11. ASSUME NEW s \in Streams, CancelRead(s)
       PROVE  CountInv'
  <2>1. /\ UNCHANGED <<counted, conn, rcv, resetRemotely>>
        /\ canceledRead' = canceledRead \cup {s}
        /\ s \notin Reading'
    BY <1>11, Zenon DEF CancelRead, Reading
  <2>2. \A t \in Streams \ {s}, who \in Callers :
           caller'[<<who, t>>] = caller[<<who, t>>]
    BY <1>11 DEF CancelRead, CompletedIf, TypeOK
  <2> QED
    BY <2>1, <2>2, CountFrame, ZenonT(60)
<1>12. ASSUME NEW who \in Callers, NEW s \in Streams, Abandon(who, s)
       PROVE  CountInv'
  <2>1. /\ caller[<<who, s>>].pc = "completed"
        /\ \E label, n : At(who, s, label, n)
        /\ UNCHANGED <<counted, conn, rcv, canceledRead, resetRemotely>>
    BY <1>12, ZenonT(60) DEF Abandon
  <2>2. \A c \in Callers, t \in Streams :
           c # who \/ t # s => caller'[<<c, t>>] = caller[<<c, t>>]
    BY <2>1, AtEffect, ZenonT(60)
  <2>3. s \notin Reading
    BY <1>s, <2>1, Zenon DEF CountedOnce, Callers
  <2> QED
    BY <2>1, <2>2, <2>3, CountFrame, ZenonT(60)
<1>13. CASE UNCHANGED vars
  BY <1>13, CountUnchanged, Zenon DEF vars, finVars
<1> QED
  BY <1>1, <1>2, <1>3, <1>5, <1>6, <1>7, <1>8, <1>9, <1>10, <1>11, <1>12, <1>13,
     ZenonT(60)
  DEF Next, ReadStep, CountStep

\* A connection counts as read what its streams report, each byte of a stream
\* that is neither cancelled nor reset once, although AddBytesRead updates the
\* two controllers under different mutexes and many streams are read at once.
THEOREM ReadsCountedOnce == Spec => []CountInv
<1>1. Init => CountInv
  <2> SUFFICES ASSUME Init PROVE CountInv
    OBVIOUS
  <2>1. counted \in [Streams -> Nat] /\ \A s \in Streams : counted[s] = 0
    BY DEF Init
  <2>2. conn.read = 0 /\ \A s \in Streams : rcv[s].read = 0
    BY DEF Init, NewController
  <2>3. \A s \in Streams, who \in Callers : caller[<<who, s>>].pc = "idle"
    BY DEF Init, Idle
  <2>4. ASSUME NEW s \in Streams PROVE CountedOnce(s)
    <3>1. /\ caller[<<"Read", s>>].pc = "idle"
          /\ caller[<<"CancelRead", s>>].pc = "idle"
          /\ caller[<<"run", s>>].pc = "idle"
      BY <2>3 DEF Callers
    <3>2. counted[s] = 0 /\ rcv[s].read = 0
      BY <2>1, <2>2
    <3> QED
      BY <3>1, <3>2 DEF CountedOnce, Uncounted
  <2> QED
    BY <2>1, <2>2, <2>4, ByteSetOfZero, Zenon DEF CountInv, Reading
<1> QED
  BY <1>1, CountStepInv, TypeCorrect, PTL DEF Spec
=============================================================================
