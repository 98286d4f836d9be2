-------------------------- MODULE StreamLimitsProofs --------------------------
(***************************************************************************)
(* Proofs about StreamLimits, for any finite sets of goroutines that open  *)
(* and accept streams, any number of streams, and any order of frames.     *)
(*                                                                         *)
(* A step of the composition is a step of the outgoing map, or of the      *)
(* incoming map, and leaves the other alone: the invariants of the two are *)
(* proved one by one, and one more relates their limits.                   *)
(***************************************************************************)
EXTENDS Sequences, StreamLimits, FiniteSetTheorems, WellFoundedInduction, TLAPS

\* A set of natural numbers has a least element.
LEMMA LeastNat ==
    ASSUME NEW T \in SUBSET Nat, T # {}
    PROVE  \E x \in T : \A y \in T : x <= y
<1>1. PICK x \in T : \A y \in T : <<y, x>> \notin OpToRel(<, Nat)
  BY NatLessThanWellFounded, WFMin, Zenon
<1>2. \A y \in T : ~(y < x)
  BY <1>1, Zenon DEF OpToRel
<1> QED BY <1>2

\* The types of the outgoing map: its flags, and the rest.
FlagsOK == blockedSent \in BOOLEAN /\ outCloseErr \in BOOLEAN /\ panicked \in BOOLEAN

Positions == 0 .. Cardinality(Callers) - 1

OutTypeOK ==
    /\ outStreams \subseteq 1 .. MaxOpen
    /\ DOMAIN openQueue \subseteq Positions
    /\ openQueue \in [DOMAIN openQueue -> {"chan", "nil"}]
    /\ lowestInQueue \in Nat /\ highestInQueue \in 0 .. Cardinality(Callers)
    /\ nextStream \in 1 .. MaxOpen + 1
    /\ outMaxStream \in 0 .. MaxOpen
    /\ closedChans \subseteq Positions
    /\ blockedFrames \in Seq(0 .. MaxOpen)
    /\ callPC \in [Callers -> Out!PC]
    /\ queuePos \in [Callers -> Positions \cup {-1}]
    /\ got \in [Callers -> 0 .. MaxOpen]
    /\ callCtxDone \subseteq Cancellable \cap Callers

\* Positions in the queue are handed out once.  A wait channel is nil exactly
\* below lowestInQueue, and until CloseWithError only those have been closed.
QueueInv ==
    /\ \A c \in Callers : callPC[c] = "idle" => queuePos[c] = -1
    /\ highestInQueue = Cardinality({c \in Callers : queuePos[c] # -1})
    /\ lowestInQueue <= highestInQueue
    /\ \A p \in DOMAIN openQueue :
          p < highestInQueue /\ openQueue[p] = IF p < lowestInQueue THEN "nil" ELSE "chan"
    /\ ~outCloseErr => \A p \in closedChans : p < lowestInQueue
    /\ ~panicked

\* What the incoming map has opened, is opening and may open.
IncomingInv ==
    /\ IsFiniteSet(inStreams)
    /\ inStreams \subseteq 1 .. nextStreamToOpen - 1
    /\ opening # 0 => nextStreamToOpen <= opening /\ opening <= inMaxStream
    /\ nextStreamToOpen <= inMaxStream + 1
    /\ MaxNumStreams <= inMaxStream
    /\ In!CreditIsExact

\* The opener knows of no limit that the acceptor has not announced.
LimitsInv ==
    /\ peer = "acceptor" => outMaxStream <= inMaxStream
    /\ runLoop = "failed" => rogue

\* No wait channel of the outgoing map is closed twice or while it is nil.
NeverPanics == ~panicked

-----------------------------------------------------------------------------
(* The outgoing map. *)

OutInv == OutTypeOK /\ QueueInv /\ Out!StreamsUniqueAndWithinLimit

\* The two maps count as this module does.
LEMMA SameCardinality ==
    \A S : Out!Cardinality(S) = Cardinality(S) /\ In!Cardinality(S) = Cardinality(S)
BY DEF Out!Cardinality, In!Cardinality, Cardinality

\* There are finitely many callers.
LEMMA NumCallers == Cardinality(Callers) \in Nat
BY StreamLimitsAssumption, FS_CardinalityType

\* The type invariant of the outgoing map in two parts, given the queue's order.
LEMMA OutTypes == OutInv /\ FlagsOK => Out!TypeOK
<1> SUFFICES ASSUME OutInv, FlagsOK
             PROVE  Out!TypeOK
  OBVIOUS
<1>1. lowestInQueue \in 0 .. Cardinality(Callers)
  BY NumCallers, SMTT(60) DEF OutInv, OutTypeOK, QueueInv
<1> QED
  BY <1>1, SameCardinality, Zenon
  DEF OutInv, OutTypeOK, FlagsOK, Out!TypeOK, Positions, Out!Positions, Out!NoPos

\* The flags stay Boolean.
LEMMA FlagsStep == FlagsOK /\ (Out!Next \/ UNCHANGED outVars) => FlagsOK'
BY ZenonT(60) DEF FlagsOK, outVars, Out!Next, Out!OpenStream, Out!OpenStreamTooMany, Out!Call, Out!Resume,
       Out!CancelContext, Out!DeleteStream, Out!SetMaxStream, Out!CloseWithError,
       Out!OpenStreamSyncFails, Out!OpenStreamSyncFast, Out!OpenStreamSyncEnqueue,
       Out!SelectCtxDone, Out!SelectWaitChan, Out!CancelledReturns, Out!WokenClosed,
       Out!WokenContinues, Out!WokenOpens, Out!maybeSendBlockedFrame, Out!CloseChans,
       Out!unblockOpenSync, Out!mapVars, Out!streamVars, Out!queueVars, Out!blockedVars,
       Out!chanVars, Out!callVars

\* A caller leaves the queue; the other entries stay as they are.
LEMMA DeleteFromQueue ==
    ASSUME NEW q, q \in [DOMAIN q -> {"chan", "nil"}], NEW x
    PROVE  LET r == Out!Delete(q, x)
           IN  /\ r \in [DOMAIN r -> {"chan", "nil"}] /\ DOMAIN r \subseteq DOMAIN q
               /\ \A p \in DOMAIN r : r[p] = q[p]
BY DEF Out!Delete, Out!Restrict

\* The queue stays in order, and no channel has been closed that is still waited
\* for.
UnblockEffect ==
    /\ openQueue' \in [DOMAIN openQueue' -> {"chan", "nil"}]
    /\ lowestInQueue' \in Nat /\ lowestInQueue <= lowestInQueue'
    /\ lowestInQueue' <= highestInQueue
    /\ \A p \in DOMAIN openQueue' :
          openQueue'[p] = IF p < lowestInQueue' THEN "nil" ELSE "chan"
    /\ closedChans' \subseteq Positions
    /\ \A p \in closedChans' : p < lowestInQueue'
    /\ ~panicked'

\* That is what the invariant of the queue asks for, if the rest stays in order.
LEMMA UnblockQueueInv ==
    ASSUME OutTypeOK, QueueInv, UnblockEffect,
           DOMAIN openQueue' \subseteq DOMAIN openQueue,
           UNCHANGED <<highestInQueue, queuePos>>,
           \/ UNCHANGED callPC
           \/ \E c \in Callers : callPC' = [callPC EXCEPT ![c] = "ok"]
    PROVE  QueueInv'
<1>1. \A c \in Callers : callPC'[c] = "idle" => queuePos'[c] = -1
  BY DEF OutTypeOK, QueueInv
<1>2. ~panicked'
  BY DEF UnblockEffect
<1>3. \A p \in closedChans' : p < lowestInQueue'
  BY DEF UnblockEffect
<1>4. /\ highestInQueue' = Cardinality({c \in Callers : queuePos'[c] # -1})
      /\ lowestInQueue' <= highestInQueue'
      /\ \A p \in DOMAIN openQueue' :
            p < highestInQueue' /\ openQueue'[p] = IF p < lowestInQueue' THEN "nil" ELSE "chan"
  BY DEF QueueInv, UnblockEffect
<1> QED
  BY <1>1, <1>2, <1>3, <1>4 DEF QueueInv

\* What unblockOpenSync does to a queue q in which nil and other channels are in
\* order: it wakes the first waiter, if there is one.
LEMMA Unblock ==
    ASSUME OutTypeOK, QueueInv, ~outCloseErr,
           NEW q, q \in [DOMAIN q -> {"chan", "nil"}], DOMAIN q \subseteq Positions,
           \A p \in DOMAIN q :
              p < highestInQueue /\ q[p] = IF p < lowestInQueue THEN "nil" ELSE "chan",
           Out!unblockOpenSync(q)
    PROVE  UnblockEffect /\ DOMAIN openQueue' = DOMAIN q
<1> USE DEF UnblockEffect
<1> DEFINE waiting == {p \in DOMAIN q : lowestInQueue <= p /\ p <= highestInQueue}
<1>1. /\ lowestInQueue \in Nat /\ highestInQueue \in Nat /\ lowestInQueue <= highestInQueue
      /\ closedChans \subseteq Positions
      /\ \A p \in closedChans : p < lowestInQueue
  BY NumCallers DEF OutTypeOK, QueueInv
<1>2. Positions \subseteq Nat
  BY NumCallers DEF Positions
<1>3. ~panicked
  BY DEF QueueInv
<1>4. CASE waiting = {}
  <2>1. UNCHANGED <<lowestInQueue, closedChans, panicked>> /\ openQueue' = q
    BY <1>4 DEF Out!unblockOpenSync
  <2>2. ~panicked'
    BY <1>3, <2>1
  <2> QED
    BY <1>1, <1>2, <2>1, <2>2
<1>5. CASE waiting # {}
  <2>1. waiting \in SUBSET Nat
    BY <1>2
  <2> DEFINE qp == CHOOSE p \in waiting : \A r \in waiting : p <= r
  <2>2. qp \in waiting /\ \A r \in waiting : qp <= r
    <3> HIDE DEF waiting
    <3> QED
      BY <1>5, <2>1, LeastNat
  <2>3. /\ Out!CloseChans(q, {qp})
        /\ openQueue' = [q EXCEPT ![qp] = "nil"]
        /\ lowestInQueue' = qp + 1
    BY <1>5 DEF Out!unblockOpenSync
  <2> HIDE DEF qp
  <2>4. qp \in DOMAIN q /\ qp \in Nat /\ lowestInQueue <= qp /\ qp < highestInQueue
    BY <1>2, <2>2
  <2>5. ASSUME NEW r \in DOMAIN q, lowestInQueue <= r
        PROVE  qp <= r
    <3>1. r \in Nat /\ r < highestInQueue
      BY <1>2
    <3> QED
      BY <1>1, <2>2, <2>5, <3>1
  <2>6. q[qp] # "nil" /\ qp \notin closedChans
    BY <1>1, <1>2, <2>4
  <2> HIDE DEF waiting
  <2>7. ~panicked'
    BY <1>3, <2>3, <2>6, Zenon DEF Out!CloseChans
  <2>8. closedChans' = closedChans \cup {qp}
    BY <2>3 DEF Out!CloseChans
  <2>9. /\ closedChans' \subseteq Positions
        /\ \A p \in closedChans' : p < lowestInQueue'
    BY <1>1, <1>2, <2>3, <2>4, <2>8
  <2>10. \A p \in DOMAIN q : p < qp + 1 <=> p < lowestInQueue \/ p = qp
    BY <1>1, <1>2, <2>4, <2>5
  <2>11. \A p \in DOMAIN openQueue' :
            openQueue'[p] = IF p < lowestInQueue' THEN "nil" ELSE "chan"
    BY <2>3, <2>4, <2>10
  <2> QED
    BY <1>1, <2>3, <2>4, <2>7, <2>9, <2>11
<1> QED
  BY <1>4, <1>5

\* Opening a stream keeps to the limit.
LEMMA OpenStreamStep ==
    ASSUME OutTypeOK, Out!StreamsUniqueAndWithinLimit, Out!StreamAvailable, Out!openStream,
           UNCHANGED outMaxStream,
           \/ UNCHANGED got
           \/ \E c \in Callers : got' = [got EXCEPT ![c] = nextStream]
    PROVE  /\ outStreams' \subseteq 1 .. MaxOpen
           /\ nextStream' \in 1 .. MaxOpen + 1
           /\ got' \in [Callers -> 0 .. MaxOpen]
           /\ Out!StreamsUniqueAndWithinLimit'
<1> USE StreamLimitsAssumption DEF OutTypeOK
<1>1. nextStream \in 1 .. MaxOpen /\ nextStream' = nextStream + 1
  BY DEF Out!StreamAvailable, Out!openStream
<1>2. outStreams' \subseteq 1 .. MaxOpen /\ nextStream' \in 1 .. MaxOpen + 1
  BY <1>1, SMTT(60) DEF Out!openStream
<1>3. nextStream' <= outMaxStream' + 1
  BY <1>1, SMTT(60) DEF Out!StreamAvailable
<1>4. CASE UNCHANGED got
  BY <1>1, <1>2, <1>3, <1>4, SMTT(60) DEF Out!StreamsUniqueAndWithinLimit, Out!NoStream
<1>5. ASSUME NEW c \in Callers, got' = [got EXCEPT ![c] = nextStream]
      PROVE  /\ got' \in [Callers -> 0 .. MaxOpen]
             /\ Out!StreamsUniqueAndWithinLimit'
  <2>1. /\ got' \in [Callers -> 0 .. MaxOpen]
        /\ got'[c] = nextStream /\ \A d \in Callers \ {c} : got'[d] = got[d]
    BY <1>1, <1>5, SMTT(60)
  <2>2. ASSUME NEW d \in Callers
        PROVE  got'[d] < nextStream' /\ (got'[d] = nextStream => d = c)
    <3>1. got[d] \in 0 .. MaxOpen /\ (got[d] # 0 => got[d] < nextStream)
      BY DEF Out!StreamsUniqueAndWithinLimit, Out!NoStream
    <3>2. CASE d = c
      BY <1>1, <2>1, <3>2, SMTT(60)
    <3>3. CASE d # c
      BY <1>1, <2>1, <3>1, <3>3, SMTT(60)
    <3> QED
      BY <3>2, <3>3
  <2> QED
    BY <1>3, <2>1, <2>2, Zenon DEF Out!StreamsUniqueAndWithinLimit, Out!NoStream
<1> QED
  BY <1>2, <1>4, <1>5, ZenonT(60)

\* A STREAMS_BLOCKED frame carries the limit that was reached.
LEMMA BlockedFrameStep ==
    ASSUME OutTypeOK, Out!maybeSendBlockedFrame
    PROVE  blockedFrames' \in Seq(0 .. MaxOpen)
<1>1. Append(blockedFrames, outMaxStream) \in Seq(0 .. MaxOpen)
  BY DEF OutTypeOK
<1> QED
  BY <1>1, Zenon DEF OutTypeOK, Out!maybeSendBlockedFrame

\* Every step of the outgoing map keeps its invariant.
LEMMA OutStep == OutInv /\ (Out!Next \/ UNCHANGED outVars) => OutInv'
<1> SUFFICES ASSUME OutInv, Out!Next \/ UNCHANGED outVars
             PROVE  OutInv'
  OBVIOUS
<1> USE StreamLimitsAssumption
    DEF OutInv, outVars, Out!Goto, Out!PC, Out!mapVars, Out!streamVars, Out!queueVars,
        Out!blockedVars, Out!chanVars, Out!callVars
<1>1. CASE Out!OpenStream
  BY <1>1, OpenStreamStep, ZenonT(60) DEF Out!OpenStream, OutTypeOK, QueueInv
<1>2. CASE Out!OpenStreamTooMany
  <2>1. blockedFrames' \in Seq(0 .. MaxOpen)
    BY <1>2, BlockedFrameStep DEF Out!OpenStreamTooMany
  <2> QED
    BY <1>2, <2>1, Zenon DEF Out!OpenStreamTooMany, OutTypeOK, QueueInv,
                      Out!StreamsUniqueAndWithinLimit
<1>3. ASSUME NEW c \in Callers, Out!OpenStreamSyncFast(c)
      PROVE  OutInv'
  BY <1>3, OpenStreamStep, Zenon DEF Out!OpenStreamSyncFast, OutTypeOK, QueueInv
<1>4. ASSUME NEW c \in Callers,
             \/ Out!OpenStreamSyncFails(c) \/ Out!SelectCtxDone(c) \/ Out!SelectWaitChan(c)
             \/ Out!WokenClosed(c) \/ Out!WokenContinues(c)
      PROVE  OutInv'
  <2>1. /\ \E l \in Out!PC \ {"idle"} : callPC' = [callPC EXCEPT ![c] = l]
        /\ UNCHANGED <<Out!mapVars, queuePos, got, callCtxDone>>
    BY <1>4 DEF Out!OpenStreamSyncFails, Out!SelectCtxDone, Out!SelectWaitChan,
                Out!WokenClosed, Out!WokenContinues
  <2> QED
    BY <2>1, ZenonT(60) DEF OutTypeOK, QueueInv, Out!StreamsUniqueAndWithinLimit
<1>5. ASSUME NEW c \in Callers, Out!CancelContext(c)
      PROVE  OutInv'
  BY <1>5, ZenonT(60) DEF Out!CancelContext, OutTypeOK, QueueInv, Out!StreamsUniqueAndWithinLimit
<1>6. ASSUME NEW c \in Callers, Out!OpenStreamSyncEnqueue(c)
      PROVE  OutInv'
  <2> DEFINE queued == {d \in Callers : queuePos[d] # -1}
  <2>1. /\ callPC[c] = "idle" /\ queuePos[c] = -1
        /\ highestInQueue = Cardinality(queued) /\ highestInQueue \in Nat
    BY <1>6, NumCallers DEF Out!OpenStreamSyncEnqueue, OutTypeOK, QueueInv
  <2>2. queued \subseteq Callers /\ c \notin queued /\ queued \cup {c} \subseteq Callers
    BY <2>1
  <2>3. {d \in Callers : queuePos'[d] # -1} = queued \cup {c}
    <3>1. queuePos'[c] # -1 /\ \A d \in Callers \ {c} : queuePos'[d] = queuePos[d]
      BY <1>6, <2>1, SMTT(60) DEF Out!OpenStreamSyncEnqueue, OutTypeOK
    <3> QED
      BY <2>1, <3>1, Zenon
  <2> HIDE DEF queued
  <2>4. /\ Cardinality(queued \cup {c}) = highestInQueue + 1
        /\ highestInQueue + 1 <= Cardinality(Callers)
    <3>1. IsFiniteSet(queued) /\ IsFiniteSet(Callers)
      BY <2>2, FS_Subset, Zenon
    <3>2. Cardinality(queued \cup {c}) = Cardinality(queued) + 1
      BY <2>2, <3>1, FS_AddElement, ZenonT(60)
    <3>3. Cardinality(queued \cup {c}) <= Cardinality(Callers)
      BY <2>2, <3>1, FS_Subset
    <3> QED
      BY <2>1, <3>2, <3>3, Zenon
  <2>5. highestInQueue \in Positions /\ highestInQueue' \in 0 .. Cardinality(Callers)
    BY <1>6, <2>1, <2>4, NumCallers DEF Out!OpenStreamSyncEnqueue, Positions
  <2>6. blockedFrames' \in Seq(0 .. MaxOpen)
    BY <1>6, BlockedFrameStep DEF Out!OpenStreamSyncEnqueue
  <2>7. /\ callPC' \in [Callers -> Out!PC] /\ callPC'[c] = "select"
        /\ \A d \in Callers \ {c} : callPC'[d] = callPC[d]
        /\ queuePos' \in [Callers -> Positions \cup {-1}]
        /\ \A d \in Callers \ {c} : queuePos'[d] = queuePos[d]
    BY <1>6, <2>5, SMTT(60) DEF Out!OpenStreamSyncEnqueue, OutTypeOK
  <2>8. /\ DOMAIN openQueue' = DOMAIN openQueue \cup {highestInQueue}
        /\ openQueue' \in [DOMAIN openQueue' -> {"chan", "nil"}]
        /\ openQueue'[highestInQueue] = "chan"
        /\ \A p \in DOMAIN openQueue \ {highestInQueue} : openQueue'[p] = openQueue[p]
    BY <1>6 DEF Out!OpenStreamSyncEnqueue, OutTypeOK
  <2>9. /\ lowestInQueue' \in Nat /\ lowestInQueue <= lowestInQueue'
        /\ lowestInQueue' <= highestInQueue
        /\ DOMAIN openQueue # {} => lowestInQueue' = lowestInQueue
    <3>1. DOMAIN openQueue # {} => openQueue # << >>
      BY SMTT(60)
    <3> QED
      BY <1>6, <2>1, <3>1, SMTT(60) DEF Out!OpenStreamSyncEnqueue, OutTypeOK, QueueInv
  <2>10. OutTypeOK'
    BY <1>6, <2>5, <2>6, <2>7, <2>8, <2>9, SMTT(60) DEF Out!OpenStreamSyncEnqueue, OutTypeOK
  <2>11. ASSUME NEW p \in DOMAIN openQueue'
         PROVE  /\ p < highestInQueue'
                /\ openQueue'[p] = IF p < lowestInQueue' THEN "nil" ELSE "chan"
    <3>1. highestInQueue' = highestInQueue + 1
      BY <1>6 DEF Out!OpenStreamSyncEnqueue
    <3>2. CASE p = highestInQueue
      BY <2>1, <2>8, <2>9, <3>1, <3>2, SMTT(60)
    <3>3. CASE p # highestInQueue
      <4>1. /\ p \in DOMAIN openQueue /\ p < highestInQueue /\ lowestInQueue' = lowestInQueue
            /\ openQueue[p] = IF p < lowestInQueue THEN "nil" ELSE "chan"
        BY <2>8, <2>9, <3>3, ZenonT(60) DEF QueueInv
      <4>2. p \in Nat
        BY <4>1, NumCallers, SMTT(60) DEF OutTypeOK, Positions
      <4> QED
        BY <2>1, <2>8, <3>1, <3>3, <4>1, <4>2, SMTT(60)
    <3> QED
      BY <3>2, <3>3, Zenon
  <2>12. /\ ~panicked'
         /\ ~outCloseErr' => \A p \in closedChans' : p < lowestInQueue'
    <3>1. ~panicked'
      BY <1>6, ZenonT(60) DEF Out!OpenStreamSyncEnqueue, QueueInv
    <3>2. \A p \in closedChans' : p \in Nat /\ p < lowestInQueue
      BY <1>6, NumCallers, SMTT(60) DEF Out!OpenStreamSyncEnqueue, QueueInv, OutTypeOK, Positions
    <3>3. \A p \in closedChans' : p < lowestInQueue'
      BY <2>9, <3>2, SMTT(60) DEF OutTypeOK
    <3> QED
      BY <3>1, <3>3, Zenon
  <2>13. /\ \A d \in Callers : callPC'[d] = "idle" => queuePos'[d] = -1
         /\ highestInQueue' = Cardinality({d \in Callers : queuePos'[d] # -1})
         /\ lowestInQueue' <= highestInQueue'
    <3>1. highestInQueue' = highestInQueue + 1
      BY <1>6, Zenon DEF Out!OpenStreamSyncEnqueue
    <3>2. \A d \in Callers : callPC'[d] = "idle" => queuePos'[d] = -1
      BY <2>7, Zenon DEF QueueInv
    <3> QED
      BY <2>1, <2>3, <2>4, <2>9, <3>1, <3>2, SMTT(60)
  <2>14. QueueInv'
    BY <2>11, <2>12, <2>13, ZenonT(60) DEF QueueInv
  <2>15. Out!StreamsUniqueAndWithinLimit'
    BY <1>6 DEF Out!OpenStreamSyncEnqueue, Out!StreamsUniqueAndWithinLimit
  <2> QED
    BY <2>10, <2>14, <2>15
<1>7. ASSUME NEW c \in Callers, Out!CancelledReturns(c)
      PROVE  OutInv'
  <2>1. /\ DOMAIN openQueue' \subseteq DOMAIN openQueue
        /\ openQueue' \in [DOMAIN openQueue' -> {"chan", "nil"}]
        /\ \A p \in DOMAIN openQueue' : openQueue'[p] = openQueue[p]
    <3> DEFINE q == Out!Delete(openQueue, queuePos[c])
    <3>1. openQueue' = q
      BY <1>7, Zenon DEF Out!CancelledReturns
    <3>2. openQueue \in [DOMAIN openQueue -> {"chan", "nil"}]
      BY Zenon DEF OutTypeOK
    <3>3. /\ q \in [DOMAIN q -> {"chan", "nil"}] /\ DOMAIN q \subseteq DOMAIN openQueue
          /\ \A p \in DOMAIN q : q[p] = openQueue[p]
      BY <3>2, DeleteFromQueue, Zenon
    <3> HIDE DEF q
    <3> QED
      BY <3>1, <3>2, <3>3, Zenon
  <2>2. OutTypeOK' /\ Out!StreamsUniqueAndWithinLimit'
    BY <1>7, <2>1, ZenonT(60) DEF Out!CancelledReturns, OutTypeOK, Out!StreamsUniqueAndWithinLimit
  <2>3. QueueInv'
    BY <1>7, <2>1, ZenonT(60) DEF Out!CancelledReturns, OutTypeOK, QueueInv
  <2> QED
    BY <2>2, <2>3, ZenonT(60)
<1>8. ASSUME NEW c \in Callers, Out!WokenOpens(c)
      PROVE  OutInv'
  <2> DEFINE q == Out!Delete(openQueue, queuePos[c])
  <2>1. /\ q \in [DOMAIN q -> {"chan", "nil"}] /\ DOMAIN q \subseteq DOMAIN openQueue
        /\ \A p \in DOMAIN q : q[p] = openQueue[p]
    BY DeleteFromQueue, ZenonT(60) DEF OutTypeOK
  <2>2. ~outCloseErr /\ Out!unblockOpenSync(q)
    BY <1>8 DEF Out!WokenOpens
  <2> HIDE DEF q
  <2>3. UnblockEffect
    <3>1. DOMAIN q \subseteq Positions
      BY <2>1, Zenon DEF OutTypeOK
    <3>2. \A p \in DOMAIN q :
             p < highestInQueue /\ q[p] = IF p < lowestInQueue THEN "nil" ELSE "chan"
      BY <2>1 DEF QueueInv
    <3> QED
      BY <2>1, <2>2, <3>1, <3>2, Unblock, ZenonT(60)
  <2>4. DOMAIN openQueue' \subseteq DOMAIN openQueue
    BY <2>1, <2>2, ZenonT(60) DEF Out!unblockOpenSync
  <2>5. /\ outStreams' \subseteq 1 .. MaxOpen /\ nextStream' \in 1 .. MaxOpen + 1
        /\ got' \in [Callers -> 0 .. MaxOpen] /\ Out!StreamsUniqueAndWithinLimit'
    BY <1>8, OpenStreamStep, Zenon DEF Out!WokenOpens
  <2>6. OutTypeOK'
    BY <1>8, <2>3, <2>4, <2>5, ZenonT(60) DEF Out!WokenOpens, OutTypeOK, UnblockEffect
  <2>7. QueueInv'
    BY <1>8, <2>3, <2>4, UnblockQueueInv, ZenonT(60) DEF Out!WokenOpens, OutTypeOK
  <2> QED
    BY <2>5, <2>6, <2>7
<1>9. ASSUME NEW num \in 1 .. MaxOpen, Out!DeleteStream(num)
      PROVE  OutInv'
  BY <1>9, Zenon DEF Out!DeleteStream, OutTypeOK, QueueInv, Out!StreamsUniqueAndWithinLimit
<1>10. ASSUME NEW num \in 1 .. MaxOpen, Out!SetMaxStream(num)
       PROVE  OutInv'
  <2>1. /\ outMaxStream' = num /\ num > outMaxStream /\ ~outCloseErr
        /\ Out!unblockOpenSync(openQueue)
        /\ UNCHANGED <<highestInQueue, callPC, queuePos, outCloseErr>>
    BY <1>10 DEF Out!SetMaxStream
  <2>2. UnblockEffect /\ DOMAIN openQueue' = DOMAIN openQueue
    <3>1. openQueue \in [DOMAIN openQueue -> {"chan", "nil"}] /\ DOMAIN openQueue \subseteq Positions
      BY DEF OutTypeOK
    <3>2. \A p \in DOMAIN openQueue :
             p < highestInQueue /\ openQueue[p] = IF p < lowestInQueue THEN "nil" ELSE "chan"
      BY DEF QueueInv
    <3> QED
      BY <2>1, <3>1, <3>2, Unblock, ZenonT(60)
  <2>3. OutTypeOK'
    BY <1>10, <2>1, <2>2, SMTT(60) DEF Out!SetMaxStream, OutTypeOK, UnblockEffect
  <2>4. QueueInv'
    BY <2>1, <2>2, UnblockQueueInv
  <2>5. Out!StreamsUniqueAndWithinLimit'
    BY <1>10, <2>1, SMTT(60) DEF Out!SetMaxStream, OutTypeOK, Out!StreamsUniqueAndWithinLimit
  <2> QED
    BY <2>3, <2>4, <2>5, ZenonT(60)
<1>11. CASE Out!CloseWithError
  BY <1>11, Zenon DEF Out!CloseWithError, Out!CloseChans, Out!ChansToClose, OutTypeOK, QueueInv,
               Out!StreamsUniqueAndWithinLimit
<1>12. CASE UNCHANGED outVars
  BY <1>12, Zenon DEF OutTypeOK, QueueInv, Out!StreamsUniqueAndWithinLimit
<1> QED
  BY <1>1, <1>2, <1>3, <1>4, <1>5, <1>6, <1>7, <1>8, <1>9, <1>10, <1>11, <1>12, SMTT(60)
  DEF Out!Next, Out!Call, Out!Resume

-----------------------------------------------------------------------------
(* The incoming map. *)

\* The types of the incoming map: its flags, and the rest.
InFlagsOK == inCloseErr \in BOOLEAN /\ chanClosed \in BOOLEAN

InTypeOK ==
    /\ inStreams \subseteq 1 .. MaxOpen
    /\ streamsToDelete \subseteq inStreams
    /\ nextStreamToAccept \in 1 .. nextStreamToOpen
    /\ nextStreamToOpen \in 1 .. MaxOpen + 1
    /\ inMaxStream \in 0 .. MaxOpen + MaxNumStreams
    /\ maxStreamsFrames \subseteq 1 .. inMaxStream
    /\ opening \in 0 .. MaxOpen
    /\ runLoop \in {"running", "failed", "closing"}
    /\ acceptPC \in [Acceptors -> In!PC]
    /\ acceptCtxDone \subseteq Cancellable \cap Acceptors

InInv == InTypeOK /\ IncomingInv

\* Together they are the type invariant of the incoming map.
LEMMA InTypes == InTypeOK /\ InFlagsOK <=> In!TypeOK
BY Zenon DEF InTypeOK, InFlagsOK, In!TypeOK

\* The flags stay Boolean.
LEMMA InFlagsStep == InFlagsOK /\ (In!Next \/ UNCHANGED inVars) => InFlagsOK'
BY ZenonT(60) DEF InFlagsOK, inVars, In!Next, In!Accept, In!AcceptFindsClosed, In!AcceptFindsNone,
       In!AcceptReturnsStream, In!EnterSelect, In!SelectCtxDone, In!SelectChanClosed,
       In!CancelContext, In!GetOrOpenStream, In!GetOrOpenStreamFails,
       In!GetOrOpenStreamChecks, In!GetOrOpenStreamOpens, In!DeleteStream,
       In!CloseWithError, In!CloseChan, In!closeVars

\* Removing a stream raises the limit by exactly one.
LEMMA RemoveStep ==
    ASSUME InInv, NEW num \in inStreams, In!removeStream(num)
    PROVE  /\ inStreams' = inStreams \ {num}
           /\ inMaxStream' = inMaxStream + 1
           /\ inMaxStream' \in 0 .. MaxOpen + MaxNumStreams
           /\ maxStreamsFrames' \subseteq 1 .. inMaxStream'
           /\ IsFiniteSet(inStreams')
           /\ inMaxStream' = (nextStreamToOpen - 1) + (MaxNumStreams - Cardinality(inStreams'))
<1> USE StreamLimitsAssumption
<1> DEFINE left == inStreams \ {num}
<1>1. /\ IsFiniteSet(inStreams) /\ nextStreamToOpen <= inMaxStream + 1
      /\ inMaxStream = (nextStreamToOpen - 1) + (MaxNumStreams - Cardinality(inStreams))
      /\ nextStreamToOpen \in 1 .. MaxOpen + 1 /\ inMaxStream \in Nat
      /\ maxStreamsFrames \subseteq 1 .. inMaxStream
  BY SameCardinality DEF InInv, InTypeOK, IncomingInv, In!CreditIsExact
<1>2. /\ IsFiniteSet(left) /\ Cardinality(left) = Cardinality(inStreams) - 1
      /\ Cardinality(left) \in Nat
  BY <1>1, FS_RemoveElement, FS_CardinalityType, ZenonT(60)
<1>3. Cardinality(inStreams) \in Nat
  BY <1>1, FS_CardinalityType
<1>4. In!Cardinality(left) = Cardinality(left)
  BY SameCardinality
<1> HIDE DEF left
<1>5. MaxNumStreams > Cardinality(left)
  BY <1>1, <1>2, <1>3, SMTT(60)
<1>6. In!NewLimit(left) = inMaxStream + 1
  BY <1>1, <1>2, <1>3, <1>4, SMTT(60) DEF In!NewLimit
<1>7. /\ inStreams' = left /\ inMaxStream' = inMaxStream + 1
      /\ maxStreamsFrames' = maxStreamsFrames \cup {inMaxStream + 1}
  BY <1>4, <1>5, <1>6, ZenonT(60) DEF In!removeStream, left
<1>8. inMaxStream' \in 0 .. MaxOpen + MaxNumStreams /\ maxStreamsFrames' \subseteq 1 .. inMaxStream'
  <2>1. inMaxStream + 1 \in 1 .. MaxOpen + MaxNumStreams
    BY <1>1, <1>2, <1>3
  <2>2. maxStreamsFrames \cup {inMaxStream + 1} \subseteq 1 .. inMaxStream + 1
    <3>1. inMaxStream \in Nat /\ maxStreamsFrames \subseteq 1 .. inMaxStream
      BY <1>1
    <3>2. 1 .. inMaxStream \subseteq 1 .. inMaxStream + 1 /\ inMaxStream + 1 \in 1 .. inMaxStream + 1
      BY <3>1
    <3> QED
      BY <3>1, <3>2, Zenon
  <2> QED
    BY <1>7, <2>1, <2>2
<1>9. inMaxStream' = (nextStreamToOpen - 1) + (MaxNumStreams - Cardinality(inStreams'))
  BY <1>1, <1>2, <1>3, <1>7, SMTT(60)
<1> QED
  BY <1>2, <1>7, <1>8, <1>9, SMTT(60) DEF left

\* Every step of the incoming map keeps its invariant, and its limit never falls.
LEMMA InStep ==
    InInv /\ (In!Next \/ UNCHANGED inVars) => InInv' /\ inMaxStream <= inMaxStream'
<1> SUFFICES ASSUME InInv, In!Next \/ UNCHANGED inVars
             PROVE  InInv' /\ inMaxStream <= inMaxStream'
  BY Zenon
<1> USE StreamLimitsAssumption
    DEF inVars, In!Goto, In!PC, In!NotOpening, In!acceptVars, In!loopVars, In!closeVars,
        In!creditVars
<1>1. ASSUME NEW a \in Acceptors,
             \/ In!AcceptFindsClosed(a) \/ In!AcceptFindsNone(a) \/ In!EnterSelect(a)
             \/ In!SelectCtxDone(a) \/ In!SelectChanClosed(a) \/ In!CancelContext(a)
      PROVE  InInv' /\ inMaxStream <= inMaxStream'
  <2>1. /\ UNCHANGED <<In!creditVars, nextStreamToAccept, nextStreamToOpen, In!loopVars>>
        /\ acceptPC' \in [Acceptors -> In!PC]
        /\ acceptCtxDone' \subseteq Cancellable \cap Acceptors
    BY <1>1, Zenon DEF In!AcceptFindsClosed, In!AcceptFindsNone, In!EnterSelect, In!SelectCtxDone,
                In!SelectChanClosed, In!CancelContext, InInv, InTypeOK
  <2> QED
    BY <2>1, SMTT(60) DEF InInv, InTypeOK, IncomingInv, In!CreditIsExact
<1>2. ASSUME NEW a \in Acceptors, In!AcceptReturnsStream(a)
      PROVE  InInv' /\ inMaxStream <= inMaxStream'
  <2>1. /\ UNCHANGED <<nextStreamToOpen, In!loopVars, acceptCtxDone>>
        /\ acceptPC' \in [Acceptors -> In!PC]
        /\ nextStreamToAccept \in inStreams /\ nextStreamToAccept' = nextStreamToAccept + 1
    BY <1>2, Zenon DEF In!AcceptReturnsStream, InInv, InTypeOK
  <2>2. nextStreamToAccept' \in 1 .. nextStreamToOpen'
    BY <2>1, SMTT(60) DEF InInv, InTypeOK, IncomingInv
  <2>3. CASE UNCHANGED In!creditVars
    BY <2>1, <2>2, <2>3, SMTT(60) DEF InInv, InTypeOK, IncomingInv, In!CreditIsExact
  <2>4. CASE /\ streamsToDelete' = streamsToDelete \ {nextStreamToAccept}
             /\ In!removeStream(nextStreamToAccept)
    <3>1. /\ inStreams' = inStreams \ {nextStreamToAccept} /\ inMaxStream' = inMaxStream + 1
          /\ inMaxStream' \in 0 .. MaxOpen + MaxNumStreams
          /\ maxStreamsFrames' \subseteq 1 .. inMaxStream'
          /\ IsFiniteSet(inStreams')
          /\ inMaxStream' = (nextStreamToOpen - 1) + (MaxNumStreams - Cardinality(inStreams'))
      BY <2>1, <2>4, RemoveStep, Zenon
    <3>2. InTypeOK'
      BY <2>1, <2>2, <2>4, <3>1, ZenonT(60) DEF InInv, InTypeOK
    <3>3. In!CreditIsExact'
      BY <2>1, <3>1, SameCardinality, ZenonT(60) DEF In!CreditIsExact
    <3>4. inMaxStream <= inMaxStream' /\ IncomingInv'
      BY <2>1, <3>1, <3>3, SMTT(60) DEF InInv, InTypeOK, IncomingInv
    <3> QED
      BY <3>2, <3>4, Zenon DEF InInv
  <2> QED
    BY <1>2, <2>3, <2>4, ZenonT(60) DEF In!AcceptReturnsStream
<1>3. ASSUME NEW num \in 1 .. MaxOpen, In!GetOrOpenStream(num)
      PROVE  InInv' /\ inMaxStream <= inMaxStream'
  <2>1. /\ UNCHANGED <<In!creditVars, nextStreamToAccept, nextStreamToOpen, In!acceptVars>>
        /\ runLoop' \in {"running", "failed", "closing"}
        /\ opening' # opening => opening' = num /\ nextStreamToOpen <= num /\ num <= inMaxStream
    BY <1>3, ZenonT(60) DEF In!GetOrOpenStream, In!GetOrOpenStreamFails, In!GetOrOpenStreamChecks, InInv, InTypeOK
  <2>2. InTypeOK' /\ inMaxStream <= inMaxStream'
    BY <2>1 DEF InInv, InTypeOK
  <2>3. IncomingInv'
    BY <2>1, Zenon DEF InInv, IncomingInv, In!CreditIsExact
  <2> QED
    BY <2>2, <2>3, ZenonT(60) DEF InInv
<1>4. ASSUME NEW num \in 1 .. MaxOpen, In!DeleteStream(num)
      PROVE  InInv' /\ inMaxStream <= inMaxStream'
  <2>1. /\ UNCHANGED <<nextStreamToAccept, nextStreamToOpen, In!loopVars, In!acceptVars>>
        /\ num \in inStreams \ streamsToDelete
    BY <1>4, ZenonT(60) DEF In!DeleteStream
  <2>2. CASE /\ streamsToDelete' = streamsToDelete \cup {num}
             /\ UNCHANGED <<inStreams, inMaxStream, maxStreamsFrames>>
    BY <2>1, <2>2, SMTT(60) DEF InInv, InTypeOK, IncomingInv, In!CreditIsExact
  <2>3. CASE In!removeStream(num) /\ UNCHANGED streamsToDelete
    <3>1. /\ inStreams' = inStreams \ {num} /\ inMaxStream' = inMaxStream + 1
          /\ inMaxStream' \in 0 .. MaxOpen + MaxNumStreams
          /\ maxStreamsFrames' \subseteq 1 .. inMaxStream'
          /\ IsFiniteSet(inStreams')
          /\ inMaxStream' = (nextStreamToOpen - 1) + (MaxNumStreams - Cardinality(inStreams'))
      BY <2>1, <2>3, RemoveStep, Zenon
    <3>2. InTypeOK'
      BY <2>1, <2>3, <3>1, ZenonT(60) DEF InInv, InTypeOK
    <3>3. In!CreditIsExact'
      BY <2>1, <3>1, SameCardinality, ZenonT(60) DEF In!CreditIsExact
    <3>4. inMaxStream <= inMaxStream' /\ IncomingInv'
      BY <2>1, <3>1, <3>3, SMTT(60) DEF InInv, InTypeOK, IncomingInv
    <3> QED
      BY <3>2, <3>4, Zenon DEF InInv
  <2> QED
    BY <1>4, <2>2, <2>3, ZenonT(60) DEF In!DeleteStream, In!deleteStream
<1>5. CASE In!GetOrOpenStreamOpens
  <2> DEFINE new == nextStreamToOpen .. opening
  <2>1. /\ opening \in 1 .. MaxOpen /\ nextStreamToOpen \in 1 .. MaxOpen + 1
        /\ nextStreamToOpen <= opening /\ opening <= inMaxStream
        /\ inStreams \subseteq 1 .. nextStreamToOpen - 1
    BY <1>5 DEF In!GetOrOpenStreamOpens, InInv, InTypeOK, IncomingInv
  <2>2. /\ inStreams' = inStreams \cup new /\ nextStreamToOpen' = opening + 1 /\ opening' = 0
        /\ UNCHANGED <<streamsToDelete, inMaxStream, maxStreamsFrames, nextStreamToAccept,
                       runLoop, acceptCtxDone>>
    BY <1>5, Zenon DEF In!GetOrOpenStreamOpens
  <2>3. acceptPC' \in [Acceptors -> In!PC]
    BY <1>5, Zenon DEF In!GetOrOpenStreamOpens, In!Wake, InInv, InTypeOK
  <2>4. new \subseteq 1 .. opening /\ inStreams \cap new = {}
    BY <2>1
  <2>5. IsFiniteSet(new) /\ Cardinality(new) = opening - nextStreamToOpen + 1
    BY <2>1, FS_Interval, SMTT(60)
  <2> HIDE DEF new
  <2>6. IsFiniteSet(inStreams') /\ Cardinality(inStreams') = Cardinality(inStreams) + Cardinality(new)
    <3>1. IsFiniteSet(inStreams) /\ Cardinality(inStreams) \in Nat /\ Cardinality(new) \in Nat
      BY <2>5, FS_CardinalityType DEF InInv, IncomingInv
    <3>2. Cardinality(inStreams \cap new) = 0
      BY <2>4, FS_EmptySet, SMTT(60)
    <3>3. QED
      <4>1. /\ IsFiniteSet(inStreams \cup new)
            /\ Cardinality(inStreams \cup new) = Cardinality(inStreams) + Cardinality(new) - 0
        BY <2>5, <3>1, <3>2, FS_Union, ZenonT(60)
      <4> QED
        BY <2>2, <3>1, <4>1, SMTT(60)
  <2>7. InTypeOK'
    BY <2>1, <2>2, <2>3, <2>4, SMTT(60) DEF InInv, InTypeOK
  <2>8. IncomingInv'
    <3>1. Cardinality(inStreams) \in Nat
      BY FS_CardinalityType, ZenonT(60) DEF InInv, IncomingInv
    <3> QED
      BY <2>1, <2>2, <2>4, <2>5, <2>6, <3>1, SameCardinality, SMTT(60)
      DEF InInv, InTypeOK, IncomingInv, In!CreditIsExact
  <2> QED
    BY <2>2, <2>7, <2>8, SMTT(60) DEF InInv, InTypeOK
<1>6. CASE In!CloseWithError \/ In!CloseChan
  <2>1. /\ UNCHANGED <<In!creditVars, nextStreamToAccept, nextStreamToOpen, In!acceptVars, opening>>
        /\ runLoop' \in {"running", "failed", "closing"}
    BY <1>6, ZenonT(60) DEF In!CloseWithError, In!CloseChan, InInv, InTypeOK
  <2> QED
    BY <2>1, SMTT(60) DEF InInv, InTypeOK, IncomingInv, In!CreditIsExact
<1>7. CASE UNCHANGED inVars
  BY <1>7 DEF InInv, InTypeOK, IncomingInv, In!CreditIsExact
<1> QED
  BY <1>1, <1>2, <1>3, <1>4, <1>5, <1>6, <1>7, ZenonT(60) DEF In!Next, In!Accept

-----------------------------------------------------------------------------
(* The composition. *)

\* A step of the composition is at most one step of each map.
LEMMA Components ==
    ASSUME OutTypeOK, [Next]_vars
    PROVE  /\ Out!Next \/ UNCHANGED outVars
           /\ In!Next \/ UNCHANGED inVars
<1> USE StreamLimitsAssumption
<1>1. CASE OpenerStep \/ DeliverLimit
  BY <1>1, Zenon DEF OpenerStep, DeliverLimit, Out!Next, ActiveCallers
<1>2. CASE AcceptorStep
  BY <1>2, Zenon DEF AcceptorStep, In!Next
<1>3. CASE DeliverStreamFrame \/ DeliverRogueFrame
  <2>1. nextStream \in 1 .. MaxOpen + 1
    BY DEF OutTypeOK
  <2> QED
    BY <1>3, <2>1, SMTT(60) DEF DeliverStreamFrame, DeliverRogueFrame, In!Next, In!GetOrOpenStream
<1>4. CASE Close
  BY <1>4 DEF Close, Out!Next, In!Next
<1>5. CASE UNCHANGED vars
  BY <1>5 DEF vars
<1> QED
  BY <1>1, <1>2, <1>3, <1>4, <1>5, ZenonT(60) DEF Next

\* The limit the opener knows of never overtakes the one the acceptor announced,
\* so only a frame of a stream that was never opened exceeds it.
LEMMA LimitsStep ==
    ASSUME OutInv, InInv, LimitsInv, [Next]_vars, InInv', inMaxStream <= inMaxStream'
    PROVE  LimitsInv'
<1> USE StreamLimitsAssumption
<1>1. CASE UNCHANGED vars
  BY <1>1, Zenon DEF vars, outVars, inVars, peerVars, LimitsInv
<1>2. CASE OpenerStep
  <2>1. UNCHANGED outMaxStream
    BY <1>2, ZenonT(60) DEF OpenerStep, Out!OpenStream, Out!OpenStreamTooMany, Out!Call, Out!Resume,
                Out!CancelContext, Out!DeleteStream, Out!OpenStreamSyncFails,
                Out!OpenStreamSyncFast, Out!OpenStreamSyncEnqueue, Out!SelectCtxDone,
                Out!SelectWaitChan, Out!CancelledReturns, Out!WokenClosed,
                Out!WokenContinues, Out!WokenOpens, Out!mapVars
  <2> QED
    BY <1>2, <2>1, ZenonT(60) DEF OpenerStep, LimitsInv, inVars, peerVars
<1>3. CASE DeliverLimit
  <2>1. PICK num \in AnnouncedLimits : outMaxStream' = num
    BY <1>3 DEF DeliverLimit, Out!SetMaxStream
  <2>2. UNCHANGED <<inMaxStream, runLoop, peer, rogue>>
    BY <1>3, Zenon DEF DeliverLimit, inVars, peerVars
  <2>3. peer = "acceptor" => num <= inMaxStream
    BY SMTT(60) DEF AnnouncedLimits, InInv, InTypeOK, IncomingInv
  <2> QED
    BY <2>1, <2>2, <2>3, ZenonT(60) DEF LimitsInv
<1>4. CASE AcceptorStep
  <2>1. UNCHANGED runLoop
    BY <1>4, Zenon DEF AcceptorStep, In!Accept, In!AcceptFindsClosed, In!AcceptFindsNone,
                In!AcceptReturnsStream, In!EnterSelect, In!SelectCtxDone, In!SelectChanClosed,
                In!CancelContext, In!DeleteStream, In!GetOrOpenStreamOpens, In!loopVars
  <2> QED
    BY <1>4, <2>1, SMTT(60) DEF AcceptorStep, LimitsInv, outVars, peerVars, OutInv, OutTypeOK, InInv, InTypeOK
<1>5. CASE DeliverStreamFrame
  <2>1. PICK num \in 1 .. nextStream - 1 : In!GetOrOpenStream(num)
    BY <1>5 DEF DeliverStreamFrame
  <2>2. num <= inMaxStream
    <3>1. outMaxStream <= inMaxStream
      BY <1>5, Zenon DEF DeliverStreamFrame, LimitsInv
    <3>2. /\ nextStream <= outMaxStream + 1 /\ nextStream \in Nat /\ outMaxStream \in Nat
          /\ inMaxStream \in Nat
      BY SMTT(60) DEF OutInv, OutTypeOK, Out!StreamsUniqueAndWithinLimit, InInv, InTypeOK
    <3> QED
      BY <3>1, <3>2, SMTT(60)
  <2>3. In!GetOrOpenStreamChecks(num)
    BY <2>1, <2>2, SMTT(60) DEF In!GetOrOpenStream, In!GetOrOpenStreamFails, InInv, InTypeOK,
                      OutInv, OutTypeOK
  <2> QED
    BY <1>5, <2>3, Zenon DEF DeliverStreamFrame, In!GetOrOpenStreamChecks, In!creditVars, LimitsInv,
                      outVars, peerVars
<1>6. CASE DeliverRogueFrame
  BY <1>6 DEF DeliverRogueFrame, In!GetOrOpenStreamFails, In!creditVars, LimitsInv, outVars
<1>7. CASE Close
  BY <1>7 DEF Close, Out!CloseWithError, In!CloseWithError, In!CloseChan, In!creditVars,
              In!loopVars, LimitsInv, outVars, inVars, peerVars
<1> QED
  BY <1>1, <1>2, <1>3, <1>4, <1>5, <1>6, <1>7, ZenonT(60) DEF Next

\* The inductive invariant of the composition.
CompositionInv ==
    /\ OutInv /\ FlagsOK /\ InInv /\ InFlagsOK /\ LimitsInv
    /\ peer \in {"acceptor", "any"} /\ rogue \in BOOLEAN

\* The maps start in it.
LEMMA CompositionInit == Init => CompositionInv
<1> SUFFICES ASSUME Init
             PROVE  CompositionInv
  BY Zenon
<1> USE StreamLimitsAssumption
<1>1. OutTypeOK
  BY NumCallers, SMTT(60) DEF Init, Out!Init, OutTypeOK, Out!PC, Out!NoPos, Out!NoStream, Positions
<1>2. QueueInv
  <2>1. {c \in Callers : queuePos[c] # -1} = {}
    BY DEF Init, Out!Init, Out!NoPos
  <2>2. ~panicked
    BY DEF Init, Out!Init
  <2>3. \A p \in DOMAIN openQueue : FALSE
    BY DEF Init, Out!Init
  <2>4. \A c \in Callers : callPC[c] = "idle" => queuePos[c] = -1
    BY DEF Init, Out!Init, Out!NoPos
  <2>5. highestInQueue = Cardinality({c \in Callers : queuePos[c] # -1})
    BY <2>1, FS_EmptySet, Zenon DEF Init, Out!Init
  <2>6. lowestInQueue <= highestInQueue /\ closedChans = {}
    BY DEF Init, Out!Init
  <2> QED
    BY <2>2, <2>3, <2>4, <2>5, <2>6, ZenonT(60) DEF QueueInv
<1>3. Out!StreamsUniqueAndWithinLimit
  BY DEF Init, Out!Init, Out!StreamsUniqueAndWithinLimit
<1>4. FlagsOK /\ InFlagsOK /\ peer \in {"acceptor", "any"} /\ rogue \in BOOLEAN
  BY ZenonT(60) DEF Init, Out!Init, In!Init, FlagsOK, InFlagsOK
<1>5. InTypeOK
  BY DEF Init, In!Init, InTypeOK, In!PC, In!NotOpening
<1>6. IncomingInv
  BY SameCardinality, FS_EmptySet DEF Init, In!Init, IncomingInv, In!CreditIsExact, In!NotOpening
<1>7. LimitsInv
  BY DEF Init, Out!Init, In!Init, LimitsInv
<1> QED
  BY <1>1, <1>2, <1>3, <1>4, <1>5, <1>6, <1>7, ZenonT(60) DEF CompositionInv, OutInv, InInv

\* Every step of the composition keeps it.
LEMMA CompositionStep == CompositionInv /\ [Next]_vars => CompositionInv'
<1> SUFFICES ASSUME CompositionInv, [Next]_vars
             PROVE  CompositionInv'
  OBVIOUS
<1>1. /\ Out!Next \/ UNCHANGED outVars
      /\ In!Next \/ UNCHANGED inVars
  BY Components, Zenon DEF CompositionInv, OutInv
<1>2. OutInv' /\ FlagsOK'
  BY <1>1, OutStep, FlagsStep, ZenonT(60) DEF CompositionInv
<1>3. InInv' /\ InFlagsOK' /\ inMaxStream <= inMaxStream'
  BY <1>1, InStep, InFlagsStep, Zenon DEF CompositionInv
<1>4. LimitsInv'
  BY <1>3, LimitsStep, ZenonT(60) DEF CompositionInv
<1>5. peer' \in {"acceptor", "any"} /\ rogue' \in BOOLEAN
  BY ZenonT(60) DEF CompositionInv, Next, OpenerStep, DeliverLimit, AcceptorStep, DeliverStreamFrame,
         DeliverRogueFrame, Close, peerVars, vars
<1> QED
  BY <1>2, <1>3, <1>4, <1>5, ZenonT(60) DEF CompositionInv

\* So it always holds.
LEMMA CompositionCorrect == Spec => []CompositionInv
BY CompositionInit, CompositionStep, PTL DEF Spec

-----------------------------------------------------------------------------
(* The theorems. *)

\* Every variable of both maps keeps its type; in particular no stream number,
\* queue position or limit leaves its range.
THEOREM LimitsTypeCorrect == Spec => []TypeOK
<1>1. CompositionInv => TypeOK
  BY OutTypes, InTypes, SMTT(60) DEF CompositionInv, InInv, TypeOK
<1> QED
  BY <1>1, CompositionCorrect, PTL

\* OpenStream and OpenStreamSync hand out every number once and stay within the
\* limit of the peer, and GetOrOpenStream never fails for a stream that an opener
\* of this code opened, however late its frames and those with limits arrive.
THEOREM OpenersObeyLimits == Spec => []StreamsWithinLimit
<1>1. CompositionInv => StreamsWithinLimit
  BY DEF CompositionInv, OutInv, LimitsInv, StreamsWithinLimit
<1> QED
  BY <1>1, CompositionCorrect, PTL

\* deleteStream announces exactly the free slots, in whatever order streams are
\* opened, accepted and completed.
THEOREM CreditCorrect == Spec => []CreditIsExact
<1>1. CompositionInv => CreditIsExact
  BY DEF CompositionInv, InInv, IncomingInv, CreditIsExact
<1> QED
  BY <1>1, CompositionCorrect, PTL

\* Neither unblockOpenSync nor CloseWithError of the outgoing map closes a channel
\* that is nil or closed already.
THEOREM NoChannelPanic == Spec => []NeverPanics
<1>1. CompositionInv => NeverPanics
  BY DEF CompositionInv, OutInv, QueueInv, NeverPanics
<1> QED
  BY <1>1, CompositionCorrect, PTL
=============================================================================
