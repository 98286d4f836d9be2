----------------------------- MODULE StreamProofs -----------------------------
(***************************************************************************)
(* Proofs about Stream, for streams of any length.                         *)
(*                                                                         *)
(* The sending half keeps the frames that are in flight or queued a        *)
(* partition of the bytes that were sent and not acknowledged.  The        *)
(* receiving half relates the positions of the sorter, of Read and of the  *)
(* two flow controllers, and who may still complete it.  The halves share  *)
(* only onStreamCompletedImpl: a step of one leaves the other alone, so    *)
(* their invariants are proved one by one, and one more counts deletions.  *)
(***************************************************************************)
EXTENDS Sequences, Stream, FiniteSetTheorems, TLAPS

-----------------------------------------------------------------------------
(* Queues, and sets of frames. *)

\* What a queue holds, and that it holds nothing twice.
Elements(q) == {q[i] : i \in 1 .. Len(q)}
Distinct(q) == \A i, j \in 1 .. Len(q) : q[i] = q[j] => i = j

\* Taking the first element of a queue (maybeGetRetransmission).
LEMMA QueueTail ==
    ASSUME NEW S, NEW q \in Seq(S), q # <<>>, Distinct(q)
    PROVE  /\ Tail(q) \in Seq(S) /\ Head(q) \in Elements(q) /\ Head(q) \in S
           /\ Distinct(Tail(q)) /\ Elements(Tail(q)) = Elements(q) \ {Head(q)}
<1>1. /\ Len(q) \in Nat /\ Len(q) > 0 /\ Head(q) = q[1] /\ Tail(q) \in Seq(S)
      /\ Len(Tail(q)) = Len(q) - 1 /\ 1 \in 1 .. Len(q)
      /\ \A i \in 1 .. Len(q) : q[i] \in S
  OBVIOUS
<1>2. \A i \in 1 .. Len(Tail(q)) : Tail(q)[i] = q[i + 1] /\ i + 1 \in 1 .. Len(q)
  BY <1>1
<1>3. Distinct(Tail(q))
  BY <1>1, <1>2 DEF Distinct
<1>4. ASSUME NEW i \in 1 .. Len(q), i # 1
      PROVE  q[i] \in Elements(Tail(q)) /\ q[i] # q[1]
  <2>1. i - 1 \in 1 .. Len(Tail(q)) /\ Tail(q)[i - 1] = q[i]
    BY <1>1, <1>2, <1>4
  <2>2. q[i] \in Elements(Tail(q))
    BY <2>1, Zenon DEF Elements
  <2> QED BY <2>2, <1>1, <1>4 DEF Distinct
<1>5. ASSUME NEW i \in 1 .. Len(Tail(q))
      PROVE  Tail(q)[i] \in Elements(q) \ {q[1]}
  <2>1. i + 1 # 1 /\ i + 1 \in 1 .. Len(q) /\ Tail(q)[i] = q[i + 1]
    BY <1>1, <1>2
  <2> QED BY <2>1, <1>4, Zenon DEF Elements
<1>6. Elements(Tail(q)) = Elements(q) \ {q[1]}
  BY <1>4, <1>5, Zenon DEF Elements
<1>7. q[1] \in Elements(q)
  BY <1>1, Zenon DEF Elements
<1> QED BY <1>1, <1>3, <1>6, <1>7, Zenon

\* Putting another element in the place of the first (MaybeSplitOffFrame).
LEMMA QueueReplace ==
    ASSUME NEW S, NEW q \in Seq(S), q # <<>>, Distinct(q), NEW e \in S, e \notin Elements(q)
    PROVE  /\ [q EXCEPT ![1] = e] \in Seq(S) /\ Distinct([q EXCEPT ![1] = e])
           /\ Elements([q EXCEPT ![1] = e]) = (Elements(q) \ {Head(q)}) \cup {e}
<1> DEFINE r == [q EXCEPT ![1] = e]
<1>1. /\ Len(q) \in Nat /\ Len(q) > 0 /\ Head(q) = q[1] /\ 1 \in 1 .. Len(q)
      /\ r \in Seq(S) /\ Len(r) = Len(q) /\ r[1] = e
      /\ \A i \in 1 .. Len(q) : i # 1 => r[i] = q[i]
  OBVIOUS
<1> HIDE DEF r
<1>2. \A i \in 1 .. Len(q) : q[i] # e
  BY Zenon DEF Elements
<1>3. Distinct(r)
  BY <1>1, <1>2 DEF Distinct
<1>4. ASSUME NEW i \in 1 .. Len(q), i # 1
      PROVE  q[i] \in Elements(r) /\ q[i] # q[1] /\ r[i] = q[i]
  BY <1>1, <1>4 DEF Distinct, Elements
<1>5. e \in Elements(r) /\ q[1] \in Elements(q)
  BY <1>1, Zenon DEF Elements
<1>6. Elements(r) = (Elements(q) \ {q[1]}) \cup {e}
  <2>1. ASSUME NEW x \in Elements(r) PROVE x \in (Elements(q) \ {q[1]}) \cup {e}
    <3>1. PICK i \in 1 .. Len(q) : x = r[i]
      BY <1>1, Zenon DEF Elements
    <3>2. CASE i = 1
      BY <1>1, <3>1, <3>2, Zenon
    <3>3. CASE i # 1
      BY <1>4, <3>1, <3>3, Zenon DEF Elements
    <3> QED BY <3>2, <3>3, Zenon
  <2>2. ASSUME NEW x \in Elements(q), x # q[1] PROVE x \in Elements(r)
    BY <1>4, <2>2, Zenon DEF Elements
  <2> QED BY <2>1, <2>2, <1>5
<1> QED BY <1>1, <1>3, <1>6, Zenon DEF r

\* Appending an element that is not there (queueRetransmission).
LEMMA QueueAppend ==
    ASSUME NEW S, NEW q \in Seq(S), Distinct(q), NEW e \in S, e \notin Elements(q)
    PROVE  /\ Append(q, e) \in Seq(S) /\ Distinct(Append(q, e))
           /\ Elements(Append(q, e)) = Elements(q) \cup {e} /\ Append(q, e) # <<>>
<1> DEFINE r == Append(q, e)
<1>1. /\ Len(q) \in Nat /\ r \in Seq(S) /\ Len(r) = Len(q) + 1 /\ r[Len(q) + 1] = e /\ r # <<>>
      /\ \A i \in 1 .. Len(q) : r[i] = q[i]
  OBVIOUS
<1> HIDE DEF r
<1>2. \A i \in 1 .. Len(q) : q[i] # e
  BY Zenon DEF Elements
<1>3. Distinct(r)
  BY <1>1, <1>2 DEF Distinct
<1>4. \A i \in 1 .. Len(r) : i \in 1 .. Len(q) \/ i = Len(q) + 1
  BY <1>1
<1>5. \A i \in 1 .. Len(q) : i \in 1 .. Len(r)
  BY <1>1
<1>6. Len(q) + 1 \in 1 .. Len(r)
  BY <1>1
<1>7. Elements(r) = Elements(q) \cup {e}
  <2>1. ASSUME NEW x \in Elements(r) PROVE x \in Elements(q) \cup {e}
    BY <1>1, <1>4, Zenon DEF Elements
  <2>2. ASSUME NEW x \in Elements(q) PROVE x \in Elements(r)
    BY <1>1, <1>5, Zenon DEF Elements
  <2>3. e \in Elements(r)
    BY <1>1, <1>6, Zenon DEF Elements
  <2> QED BY <2>1, <2>2, <2>3
<1> QED BY <1>1, <1>3, <1>7 DEF r

-----------------------------------------------------------------------------
(* The frames of a stream that are in flight or queued, as a set. *)

\* Each one is an interval of the bytes sent, empty only if it is a lone FIN;
\* a FIN is at the end.
Intervals(U, offset, fin) ==
    \A f \in U :
        /\ f.start <= f.end /\ f.end <= offset
        /\ f.start = f.end => f.fin
        /\ f.fin => fin /\ f.end = offset

\* No two of them have a byte or the FIN in common.
Apart(U) ==
    /\ \A f, g \in U : f # g => f.end <= g.start \/ g.end <= f.start
    /\ \A f, g \in U : f.fin /\ g.fin => f = g

\* With the bytes acknowledged they make up all bytes sent.
MakeUp(U, acked, offset) ==
    /\ acked \subseteq 0 .. offset - 1
    /\ \A f \in U, b \in acked : b < f.start \/ f.end <= b
    /\ \A b \in 0 .. offset - 1 : b \in acked \/ \E f \in U : f.start <= b /\ b < f.end

\* And one of them has the FIN that was sent, until it is acknowledged.
FinIsThere(U, fin, acked) ==
    /\ fin => acked \/ \E f \in U : f.fin
    /\ acked => fin /\ \A f \in U : ~f.fin

WellCut(U, acked, offset, fin, ackedFin) ==
    /\ U \subseteq Send!Frame /\ offset \in Nat /\ fin \in BOOLEAN /\ ackedFin \in BOOLEAN
    /\ Intervals(U, offset, fin) /\ Apart(U)
    /\ MakeUp(U, acked, offset) /\ FinIsThere(U, fin, ackedFin)

\* A new frame starts where the last one ended (popNewStreamFrame).
IsNext(f, n, offset, fin) ==
    /\ n \in Nat /\ f \in Send!Frame /\ f.start = offset /\ f.end = offset + n
    /\ n > 0 \/ f.fin
    /\ fin => n = 0 /\ ~f.fin

\* A new frame leaves the frames well cut.
LEMMA NewFrame ==
    ASSUME NEW U, NEW acked, NEW offset, NEW fin, NEW ackedFin,
           WellCut(U, acked, offset, fin, ackedFin),
           NEW n, NEW f, IsNext(f, n, offset, fin), NEW after, after = IF f.fin THEN TRUE ELSE fin
    PROVE  f \notin U /\ WellCut(U \cup {f}, acked, offset + n, after, ackedFin)
<1> USE DEF WellCut, IsNext
<1>1. /\ f.start \in Int /\ f.end \in Int /\ f.fin \in BOOLEAN
      /\ \A g \in U : g.start \in Int /\ g.end \in Int /\ g.fin \in BOOLEAN
  BY StreamAssumption DEF Send!Frame
<1>2. ~fin
  <2>1. n > 0 => n # 0
    OBVIOUS
  <2> QED BY <2>1, Zenon
<1>3. \A g \in U : g.start <= g.end /\ g.end <= offset /\ ~g.fin /\ g.start # g.end
  BY <1>2, Zenon DEF Intervals
<1>4. \A g \in U : g.end <= f.start
  BY <1>3
<1>5. f \notin U
  BY <1>1, <1>3
<1>6. Intervals(U \cup {f}, offset + n, fin \/ f.fin)
  <2>1. ASSUME NEW g \in U
        PROVE  /\ g.start <= g.end /\ g.end <= offset + n
               /\ g.start = g.end => g.fin
               /\ g.fin => (fin \/ f.fin) /\ g.end = offset + n
    BY <1>1, <1>3
  <2>2. f.start <= f.end /\ f.end <= offset + n /\ (f.start = f.end => f.fin)
    BY <1>1
  <2> QED BY <2>1, <2>2, Zenon DEF Intervals
<1>7. Apart(U \cup {f})
  <2>1. \A g, h \in U \cup {f} : g # h => g.end <= h.start \/ h.end <= g.start
    BY <1>4, Zenon DEF Apart
  <2>2. \A g, h \in U \cup {f} : g.fin /\ h.fin => g = h
    BY <1>3, Zenon DEF Apart
  <2> QED BY <2>1, <2>2, Zenon DEF Apart
<1>8. MakeUp(U \cup {f}, acked, offset + n)
  <2>1. acked \subseteq 0 .. offset + n - 1
    BY DEF MakeUp
  <2>2. \A b \in acked : b < f.start
    BY <1>1 DEF MakeUp
  <2>3. \A b \in 0 .. offset + n - 1 : b \in 0 .. offset - 1 \/ (f.start <= b /\ b < f.end)
    BY <1>1
  <2>4. \A b \in 0 .. offset + n - 1 :
            b \in acked \/ \E g \in U \cup {f} : g.start <= b /\ b < g.end
    BY <2>3, Zenon DEF MakeUp
  <2>5. \A g \in U \cup {f}, b \in acked : b < g.start \/ g.end <= b
    BY <2>2, Zenon DEF MakeUp
  <2> QED BY <2>1, <2>4, <2>5 DEF MakeUp
<1>9. FinIsThere(U \cup {f}, fin \/ f.fin, ackedFin)
  BY <1>2, Zenon DEF FinIsThere
<1>10. offset + n \in Nat /\ U \cup {f} \subseteq Send!Frame
  OBVIOUS
<1> QED BY <1>5, <1>6, <1>7, <1>8, <1>9, <1>10, ZenonT(60)

\* A frame that is acknowledged leaves (frameAcked).
LEMMA AckedFrame ==
    ASSUME NEW U, NEW acked, NEW offset, NEW fin, NEW ackedFin,
           WellCut(U, acked, offset, fin, ackedFin), NEW f \in U,
           NEW after, after = IF f.fin THEN TRUE ELSE ackedFin
    PROVE  WellCut(U \ {f}, acked \cup (f.start .. f.end - 1), offset, fin, after)
<1> USE DEF WellCut
<1>1. \A g \in U : g.start \in Nat /\ g.end \in Int /\ g.fin \in BOOLEAN
  BY StreamAssumption DEF Send!Frame
<1>2. Intervals(U \ {f}, offset, fin) /\ Apart(U \ {f})
  BY Zenon DEF Intervals, Apart
<1>3. MakeUp(U \ {f}, acked \cup (f.start .. f.end - 1), offset)
  <2>1. acked \cup (f.start .. f.end - 1) \subseteq 0 .. offset - 1
    <3>1. f.end <= offset /\ acked \subseteq 0 .. offset - 1
      BY Zenon DEF MakeUp, Intervals
    <3>2. f.start \in Nat /\ f.end \in Int
      BY <1>1, Zenon
    <3>3. f.start .. f.end - 1 \subseteq 0 .. offset - 1
      BY <3>1, <3>2
    <3> QED BY <3>1, <3>3, Zenon
  <2>2. \A g \in U \ {f}, b \in f.start .. f.end - 1 : b < g.start \/ g.end <= b
    BY <1>1 DEF Apart
  <2>3. \A g \in U \ {f}, b \in acked \cup (f.start .. f.end - 1) : b < g.start \/ g.end <= b
    BY <2>2, Zenon DEF MakeUp
  <2>4. \A b \in 0 .. offset - 1 : f.start <= b /\ b < f.end => b \in f.start .. f.end - 1
    BY <1>1
  <2>5. \A b \in 0 .. offset - 1 :
           b \in acked \cup (f.start .. f.end - 1) \/ \E g \in U \ {f} : g.start <= b /\ b < g.end
    BY <2>4, Zenon DEF MakeUp
  <2> QED BY <2>1, <2>3, <2>5, Zenon DEF MakeUp
<1>4. FinIsThere(U \ {f}, fin, ackedFin \/ f.fin)
  <2>1. fin => (ackedFin \/ f.fin) \/ \E g \in U \ {f} : g.fin
    BY Zenon DEF FinIsThere
  <2>2. (ackedFin \/ f.fin) => fin
    BY Zenon DEF FinIsThere, Intervals
  <2>3. (ackedFin \/ f.fin) => \A g \in U \ {f} : ~g.fin
    BY Zenon DEF FinIsThere, Apart
  <2> QED BY <2>1, <2>2, <2>3, Zenon DEF FinIsThere
<1> QED BY <1>2, <1>3, <1>4, Zenon

\* A frame is split in two, the second part keeps the FIN (MaybeSplitOffFrame).
LEMMA SplitFrame ==
    ASSUME NEW U, NEW acked, NEW offset, NEW fin, NEW ackedFin,
           WellCut(U, acked, offset, fin, ackedFin),
           NEW f \in U, NEW room \in Nat, room > 0, room < f.end - f.start
    PROVE  LET g == Send!SplitOff(f, room)
               h == Send!Remainder(f, room)
           IN  /\ g \in Send!Frame /\ h \in Send!Frame /\ g \notin U /\ h \notin U /\ g # h
               /\ WellCut((U \ {f}) \cup {g, h}, acked, offset, fin, ackedFin)
<1> USE DEF WellCut
<1> DEFINE g == Send!SplitOff(f, room)
           h == Send!Remainder(f, room)
           V == (U \ {f}) \cup {g, h}
<1>1. /\ f.start \in 0 .. WriteLength /\ f.end \in 0 .. WriteLength /\ f.fin \in BOOLEAN
      /\ \A e \in U : e.start \in Nat /\ e.end \in Nat /\ e.fin \in BOOLEAN
      /\ \A e \in U : e \in Send!Frame
  BY StreamAssumption DEF Send!Frame
<1>2. /\ g = [start |-> f.start, end |-> f.start + room, fin |-> FALSE]
      /\ h = [start |-> f.start + room, end |-> f.end, fin |-> f.fin]
  <2>1. f \in [start : 0 .. WriteLength, end : 0 .. WriteLength, fin : BOOLEAN]
    BY <1>1, Zenon DEF Send!Frame
  <2>2. g = [start |-> f.start, end |-> f.start + room, fin |-> FALSE]
    <3> DEFINE e == [f EXCEPT !.end = f.start + room]
    <3>1. e = [start |-> f.start, end |-> f.start + room, fin |-> f.fin]
      BY <2>1
    <3>2. g = [e EXCEPT !.fin = FALSE]
      BY DEF Send!SplitOff
    <3> HIDE DEF e
    <3> QED BY <3>1, <3>2, Zenon
  <2>3. h = [start |-> f.start + room, end |-> f.end, fin |-> f.fin]
    BY <2>1 DEF Send!Remainder
  <2> QED BY <2>2, <2>3, Zenon
<1>3. /\ g.start = f.start /\ g.end = f.start + room /\ g.fin = FALSE
      /\ h.start = f.start + room /\ h.end = f.end /\ h.fin = f.fin
  BY <1>2
<1>4. f.start + room \in 0 .. WriteLength /\ f.start < f.start + room /\ f.start + room < f.end
  BY <1>1, StreamAssumption
<1>5. g \in Send!Frame /\ h \in Send!Frame
  BY <1>1, <1>2, <1>4 DEF Send!Frame
<1> HIDE DEF g, h
<1>6. \A e \in U \ {f} : e.end <= f.start \/ f.end <= e.start
  BY Zenon DEF Apart
<1>7. f.end <= offset /\ \A e \in U : e.start <= e.end
  BY Zenon DEF Intervals
<1>8. g \notin U /\ h \notin U /\ g # h
  BY <1>1, <1>3, <1>4, <1>6, <1>7, StreamAssumption
<1>9. Intervals(V, offset, fin)
  <2>1. /\ g.start <= g.end /\ g.end <= offset /\ g.start # g.end
        /\ h.start <= h.end /\ h.end <= offset /\ h.start # h.end
    BY <1>1, <1>3, <1>4, <1>7
  <2>2. f.fin => fin /\ f.end = offset
    BY Zenon DEF Intervals
  <2>3. ~g.fin /\ (h.fin => fin /\ h.end = offset)
    BY <1>3, <2>2, Zenon
  <2> QED BY <2>1, <2>3, Zenon DEF Intervals
<1>10. Apart(V)
  <2>1. /\ g.end <= h.start
        /\ \A e \in U \ {f} : e.end <= g.start \/ g.end <= e.start
        /\ \A e \in U \ {f} : e.end <= h.start \/ h.end <= e.start
    BY <1>1, <1>3, <1>4, <1>6
  <2>2. \A e, d \in V : e # d => e.end <= d.start \/ d.end <= e.start
    <3>1. \A e, d \in U \ {f} : e # d => e.end <= d.start \/ d.end <= e.start
      BY Zenon DEF Apart
    <3>2. ASSUME NEW e \in U \ {f}, NEW d \in {g, h}
          PROVE  e.end <= d.start \/ d.end <= e.start
      BY <2>1, Zenon
    <3>3. ASSUME NEW e \in {g, h}, NEW d \in {g, h}, e # d
          PROVE  e.end <= d.start \/ d.end <= e.start
      <4>1. (e = g /\ d = h) \/ (e = h /\ d = g)
        BY <3>3, Zenon
      <4> QED BY <2>1, <4>1, Zenon
    <3> QED BY <3>1, <3>2, <3>3, Zenon
  <2>3. \A e, d \in V : e.fin /\ d.fin => e = d
    BY <1>3, Zenon DEF Apart
  <2> QED BY <2>2, <2>3, Zenon DEF Apart
<1>11. MakeUp(V, acked, offset)
  <2>1. acked \subseteq Int
    BY DEF MakeUp
  <2>2. \A b \in acked : b < f.start \/ f.end <= b
    BY Zenon DEF MakeUp
  <2>3. \A b \in acked : (b < g.start \/ g.end <= b) /\ (b < h.start \/ h.end <= b)
    BY <1>1, <1>3, <1>4, <2>1, <2>2
  <2>4. \A e \in V, b \in acked : b < e.start \/ e.end <= b
    BY <2>3, Zenon DEF MakeUp
  <2>5. \A b \in 0 .. offset - 1 : f.start <= b /\ b < f.end =>
            (g.start <= b /\ b < g.end) \/ (h.start <= b /\ b < h.end)
    BY <1>1, <1>3, <1>4
  <2>6. \A b \in 0 .. offset - 1 : b \in acked \/ \E e \in V : e.start <= b /\ b < e.end
    BY <2>5, Zenon DEF MakeUp
  <2> QED BY <2>4, <2>6, Zenon DEF MakeUp
<1>12. FinIsThere(V, fin, ackedFin)
  <2>1. fin => ackedFin \/ \E e \in V : e.fin
    BY <1>3, Zenon DEF FinIsThere
  <2>2. ackedFin => fin /\ \A e \in V : ~e.fin
    BY <1>3, Zenon DEF FinIsThere
  <2> QED BY <2>1, <2>2, Zenon DEF FinIsThere
<1> QED BY <1>5, <1>8, <1>9, <1>10, <1>11, <1>12 DEF g, h

-----------------------------------------------------------------------------
(* The sending half. *)

\* Types of what is not a number.
SendFlags ==
    /\ {finishedWriting, canceledWrite, closedForShutdownS, finSent, completed, writeChan,
        finAcked, active} \subseteq BOOLEAN
    /\ writeDeadline \in {"none", "set", "expired"}
    /\ writer \in {"idle", "notify", "notifyTimer", "wait", "waitTimer"}
    /\ doing \in [Send!Actors -> {"nothing", "close", "reset", "resetCompleted", "completed"}]

\* Nothing is sent beyond the windows, or beyond what was written.
SendNumbers ==
    /\ {dataForWriting, writeOffset, sendWindow, connWindow, lastBlockedAt} \subseteq 0 .. WriteLength
    /\ losses \in 0 .. MaxLosses
    /\ dataBlocked \subseteq 0 .. WriteLength /\ resetOffsets \subseteq 0 .. WriteLength
    /\ writeOffset <= sendWindow /\ writeOffset <= connWindow
    /\ writeOffset + dataForWriting <= WriteLength

\* After a FIN nothing is left to send, and a RESET_STREAM follows CancelWrite.
SendEnds ==
    /\ finSent => finishedWriting /\ dataForWriting = 0
    /\ resetOffsets # {} => canceledWrite
    /\ \A a \in Send!Actors : doing[a] \in {"reset", "resetCompleted"} => canceledWrite

\* The frames that were sent and are not acknowledged.
Outstanding == inFlight \cup Elements(retransmissionQueue)

\* Frames in flight and frames queued are different ones, and together with what
\* was acknowledged they are all that was sent.
SendFrames ==
    /\ retransmissionQueue \in Seq(Send!Frame) /\ Distinct(retransmissionQueue)
    /\ IsFiniteSet(inFlight) /\ numOutstandingFrames = Cardinality(inFlight)
    /\ inFlight \cap Elements(retransmissionQueue) = {}
    /\ WellCut(Outstanding, ackedBytes, writeOffset, finSent, finAcked)

\* A completed half has nothing outstanding; the call of onStreamCompleted was
\* made, or one goroutine is about to make it.
CallsIt(a) == IF doing[a] \in {"resetCompleted", "completed"} THEN 1 ELSE 0

Calls == IF completed THEN 1 ELSE 0

SendCompletes ==
    /\ completed => inFlight = {} /\ retransmissionQueue = <<>> /\ (finSent \/ canceledWrite)
    /\ completionsS \in Nat
    /\ completionsS + CallsIt("App") + CallsIt("RunLoop") = Calls

SendInv == SendFlags /\ SendNumbers /\ SendEnds /\ SendFrames /\ SendCompletes

\* The flags and program counters of the sending half keep their types.
LEMMA SendFlagsStep ==
    ASSUME SendFlags, Send!Next
    PROVE  SendFlags'
<1> USE DEF SendFlags, Send!endVars, Send!writeVars, Send!sentVars, Send!flowVars,
            Send!doneVars, Send!Actors
<1>1. ASSUME NEW n, Send!Write(n) PROVE SendFlags'
  BY <1>1, Zenon DEF Send!Write
<1>2. CASE Send!NotifySender
  BY <1>2, Zenon DEF Send!NotifySender, Send!onHasStreamData
<1>3. CASE Send!WriteWoken
  BY <1>3, Zenon DEF Send!WriteWoken, Send!Waiting
<1>4. CASE Send!PopNothingMore
  BY <1>4, ZenonT(60) DEF Send!PopNothingMore
<1>5. CASE Send!PopNoRoom
  BY <1>5 DEF Send!PopNoRoom
<1>6. ASSUME NEW room, Send!PopRetransmission(room) PROVE SendFlags'
  BY <1>6, Zenon DEF Send!PopRetransmission
<1>7. ASSUME NEW room, Send!PopBlocked(room) PROVE SendFlags'
  BY <1>7, ZenonT(60) DEF Send!PopBlocked
<1>8. ASSUME NEW room, Send!PopNew(room) PROVE SendFlags'
  <2>1. active' = (dataForWriting' > 0) /\ finSent' = (finSent \/ Send!HasFin(Send!NewBytes(room)))
    BY <1>8, Zenon DEF Send!PopNew
  <2>2. active' \in BOOLEAN
    BY <2>1
  <2>3. finSent' \in BOOLEAN
    BY <2>1
  <2>4. writeChan' \in BOOLEAN
    BY <1>8, Zenon DEF Send!PopNew, Send!signalWrite
  <2>5. UNCHANGED <<finishedWriting, canceledWrite, closedForShutdownS, completed, finAcked,
                    writeDeadline, writer, doing>>
    BY <1>8, Zenon DEF Send!PopNew
  <2> QED BY <2>2, <2>3, <2>4, <2>5, Zenon
<1>9. ASSUME NEW f, Send!frameAcked(f) PROVE SendFlags'
  BY <1>9, ZenonT(60) DEF Send!frameAcked
<1>10. ASSUME NEW f, Send!queueRetransmission(f) PROVE SendFlags'
  BY <1>10, Zenon DEF Send!queueRetransmission, Send!onHasStreamData
<1>11. CASE Send!Close
  BY <1>11 DEF Send!Close
<1>12. CASE Send!closeForShutdown
  BY <1>12, Zenon DEF Send!closeForShutdown, Send!signalWrite
<1>13. ASSUME NEW a \in Send!Actors, Send!cancelWriteImpl(a) PROVE SendFlags'
  BY <1>13, ZenonT(60) DEF Send!cancelWriteImpl
<1>14. CASE Send!CloseNotifies
  BY <1>14 DEF Send!CloseNotifies, Send!onHasStreamData
<1>15. ASSUME NEW a \in Send!Actors, Send!QueueReset(a) PROVE SendFlags'
  BY <1>15 DEF Send!QueueReset, Send!signalWrite
<1>16. ASSUME NEW a \in Send!Actors, Send!OnStreamCompleted(a) PROVE SendFlags'
  BY <1>16 DEF Send!OnStreamCompleted
<1>17. ASSUME NEW d \in {"none", "set"}, Send!SetWriteDeadline(d) PROVE SendFlags'
  BY <1>17, Zenon DEF Send!SetWriteDeadline, Send!signalWrite
<1>18. CASE Send!TimePasses
  BY <1>18, Zenon DEF Send!TimePasses
<1>19. CASE Send!handleMaxStreamDataFrame
  BY <1>19, ZenonT(60) DEF Send!handleMaxStreamDataFrame
<1>20. CASE Send!handleMaxDataFrame
  BY <1>20, Zenon DEF Send!handleMaxDataFrame
<1> QED
  BY <1>1, <1>2, <1>3, <1>4, <1>5, <1>6, <1>7, <1>8, <1>9, <1>10, <1>11, <1>12, <1>13, <1>14,
     <1>15, <1>16, <1>17, <1>18, <1>19, <1>20, ZenonT(60)
  DEF Send!Next, Send!WriteStep, Send!Pop, Send!Acked, Send!Lost, Send!After,
      Send!RaiseStreamLimit, Send!RaiseConnectionLimit

\* Its numbers keep theirs, and stay within the windows and what was written.
LEMMA SendNumbersStep ==
    ASSUME SendNumbers, Send!Next
    PROVE  SendNumbers'
<1> USE DEF Send!endVars, Send!writeVars, Send!sentVars, Send!flowVars, Send!doneVars
<1>1. ASSUME NEW n \in 1 .. WriteLength - writeOffset, Send!Write(n) PROVE SendNumbers'
  <2>1. dataForWriting' = n /\ UNCHANGED <<writeOffset, sendWindow, connWindow, lastBlockedAt,
                                          losses, dataBlocked, resetOffsets>>
    BY <1>1, Zenon DEF Send!Write
  <2> QED BY <2>1, StreamAssumption DEF SendNumbers
<1>2. CASE Send!NotifySender
  BY <1>2, Zenon DEF Send!NotifySender, SendNumbers
<1>3. CASE Send!WriteWoken
  <2>1. /\ dataForWriting' = 0 \/ UNCHANGED dataForWriting
        /\ UNCHANGED <<writeOffset, sendWindow, connWindow, lastBlockedAt, losses, dataBlocked,
                       resetOffsets>>
    BY <1>3, Zenon DEF Send!WriteWoken
  <2> QED BY <2>1, StreamAssumption DEF SendNumbers
<1>4. CASE Send!PopNothingMore
  BY <1>4, Zenon DEF Send!PopNothingMore, SendNumbers
<1>5. CASE Send!PopNoRoom
  BY <1>5, Zenon DEF Send!PopNoRoom, SendNumbers
<1>6. ASSUME NEW room, Send!PopRetransmission(room) PROVE SendNumbers'
  BY <1>6, Zenon DEF Send!PopRetransmission, SendNumbers
<1>7. ASSUME NEW room, Send!PopBlocked(room) PROVE SendNumbers'
  BY <1>7, Zenon DEF Send!PopBlocked, SendNumbers
<1>8. ASSUME NEW room \in Rooms, Send!PopNew(room) PROVE SendNumbers'
  <2>1. /\ dataForWriting' = dataForWriting - Send!NewBytes(room)
        /\ writeOffset' = writeOffset + Send!NewBytes(room)
        /\ UNCHANGED <<sendWindow, connWindow, lastBlockedAt, losses, dataBlocked, resetOffsets>>
    BY <1>8, Zenon DEF Send!PopNew
  <2> QED BY <2>1, StreamAssumption
          DEF SendNumbers, Send!NewBytes, Send!WindowSize, Send!MinOf
<1>9. ASSUME NEW f, Send!frameAcked(f) PROVE SendNumbers'
  BY <1>9, Zenon DEF Send!frameAcked, SendNumbers
<1>10. ASSUME NEW f, Send!queueRetransmission(f) PROVE SendNumbers'
  <2>1. /\ losses < MaxLosses /\ losses' = losses + 1
        /\ UNCHANGED <<dataForWriting, writeOffset, sendWindow, connWindow, lastBlockedAt,
                       dataBlocked, resetOffsets>>
    BY <1>10, Zenon DEF Send!queueRetransmission
  <2> QED BY <2>1, StreamAssumption DEF SendNumbers
<1>11. CASE Send!Close
  BY <1>11, Zenon DEF Send!Close, SendNumbers
<1>12. CASE Send!closeForShutdown
  BY <1>12, Zenon DEF Send!closeForShutdown, SendNumbers
<1>13. ASSUME NEW a \in Send!Actors, Send!cancelWriteImpl(a) PROVE SendNumbers'
  BY <1>13, Zenon DEF Send!cancelWriteImpl, SendNumbers
<1>14. CASE Send!CloseNotifies
  BY <1>14, Zenon DEF Send!CloseNotifies, SendNumbers
<1>15. ASSUME NEW a \in Send!Actors, Send!QueueReset(a) PROVE SendNumbers'
  BY <1>15, Zenon DEF Send!QueueReset, SendNumbers
<1>16. ASSUME NEW a \in Send!Actors, Send!OnStreamCompleted(a) PROVE SendNumbers'
  BY <1>16, Zenon DEF Send!OnStreamCompleted, SendNumbers
<1>17. ASSUME NEW d \in {"none", "set"}, Send!SetWriteDeadline(d) PROVE SendNumbers'
  BY <1>17, Zenon DEF Send!SetWriteDeadline, SendNumbers
<1>18. CASE Send!TimePasses
  BY <1>18, Zenon DEF Send!TimePasses, SendNumbers
<1>19. CASE Send!handleMaxStreamDataFrame
  <2>1. /\ sendWindow < WriteLength /\ sendWindow' = sendWindow + 1
        /\ UNCHANGED <<dataForWriting, writeOffset, connWindow, lastBlockedAt, losses,
                       dataBlocked, resetOffsets>>
    BY <1>19, Zenon DEF Send!handleMaxStreamDataFrame
  <2> QED BY <2>1, StreamAssumption DEF SendNumbers
<1>20. CASE Send!handleMaxDataFrame
  <2>1. /\ connWindow < WriteLength /\ connWindow' = connWindow + 1
        /\ UNCHANGED <<dataForWriting, writeOffset, sendWindow, lastBlockedAt, losses,
                       dataBlocked, resetOffsets>>
    BY <1>20, Zenon DEF Send!handleMaxDataFrame
  <2> QED BY <2>1, StreamAssumption DEF SendNumbers
<1> QED
  BY <1>1, <1>2, <1>3, <1>4, <1>5, <1>6, <1>7, <1>8, <1>9, <1>10, <1>11, <1>12, <1>13, <1>14,
     <1>15, <1>16, <1>17, <1>18, <1>19, <1>20, ZenonT(60)
  DEF Send!Next, Send!WriteStep, Send!Pop, Send!Acked, Send!Lost, Send!After,
      Send!RaiseStreamLimit, Send!RaiseConnectionLimit

\* The sum in CanComplete and the new offset: how many bytes a new frame has.
LEMMA NewBytesType ==
    ASSUME SendNumbers, NEW room \in Rooms
    PROVE  /\ Send!NewBytes(room) \in Nat /\ Send!NewBytes(room) <= dataForWriting
           /\ writeOffset + Send!NewBytes(room) <= WriteLength
           /\ dataForWriting = 0 => Send!NewBytes(room) = 0
  BY StreamAssumption DEF SendNumbers, Send!NewBytes, Send!WindowSize, Send!MinOf

\* After the FIN, or with a RESET_STREAM queued, nothing more is sent.
LEMMA SendEndsStep ==
    ASSUME SendFlags, SendNumbers, SendEnds, Send!Next
    PROVE  SendEnds' /\ ((finSent \/ resetOffsets # {}) => writeOffset' = writeOffset)
<1> DEFINE Goal == SendEnds' /\ ((finSent \/ resetOffsets # {}) => writeOffset' = writeOffset)
<1> USE DEF Send!endVars, Send!writeVars, Send!sentVars, Send!flowVars, Send!doneVars
<1>1. ASSUME NEW n \in 1 .. WriteLength - writeOffset, Send!Write(n) PROVE Goal
  BY <1>1, Zenon DEF Send!Write, SendEnds
<1>2. CASE Send!NotifySender
  BY <1>2, Zenon DEF Send!NotifySender, SendEnds
<1>3. CASE Send!WriteWoken
  BY <1>3, Zenon DEF Send!WriteWoken, SendEnds
<1>4. CASE Send!PopNothingMore
  BY <1>4, Zenon DEF Send!PopNothingMore, SendEnds
<1>5. CASE Send!PopNoRoom
  BY <1>5, Zenon DEF Send!PopNoRoom, SendEnds
<1>6. ASSUME NEW room, Send!PopRetransmission(room) PROVE Goal
  BY <1>6, Zenon DEF Send!PopRetransmission, SendEnds
<1>7. ASSUME NEW room, Send!PopBlocked(room) PROVE Goal
  BY <1>7, Zenon DEF Send!PopBlocked, SendEnds
<1>8. ASSUME NEW room \in Rooms, Send!PopNew(room) PROVE Goal
  <2> DEFINE n == Send!NewBytes(room)
  <2>1. /\ dataForWriting' = dataForWriting - n /\ writeOffset' = writeOffset + n
        /\ finSent' = (finSent \/ Send!HasFin(n)) /\ ~canceledWrite
        /\ UNCHANGED <<finishedWriting, canceledWrite, doing, resetOffsets>>
    BY <1>8, Zenon DEF Send!PopNew, Send!PopsNew
  <2>2. n \in Nat /\ (dataForWriting = 0 => n = 0)
    BY NewBytesType, Zenon
  <2>3. dataForWriting \in Nat /\ writeOffset \in Nat
    BY DEF SendNumbers
  <2>4. resetOffsets = {}
    BY <2>1, Zenon DEF SendEnds
  <2>5. Send!HasFin(n) => finishedWriting /\ n = dataForWriting
    BY Zenon DEF Send!HasFin
  <2> HIDE DEF n
  <2>6. finSent => n = 0
    BY <2>2, Zenon DEF SendEnds
  <2>7. n = 0 => dataForWriting' = dataForWriting /\ writeOffset' = writeOffset
    BY <2>1, <2>3
  <2>8. n = dataForWriting => dataForWriting' = 0
    BY <2>1, <2>3
  <2>9. finSent' => finishedWriting' /\ dataForWriting' = 0
    BY <2>1, <2>5, <2>6, <2>7, <2>8, ZenonT(60) DEF SendEnds
  <2> QED BY <2>1, <2>4, <2>6, <2>7, <2>9, ZenonT(60) DEF SendEnds
<1>9. ASSUME NEW f, Send!frameAcked(f) PROVE Goal
  <2>1. /\ \/ UNCHANGED doing
           \/ doing' = [doing EXCEPT !["RunLoop"] = "completed"]
        /\ UNCHANGED <<finSent, finishedWriting, dataForWriting, canceledWrite, resetOffsets,
                       writeOffset>>
    BY <1>9, Zenon DEF Send!frameAcked
  <2>2. \A a \in Send!Actors : doing'[a] \in {"reset", "resetCompleted"} => canceledWrite
    BY <2>1 DEF SendEnds, SendFlags
  <2> QED BY <2>1, <2>2, Zenon DEF SendEnds
<1>10. ASSUME NEW f, Send!queueRetransmission(f) PROVE Goal
  BY <1>10, Zenon DEF Send!queueRetransmission, SendEnds
<1>11. CASE Send!Close
  <2>1. /\ doing' = [doing EXCEPT !["App"] = "close"] /\ finishedWriting' = TRUE
        /\ UNCHANGED <<finSent, dataForWriting, canceledWrite, resetOffsets, writeOffset>>
    BY <1>11, Zenon DEF Send!Close
  <2>2. \A a \in Send!Actors : doing'[a] \in {"reset", "resetCompleted"} => canceledWrite
    BY <2>1 DEF SendEnds, SendFlags
  <2> QED BY <2>1, <2>2, Zenon DEF SendEnds
<1>12. CASE Send!closeForShutdown
  BY <1>12, Zenon DEF Send!closeForShutdown, SendEnds
<1>13. ASSUME NEW a \in Send!Actors, Send!cancelWriteImpl(a) PROVE Goal
  <2>1. canceledWrite' = TRUE /\ UNCHANGED <<finSent, finishedWriting, dataForWriting,
                                             resetOffsets, writeOffset>>
    BY <1>13, Zenon DEF Send!cancelWriteImpl
  <2> QED BY <2>1, Zenon DEF SendEnds
<1>14. CASE Send!CloseNotifies
  <2>1. /\ doing' = [doing EXCEPT !["App"] = "nothing"]
        /\ UNCHANGED <<finSent, finishedWriting, dataForWriting, canceledWrite, resetOffsets,
                       writeOffset>>
    BY <1>14, Zenon DEF Send!CloseNotifies
  <2>2. \A a \in Send!Actors : doing'[a] \in {"reset", "resetCompleted"} => canceledWrite
    BY <2>1 DEF SendEnds, SendFlags
  <2> QED BY <2>1, <2>2, Zenon DEF SendEnds
<1>15. ASSUME NEW a \in Send!Actors, Send!QueueReset(a) PROVE Goal
  <2>1. /\ doing[a] \in {"reset", "resetCompleted"}
        /\ UNCHANGED <<finSent, finishedWriting, dataForWriting, canceledWrite, writeOffset>>
    BY <1>15, Zenon DEF Send!QueueReset
  <2> QED BY <2>1, Zenon DEF SendEnds
<1>16. ASSUME NEW a \in Send!Actors, Send!OnStreamCompleted(a) PROVE Goal
  <2>1. /\ doing' = [doing EXCEPT ![a] = "nothing"]
        /\ UNCHANGED <<finSent, finishedWriting, dataForWriting, canceledWrite, resetOffsets,
                       writeOffset>>
    BY <1>16, Zenon DEF Send!OnStreamCompleted
  <2>2. \A b \in Send!Actors : doing'[b] \in {"reset", "resetCompleted"} => canceledWrite
    BY <2>1 DEF SendEnds, SendFlags
  <2> QED BY <2>1, <2>2, Zenon DEF SendEnds
<1>17. ASSUME NEW d \in {"none", "set"}, Send!SetWriteDeadline(d) PROVE Goal
  BY <1>17, Zenon DEF Send!SetWriteDeadline, SendEnds
<1>18. CASE Send!TimePasses
  BY <1>18, Zenon DEF Send!TimePasses, SendEnds
<1>19. CASE Send!handleMaxStreamDataFrame
  BY <1>19, Zenon DEF Send!handleMaxStreamDataFrame, SendEnds
<1>20. CASE Send!handleMaxDataFrame
  BY <1>20, Zenon DEF Send!handleMaxDataFrame, SendEnds
<1> QED
  BY <1>1, <1>2, <1>3, <1>4, <1>5, <1>6, <1>7, <1>8, <1>9, <1>10, <1>11, <1>12, <1>13, <1>14,
     <1>15, <1>16, <1>17, <1>18, <1>19, <1>20, ZenonT(60)
  DEF Send!Next, Send!WriteStep, Send!Pop, Send!Acked, Send!Lost, Send!After,
      Send!RaiseStreamLimit, Send!RaiseConnectionLimit

\* A frame that is retransmitted, whole or in part.
LEMMA FramesRetransmitted ==
    ASSUME SendFrames, NEW room \in Rooms, Send!PopRetransmission(room)
    PROVE  SendFrames'
<1> DEFINE q == retransmissionQueue
           f == Head(q)
           g == Send!SplitOff(f, room)
           h == Send!Remainder(f, room)
<1>1. /\ q # <<>> /\ room > 0
      /\ \/ /\ f.end - f.start <= room /\ Send!Sends(f) /\ retransmissionQueue' = Tail(q)
         \/ /\ ~(f.end - f.start <= room) /\ Send!Sends(g)
            /\ retransmissionQueue' = [q EXCEPT ![1] = h]
      /\ UNCHANGED <<writeOffset, finSent, ackedBytes, finAcked>>
  BY Zenon DEF Send!PopRetransmission
<1>2. /\ Tail(q) \in Seq(Send!Frame) /\ f \in Elements(q) /\ f \in Send!Frame
      /\ Distinct(Tail(q)) /\ Elements(Tail(q)) = Elements(q) \ {f}
  BY <1>1, QueueTail, Zenon DEF SendFrames
<1>3. f \in Outstanding /\ f \notin inFlight
  BY <1>2, Zenon DEF SendFrames, Outstanding
<1>4. WellCut(Outstanding, ackedBytes, writeOffset, finSent, finAcked)
  BY Zenon DEF SendFrames
<1>5. \A e : e \notin inFlight => /\ IsFiniteSet(inFlight \cup {e})
                                  /\ Cardinality(inFlight \cup {e}) = numOutstandingFrames + 1
  BY FS_AddElement, Zenon DEF SendFrames
<1>6. CASE /\ f.end - f.start <= room /\ Send!Sends(f) /\ retransmissionQueue' = Tail(q)
  <2>1. inFlight' = inFlight \cup {f} /\ numOutstandingFrames' = numOutstandingFrames + 1
    BY <1>6, Zenon DEF Send!Sends
  <2>2. Outstanding' = Outstanding
    BY <1>2, <1>6, <2>1, Zenon DEF Outstanding
  <2>3. inFlight' \cap Elements(retransmissionQueue') = {}
    BY <1>2, <1>6, <2>1, Zenon DEF SendFrames
  <2> QED BY <1>1, <1>2, <1>3, <1>4, <1>5, <1>6, <2>1, <2>2, <2>3, ZenonT(60) DEF SendFrames
<1>7. CASE /\ ~(f.end - f.start <= room) /\ Send!Sends(g)
           /\ retransmissionQueue' = [q EXCEPT ![1] = h]
  <2>1. inFlight' = inFlight \cup {g} /\ numOutstandingFrames' = numOutstandingFrames + 1
    BY <1>7, Zenon DEF Send!Sends
  <2> DEFINE V == (Outstanding \ {f}) \cup {g, h}
  <2>2. room \in Nat /\ room < f.end - f.start
    <3>1. f.start \in Nat /\ f.end \in Nat
      BY <1>2, StreamAssumption, SMTT(60) DEF Send!Frame
    <3> QED BY <1>7, <3>1, StreamAssumption
  <2>3. /\ g \in Send!Frame /\ h \in Send!Frame /\ g \notin Outstanding /\ h \notin Outstanding
        /\ g # h /\ WellCut(V, ackedBytes, writeOffset, finSent, finAcked)
    BY <1>1, <1>3, <1>4, <2>2, SplitFrame, Zenon
  <2>4. h \notin Elements(q) /\ g \notin Elements(q) /\ g \notin inFlight /\ h \notin inFlight
    BY <2>3, Zenon DEF Outstanding
  <2>5. /\ retransmissionQueue' \in Seq(Send!Frame) /\ Distinct(retransmissionQueue')
        /\ Elements(retransmissionQueue') = (Elements(q) \ {f}) \cup {h}
    BY <1>1, <1>7, <2>3, <2>4, QueueReplace, Zenon DEF SendFrames
  <2>6. Outstanding' = V
    BY <1>3, <2>1, <2>5, Zenon DEF Outstanding
  <2>7. inFlight' \cap Elements(retransmissionQueue') = {}
    BY <1>3, <2>1, <2>3, <2>4, <2>5, Zenon DEF SendFrames
  <2> HIDE DEF g, h, V, f, q
  <2> QED BY <1>1, <1>5, <2>1, <2>3, <2>4, <2>5, <2>6, <2>7, ZenonT(60) DEF SendFrames
<1> QED BY <1>1, <1>6, <1>7, Zenon

\* popNewStreamFrame sends the next bytes.
LEMMA FramesNew ==
    ASSUME SendNumbers, SendEnds, SendFrames, NEW room \in Rooms, Send!PopNew(room)
    PROVE  SendFrames'
<1> DEFINE n == Send!NewBytes(room)
           f == [start |-> writeOffset, end |-> writeOffset + n, fin |-> Send!HasFin(n)]
<1>1. /\ n > 0 \/ Send!HasFin(0)
      /\ Send!Sends(f) /\ finSent' = (finSent \/ Send!HasFin(n)) /\ writeOffset' = writeOffset + n
      /\ UNCHANGED <<retransmissionQueue, ackedBytes, finAcked>>
  BY Zenon DEF Send!PopNew
<1>2. n \in Nat /\ writeOffset + n <= WriteLength /\ (dataForWriting = 0 => n = 0)
  BY NewBytesType, Zenon
<1>3. writeOffset \in Nat
  BY DEF SendNumbers
<1> HIDE DEF n
<1>4. Send!HasFin(n) \in BOOLEAN
  BY DEF Send!HasFin
<1>5. f.start = writeOffset /\ f.end = writeOffset + n /\ f.fin = Send!HasFin(n)
  OBVIOUS
<1>6. f \in Send!Frame
  <2>1. writeOffset \in 0 .. WriteLength /\ writeOffset + n \in 0 .. WriteLength
    BY <1>2, <1>3, StreamAssumption
  <2> QED BY <1>4, <2>1, Zenon DEF Send!Frame
<1> HIDE DEF f
<1>7. n > 0 \/ f.fin
  <2>1. Send!HasFin(0) => Send!HasFin(n)
    BY <1>2, Zenon DEF Send!HasFin
  <2> QED BY <1>1, <1>5, <2>1, Zenon
<1>8. finSent => n = 0 /\ ~f.fin
  <2>1. finSent => ~Send!HasFin(n)
    BY Zenon DEF Send!HasFin
  <2> QED BY <1>2, <1>5, <2>1, Zenon DEF SendEnds
<1>9. WellCut(Outstanding, ackedBytes, writeOffset, finSent, finAcked)
  BY Zenon DEF SendFrames
<1>10. finSent' = IF f.fin THEN TRUE ELSE finSent
  BY <1>1, <1>4, <1>5, <1>9, Zenon DEF WellCut
<1>11. /\ f \notin Outstanding
       /\ WellCut(Outstanding \cup {f}, ackedBytes, writeOffset + n, finSent', finAcked)
  <2>1. IsNext(f, n, writeOffset, finSent)
    BY <1>2, <1>5, <1>6, <1>7, <1>8, Zenon DEF IsNext
  <2> QED BY <1>9, <1>10, <2>1, NewFrame, Zenon
<1>12. inFlight' = inFlight \cup {f} /\ numOutstandingFrames' = numOutstandingFrames + 1
  BY <1>1, Zenon DEF Send!Sends
<1>13. Outstanding' = Outstanding \cup {f}
  BY <1>1, <1>12, Zenon DEF Outstanding
<1>14. f \notin inFlight /\ f \notin Elements(retransmissionQueue)
  BY <1>11, Zenon DEF Outstanding
<1>15. IsFiniteSet(inFlight') /\ numOutstandingFrames' = Cardinality(inFlight')
  BY <1>12, <1>14, FS_AddElement, Zenon DEF SendFrames
<1>16. inFlight' \cap Elements(retransmissionQueue') = {}
  BY <1>1, <1>12, <1>14, Zenon DEF SendFrames
<1> QED BY <1>1, <1>11, <1>13, <1>15, <1>16, Zenon DEF SendFrames

\* frameAcked.
LEMMA FramesAcked ==
    ASSUME SendFrames, NEW f, Send!frameAcked(f)
    PROVE  SendFrames'
<1>1. /\ f \in inFlight /\ inFlight' = inFlight \ {f}
      /\ numOutstandingFrames' = numOutstandingFrames - 1
      /\ ackedBytes' = ackedBytes \cup (f.start .. f.end - 1) /\ finAcked' = (finAcked \/ f.fin)
      /\ UNCHANGED <<writeOffset, finSent, retransmissionQueue>>
  BY Zenon DEF Send!frameAcked
<1>2. f \in Outstanding /\ f \notin Elements(retransmissionQueue)
  BY <1>1, Zenon DEF Outstanding, SendFrames
<1>3. WellCut(Outstanding \ {f}, ackedBytes', writeOffset, finSent, finAcked')
  <2>1. WellCut(Outstanding, ackedBytes, writeOffset, finSent, finAcked)
    BY Zenon DEF SendFrames
  <2>2. finAcked' = IF f.fin THEN TRUE ELSE finAcked
    BY <1>1, <2>1, ZenonT(60) DEF WellCut
  <2> QED BY <1>1, <1>2, <2>1, <2>2, AckedFrame, Zenon
<1>4. Outstanding' = Outstanding \ {f}
  BY <1>1, <1>2, Zenon DEF Outstanding
<1>5. IsFiniteSet(inFlight') /\ numOutstandingFrames' = Cardinality(inFlight')
  BY <1>1, FS_RemoveElement, Zenon DEF SendFrames
<1>6. inFlight' \cap Elements(retransmissionQueue') = {}
  BY <1>1, Zenon DEF SendFrames
<1> QED BY <1>1, <1>3, <1>4, <1>5, <1>6, Zenon DEF SendFrames

\* queueRetransmission: a lost frame goes from the ones in flight to the queue.
LEMMA FramesLost ==
    ASSUME SendFrames, NEW f, Send!queueRetransmission(f)
    PROVE  SendFrames'
<1>1. /\ f \in inFlight /\ inFlight' = inFlight \ {f}
      /\ numOutstandingFrames' = numOutstandingFrames - 1
      /\ retransmissionQueue' = Append(retransmissionQueue, f)
      /\ UNCHANGED <<writeOffset, finSent, ackedBytes, finAcked>>
  BY Zenon DEF Send!queueRetransmission
<1>2. f \in Send!Frame /\ f \notin Elements(retransmissionQueue)
  BY <1>1, Zenon DEF SendFrames, WellCut, Outstanding
<1>3. retransmissionQueue \in Seq(Send!Frame) /\ Distinct(retransmissionQueue)
  BY Zenon DEF SendFrames
<1>4. /\ retransmissionQueue' \in Seq(Send!Frame) /\ Distinct(retransmissionQueue')
      /\ Elements(retransmissionQueue') = Elements(retransmissionQueue) \cup {f}
  BY <1>1, <1>2, <1>3, QueueAppend
<1>5. Outstanding' = Outstanding
  BY <1>1, <1>4, Zenon DEF Outstanding
<1>6. IsFiniteSet(inFlight') /\ numOutstandingFrames' = Cardinality(inFlight')
  BY <1>1, FS_RemoveElement, Zenon DEF SendFrames
<1>7. inFlight' \cap Elements(retransmissionQueue') = {}
  BY <1>1, <1>4, Zenon DEF SendFrames
<1> QED BY <1>1, <1>4, <1>5, <1>6, <1>7, Zenon DEF SendFrames

\* Every step of the sending half keeps its frames well cut.
LEMMA SendFramesStep ==
    ASSUME SendFlags, SendNumbers, SendEnds, SendFrames, Send!Next
    PROVE  SendFrames'
<1> DEFINE Kept == UNCHANGED <<writeOffset, finSent, retransmissionQueue, numOutstandingFrames,
                               inFlight, ackedBytes, finAcked>>
<1>1. Kept => SendFrames'
  BY Zenon DEF SendFrames, Outstanding
<1> HIDE DEF Kept
<1>2. \/ Kept
      \/ \E room \in Rooms : Send!PopRetransmission(room) \/ Send!PopNew(room)
      \/ \E f \in inFlight : Send!frameAcked(f) \/ Send!queueRetransmission(f)
  <2> USE DEF Send!sentVars
  <2>1. ASSUME NEW n, Send!Write(n) PROVE Kept
    BY <2>1, Zenon DEF Send!Write, Kept
  <2>2. Send!WriteStep => Kept
    BY Zenon DEF Send!WriteStep, Send!NotifySender, Send!WriteWoken, Kept
  <2>3. Send!PopNothingMore \/ Send!PopNoRoom => Kept
    BY Zenon DEF Send!PopNothingMore, Send!PopNoRoom, Kept
  <2>4. ASSUME NEW room, Send!PopBlocked(room) PROVE Kept
    BY <2>4, Zenon DEF Send!PopBlocked, Kept
  <2>5. Send!Close \/ Send!closeForShutdown \/ Send!TimePasses => Kept
    BY Zenon DEF Send!Close, Send!closeForShutdown, Send!TimePasses, Kept
  <2>6. ASSUME NEW a, Send!cancelWriteImpl(a) \/ Send!After(a) PROVE Kept
    BY <2>6, Zenon DEF Send!cancelWriteImpl, Send!After, Send!CloseNotifies, Send!QueueReset,
                       Send!OnStreamCompleted, Kept
  <2>7. ASSUME NEW d, Send!SetWriteDeadline(d) PROVE Kept
    BY <2>7, Zenon DEF Send!SetWriteDeadline, Kept
  <2>8. Send!RaiseStreamLimit \/ Send!RaiseConnectionLimit => Kept
    BY Zenon DEF Send!RaiseStreamLimit, Send!RaiseConnectionLimit,
                 Send!handleMaxStreamDataFrame, Send!handleMaxDataFrame, Kept
  <2> QED BY <2>1, <2>2, <2>3, <2>4, <2>5, <2>6, <2>7, <2>8, ZenonT(60)
          DEF Send!Next, Send!Pop, Send!Acked, Send!Lost
<1> QED BY <1>1, <1>2, FramesRetransmitted, FramesNew, FramesAcked, FramesLost, ZenonT(60)

\* Every step keeps the count of calls of onStreamCompleted.
LEMMA SendCompletesStep ==
    ASSUME SendFlags, SendNumbers, SendEnds, SendFrames, SendCompletes, Send!Next
    PROVE  SendCompletes'
<1> DEFINE Ends == /\ completed => inFlight = {} /\ retransmissionQueue = <<>>
                   /\ completed => finSent \/ canceledWrite
<1> USE DEF Send!endVars, Send!writeVars, Send!sentVars, Send!flowVars, Send!doneVars
<1>1. /\ Ends /\ completionsS \in Nat
      /\ completionsS + CallsIt("App") + CallsIt("RunLoop") = Calls
  BY Zenon DEF SendCompletes
<1>2. CallsIt("App") \in {0, 1} /\ CallsIt("RunLoop") \in {0, 1}
  BY DEF CallsIt
<1>3. ASSUME UNCHANGED <<completed, inFlight, retransmissionQueue, finSent, canceledWrite,
                         completionsS, doing>>
      PROVE  SendCompletes'
  BY <1>3, Zenon DEF SendCompletes, CallsIt, Calls
\* Not completed before: nothing has to hold but the count.
<1>4. ASSUME ~completed, UNCHANGED <<completed, completionsS, doing>>
      PROVE  SendCompletes'
  BY <1>4, Zenon DEF SendCompletes, CallsIt, Calls
\* One of the two goroutines changes what it does, but not whether it calls.
<1>5. ASSUME NEW a \in Send!Actors, NEW next, doing' = [doing EXCEPT ![a] = next],
             doing[a] \in {"resetCompleted", "completed"}
                <=> next \in {"resetCompleted", "completed"},
             UNCHANGED <<completed, inFlight, retransmissionQueue, finSent, completionsS>>,
             canceledWrite => canceledWrite'
      PROVE  SendCompletes'
  <2>1. CallsIt("App")' = CallsIt("App") /\ CallsIt("RunLoop")' = CallsIt("RunLoop")
    BY <1>5 DEF CallsIt, SendFlags, Send!Actors
  <2> QED BY <1>5, <2>1, Zenon DEF SendCompletes, Calls
\* The half becomes completed, and one of the goroutines will call.
<1>6. ASSUME NEW a \in Send!Actors, NEW next \in {"resetCompleted", "completed"},
             doing[a] = "nothing", doing' = [doing EXCEPT ![a] = next],
             ~completed, completed' = TRUE, UNCHANGED completionsS,
             inFlight' = {}, retransmissionQueue' = <<>>, finSent' \/ canceledWrite'
      PROVE  SendCompletes'
  <2>1. CallsIt("App")' + CallsIt("RunLoop")' = CallsIt("App") + CallsIt("RunLoop") + 1
    BY <1>6 DEF CallsIt, SendFlags, Send!Actors
  <2>2. Calls = 0 /\ Calls' = 1
    BY <1>6, Zenon DEF Calls
  <2>3. CallsIt("App")' \in {0, 1} /\ CallsIt("RunLoop")' \in {0, 1}
    BY DEF CallsIt
  <2>4. completionsS + CallsIt("App")' + CallsIt("RunLoop")' = Calls'
    BY <1>1, <1>2, <2>1, <2>2, <2>3, SMTT(60)
  <2> QED BY <1>6, <2>4, <1>1, ZenonT(60) DEF SendCompletes
<1>7. ASSUME NEW n, Send!Write(n) PROVE SendCompletes'
  BY <1>3, <1>7, Zenon DEF Send!Write
<1>8. CASE Send!WriteStep
  BY <1>3, <1>8, Zenon DEF Send!WriteStep, Send!NotifySender, Send!WriteWoken
<1>9. CASE Send!PopNothingMore \/ Send!PopNoRoom
  BY <1>3, <1>9, Zenon DEF Send!PopNothingMore, Send!PopNoRoom
<1>10. ASSUME NEW room, Send!PopBlocked(room) PROVE SendCompletes'
  BY <1>3, <1>10, Zenon DEF Send!PopBlocked
<1>11. ASSUME NEW room, Send!PopRetransmission(room) PROVE SendCompletes'
  BY <1>1, <1>4, <1>11, Zenon DEF Send!PopRetransmission
<1>12. ASSUME NEW room \in Rooms, Send!PopNew(room) PROVE SendCompletes'
  <2>1. /\ Send!NewBytes(room) > 0 \/ Send!HasFin(0)
        /\ ~canceledWrite /\ UNCHANGED <<completed, completionsS, doing>>
    BY <1>12, Zenon DEF Send!PopNew, Send!PopsNew
  <2>2. dataForWriting = 0 => Send!NewBytes(room) = 0
    BY NewBytesType, Zenon
  <2>3. Send!NewBytes(room) = 0 => ~(Send!NewBytes(room) > 0)
    OBVIOUS
  <2>4. ~finSent
    BY <2>1, <2>2, <2>3, Zenon DEF SendEnds, Send!HasFin
  <2> QED BY <1>1, <1>4, <2>1, <2>4, Zenon
<1>13. ASSUME NEW f \in inFlight, Send!RunLoopReady, Send!frameAcked(f) PROVE SendCompletes'
  <2>1. ~completed
    BY <1>1, <1>13, Zenon
  <2>2. CASE Send!NewlyCompleted(canceledWrite, numOutstandingFrames')
    <3>1. /\ completed' = TRUE /\ doing' = [doing EXCEPT !["RunLoop"] = "completed"]
          /\ UNCHANGED <<completionsS, finSent, canceledWrite, retransmissionQueue>>
      BY <1>13, <2>2, Zenon DEF Send!frameAcked
    <3>2. (finSent \/ canceledWrite) /\ numOutstandingFrames' = 0 /\ retransmissionQueue = <<>>
      BY <2>2, Zenon DEF Send!NewlyCompleted, Send!CanComplete
    <3>3. SendFrames'
      BY <1>13, FramesAcked, Zenon
    <3>4. inFlight' = {}
      BY <3>2, <3>3, FS_EmptySet, Zenon DEF SendFrames
    <3>5. doing["RunLoop"] = "nothing" /\ "RunLoop" \in Send!Actors
      BY <1>13, Zenon DEF Send!RunLoopReady, Send!Actors
    <3> QED BY <1>6, <2>1, <3>1, <3>2, <3>4, <3>5, ZenonT(60)
  <2>3. CASE ~Send!NewlyCompleted(canceledWrite, numOutstandingFrames')
    BY <1>4, <1>13, <2>1, <2>3, Zenon DEF Send!frameAcked
  <2> QED BY <2>2, <2>3, Zenon
<1>14. ASSUME NEW f \in inFlight, Send!queueRetransmission(f) PROVE SendCompletes'
  BY <1>1, <1>4, <1>14, Zenon DEF Send!queueRetransmission
<1>15. CASE Send!Close
  <2>1. "App" \in Send!Actors
    BY Zenon DEF Send!Actors
  <2> QED BY <1>5, <1>15, <2>1, Zenon DEF Send!Close
<1>16. CASE Send!closeForShutdown \/ Send!TimePasses
  BY <1>3, <1>16, Zenon DEF Send!closeForShutdown, Send!TimePasses
<1>17. ASSUME NEW a \in Send!Actors, Send!cancelWriteImpl(a) PROVE SendCompletes'
  <2>1. /\ doing[a] = "nothing" /\ canceledWrite' = TRUE
        /\ UNCHANGED <<inFlight, retransmissionQueue, finSent, completionsS>>
    BY <1>17, Zenon DEF Send!cancelWriteImpl
  <2>2. CASE Send!NewlyCompleted(TRUE, numOutstandingFrames)
    <3>1. completed' = TRUE /\ doing' = [doing EXCEPT ![a] = "resetCompleted"]
      BY <1>17, <2>2, Zenon DEF Send!cancelWriteImpl
    <3>2. numOutstandingFrames = 0 /\ retransmissionQueue = <<>> /\ ~completed
      BY <2>2, Zenon DEF Send!NewlyCompleted, Send!CanComplete
    <3>3. inFlight = {}
      BY <3>2, FS_EmptySet, Zenon DEF SendFrames
    <3> QED BY <1>6, <2>1, <3>1, <3>2, <3>3, ZenonT(60)
  <2>3. CASE ~Send!NewlyCompleted(TRUE, numOutstandingFrames)
    <3>1. doing' = [doing EXCEPT ![a] = "reset"] /\ UNCHANGED completed
      BY <1>17, <2>3, Zenon DEF Send!cancelWriteImpl
    <3> QED BY <1>5, <2>1, <3>1, Zenon
  <2> QED BY <2>2, <2>3, Zenon
<1>18. CASE Send!CloseNotifies
  <2>1. "App" \in Send!Actors
    BY Zenon DEF Send!Actors
  <2> QED BY <1>5, <1>18, <2>1, Zenon DEF Send!CloseNotifies
<1>19. ASSUME NEW a \in Send!Actors, Send!QueueReset(a) PROVE SendCompletes'
  <2>1. /\ doing[a] \in {"reset", "resetCompleted"}
        /\ doing' = [doing EXCEPT ![a] = IF doing[a] = "reset" THEN "nothing" ELSE "completed"]
        /\ UNCHANGED <<completed, inFlight, retransmissionQueue, finSent, completionsS,
                       canceledWrite>>
    BY <1>19 DEF Send!QueueReset
  <2> QED BY <1>5, <2>1, Zenon
<1>20. ASSUME NEW a \in Send!Actors, Send!OnStreamCompleted(a) PROVE SendCompletes'
  <2>1. /\ doing[a] = "completed" /\ completionsS' = completionsS + 1
        /\ doing' = [doing EXCEPT ![a] = "nothing"]
        /\ UNCHANGED <<completed, inFlight, retransmissionQueue, finSent, canceledWrite>>
    BY <1>20, Zenon DEF Send!OnStreamCompleted
  <2>2. CallsIt("App")' + CallsIt("RunLoop")' + 1 = CallsIt("App") + CallsIt("RunLoop")
    BY <2>1 DEF CallsIt, SendFlags, Send!Actors
  <2>3. CallsIt("App")' \in {0, 1} /\ CallsIt("RunLoop")' \in {0, 1}
    BY DEF CallsIt
  <2>4. Calls' = Calls
    BY <2>1, Zenon DEF Calls
  <2>5. /\ completionsS' \in Nat
        /\ completionsS' + CallsIt("App")' + CallsIt("RunLoop")' = Calls
    BY <1>1, <1>2, <2>1, <2>2, <2>3
  <2> QED BY <1>1, <2>1, <2>4, <2>5, Zenon DEF SendCompletes
<1>21. ASSUME NEW d, Send!SetWriteDeadline(d) PROVE SendCompletes'
  BY <1>3, <1>21, Zenon DEF Send!SetWriteDeadline
<1>22. CASE Send!RaiseStreamLimit \/ Send!RaiseConnectionLimit
  BY <1>3, <1>22, Zenon DEF Send!RaiseStreamLimit, Send!RaiseConnectionLimit,
                            Send!handleMaxStreamDataFrame, Send!handleMaxDataFrame
<1> QED
  BY <1>7, <1>8, <1>9, <1>10, <1>11, <1>12, <1>13, <1>14, <1>15, <1>16, <1>17, <1>18, <1>19,
     <1>20, <1>21, <1>22, ZenonT(60)
  DEF Send!Next, Send!Pop, Send!Acked, Send!Lost, Send!After

\* The invariant of the sending half is kept by its steps,
LEMMA SendInvStep ==
    ASSUME SendInv, Send!Next
    PROVE  SendInv'
  BY SendFlagsStep, SendNumbersStep, SendEndsStep, SendFramesStep, SendCompletesStep, ZenonT(60)
  DEF SendInv

\* and holds for a new stream.
LEMMA SendInvInit ==
    ASSUME Send!Init
    PROVE  SendInv
<1> USE DEF Send!Init
<1>1. SendFlags
  BY Zenon DEF SendFlags, Send!Actors
<1>2. SendNumbers
  BY StreamAssumption DEF SendNumbers
<1>3. SendEnds
  BY DEF SendEnds, Send!Actors
<1>4. SendFrames
  <2>1. retransmissionQueue \in Seq(Send!Frame) /\ Distinct(retransmissionQueue)
    BY DEF Distinct
  <2>2. Elements(retransmissionQueue) = {}
    BY DEF Elements
  <2>3. Outstanding = {}
    BY <2>2, Zenon DEF Outstanding
  <2>4. 0 .. writeOffset - 1 = {}
    OBVIOUS
  <2>5. Intervals({}, writeOffset, finSent) /\ Apart({})
    BY Zenon DEF Intervals, Apart
  <2>6. MakeUp({}, ackedBytes, writeOffset)
    BY <2>4, Zenon DEF MakeUp
  <2>7. FinIsThere({}, finSent, finAcked)
    BY Zenon DEF FinIsThere
  <2>8. writeOffset \in Nat /\ finSent \in BOOLEAN /\ finAcked \in BOOLEAN
    BY ZenonT(60)
  <2>9. WellCut(Outstanding, ackedBytes, writeOffset, finSent, finAcked)
    BY <2>3, <2>5, <2>6, <2>7, <2>8, Zenon DEF WellCut
  <2> QED BY <2>1, <2>2, <2>9, FS_EmptySet, Zenon DEF SendFrames
<1>5. SendCompletes
  BY DEF SendCompletes, CallsIt, Calls, Send!Actors
<1> QED BY <1>1, <1>2, <1>3, <1>4, <1>5, ZenonT(60) DEF SendInv

\* What SendInv says of the sending half: its types,
LEMMA SendTypes ==
    ASSUME SendInv
    PROVE  Send!TypeOK
<1>1. SendFlags /\ SendNumbers /\ SendFrames /\ SendCompletes
  BY Zenon DEF SendInv
<1>2. WellCut(Outstanding, ackedBytes, writeOffset, finSent, finAcked)
  BY <1>1, Zenon DEF SendFrames
<1>3. ackedBytes \subseteq 0 .. WriteLength - 1
  <2>1. ackedBytes \subseteq 0 .. writeOffset - 1 /\ writeOffset \in 0 .. WriteLength
    BY <1>1, <1>2, Zenon DEF WellCut, MakeUp, SendNumbers
  <2> QED BY <2>1, StreamAssumption
<1>4. inFlight \subseteq Send!Frame
  BY <1>2, Zenon DEF WellCut, Outstanding
<1>5. completionsS \in 0 .. 2
  BY <1>1 DEF SendCompletes, CallsIt, Calls
<1>6. /\ dataForWriting \in 0 .. WriteLength /\ writeOffset \in 0 .. WriteLength
      /\ {sendWindow, connWindow, lastBlockedAt} \subseteq 0 .. WriteLength
      /\ losses \in 0 .. MaxLosses
      /\ dataBlocked \subseteq 0 .. WriteLength /\ resetOffsets \subseteq 0 .. WriteLength
  BY <1>1, Zenon DEF SendNumbers
<1>7. /\ {finishedWriting, canceledWrite, closedForShutdownS, finSent, completed, writeChan,
         finAcked, active} \subseteq BOOLEAN
      /\ writeDeadline \in {"none", "set", "expired"}
      /\ writer \in {"idle", "notify", "notifyTimer", "wait", "waitTimer"}
      /\ doing \in [Send!Actors -> {"nothing", "close", "reset", "resetCompleted", "completed"}]
  BY <1>1, Zenon DEF SendFlags
<1>8. retransmissionQueue \in Seq(Send!Frame) /\ numOutstandingFrames = Cardinality(inFlight)
  BY <1>1, Zenon DEF SendFrames
<1> QED BY <1>3, <1>4, <1>5, <1>6, <1>7, <1>8, ZenonT(60) DEF Send!TypeOK, Send!Cardinality, Cardinality

\* where every byte is, and the FIN,
LEMMA SendBytes ==
    ASSUME SendInv
    PROVE  EveryByteOnce
<1>1. SendFrames
  BY Zenon DEF SendInv
<1>2. WellCut(Outstanding, ackedBytes, writeOffset, finSent, finAcked)
  BY <1>1, Zenon DEF SendFrames
<1>3. Send!Queued = Elements(retransmissionQueue)
  BY Zenon DEF Send!Queued, Elements
<1>4. Outstanding = inFlight \cup Send!Queued
  BY <1>3, Zenon DEF Outstanding
<1>5. writeOffset \in Nat /\ \A f \in Outstanding : f.start \in Nat /\ f.end \in Nat
  BY <1>2, StreamAssumption DEF WellCut, Send!Frame
<1>6. (UNION {Send!FrameBytes(f) : f \in Outstanding}) \cup ackedBytes = 0 .. writeOffset - 1
  <2>1. ackedBytes \subseteq 0 .. writeOffset - 1
    BY <1>2, Zenon DEF WellCut, MakeUp
  <2>2. ASSUME NEW f \in Outstanding
        PROVE  Send!FrameBytes(f) \subseteq 0 .. writeOffset - 1
    <3>1. f.end <= writeOffset
      BY <1>2, Zenon DEF WellCut, Intervals
    <3> QED BY <1>5, <3>1 DEF Send!FrameBytes
  <2>3. ASSUME NEW b \in 0 .. writeOffset - 1, b \notin ackedBytes
        PROVE  \E f \in Outstanding : b \in Send!FrameBytes(f)
    <3>1. PICK f \in Outstanding : f.start <= b /\ b < f.end
      BY <1>2, <2>3, Zenon DEF WellCut, MakeUp
    <3>2. b \in Send!FrameBytes(f)
      BY <1>5, <3>1 DEF Send!FrameBytes
    <3> QED BY <3>2, Zenon
  <2> QED BY <2>1, <2>2, <2>3, ZenonT(60)
<1>7. ASSUME NEW f \in Outstanding, NEW g \in Outstanding, f # g
      PROVE  Send!FrameBytes(f) \cap Send!FrameBytes(g) = {}
  <2>1. f.end <= g.start \/ g.end <= f.start
    BY <1>2, <1>7, Zenon DEF WellCut, Apart
  <2> QED BY <1>5, <2>1 DEF Send!FrameBytes
<1>8. ASSUME NEW f \in Outstanding
      PROVE  Send!FrameBytes(f) \cap ackedBytes = {}
  <2>1. \A b \in ackedBytes : b < f.start \/ f.end <= b
    BY <1>2, Zenon DEF WellCut, MakeUp
  <2>2. ackedBytes \subseteq Int
    <3>1. ackedBytes \subseteq 0 .. writeOffset - 1
      BY <1>2, Zenon DEF WellCut, MakeUp
    <3> QED BY <3>1
  <2> QED BY <1>5, <2>1, <2>2 DEF Send!FrameBytes
<1> QED BY <1>4, <1>6, <1>7, <1>8, ZenonT(60) DEF EveryByteOnce, Send!EveryByteOnce

\* and that it is completed once, when everything was acknowledged.
LEMMA SendCompletedOnce ==
    ASSUME SendInv
    PROVE  Send!CompletedOnceWhenAcked
<1>1. SendFrames /\ SendCompletes
  BY Zenon DEF SendInv
<1>2. completionsS <= 1
  BY <1>1 DEF SendCompletes, CallsIt, Calls
<1>3. ASSUME completed, ~canceledWrite
      PROVE  finAcked /\ ackedBytes = 0 .. writeOffset - 1
  <2>1. inFlight = {} /\ retransmissionQueue = <<>> /\ finSent
    BY <1>1, <1>3, Zenon DEF SendCompletes
  <2>2. Elements(retransmissionQueue) = {}
    BY <2>1 DEF Elements
  <2>3. WellCut({}, ackedBytes, writeOffset, finSent, finAcked)
    BY <1>1, <2>1, <2>2, Zenon DEF SendFrames, Outstanding
  <2> QED BY <2>1, <2>3, Zenon DEF WellCut, MakeUp, FinIsThere
<1> QED BY <1>2, <1>3, Zenon DEF Send!CompletedOnceWhenAcked

-----------------------------------------------------------------------------
(* The receiving half. *)

\* Types of what is not a number.
ReadFlags ==
    /\ {finRead, canceledRead, resetRemotely, closedForShutdownR, readChan} \subseteq BOOLEAN
    /\ overlapped \in BOOLEAN /\ frames \subseteq (0 .. ReadLength) \X (0 .. ReadLength)
    /\ readDeadline \in {"none", "set", "expired"}
    /\ completing \in [Receive!Actors -> {"no", "check", "abandon", "notify"}]

\* All bytes before the sorter's position were received, and the ones of the
\* current frame that were not read are the last of them.
FramePos ==
    /\ frame \in [nil : BOOLEAN, len : 0 .. ReadLength, last : BOOLEAN]
    /\ posInFrame \in 0 .. frame.len
    /\ frame.nil => frame.len = 0
    /\ sorterPos \in 0 .. ReadLength /\ readOffset \in 0 .. ReadLength
    /\ readOffset = sorterPos - (frame.len - posInFrame)
    /\ frame.last => finalOffset = ReadLength /\ sorterPos = ReadLength

\* What arrived, and the final offset once it is known.
ReceivedBytes ==
    /\ received \subseteq 0 .. ReadLength - 1 /\ highest \in 0 .. ReadLength
    /\ received \subseteq 0 .. highest - 1
    /\ finalOffset \in {ReadLength, Receive!Infinity}
    /\ finalOffset = ReadLength => highest = ReadLength

ReadPositions ==
    /\ FramePos /\ ReceivedBytes
    /\ 0 .. sorterPos - 1 \subseteq received

\* Where Read is when it has released the mutex, or returned.
Stops == {"idle", "wait", "waitTimer", "copy"}

\* Read does not write beyond the slice.
ReaderType ==
    /\ reader \in [pc : Stops \cup {"account", "completing"},
                   space : 0 .. MaxRead, n : 0 .. MaxRead, m : 0 .. MaxRead]
    /\ reader.space + reader.n <= MaxRead

\* Read reports the end after the last byte, and waits only without a frame.
ReaderAt ==
    /\ reader.pc \in Stops \cup {"account", "completing"}
    /\ finRead => sorterPos = ReadLength /\ readOffset = ReadLength
    /\ finRead => reader.pc \in {"idle", "completing"}
    /\ reader.pc = "completing" => finRead
    /\ reader.pc \in {"wait", "waitTimer"} => frame.nil

\* The flags of the receiving half keep their types.
LEMMA ReadFlagsStep ==
    ASSUME ReadFlags, Receive!Next
    PROVE  ReadFlags'
<1> USE DEF ReadFlags, Receive!dataVars, Receive!readVars, Receive!endVars, Receive!flowVars,
            Receive!Actors
<1>1. ASSUME NEW space, Receive!Read(space) PROVE ReadFlags'
  BY <1>1, Zenon DEF Receive!Read
<1>2. CASE Receive!Woken
  BY <1>2, Zenon DEF Receive!Woken
<1>3. CASE Receive!Copy
  BY <1>3, Zenon DEF Receive!Copy
<1>4. CASE Receive!Account
  <2>1. UNCHANGED <<canceledRead, resetRemotely, closedForShutdownR, readChan, readDeadline,
                    frames, overlapped>>
    BY <1>4, Zenon DEF Receive!Account
  <2>2. \/ finRead' = TRUE /\ completing' = [completing EXCEPT !["Read"] = "check"]
        \/ UNCHANGED <<finRead, completing>>
    BY <1>4, Zenon DEF Receive!Account
  <2> QED BY <2>1, <2>2, ZenonT(60)
<1>5. CASE Receive!ReadReturns
  BY <1>5, Zenon DEF Receive!ReadReturns
<1>6. ASSUME NEW a \in Receive!Actors, Receive!CheckFinRead(a) PROVE ReadFlags'
  BY <1>6 DEF Receive!CheckFinRead, Receive!AfterCheck
<1>7. ASSUME NEW a \in Receive!Actors, Receive!Abandon(a) PROVE ReadFlags'
  BY <1>7 DEF Receive!Abandon
<1>8. ASSUME NEW a \in Receive!Actors, Receive!OnStreamCompleted(a) PROVE ReadFlags'
  BY <1>8 DEF Receive!OnStreamCompleted
<1>9. CASE Receive!CancelRead
  BY <1>9 DEF Receive!CancelRead, Receive!signalRead, Receive!Completed
<1>10. CASE Receive!TimePasses
  BY <1>10, Zenon DEF Receive!TimePasses
<1>11. ASSUME NEW d \in {"none", "set"}, Receive!SetReadDeadline(d) PROVE ReadFlags'
  BY <1>11, Zenon DEF Receive!SetReadDeadline, Receive!signalRead
<1>12. ASSUME NEW start \in 0 .. ReadLength, NEW end \in 0 .. ReadLength, NEW fin \in BOOLEAN,
              Receive!handleStreamFrame(start, end, fin)
       PROVE  ReadFlags'
  <2>1. /\ readChan' = TRUE \/ UNCHANGED readChan
        /\ UNCHANGED <<finRead, canceledRead, resetRemotely, closedForShutdownR, readDeadline>>
    BY <1>12, Zenon DEF Receive!handleStreamFrame, Receive!signalRead
  <2>2. \/ completing' = [completing EXCEPT !["RunLoop"] = "check"]
        \/ UNCHANGED completing
    BY <1>12, Zenon DEF Receive!handleStreamFrame, Receive!Completed
  <2>3. \/ UNCHANGED <<frames, overlapped>>
        \/ /\ overlapped' = (overlapped \/ Receive!Overlaps(start, end))
           /\ \/ frames' = {}
              \/ frames' = frames \cup {f \in {<<start, end>>} : start < end}
    BY <1>12, Zenon DEF Receive!handleStreamFrame, Receive!Push
  <2>4. overlapped' \in BOOLEAN
    BY <2>3, Zenon DEF Receive!Overlaps
  <2>5. frames' \subseteq (0 .. ReadLength) \X (0 .. ReadLength)
    <3>1. <<start, end>> \in (0 .. ReadLength) \X (0 .. ReadLength)
      BY <1>12, SMT
    <3> HIDE DEF Receive!Actors
    <3> QED BY <2>3, <3>1, SMTT(60)
  <2> QED BY <2>1, <2>2, <2>4, <2>5, ZenonT(60)
<1>13. CASE Receive!handleResetStreamFrame
  BY <1>13, Zenon DEF Receive!handleResetStreamFrame, Receive!signalRead, Receive!Completed
<1>14. CASE Receive!closeForShutdown
  BY <1>14, Zenon DEF Receive!closeForShutdown, Receive!signalRead
<1> QED
  BY <1>1, <1>2, <1>3, <1>4, <1>5, <1>6, <1>7, <1>8, <1>9, <1>10, <1>11, <1>12, <1>13, <1>14, ZenonT(60)
  DEF Receive!Next, Receive!ReadStep, Receive!CompletedStep

\* dequeueNextFrame, once the current frame is used up.
LEMMA Dequeued ==
    ASSUME ReadPositions, posInFrame >= frame.len, Receive!dequeueNextFrame,
           UNCHANGED <<received, highest, finalOffset, readOffset>>
    PROVE  ReadPositions'
<1>1. FramePos /\ ReceivedBytes /\ 0 .. sorterPos - 1 \subseteq received
  BY Zenon DEF ReadPositions
<1>2. ReceivedBytes'
  BY <1>1, Zenon DEF ReceivedBytes
<1>3. /\ readOffset = sorterPos /\ sorterPos \in 0 .. ReadLength /\ readOffset' = readOffset
      /\ sorterPos' = sorterPos + frame'.len /\ posInFrame' = 0 /\ frame' \in Receive!Dequeued
  <2>1. frame.len \in Nat /\ posInFrame \in 0 .. frame.len /\ sorterPos \in 0 .. ReadLength
        /\ readOffset = sorterPos - (frame.len - posInFrame)
    BY <1>1, StreamAssumption DEF FramePos
  <2>2. readOffset = sorterPos
    BY <2>1, StreamAssumption
  <2> QED BY <2>1, <2>2, Zenon DEF Receive!dequeueNextFrame
<1>4. finalOffset \in {ReadLength, ReadLength + 1}
  BY <1>1, Zenon DEF ReceivedBytes, Receive!Infinity
<1>5. CASE \E k \in Receive!Pieces :
              frame' = [nil |-> FALSE, len |-> k, last |-> sorterPos + k >= finalOffset]
  <2>1. PICK k \in 1 .. ReadLength - sorterPos :
            /\ sorterPos .. sorterPos + k - 1 \subseteq received
            /\ frame' = [nil |-> FALSE, len |-> k, last |-> sorterPos + k >= finalOffset]
    BY <1>5, Zenon DEF Receive!Pieces
  <2>2. (sorterPos + k >= finalOffset) \in BOOLEAN
    OBVIOUS
  <2>3. /\ frame'.nil = FALSE /\ frame'.len = k /\ frame'.last = (sorterPos + k >= finalOffset)
        /\ k \in 0 .. ReadLength
    BY <1>3, <2>1, StreamAssumption
  <2>4. frame' \in [nil : BOOLEAN, len : 0 .. ReadLength, last : BOOLEAN]
    BY <2>1, <2>2, <2>3, ZenonT(60)
  <2>5. /\ sorterPos' = sorterPos + k /\ sorterPos' \in 0 .. ReadLength
        /\ 0 \in 0 .. k /\ readOffset = sorterPos' - (k - 0)
        /\ sorterPos + k >= finalOffset => finalOffset = ReadLength /\ sorterPos' = ReadLength
    BY <1>3, <1>4, <2>1, <2>3, StreamAssumption, SMTT(60)
  <2>6. 0 .. sorterPos' - 1 \subseteq received
    BY <1>1, <1>3, <2>1, <2>5, StreamAssumption
  <2>7. FramePos'
    BY <1>3, <2>3, <2>4, <2>5, <1>1, ZenonT(60) DEF FramePos
  <2> QED BY <1>2, <2>6, <2>7, Zenon DEF ReadPositions
<1>6. CASE frame' = Receive!Nil(sorterPos >= finalOffset)
  <2>1. frame' = [nil |-> TRUE, len |-> 0, last |-> sorterPos >= finalOffset]
    BY <1>6, Zenon DEF Receive!Nil
  <2>2. (sorterPos >= finalOffset) \in BOOLEAN
    OBVIOUS
  <2>3. /\ frame'.len = 0 /\ frame'.last = (sorterPos >= finalOffset) /\ 0 \in 0 .. ReadLength
    BY <2>1, StreamAssumption
  <2>4. frame' \in [nil : BOOLEAN, len : 0 .. ReadLength, last : BOOLEAN]
    BY <2>1, <2>2, <2>3, Zenon
  <2>5. /\ sorterPos' = sorterPos
        /\ 0 \in 0 .. 0 /\ readOffset = sorterPos' - (0 - 0)
        /\ sorterPos >= finalOffset => finalOffset = ReadLength /\ sorterPos' = ReadLength
    BY <1>3, <1>4, <2>3, StreamAssumption
  <2>6. FramePos'
    BY <1>3, <2>3, <2>4, <2>5, <1>1, ZenonT(60) DEF FramePos
  <2> QED BY <1>1, <1>2, <2>5, <2>6, Zenon DEF ReadPositions
<1> QED BY <1>3, <1>5, <1>6, Zenon DEF Receive!Dequeued

\* One turn of Read's outer loop.
LEMMA Turn ==
    ASSUME ReadPositions, NEW space, NEW n, Receive!LoopTurn(space, n),
           UNCHANGED <<received, highest, finalOffset, readOffset>>
    PROVE  /\ ReadPositions'
           /\ \E pc \in Stops :
                 /\ reader' = [pc |-> pc, space |-> space, n |-> n, m |-> 0]
                 /\ pc \in {"wait", "waitTimer"} => frame'.nil
<1>1. ReadPositions'
  <2>1. CASE frame.nil \/ posInFrame >= frame.len
    <3>1. posInFrame >= frame.len
      <4>1. frame.nil => frame.len = 0 /\ posInFrame \in 0 .. frame.len
        BY Zenon DEF ReadPositions, FramePos
      <4>2. ASSUME frame.len = 0, posInFrame \in 0 .. frame.len PROVE posInFrame >= frame.len
        BY <4>2
      <4> QED BY <2>1, <4>1, <4>2, Zenon
    <3> QED BY <2>1, <3>1, Dequeued, Zenon DEF Receive!LoopTurn
  <2>2. CASE ~(frame.nil \/ posInFrame >= frame.len)
    <3>1. UNCHANGED <<frame, sorterPos, posInFrame>>
      BY <2>2, Zenon DEF Receive!LoopTurn
    <3> QED BY <3>1, Zenon DEF ReadPositions, FramePos, ReceivedBytes
  <2> QED BY <2>1, <2>2, Zenon
<1> DEFINE pc == IF frame'.nil /\ n > 0 THEN "idle" ELSE Receive!Continue
<1>2. pc \in Stops /\ (pc \in {"wait", "waitTimer"} => frame'.nil)
  BY Zenon DEF Receive!Continue, Stops
<1>3. reader' = [pc |-> pc, space |-> space, n |-> n, m |-> 0]
  BY Zenon DEF Receive!LoopTurn
<1> QED BY <1>1, <1>2, <1>3, Zenon

\* How many bytes Read copies.
LEMMA CopyType ==
    ASSUME ReadPositions, ReaderType
    PROVE  /\ Receive!BytesToCopy \in Nat
           /\ Receive!BytesToCopy <= reader.space
           /\ posInFrame + Receive!BytesToCopy <= frame.len
<1>1. frame.len \in Nat /\ posInFrame \in 0 .. frame.len
  BY StreamAssumption DEF ReadPositions, FramePos
<1>2. reader.space \in Nat
  BY StreamAssumption DEF ReaderType
<1> QED BY <1>1, <1>2 DEF Receive!BytesToCopy, Receive!MinOf

\* A wider interval holds the bytes of a narrower one.
LEMMA Wider ==
    ASSUME NEW a \in Int, NEW b \in Int, NEW c \in Int, NEW d \in Int, c <= a, b <= d
    PROVE  a .. b - 1 \subseteq c .. d - 1
<1> SUFFICES ASSUME NEW k \in a .. b - 1 PROVE k \in c .. d - 1
  BY Zenon
<1> QED OBVIOUS

\* Read, the sorter and the frames that arrive agree on the positions.
LEMMA ReadPositionsStep ==
    ASSUME ReadPositions, ReaderType, ReaderAt, Receive!Next
    PROVE  ReadPositions'
<1> USE DEF Receive!dataVars, Receive!readVars, Receive!endVars, Receive!flowVars
<1>1. ASSUME UNCHANGED <<received, highest, sorterPos, frame, posInFrame, readOffset, finalOffset>>
      PROVE  ReadPositions'
  BY <1>1, Zenon DEF ReadPositions, FramePos, ReceivedBytes
<1>2. ASSUME NEW space, Receive!Read(space) PROVE ReadPositions'
  BY <1>2, Turn, Zenon DEF Receive!Read
<1>3. CASE Receive!Woken
  <2>1. frame.nil
    BY <1>3, Zenon DEF Receive!Woken, ReaderAt
  <2>2. posInFrame >= frame.len
    <3>1. frame.len = 0 /\ posInFrame \in 0 .. frame.len
      BY <2>1, Zenon DEF ReadPositions, FramePos
    <3> QED BY <3>1
  <2> QED BY <1>3, <2>2, Dequeued, Zenon DEF Receive!Woken
<1>4. CASE Receive!Copy
  <2> DEFINE m == Receive!BytesToCopy
  <2>1. /\ posInFrame' = posInFrame + m /\ readOffset' = readOffset + m
        /\ UNCHANGED <<received, highest, finalOffset, sorterPos, frame>>
    BY <1>4, Zenon DEF Receive!Copy
  <2>2. m \in Nat /\ posInFrame + m <= frame.len
    BY CopyType, Zenon
  <2> HIDE DEF m
  <2>3. FramePos
    BY Zenon DEF ReadPositions
  <2>4. /\ frame.len \in Nat /\ posInFrame \in 0 .. frame.len
        /\ sorterPos \in 0 .. ReadLength /\ readOffset \in 0 .. ReadLength
        /\ readOffset = sorterPos - (frame.len - posInFrame)
    BY <2>3, StreamAssumption DEF FramePos
  <2>5. /\ posInFrame' \in 0 .. frame.len /\ readOffset' \in 0 .. ReadLength
        /\ readOffset' = sorterPos - (frame.len - posInFrame')
    BY <2>1, <2>2, <2>4, StreamAssumption, SMTT(60)
  <2>6. FramePos'
    BY <2>1, <2>3, <2>5, ZenonT(60) DEF FramePos
  <2> QED BY <2>1, <2>6, Zenon DEF ReadPositions, ReceivedBytes
<1>5. CASE Receive!Account
  <2>1. /\ UNCHANGED <<received, highest, finalOffset, readOffset>>
        /\ \/ UNCHANGED <<frame, sorterPos, posInFrame>>
           \/ Receive!LoopTurn(reader.space, reader.n)
    BY <1>5, Zenon DEF Receive!Account
  <2> QED BY <1>1, <2>1, Turn, Zenon
<1>6. CASE Receive!ReadReturns
  BY <1>1, <1>6, Zenon DEF Receive!ReadReturns
<1>7. ASSUME NEW a, Receive!CompletedStep(a) PROVE ReadPositions'
  BY <1>1, <1>7, ZenonT(60) DEF Receive!CompletedStep, Receive!CheckFinRead, Receive!Abandon,
                           Receive!OnStreamCompleted
<1>8. CASE Receive!CancelRead \/ Receive!TimePasses \/ Receive!closeForShutdown
  BY <1>1, <1>8, ZenonT(60) DEF Receive!CancelRead, Receive!TimePasses, Receive!closeForShutdown
<1>9. ASSUME NEW d, Receive!SetReadDeadline(d) PROVE ReadPositions'
  BY <1>1, <1>9, Zenon DEF Receive!SetReadDeadline
<1>10. ASSUME NEW start \in 0 .. ReadLength, NEW end \in 0 .. ReadLength, start <= end,
              NEW fin \in BOOLEAN, fin => end = ReadLength,
              Receive!handleStreamFrame(start, end, fin)
       PROVE  ReadPositions'
  <2>1. /\ highest' = IF end > highest THEN end ELSE highest
        /\ finalOffset' = IF fin THEN end ELSE finalOffset
        /\ received' = received \cup (start .. end - 1) \/ received' = received
        /\ UNCHANGED <<sorterPos, frame, posInFrame, readOffset>>
    BY <1>10, Zenon DEF Receive!handleStreamFrame, Receive!Push
  <2>2. /\ received \subseteq 0 .. ReadLength - 1 /\ highest \in 0 .. ReadLength
        /\ received \subseteq 0 .. highest - 1 /\ 0 .. sorterPos - 1 \subseteq received
        /\ finalOffset = ReadLength => highest = ReadLength
        /\ finalOffset \in {ReadLength, Receive!Infinity}
    BY Zenon DEF ReadPositions, ReceivedBytes
  <2>3. /\ received' \subseteq 0 .. ReadLength - 1 /\ highest' \in 0 .. ReadLength
        /\ received' \subseteq 0 .. highest' - 1
    <3>0. ReadLength \in Nat
      BY StreamAssumption
    <3>1. highest' \in 0 .. ReadLength /\ end <= highest' /\ highest <= highest'
      BY <2>1, <2>2, <3>0
    <3>2. start .. end - 1 \subseteq 0 .. highest' - 1 /\ 0 .. highest - 1 \subseteq 0 .. highest' - 1
      <4>1. start \in Int /\ end \in Int /\ 0 \in Int /\ highest \in Int /\ highest' \in Int
        BY <2>2, <3>0, <3>1
      <4>2. 0 <= start /\ 0 <= 0
        BY <3>0
      <4> QED BY <3>1, <4>1, <4>2, Wider, ZenonT(60)
    <3>3. received' \subseteq 0 .. highest' - 1
      BY <2>1, <2>2, <3>2, Zenon
    <3>4. 0 .. highest' - 1 \subseteq 0 .. ReadLength - 1
      <4>1. 0 \in Int /\ ReadLength \in Int /\ highest' \in Int /\ highest' <= ReadLength /\ 0 <= 0
        BY <3>0, <3>1
      <4> QED BY <4>1, Wider, Zenon
    <3> QED BY <3>1, <3>3, <3>4, Zenon
  <2>4. finalOffset' = ReadLength \/ finalOffset' = finalOffset
    BY <1>10, <2>1, Zenon
  <2>5. finalOffset' = ReadLength => highest' = ReadLength
    <3>1. CASE fin
      BY <1>10, <2>1, <2>2, <3>1, StreamAssumption, SMTT(60)
    <3>2. CASE ~fin
      <4>1. finalOffset' = finalOffset
        BY <2>1, <3>2, Zenon
      <4> QED BY <2>1, <2>2, <4>1, StreamAssumption, SMTT(60)
    <3> QED BY <3>1, <3>2, ZenonT(60)
  <2>6. ReceivedBytes'
    BY <2>2, <2>3, <2>4, <2>5, ZenonT(60) DEF ReceivedBytes
  <2>7. FramePos'
    BY <2>1, <2>4, ZenonT(60) DEF FramePos, ReadPositions
  <2>8. 0 .. sorterPos' - 1 \subseteq received'
    BY <2>1, <2>2, ZenonT(60)
  <2> QED BY <2>6, <2>7, <2>8, Zenon DEF ReadPositions
<1>11. CASE Receive!handleResetStreamFrame
  <2>1. /\ highest' = ReadLength /\ finalOffset' = ReadLength
        /\ UNCHANGED <<received, sorterPos, frame, posInFrame, readOffset>>
    BY <1>11, Zenon DEF Receive!handleResetStreamFrame
  <2>2. ReadLength \in 0 .. ReadLength
    BY StreamAssumption
  <2>3. ReceivedBytes'
    BY <2>1, <2>2, Zenon DEF ReceivedBytes, ReadPositions
  <2>4. FramePos'
    BY <2>1, Zenon DEF FramePos, ReadPositions
  <2> QED BY <2>1, <2>3, <2>4, Zenon DEF ReadPositions
<1> QED
  BY <1>2, <1>3, <1>4, <1>5, <1>6, <1>7, <1>8, <1>9, <1>10, <1>11, ZenonT(60)
  DEF Receive!Next, Receive!ReadStep

\* Read waits only without a frame, and reports the end after the last byte.
LEMMA ReaderStep ==
    ASSUME ReadFlags, ReadPositions, ReaderType, ReaderAt, Receive!Next
    PROVE  ReaderType' /\ ReaderAt'
<1> USE DEF Receive!dataVars, Receive!readVars, Receive!endVars, Receive!flowVars
<1>1. ASSUME UNCHANGED <<sorterPos, frame, readOffset, finRead, reader>>
      PROVE  ReaderType' /\ ReaderAt'
  BY <1>1, Zenon DEF ReaderType, ReaderAt
<1>2. reader = [pc |-> reader.pc, space |-> reader.space, n |-> reader.n, m |-> reader.m]
  BY DEF ReaderType
<1>3. /\ reader.space \in 0 .. MaxRead /\ reader.n \in 0 .. MaxRead /\ reader.m \in 0 .. MaxRead
      /\ reader.space + reader.n <= MaxRead
  BY DEF ReaderType
<1>4. ASSUME NEW pc \in Stops \cup {"account", "completing"}, NEW space \in 0 .. MaxRead,
             NEW n \in 0 .. MaxRead, NEW m \in 0 .. MaxRead, space + n <= MaxRead,
             reader' = [pc |-> pc, space |-> space, n |-> n, m |-> m]
      PROVE  ReaderType' /\ reader'.pc = pc
  BY <1>4 DEF ReaderType
<1>5. 0 \in 0 .. MaxRead
  BY StreamAssumption
<1>6. Stops \subseteq Stops \cup {"account", "completing"} /\ "idle" \in Stops
  BY Zenon DEF Stops
<1>7. ASSUME ~finRead, UNCHANGED finRead, NEW pc \in Stops,
             pc \in {"wait", "waitTimer"} => frame'.nil,
             NEW space \in 0 .. MaxRead, NEW n \in 0 .. MaxRead, space + n <= MaxRead,
             NEW m \in 0 .. MaxRead,
             reader' = [pc |-> pc, space |-> space, n |-> n, m |-> m]
      PROVE  ReaderType' /\ ReaderAt'
  <2>1. ReaderType' /\ reader'.pc = pc
    BY <1>4, <1>6, <1>7, ZenonT(60)
  <2>2. pc # "completing" /\ pc \in Stops \cup {"account", "completing"}
    BY <1>6, <1>7, ZenonT(60) DEF Stops
  <2> QED BY <1>7, <2>1, <2>2, ZenonT(60) DEF ReaderAt
<1>8. ASSUME NEW space \in 1 .. MaxRead, Receive!Read(space) PROVE ReaderType' /\ ReaderAt'
  <2>1. PICK pc \in Stops : /\ reader' = [pc |-> pc, space |-> space, n |-> 0, m |-> 0]
                            /\ pc \in {"wait", "waitTimer"} => frame'.nil
    BY <1>8, Turn, Zenon DEF Receive!Read
  <2>2. ~finRead /\ UNCHANGED finRead
    BY <1>8, Zenon DEF Receive!Read, Receive!MayRead
  <2>3. space \in 0 .. MaxRead /\ space + 0 <= MaxRead
    BY StreamAssumption
  <2> QED BY <1>5, <1>7, <2>1, <2>2, <2>3, ZenonT(60)
<1>9. CASE Receive!Woken
  <2>1. /\ reader.pc \in {"wait", "waitTimer"} /\ UNCHANGED finRead
        /\ reader' = [reader EXCEPT !.pc = Receive!Continue]
    BY <1>9, Zenon DEF Receive!Woken
  <2>2. reader' = [pc |-> Receive!Continue, space |-> reader.space, n |-> reader.n, m |-> reader.m]
    BY <1>2, <2>1
  <2>3. ~finRead
    BY <2>1, Zenon DEF ReaderAt
  <2>4. Receive!Continue \in Stops /\ (Receive!Continue \in {"wait", "waitTimer"} => frame'.nil)
    BY Zenon DEF Receive!Continue, Stops
  <2> QED BY <1>3, <1>7, <2>1, <2>2, <2>3, <2>4, ZenonT(60)
<1>10. CASE Receive!Copy
  <2> DEFINE m == Receive!BytesToCopy
  <2>1. /\ reader.pc = "copy" /\ UNCHANGED <<finRead, frame>>
        /\ reader' = [pc |-> "account", space |-> reader.space - m, n |-> reader.n + m, m |-> m]
    BY <1>10, Zenon DEF Receive!Copy
  <2>2. m \in Nat /\ m <= reader.space
    BY CopyType, Zenon
  <2> HIDE DEF m
  <2>3. /\ reader.space - m \in 0 .. MaxRead /\ reader.n + m \in 0 .. MaxRead /\ m \in 0 .. MaxRead
        /\ (reader.space - m) + (reader.n + m) <= MaxRead
    BY <1>3, <2>2, StreamAssumption
  <2>4. ReaderType' /\ reader'.pc = "account"
    BY <1>4, <2>1, <2>3, Zenon
  <2>5. ~finRead
    BY <2>1, Zenon DEF ReaderAt
  <2> QED BY <2>1, <2>4, <2>5, ZenonT(60) DEF ReaderAt
<1>11. CASE Receive!Account
  <2>1. reader.pc = "account" /\ UNCHANGED readOffset
    BY <1>11, Zenon DEF Receive!Account
  <2>2. ~finRead
    BY <2>1, Zenon DEF ReaderAt
  <2>3. CASE posInFrame >= frame.len /\ frame.last
    <3>1. /\ finRead' = TRUE /\ reader' = [reader EXCEPT !.pc = "completing"]
          /\ UNCHANGED <<frame, sorterPos>>
      BY <1>11, <2>3, Zenon DEF Receive!Account
    <3>2. reader' = [pc |-> "completing", space |-> reader.space, n |-> reader.n, m |-> reader.m]
      BY <1>2, <3>1
    <3>3. ReaderType' /\ reader'.pc = "completing"
      BY <1>3, <1>4, <3>2, Zenon
    <3>4. sorterPos = ReadLength
      BY <2>3, Zenon DEF ReadPositions, FramePos
    <3>5. readOffset = sorterPos
      <4>1. /\ frame.len \in Nat /\ posInFrame \in 0 .. frame.len /\ sorterPos \in Nat
            /\ readOffset = sorterPos - (frame.len - posInFrame)
        BY StreamAssumption DEF ReadPositions, FramePos
      <4>2. posInFrame >= frame.len
        BY <2>3, Zenon
      <4> QED BY <4>1, <4>2
    <3> QED BY <2>1, <3>1, <3>3, <3>4, <3>5, ZenonT(60) DEF ReaderAt
  <2>4. CASE ~(posInFrame >= frame.len /\ frame.last) /\ reader.space > 0
    <3>1. UNCHANGED finRead /\ Receive!LoopTurn(reader.space, reader.n)
      BY <1>11, <2>4, Zenon DEF Receive!Account
    <3>2. UNCHANGED <<received, highest, finalOffset, readOffset>>
      BY <1>11, Zenon DEF Receive!Account
    <3>3. PICK pc \in Stops :
             /\ reader' = [pc |-> pc, space |-> reader.space, n |-> reader.n, m |-> 0]
             /\ pc \in {"wait", "waitTimer"} => frame'.nil
      BY <3>1, <3>2, Turn, ZenonT(60)
    <3> QED BY <1>3, <1>5, <1>7, <2>2, <3>1, <3>3, ZenonT(60)
  <2>5. CASE ~(posInFrame >= frame.len /\ frame.last) /\ ~(reader.space > 0)
    <3>1. UNCHANGED finRead /\ reader' = [reader EXCEPT !.pc = "idle"]
      BY <1>11, <2>5, Zenon DEF Receive!Account
    <3>2. reader' = [pc |-> "idle", space |-> reader.space, n |-> reader.n, m |-> reader.m]
      BY <1>2, <3>1
    <3> QED BY <1>3, <1>6, <1>7, <2>2, <3>1, <3>2, ZenonT(60)
  <2> QED BY <2>3, <2>4, <2>5, Zenon
<1>12. CASE Receive!ReadReturns
  <2>1. /\ reader.pc = "completing" /\ reader' = [reader EXCEPT !.pc = "idle"]
        /\ UNCHANGED <<sorterPos, readOffset, finRead, frame>>
    BY <1>12, Zenon DEF Receive!ReadReturns
  <2>2. reader' = [pc |-> "idle", space |-> reader.space, n |-> reader.n, m |-> reader.m]
    BY <1>2, <2>1
  <2>3. ReaderType' /\ reader'.pc = "idle"
    BY <1>3, <1>4, <1>6, <2>2, ZenonT(60)
  <2> QED BY <1>6, <2>1, <2>3, Zenon DEF ReaderAt
<1>13. ASSUME NEW a, Receive!CompletedStep(a) PROVE ReaderType' /\ ReaderAt'
  BY <1>1, <1>13, Zenon DEF Receive!CompletedStep, Receive!CheckFinRead, Receive!Abandon,
                            Receive!OnStreamCompleted
<1>14. CASE Receive!CancelRead \/ Receive!TimePasses \/ Receive!closeForShutdown
  BY <1>1, <1>14, Zenon DEF Receive!CancelRead, Receive!TimePasses, Receive!closeForShutdown
<1>15. ASSUME NEW d, Receive!SetReadDeadline(d) PROVE ReaderType' /\ ReaderAt'
  BY <1>1, <1>15, Zenon DEF Receive!SetReadDeadline
<1>16. ASSUME NEW start, NEW end, NEW fin, Receive!handleStreamFrame(start, end, fin)
       PROVE  ReaderType' /\ ReaderAt'
  BY <1>1, <1>16, Zenon DEF Receive!handleStreamFrame
<1>17. CASE Receive!handleResetStreamFrame
  BY <1>1, <1>17, Zenon DEF Receive!handleResetStreamFrame
<1> QED
  BY <1>8, <1>9, <1>10, <1>11, <1>12, <1>13, <1>14, <1>15, <1>16, <1>17, ZenonT(60)
  DEF Receive!Next, Receive!ReadStep


\* How far the reader is.
LEMMA Sorted ==
    ASSUME ReadPositions
    PROVE  /\ {readOffset, sorterPos, highest, ReadLength} \subseteq Nat
           /\ readOffset <= sorterPos /\ sorterPos <= highest /\ highest <= ReadLength
<1>1. ReadLength \in Nat
  BY StreamAssumption
<1>2. /\ frame.len \in Nat /\ posInFrame \in 0 .. frame.len
      /\ sorterPos \in 0 .. ReadLength /\ readOffset \in 0 .. ReadLength
      /\ readOffset = sorterPos - (frame.len - posInFrame)
  BY <1>1 DEF ReadPositions, FramePos
<1>3. highest \in 0 .. ReadLength
  BY Zenon DEF ReadPositions, ReceivedBytes
<1>4. sorterPos <= highest
  <2>1. CASE sorterPos = 0
    BY <1>1, <1>3, <2>1
  <2>2. CASE sorterPos > 0
    <3>1. sorterPos - 1 \in 0 .. sorterPos - 1
      BY <1>1, <1>2, <2>2
    <3>2. sorterPos - 1 \in 0 .. highest - 1
      BY <3>1, Zenon DEF ReadPositions, ReceivedBytes
    <3> QED BY <1>1, <1>2, <1>3, <3>2, SMTT(60)
  <2> QED BY <1>1, <1>2, <2>1, <2>2, SMTT(60)
<1> QED BY <1>1, <1>2, <1>3, <1>4, SMTT(60)

\* A step of streamCompleted changes where one actor is.
LEMMA OneCompleting ==
    ASSUME ReadFlags, NEW a \in Receive!Actors, NEW v,
           completing' = [completing EXCEPT ![a] = v]
    PROVE  completing'[a] = v /\ \A b \in Receive!Actors : b # a => completing'[b] = completing[b]
BY DEF ReadFlags

-----------------------------------------------------------------------------
\* Who runs streamCompleted: only when the final offset is known, Read after
\* it read everything, the application after CancelRead, the run loop after
\* CancelRead or RESET_STREAM.
WhoCompletes ==
    /\ \A a \in Receive!Actors : completing[a] # "no" => finalOffset = ReadLength
    /\ completing["Read"] # "abandon"
    /\ completing["Read"] # "no" => finRead
    /\ ~canceledRead => completing["App"] = "no"
    /\ ~canceledRead /\ ~resetRemotely => completing["RunLoop"] = "no"

\* Without CancelRead and RESET_STREAM only Read completes the half, once.
CompletedByRead ==
    ~canceledRead /\ ~resetRemotely =>
        /\ ~finRead => completionsR = 0
        /\ finRead /\ completing["Read"] # "no" => completionsR = 0
        /\ finRead /\ completing["Read"] = "no" => completionsR = 1

\* Every step keeps who may be in streamCompleted.
LEMMA WhoCompletesStep ==
    ASSUME ReadFlags, ReadPositions, ReaderAt, WhoCompletes, Receive!Next
    PROVE  WhoCompletes'
<1> USE DEF Receive!dataVars, Receive!readVars, Receive!endVars, Receive!flowVars
<1>1. ASSUME UNCHANGED <<finalOffset, finRead, canceledRead, resetRemotely, completing>>
      PROVE  WhoCompletes'
  BY <1>1, Zenon DEF WhoCompletes
<1>2. ASSUME NEW space, Receive!Read(space) PROVE WhoCompletes'
  BY <1>1, <1>2, Zenon DEF Receive!Read
<1>3. CASE Receive!Woken
  BY <1>1, <1>3, Zenon DEF Receive!Woken
<1>4. CASE Receive!Copy
  BY <1>1, <1>4, Zenon DEF Receive!Copy
<1>5. CASE Receive!Account
  <2>1. UNCHANGED <<finalOffset, canceledRead, resetRemotely>>
    BY <1>5, ZenonT(60) DEF Receive!Account
  <2>2. \/ /\ frame.last /\ finRead' = TRUE
           /\ completing' = [completing EXCEPT !["Read"] = "check"]
        \/ UNCHANGED <<finRead, completing>>
    BY <1>5, Zenon DEF Receive!Account
  <2>3. ASSUME frame.last, finRead' = TRUE, completing' = [completing EXCEPT !["Read"] = "check"]
        PROVE  WhoCompletes'
    <3>1. "Read" \in Receive!Actors /\ "App" \in Receive!Actors /\ "RunLoop" \in Receive!Actors
      BY Zenon DEF Receive!Actors
    <3>2. /\ completing'["Read"] = "check"
          /\ \A b \in Receive!Actors : b # "Read" => completing'[b] = completing[b]
      BY <2>3, <3>1, OneCompleting, ZenonT(60)
    <3>3. finalOffset = ReadLength
      BY <2>3, Zenon DEF ReadPositions, FramePos
    <3>4. completing'["App"] = completing["App"] /\ completing'["RunLoop"] = completing["RunLoop"]
      BY <3>1, <3>2, Zenon
    <3> QED BY <2>1, <2>3, <3>2, <3>3, <3>4, ZenonT(60) DEF WhoCompletes
  <2> QED BY <1>1, <2>1, <2>2, <2>3, ZenonT(60)
<1>6. CASE Receive!ReadReturns
  BY <1>1, <1>6, Zenon DEF Receive!ReadReturns
<1>7. ASSUME NEW a \in Receive!Actors, Receive!CompletedStep(a) PROVE WhoCompletes'
  <2>1. /\ completing[a] # "no"
        /\ UNCHANGED <<finalOffset, finRead, canceledRead, resetRemotely>>
    BY <1>7, Zenon DEF Receive!CompletedStep, Receive!CheckFinRead, Receive!Abandon,
                       Receive!OnStreamCompleted
  <2>2. PICK v \in {"no", "notify", "abandon"} :
           completing' = [completing EXCEPT ![a] = v] /\ (v = "abandon" => ~finRead)
    BY <1>7, Zenon DEF Receive!CompletedStep, Receive!CheckFinRead, Receive!Abandon,
                       Receive!OnStreamCompleted, Receive!AfterCheck
  <2>3. completing'[a] = v /\ \A b \in Receive!Actors : b # a => completing'[b] = completing[b]
    BY <2>2, OneCompleting, Zenon
  <2>4. \A b \in Receive!Actors : completing'[b] # "no" => completing[b] # "no"
    BY <2>1, <2>3, Zenon
  <2>5. "Read" \in Receive!Actors /\ "App" \in Receive!Actors /\ "RunLoop" \in Receive!Actors
    BY Zenon DEF Receive!Actors
  <2>6. completing'["Read"] # "abandon"
    BY <2>1, <2>2, <2>3, <2>5, ZenonT(60) DEF WhoCompletes
  <2> QED BY <2>1, <2>4, <2>5, <2>6, ZenonT(60) DEF WhoCompletes
<1>8. CASE Receive!CancelRead
  <2>1. /\ ~finRead /\ canceledRead' = TRUE
        /\ UNCHANGED <<finalOffset, finRead, resetRemotely>>
        /\ \/ UNCHANGED completing
           \/ /\ finalOffset # Receive!Infinity
              /\ completing' = [completing EXCEPT !["App"] = "check"]
    BY <1>8, Zenon DEF Receive!CancelRead, Receive!Completed
  <2>2. ASSUME finalOffset # Receive!Infinity, completing' = [completing EXCEPT !["App"] = "check"]
        PROVE  WhoCompletes'
    <3>1. "Read" \in Receive!Actors /\ "App" \in Receive!Actors
      BY Zenon DEF Receive!Actors
    <3>2. \A b \in Receive!Actors : b # "App" => completing'[b] = completing[b]
      BY <2>2, <3>1, OneCompleting, ZenonT(60)
    <3>3. finalOffset = ReadLength
      BY <2>2, Zenon DEF ReadPositions, ReceivedBytes
    <3>4. completing'["Read"] = completing["Read"]
      BY <3>1, <3>2, ZenonT(60)
    <3> QED BY <2>1, <3>3, <3>4, ZenonT(60) DEF WhoCompletes
  <2>3. CASE UNCHANGED completing
    BY <2>1, <2>3, ZenonT(60) DEF WhoCompletes
  <2> QED BY <2>1, <2>2, <2>3, Zenon
<1>9. CASE Receive!TimePasses \/ Receive!closeForShutdown
  BY <1>1, <1>9, Zenon DEF Receive!TimePasses, Receive!closeForShutdown
<1>10. ASSUME NEW d, Receive!SetReadDeadline(d) PROVE WhoCompletes'
  BY <1>1, <1>10, Zenon DEF Receive!SetReadDeadline
<1>11. ASSUME NEW start, NEW end, NEW fin \in BOOLEAN, fin => end = ReadLength,
              Receive!handleStreamFrame(start, end, fin)
       PROVE  WhoCompletes'
  <2>1. /\ UNCHANGED <<finRead, canceledRead, resetRemotely>>
        /\ finalOffset' = IF fin THEN end ELSE finalOffset
        /\ \/ UNCHANGED completing
           \/ fin /\ canceledRead /\ completing' = [completing EXCEPT !["RunLoop"] = "check"]
    BY <1>11, Zenon DEF Receive!handleStreamFrame, Receive!Completed
  <2>2. finalOffset' = ReadLength \/ finalOffset' = finalOffset
    BY <1>11, <2>1, ZenonT(60)
  <2>3. CASE UNCHANGED completing
    BY <2>1, <2>2, <2>3, Zenon DEF WhoCompletes
  <2>4. ASSUME fin, canceledRead, completing' = [completing EXCEPT !["RunLoop"] = "check"]
        PROVE  WhoCompletes'
    <3>1. "Read" \in Receive!Actors /\ "App" \in Receive!Actors /\ "RunLoop" \in Receive!Actors
      BY Zenon DEF Receive!Actors
    <3>2. \A b \in Receive!Actors : b # "RunLoop" => completing'[b] = completing[b]
      BY <2>4, <3>1, OneCompleting, Zenon
    <3>3. finalOffset' = ReadLength
      BY <1>11, <2>1, <2>4, Zenon
    <3>4. completing'["Read"] = completing["Read"] /\ completing'["App"] = completing["App"]
      BY <3>1, <3>2, Zenon
    <3> QED BY <2>1, <2>4, <3>3, <3>4, ZenonT(60) DEF WhoCompletes
  <2> QED BY <2>1, <2>3, <2>4, ZenonT(60)
<1>12. CASE Receive!handleResetStreamFrame
  <2>1. /\ UNCHANGED <<finRead, canceledRead>> /\ finalOffset' = ReadLength
        /\ \/ UNCHANGED <<completing, resetRemotely>>
           \/ resetRemotely' = TRUE /\ completing' = [completing EXCEPT !["RunLoop"] = "check"]
    BY <1>12, Zenon DEF Receive!handleResetStreamFrame, Receive!Completed
  <2>2. CASE UNCHANGED <<completing, resetRemotely>>
    BY <2>1, <2>2, Zenon DEF WhoCompletes
  <2>3. ASSUME resetRemotely' = TRUE, completing' = [completing EXCEPT !["RunLoop"] = "check"]
        PROVE  WhoCompletes'
    <3>1. "Read" \in Receive!Actors /\ "App" \in Receive!Actors /\ "RunLoop" \in Receive!Actors
      BY Zenon DEF Receive!Actors
    <3>2. \A b \in Receive!Actors : b # "RunLoop" => completing'[b] = completing[b]
      BY <2>3, <3>1, OneCompleting, ZenonT(60)
    <3>3. completing'["Read"] = completing["Read"] /\ completing'["App"] = completing["App"]
      BY <3>1, <3>2, ZenonT(60)
    <3> QED BY <2>1, <2>3, <3>3, ZenonT(60) DEF WhoCompletes
  <2> QED BY <2>1, <2>2, <2>3, ZenonT(60)
<1> QED
  BY <1>2, <1>3, <1>4, <1>5, <1>6, <1>7, <1>8, <1>9, <1>10, <1>11, <1>12, ZenonT(60)
  DEF Receive!Next, Receive!ReadStep

\* Every step keeps that Read completes the half once, if nothing else does.
LEMMA CompletedByReadStep ==
    ASSUME ReadFlags, ReaderAt, WhoCompletes, CompletedByRead, Receive!Next
    PROVE  CompletedByRead'
<1> USE DEF Receive!dataVars, Receive!readVars, Receive!endVars, Receive!flowVars
<1>1. ASSUME UNCHANGED <<finRead, completing, completionsR>>,
             ~canceledRead' => ~canceledRead, ~resetRemotely' => ~resetRemotely
      PROVE  CompletedByRead'
  BY <1>1, Zenon DEF CompletedByRead
<1>2. ASSUME NEW space, Receive!Read(space) PROVE CompletedByRead'
  BY <1>1, <1>2, Zenon DEF Receive!Read
<1>3. CASE Receive!Woken
  BY <1>1, <1>3, Zenon DEF Receive!Woken
<1>4. CASE Receive!Copy
  BY <1>1, <1>4, Zenon DEF Receive!Copy
<1>5. CASE Receive!Account
  <2>1. reader.pc = "account" /\ UNCHANGED <<canceledRead, resetRemotely, completionsR>>
    BY <1>5, Zenon DEF Receive!Account
  <2>2. \/ finRead' = TRUE /\ completing' = [completing EXCEPT !["Read"] = "check"]
        \/ UNCHANGED <<finRead, completing>>
    BY <1>5, Zenon DEF Receive!Account
  <2>3. ~finRead
    BY <2>1, Zenon DEF ReaderAt
  <2>4. ASSUME finRead' = TRUE, completing' = [completing EXCEPT !["Read"] = "check"]
        PROVE  CompletedByRead'
    <3>1. "Read" \in Receive!Actors
      BY Zenon DEF Receive!Actors
    <3>2. completing'["Read"] = "check"
      BY <2>4, <3>1, OneCompleting, ZenonT(60)
    <3> QED BY <2>1, <2>3, <2>4, <3>2, ZenonT(60) DEF CompletedByRead
  <2> QED BY <1>1, <2>1, <2>2, <2>4, ZenonT(60)
<1>6. CASE Receive!ReadReturns
  BY <1>1, <1>6, Zenon DEF Receive!ReadReturns
<1>7. ASSUME NEW a \in Receive!Actors, Receive!CompletedStep(a) PROVE CompletedByRead'
  <2>1. completing[a] # "no" /\ UNCHANGED <<finRead, canceledRead, resetRemotely>>
    BY <1>7, Zenon DEF Receive!CompletedStep, Receive!CheckFinRead, Receive!Abandon,
                       Receive!OnStreamCompleted
  <2> SUFFICES ASSUME ~canceledRead, ~resetRemotely PROVE CompletedByRead'
    BY <2>1, ZenonT(60) DEF CompletedByRead
  <2>2. a = "Read" /\ finRead /\ completionsR = 0
    BY <2>1, ZenonT(60) DEF WhoCompletes, CompletedByRead, Receive!Actors
  <2>3. CASE Receive!CheckFinRead(a) \/ Receive!Abandon(a)
    <3>1. PICK v \in {"notify", "abandon"} : completing' = [completing EXCEPT ![a] = v]
      BY <2>3, Zenon DEF Receive!CheckFinRead, Receive!Abandon, Receive!AfterCheck
    <3>2. completing'["Read"] = v
      BY <2>2, <3>1, OneCompleting, ZenonT(60)
    <3>3. UNCHANGED completionsR
      BY <2>3, Zenon DEF Receive!CheckFinRead, Receive!Abandon
    <3> QED BY <2>1, <2>2, <3>1, <3>2, <3>3, ZenonT(60) DEF CompletedByRead
  <2>4. CASE Receive!OnStreamCompleted(a)
    <3>1. completing' = [completing EXCEPT ![a] = "no"] /\ completionsR' = completionsR + 1
      BY <2>4, Zenon DEF Receive!OnStreamCompleted
    <3>2. completing'["Read"] = "no"
      BY <2>2, <3>1, OneCompleting, ZenonT(60)
    <3>3. completionsR' = 1
      BY <2>2, <3>1
    <3> QED BY <2>1, <2>2, <3>2, <3>3, ZenonT(60) DEF CompletedByRead
  <2> QED BY <1>7, <2>3, <2>4, ZenonT(60) DEF Receive!CompletedStep
<1>8. CASE Receive!CancelRead
  BY <1>8, Zenon DEF Receive!CancelRead, CompletedByRead
<1>9. CASE Receive!TimePasses \/ Receive!closeForShutdown
  BY <1>1, <1>9, Zenon DEF Receive!TimePasses, Receive!closeForShutdown
<1>10. ASSUME NEW d, Receive!SetReadDeadline(d) PROVE CompletedByRead'
  BY <1>1, <1>10, Zenon DEF Receive!SetReadDeadline
<1>11. ASSUME NEW start, NEW end, NEW fin, Receive!handleStreamFrame(start, end, fin)
       PROVE  CompletedByRead'
  <2>1. UNCHANGED <<finRead, canceledRead, resetRemotely, completionsR>>
    BY <1>11, Zenon DEF Receive!handleStreamFrame
  <2>2. canceledRead \/ UNCHANGED completing
    BY <1>11, Zenon DEF Receive!handleStreamFrame
  <2> QED BY <2>1, <2>2, Zenon DEF CompletedByRead
<1>12. CASE Receive!handleResetStreamFrame
  <2>1. UNCHANGED <<finRead, canceledRead, completionsR>>
    BY <1>12, Zenon DEF Receive!handleResetStreamFrame
  <2>2. resetRemotely'
    BY <1>12, Zenon DEF Receive!handleResetStreamFrame
  <2> QED BY <2>2, Zenon DEF CompletedByRead
<1> QED
  BY <1>2, <1>3, <1>4, <1>5, <1>6, <1>7, <1>8, <1>9, <1>10, <1>11, <1>12, ZenonT(60)
  DEF Receive!Next, Receive!ReadStep


-----------------------------------------------------------------------------
\* Bytes that Read copied, and did not tell the flow controllers of yet.
Uncounted == IF reader.pc = "account" THEN reader.m ELSE 0

\* The stream's flow controller knows of the other bytes Read returned, until
\* RESET_STREAM came.
StreamCounts ==
    /\ bytesRead \in Nat /\ Uncounted \in Nat
    /\ bytesRead + Uncounted <= readOffset
    /\ ~resetRemotely => bytesRead + Uncounted = readOffset

\* The connection's counts the same bytes, and what Abandon adds.
ConnectionCounts ==
    /\ connBytesRead \in Nat /\ bytesRead <= connBytesRead
    /\ resetRemotely => highest = ReadLength
    /\ ~canceledRead => connBytesRead <= highest
    /\ ~canceledRead /\ ~resetRemotely => connBytesRead = bytesRead
    /\ ~canceledRead /\ completing["RunLoop"] \in {"check", "abandon"} => connBytesRead = bytesRead

\* When the half is completed everything was counted, except after RESET_STREAM.
CompletedCounts ==
    /\ completionsR \in Nat
    /\ ~resetRemotely /\ (completionsR > 0 \/ \E a \in Receive!Actors : completing[a] = "notify")
          => connBytesRead >= ReadLength

\* Which steps count bytes.
LEMMA WhoCounts ==
    ASSUME ReadPositions, ReaderType, ReaderAt, Receive!Next
    PROVE  \/ Receive!Copy
           \/ Receive!Account /\ Uncounted = reader.m /\ Uncounted' = 0
           \/ UNCHANGED <<bytesRead, readOffset>> /\ Uncounted' = Uncounted
<1> USE DEF Receive!dataVars, Receive!readVars, Receive!endVars, Receive!flowVars
<1> DEFINE Other == UNCHANGED <<bytesRead, readOffset>> /\ Uncounted' = Uncounted
<1>1. ASSUME UNCHANGED <<bytesRead, readOffset, reader>> PROVE Other
  BY <1>1, Zenon DEF Uncounted
<1>2. ASSUME UNCHANGED <<bytesRead, readOffset>>, reader.pc # "account", reader'.pc # "account"
      PROVE  Other
  BY <1>2, Zenon DEF Uncounted
<1> HIDE DEF Other
<1>3. ASSUME NEW pc \in Stops, NEW space, NEW n, NEW m,
             reader' = [pc |-> pc, space |-> space, n |-> n, m |-> m]
      PROVE  reader'.pc # "account"
  BY <1>3 DEF Stops
<1>4. ASSUME NEW space, Receive!Read(space) PROVE Other
  <2>1. /\ reader.pc = "idle" /\ Receive!LoopTurn(space, 0)
        /\ UNCHANGED <<received, highest, finalOffset, readOffset, bytesRead>>
    BY <1>4, Zenon DEF Receive!Read
  <2>2. reader'.pc # "account"
    BY <1>3, <2>1, Turn, ZenonT(60)
  <2> QED BY <1>2, <2>1, <2>2, ZenonT(60)
<1>5. ASSUME Receive!Woken PROVE Other
  <2>1. /\ reader.pc \in {"wait", "waitTimer"} /\ UNCHANGED <<bytesRead, readOffset>>
        /\ reader' = [reader EXCEPT !.pc = Receive!Continue]
    BY <1>5, Zenon DEF Receive!Woken
  <2>2. Receive!Continue # "account"
    BY Zenon DEF Receive!Continue
  <2>3. reader'.pc = Receive!Continue
    BY <2>1 DEF ReaderType
  <2> QED BY <1>2, <2>1, <2>2, <2>3, ZenonT(60)
<1>6. CASE Receive!Account
  <2>1. reader.pc = "account" /\ UNCHANGED <<received, highest, finalOffset, readOffset>>
    BY <1>6, Zenon DEF Receive!Account
  <2>2. \/ reader' = [reader EXCEPT !.pc = "completing"]
        \/ reader' = [reader EXCEPT !.pc = "idle"]
        \/ Receive!LoopTurn(reader.space, reader.n)
    BY <1>6, Zenon DEF Receive!Account
  <2>3. ASSUME reader' = [reader EXCEPT !.pc = "completing"] \/ reader' = [reader EXCEPT !.pc = "idle"]
        PROVE  reader'.pc # "account"
    BY <2>3 DEF ReaderType
  <2>4. ASSUME Receive!LoopTurn(reader.space, reader.n) PROVE reader'.pc # "account"
    <3>1. PICK pc \in Stops : reader' = [pc |-> pc, space |-> reader.space, n |-> reader.n, m |-> 0]
      BY <2>1, <2>4, Turn, Zenon
    <3> QED BY <1>3, <3>1, Zenon
  <2> QED BY <1>6, <2>1, <2>2, <2>3, <2>4, ZenonT(60) DEF Uncounted
<1>7. ASSUME Receive!ReadReturns PROVE Other
  <2>1. /\ reader.pc = "completing" /\ UNCHANGED <<bytesRead, readOffset>>
        /\ reader' = [reader EXCEPT !.pc = "idle"]
    BY <1>7, Zenon DEF Receive!ReadReturns
  <2>2. reader'.pc = "idle"
    BY <2>1 DEF ReaderType
  <2> QED BY <1>2, <2>1, <2>2, Zenon
<1>8. ASSUME NEW a, Receive!CompletedStep(a) PROVE Other
  BY <1>1, <1>8, Zenon DEF Receive!CompletedStep, Receive!CheckFinRead, Receive!Abandon,
                           Receive!OnStreamCompleted
<1>9. ASSUME Receive!CancelRead \/ Receive!TimePasses \/ Receive!closeForShutdown PROVE Other
  BY <1>1, <1>9, Zenon DEF Receive!CancelRead, Receive!TimePasses, Receive!closeForShutdown
<1>10. ASSUME NEW d, Receive!SetReadDeadline(d) PROVE Other
  BY <1>1, <1>10, Zenon DEF Receive!SetReadDeadline
<1>11. ASSUME NEW start, NEW end, NEW fin, Receive!handleStreamFrame(start, end, fin) PROVE Other
  BY <1>1, <1>11, Zenon DEF Receive!handleStreamFrame
<1>12. ASSUME Receive!handleResetStreamFrame PROVE Other
  BY <1>1, <1>12, Zenon DEF Receive!handleResetStreamFrame
<1> QED
  BY <1>4, <1>5, <1>6, <1>7, <1>8, <1>9, <1>10, <1>11, <1>12, ZenonT(60)
  DEF Receive!Next, Receive!ReadStep, Other

\* RESET_STREAM is not undone, and neither is CancelRead.
LEMMA ErrorsStay ==
    ASSUME Receive!Next
    PROVE  resetRemotely' \in {resetRemotely, TRUE} /\ canceledRead' \in {canceledRead, TRUE}
<1> USE DEF Receive!dataVars, Receive!readVars, Receive!endVars, Receive!flowVars
<1> DEFINE Stay == resetRemotely' \in {resetRemotely, TRUE} /\ canceledRead' \in {canceledRead, TRUE}
<1>1. ASSUME NEW space, Receive!Read(space) PROVE Stay
  BY <1>1, Zenon DEF Receive!Read
<1>2. CASE Receive!ReadStep
  BY <1>2, Zenon DEF Receive!ReadStep, Receive!Woken, Receive!Copy, Receive!Account,
                     Receive!ReadReturns
<1>3. ASSUME NEW a, Receive!CompletedStep(a) PROVE Stay
  BY <1>3, Zenon DEF Receive!CompletedStep, Receive!CheckFinRead, Receive!Abandon,
                     Receive!OnStreamCompleted
<1>4. CASE Receive!CancelRead \/ Receive!TimePasses \/ Receive!closeForShutdown
  BY <1>4, Zenon DEF Receive!CancelRead, Receive!TimePasses, Receive!closeForShutdown
<1>5. ASSUME NEW d, Receive!SetReadDeadline(d) PROVE Stay
  BY <1>5, Zenon DEF Receive!SetReadDeadline
<1>6. ASSUME NEW start, NEW end, NEW fin, Receive!handleStreamFrame(start, end, fin) PROVE Stay
  BY <1>6, Zenon DEF Receive!handleStreamFrame
<1>7. CASE Receive!handleResetStreamFrame
  BY <1>7, Zenon DEF Receive!handleResetStreamFrame
<1> QED BY <1>1, <1>2, <1>3, <1>4, <1>5, <1>6, <1>7, ZenonT(60) DEF Receive!Next

\* Every step keeps what the stream's flow controller knows.
LEMMA StreamCountsStep ==
    ASSUME ReadPositions, ReaderType, ReaderAt, StreamCounts, Receive!Next
    PROVE  StreamCounts'
<1> USE DEF Receive!dataVars, Receive!readVars, Receive!endVars, Receive!flowVars
<1>1. readOffset \in Nat
  BY Sorted, Zenon
<1>2. CASE Receive!Copy
  <2> DEFINE m == Receive!BytesToCopy
  <2>1. /\ reader.pc = "copy" /\ readOffset' = readOffset + m /\ UNCHANGED <<bytesRead, resetRemotely>>
        /\ reader' = [pc |-> "account", space |-> reader.space - m, n |-> reader.n + m, m |-> m]
    BY <1>2, Zenon DEF Receive!Copy
  <2>2. m \in Nat
    BY CopyType, Zenon
  <2> HIDE DEF m
  <2>3. reader'.pc = "account" /\ reader'.m = m
    BY <2>1
  <2>4. Uncounted = 0 /\ Uncounted' = m
    BY <2>1, <2>3, Zenon DEF Uncounted
  <2>5. CASE resetRemotely
    <3>1. /\ bytesRead' \in Nat /\ Uncounted' \in Nat
          /\ bytesRead' + Uncounted' <= readOffset'
      <4>1. bytesRead \in Nat /\ bytesRead + 0 <= readOffset
        BY <2>4, Zenon DEF StreamCounts
      <4> QED BY <1>1, <2>1, <2>2, <2>4, <4>1, SMTT(60)
    <3> QED BY <2>1, <2>5, <3>1, ZenonT(60) DEF StreamCounts
  <2>6. CASE ~resetRemotely
    <3>1. /\ bytesRead' \in Nat /\ Uncounted' \in Nat
          /\ bytesRead' + Uncounted' <= readOffset' /\ bytesRead' + Uncounted' = readOffset'
      <4>1. bytesRead \in Nat /\ bytesRead + 0 = readOffset
        BY <2>4, <2>6, ZenonT(60) DEF StreamCounts
      <4> QED BY <1>1, <2>1, <2>2, <2>4, <4>1, SMTT(60)
    <3> QED BY <3>1, Zenon DEF StreamCounts
  <2> QED BY <2>5, <2>6, Zenon
<1>3. CASE Receive!Account /\ Uncounted = reader.m /\ Uncounted' = 0
  <2>1. UNCHANGED <<readOffset, resetRemotely>>
    BY <1>3, Zenon DEF Receive!Account
  <2>2. bytesRead \in Nat /\ reader.m \in Nat /\ bytesRead + reader.m <= readOffset
    BY <1>3, Zenon DEF StreamCounts
  <2>3. CASE resetRemotely
    <3>1. bytesRead' = bytesRead
      BY <1>3, <2>3, Zenon DEF Receive!Account, Receive!CountsBytes
    <3>2. bytesRead' \in Nat /\ 0 \in Nat /\ bytesRead' + 0 <= readOffset
      BY <1>1, <2>2, <3>1
    <3> QED BY <1>3, <2>1, <2>3, <3>2, ZenonT(60) DEF StreamCounts
  <2>4. CASE ~resetRemotely
    <3>1. bytesRead' = bytesRead + reader.m
      BY <1>3, <2>4, Zenon DEF Receive!Account, Receive!CountsBytes
    <3>2. bytesRead + reader.m = readOffset
      BY <1>3, <2>4, Zenon DEF StreamCounts
    <3>3. bytesRead' \in Nat /\ 0 \in Nat /\ bytesRead' + 0 <= readOffset /\ bytesRead' + 0 = readOffset
      BY <1>1, <2>2, <3>1, <3>2
    <3> QED BY <1>3, <2>1, <3>3, Zenon DEF StreamCounts
  <2> QED BY <2>3, <2>4, Zenon
<1>4. CASE UNCHANGED <<bytesRead, readOffset>> /\ Uncounted' = Uncounted
  BY <1>4, ErrorsStay, Zenon DEF StreamCounts
<1> QED BY <1>2, <1>3, <1>4, WhoCounts, ZenonT(60)


\* Every step keeps what the connection's flow controller knows.
LEMMA ConnectionCountsStep ==
    ASSUME ReadFlags, ReadPositions, ReaderType, ReaderAt, WhoCompletes, StreamCounts,
           ConnectionCounts, Receive!Next
    PROVE  ConnectionCounts'
<1> USE DEF Receive!dataVars, Receive!readVars, Receive!endVars, Receive!flowVars
<1>1. ASSUME UNCHANGED <<highest, canceledRead, resetRemotely, completing, bytesRead, connBytesRead>>
      PROVE  ConnectionCounts'
  BY <1>1, Zenon DEF ConnectionCounts
<1>2. /\ {readOffset, highest, bytesRead, connBytesRead} \subseteq Nat
      /\ readOffset <= highest /\ bytesRead <= readOffset /\ bytesRead <= connBytesRead
  <2>1. {readOffset, sorterPos, highest} \subseteq Nat /\ readOffset <= sorterPos /\ sorterPos <= highest
    BY Sorted, Zenon
  <2>2. bytesRead \in Nat /\ Uncounted \in Nat /\ bytesRead + Uncounted <= readOffset
    BY Zenon DEF StreamCounts
  <2>3. connBytesRead \in Nat /\ bytesRead <= connBytesRead
    BY Zenon DEF ConnectionCounts
  <2> QED BY <2>1, <2>2, <2>3
<1>3. ASSUME NEW space, Receive!Read(space) PROVE ConnectionCounts'
  BY <1>1, <1>3, ZenonT(60) DEF Receive!Read
<1>4. CASE Receive!Woken
  BY <1>1, <1>4, Zenon DEF Receive!Woken
<1>5. CASE Receive!Copy
  BY <1>1, <1>5, Zenon DEF Receive!Copy
<1>6. CASE Receive!Account
  <2>1. reader.pc = "account" /\ UNCHANGED <<highest, canceledRead, resetRemotely>>
    BY <1>6, Zenon DEF Receive!Account
  <2>2. completing'["RunLoop"] = completing["RunLoop"]
    <3>1. completing' = [completing EXCEPT !["Read"] = "check"] \/ UNCHANGED completing
      BY <1>6, Zenon DEF Receive!Account
    <3>2. "Read" \in Receive!Actors /\ "RunLoop" \in Receive!Actors
      BY Zenon DEF Receive!Actors
    <3> QED BY <3>1, <3>2, OneCompleting, Zenon
  <2>3. CASE resetRemotely
    <3>1. UNCHANGED <<bytesRead, connBytesRead>>
      BY <1>6, <2>3, ZenonT(60) DEF Receive!Account, Receive!CountsBytes
    <3> QED BY <2>1, <2>2, <3>1, ZenonT(60) DEF ConnectionCounts
  <2>4. CASE ~resetRemotely
    <3>1. bytesRead' = bytesRead + reader.m /\ connBytesRead' = connBytesRead + reader.m
      BY <1>6, <2>4, Zenon DEF Receive!Account, Receive!CountsBytes
    <3>2. reader.m \in Nat /\ bytesRead + reader.m = readOffset
      BY <2>1, <2>4, ZenonT(60) DEF StreamCounts, Uncounted
    <3>3. connBytesRead' \in Nat /\ bytesRead' <= connBytesRead'
      BY <1>2, <3>1, <3>2
    <3>4. CASE canceledRead
      BY <2>1, <2>4, <3>3, <3>4, ZenonT(60) DEF ConnectionCounts
    <3>5. CASE ~canceledRead
      <4>1. connBytesRead = bytesRead
        BY <2>4, <3>5, Zenon DEF ConnectionCounts
      <4>2. connBytesRead' = bytesRead' /\ connBytesRead' <= highest
        BY <1>2, <3>1, <3>2, <4>1
      <4> QED BY <2>1, <2>4, <3>3, <4>2, ZenonT(60) DEF ConnectionCounts
    <3> QED BY <3>4, <3>5, Zenon
  <2> QED BY <2>3, <2>4, Zenon
<1>7. CASE Receive!ReadReturns
  BY <1>1, <1>7, Zenon DEF Receive!ReadReturns
<1>8. ASSUME NEW a \in Receive!Actors, Receive!CheckFinRead(a) \/ Receive!OnStreamCompleted(a)
      PROVE  ConnectionCounts'
  <2>1. UNCHANGED <<highest, canceledRead, resetRemotely, bytesRead, connBytesRead>>
    BY <1>8, Zenon DEF Receive!CheckFinRead, Receive!OnStreamCompleted
  <2>2. PICK v : /\ completing' = [completing EXCEPT ![a] = v]
                 /\ v \in {"check", "abandon"} => completing[a] \in {"check", "abandon"}
    BY <1>8, Zenon DEF Receive!CheckFinRead, Receive!OnStreamCompleted
  <2>3. completing'[a] = v /\ \A b \in Receive!Actors : b # a => completing'[b] = completing[b]
    BY <2>2, OneCompleting, Zenon
  <2>4. "RunLoop" \in Receive!Actors
    BY Zenon DEF Receive!Actors
  <2>5. completing'["RunLoop"] \in {"check", "abandon"} => completing["RunLoop"] \in {"check", "abandon"}
    BY <2>2, <2>3, <2>4, Zenon
  <2> QED BY <2>1, <2>5, Zenon DEF ConnectionCounts
<1>9. ASSUME NEW a \in Receive!Actors, Receive!Abandon(a) PROVE ConnectionCounts'
  <2>1. /\ completing[a] = "abandon" /\ completing' = [completing EXCEPT ![a] = "notify"]
        /\ connBytesRead' = connBytesRead + (highest - bytesRead)
        /\ UNCHANGED <<highest, canceledRead, resetRemotely, bytesRead>>
    BY <1>9, Zenon DEF Receive!Abandon
  <2>2. connBytesRead' \in Nat /\ bytesRead <= connBytesRead'
    BY <1>2, <2>1
  <2>3. CASE canceledRead
    BY <2>1, <2>2, <2>3, Zenon DEF ConnectionCounts
  <2>4. CASE ~canceledRead
    <3>1. a = "RunLoop" /\ resetRemotely
      BY <2>1, <2>4, Zenon DEF WhoCompletes, Receive!Actors
    <3>2. completing'["RunLoop"] = "notify"
      BY <2>1, <3>1, OneCompleting, Zenon
    <3>3. connBytesRead = bytesRead
      BY <2>1, <2>4, <3>1, ZenonT(60) DEF ConnectionCounts
    <3>4. connBytesRead' <= highest
      BY <1>2, <2>1, <3>3
    <3> QED BY <2>1, <2>2, <3>1, <3>2, <3>4, ZenonT(60) DEF ConnectionCounts
  <2> QED BY <2>3, <2>4, Zenon
<1>10. CASE Receive!CancelRead
  BY <1>10, Zenon DEF Receive!CancelRead, ConnectionCounts
<1>11. CASE Receive!TimePasses \/ Receive!closeForShutdown
  BY <1>1, <1>11, Zenon DEF Receive!TimePasses, Receive!closeForShutdown
<1>12. ASSUME NEW d, Receive!SetReadDeadline(d) PROVE ConnectionCounts'
  BY <1>1, <1>12, Zenon DEF Receive!SetReadDeadline
<1>13. ASSUME NEW start, NEW end \in 0 .. ReadLength, NEW fin,
              Receive!handleStreamFrame(start, end, fin)
       PROVE  ConnectionCounts'
  <2>1. /\ highest' = IF end > highest THEN end ELSE highest
        /\ UNCHANGED <<canceledRead, resetRemotely, bytesRead, connBytesRead>>
    BY <1>13, Zenon DEF Receive!handleStreamFrame
  <2>2. canceledRead \/ UNCHANGED completing
    BY <1>13, Zenon DEF Receive!handleStreamFrame
  <2>3. ReadLength \in Nat
    BY StreamAssumption
  <2>4. highest = ReadLength => highest' = ReadLength
    BY <1>13, <2>1, <2>3
  <2>5. connBytesRead <= highest => connBytesRead <= highest'
    BY <1>2, <1>13, <2>1, <2>3
  <2> QED BY <2>1, <2>2, <2>4, <2>5, ZenonT(60) DEF ConnectionCounts
<1>14. CASE Receive!handleResetStreamFrame
  <2>1. /\ highest' = ReadLength /\ UNCHANGED <<canceledRead, bytesRead, connBytesRead>>
        /\ (resetRemotely' = TRUE /\ ~resetRemotely) \/ UNCHANGED <<resetRemotely, completing>>
    BY <1>14, Zenon DEF Receive!handleResetStreamFrame
  <2>2. highest <= ReadLength /\ ReadLength \in Nat
    BY Sorted, Zenon
  <2>3. connBytesRead <= highest => connBytesRead <= highest'
    BY <1>2, <2>1, <2>2
  <2> QED BY <2>1, <2>3, Zenon DEF ConnectionCounts
<1> QED
  BY <1>3, <1>4, <1>5, <1>6, <1>7, <1>8, <1>9, <1>10, <1>11, <1>12, <1>13, <1>14, ZenonT(60)
  DEF Receive!Next, Receive!ReadStep, Receive!CompletedStep

\* streamCompleted calls onStreamCompleted after everything was counted.
LEMMA CompletedCountsStep ==
    ASSUME ReadFlags, ReadPositions, ReaderType, ReaderAt, WhoCompletes, StreamCounts,
           ConnectionCounts, CompletedCounts, Receive!Next
    PROVE  CompletedCounts'
<1> USE DEF Receive!dataVars, Receive!readVars, Receive!endVars, Receive!flowVars
<1>1. /\ {readOffset, highest, bytesRead, connBytesRead, ReadLength} \subseteq Nat
      /\ readOffset <= highest /\ bytesRead <= readOffset /\ bytesRead <= connBytesRead
  <2>1. /\ {readOffset, sorterPos, highest, ReadLength} \subseteq Nat
        /\ readOffset <= sorterPos /\ sorterPos <= highest
    BY Sorted, Zenon
  <2>2. bytesRead \in Nat /\ Uncounted \in Nat /\ bytesRead + Uncounted <= readOffset
    BY Zenon DEF StreamCounts
  <2>3. connBytesRead \in Nat /\ bytesRead <= connBytesRead
    BY Zenon DEF ConnectionCounts
  <2> QED BY <2>1, <2>2, <2>3
<1> DEFINE Notified == \E a \in Receive!Actors : completing[a] = "notify"
<1>2. ASSUME connBytesRead >= ReadLength => connBytesRead' >= ReadLength,
             UNCHANGED completionsR, ~resetRemotely' => ~resetRemotely, Notified' => Notified
      PROVE  CompletedCounts'
  BY <1>2, Zenon DEF CompletedCounts
<1>3. ASSUME UNCHANGED <<connBytesRead, completionsR>>, ~resetRemotely' => ~resetRemotely,
             Notified' => Notified
      PROVE  CompletedCounts'
  BY <1>2, <1>3, Zenon
<1>4. ASSUME NEW a \in Receive!Actors, NEW v, v # "notify",
             completing' = [completing EXCEPT ![a] = v]
      PROVE  Notified' => Notified
  <2>1. completing'[a] = v /\ \A b \in Receive!Actors : b # a => completing'[b] = completing[b]
    BY <1>4, OneCompleting, Zenon
  <2> QED BY <1>4, <2>1, Zenon
<1>5. UNCHANGED completing => (Notified' => Notified)
  BY Zenon
<1> HIDE DEF Notified
<1>6. "Read" \in Receive!Actors /\ "App" \in Receive!Actors /\ "RunLoop" \in Receive!Actors
  BY Zenon DEF Receive!Actors
<1>7. ASSUME NEW space, Receive!Read(space) PROVE CompletedCounts'
  BY <1>3, <1>5, <1>7, ZenonT(60) DEF Receive!Read
<1>8. CASE Receive!Woken
  BY <1>3, <1>5, <1>8, Zenon DEF Receive!Woken
<1>9. CASE Receive!Copy
  BY <1>3, <1>5, <1>9, Zenon DEF Receive!Copy
<1>10. CASE Receive!Account
  <2>1. reader.pc = "account" /\ UNCHANGED <<completionsR, resetRemotely>>
    BY <1>10, Zenon DEF Receive!Account
  <2>2. completing' = [completing EXCEPT !["Read"] = "check"] \/ UNCHANGED completing
    BY <1>10, Zenon DEF Receive!Account
  <2>3. Notified' => Notified
    BY <1>4, <1>5, <1>6, <2>2, ZenonT(60)
  <2>4. connBytesRead' = connBytesRead + reader.m \/ connBytesRead' = connBytesRead
    BY <1>10, Zenon DEF Receive!Account
  <2>5. reader.m \in Nat
    BY <2>1, ZenonT(60) DEF StreamCounts, Uncounted
  <2>6. connBytesRead >= ReadLength => connBytesRead' >= ReadLength
    BY <1>1, <2>4, <2>5, SMTT(60)
  <2> QED BY <1>2, <2>1, <2>3, <2>6, ZenonT(60)
<1>11. CASE Receive!ReadReturns
  BY <1>3, <1>5, <1>11, ZenonT(60) DEF Receive!ReadReturns
<1>12. ASSUME NEW a \in Receive!Actors, Receive!CheckFinRead(a) PROVE CompletedCounts'
  <2>1. /\ UNCHANGED <<completionsR, resetRemotely, connBytesRead>>
        /\ completing' = [completing EXCEPT ![a] = Receive!AfterCheck]
    BY <1>12, Zenon DEF Receive!CheckFinRead
  <2>2. CASE ~finRead
    <3>1. Receive!AfterCheck # "notify"
      BY <2>2, Zenon DEF Receive!AfterCheck
    <3>2. Notified' => Notified
      BY <1>4, <2>1, <3>1, ZenonT(60)
    <3> QED BY <1>3, <2>1, <3>2, ZenonT(60)
  <2>3. CASE finRead
    <3>1. ASSUME ~resetRemotely PROVE connBytesRead >= ReadLength
      <4>1. readOffset = ReadLength /\ reader.pc # "account"
        BY <2>3, Zenon DEF ReaderAt
      <4>2. bytesRead + 0 = ReadLength
        BY <3>1, <4>1, Zenon DEF StreamCounts, Uncounted
      <4> QED BY <1>1, <4>2
    <3> QED BY <2>1, <3>1, ZenonT(60) DEF CompletedCounts
  <2> QED BY <2>2, <2>3, Zenon
<1>13. ASSUME NEW a \in Receive!Actors, Receive!Abandon(a) PROVE CompletedCounts'
  <2>1. /\ completing[a] = "abandon" /\ UNCHANGED <<completionsR, resetRemotely>>
        /\ connBytesRead' = connBytesRead + (highest - bytesRead)
    BY <1>13, Zenon DEF Receive!Abandon
  <2>2. highest = ReadLength
    BY <2>1, Zenon DEF WhoCompletes, ReadPositions, ReceivedBytes
  <2>3. connBytesRead' >= ReadLength
    BY <1>1, <2>1, <2>2
  <2> QED BY <2>1, <2>3, Zenon DEF CompletedCounts
<1>14. ASSUME NEW a \in Receive!Actors, Receive!OnStreamCompleted(a) PROVE CompletedCounts'
  <2>1. /\ completing[a] = "notify" /\ UNCHANGED <<connBytesRead, resetRemotely>>
        /\ completionsR' = completionsR + 1
    BY <1>14, Zenon DEF Receive!OnStreamCompleted
  <2>2. completionsR \in Nat
    BY Zenon DEF CompletedCounts
  <2>3. completionsR' \in Nat
    BY <2>1, <2>2
  <2> QED BY <2>1, <2>3, Zenon DEF CompletedCounts
<1>15. CASE Receive!CancelRead
  <2>1. /\ UNCHANGED <<connBytesRead, completionsR, resetRemotely>>
        /\ completing' = [completing EXCEPT !["App"] = "check"] \/ UNCHANGED completing
    BY <1>15, Zenon DEF Receive!CancelRead, Receive!Completed
  <2>2. Notified' => Notified
    BY <1>4, <1>5, <1>6, <2>1, ZenonT(60)
  <2> QED BY <1>3, <2>1, <2>2, ZenonT(60)
<1>16. CASE Receive!TimePasses
  BY <1>3, <1>5, <1>16, ZenonT(60) DEF Receive!TimePasses
<1>17. CASE Receive!closeForShutdown
  BY <1>3, <1>5, <1>17, ZenonT(60) DEF Receive!closeForShutdown
<1>18. ASSUME NEW d, Receive!SetReadDeadline(d) PROVE CompletedCounts'
  BY <1>3, <1>5, <1>18, ZenonT(60) DEF Receive!SetReadDeadline
<1>19. ASSUME NEW start, NEW end, NEW fin, Receive!handleStreamFrame(start, end, fin)
       PROVE  CompletedCounts'
  <2>1. /\ UNCHANGED <<connBytesRead, completionsR, resetRemotely>>
        /\ completing' = [completing EXCEPT !["RunLoop"] = "check"] \/ UNCHANGED completing
    BY <1>19, Zenon DEF Receive!handleStreamFrame, Receive!Completed
  <2>2. Notified' => Notified
    BY <1>4, <1>5, <1>6, <2>1, ZenonT(60)
  <2> QED BY <1>3, <2>1, <2>2, ZenonT(60)
<1>20. CASE Receive!handleResetStreamFrame
  <2>1. UNCHANGED <<connBytesRead, completionsR>> /\ resetRemotely'
    BY <1>20, Zenon DEF Receive!handleResetStreamFrame
  <2> QED BY <2>1, Zenon DEF CompletedCounts
<1> QED
  BY <1>7, <1>8, <1>9, <1>10, <1>11, <1>12, <1>13, <1>14, <1>15, <1>16, <1>17, <1>18, <1>19,
     <1>20, ZenonT(60)
  DEF Receive!Next, Receive!ReadStep, Receive!CompletedStep

-----------------------------------------------------------------------------
(* The receiving half, all together. *)

ReceiveInv ==
    /\ ReadFlags /\ ReadPositions /\ ReaderType /\ ReaderAt
    /\ WhoCompletes /\ CompletedByRead
    /\ StreamCounts /\ ConnectionCounts /\ CompletedCounts

\* The invariant of the receiving half holds for a new stream,
LEMMA ReceiveInvInit ==
    ASSUME Receive!Init
    PROVE  ReceiveInv
<1>1. ReadFlags
  BY Zenon DEF ReadFlags, Receive!Actors, Receive!Init
<1>2. ReadLength \in Nat /\ MaxRead \in Nat
  BY StreamAssumption
<1>3. frame = [nil |-> TRUE, len |-> 0, last |-> FALSE]
  BY Zenon DEF Receive!Nil, Receive!Init
<1>4. FramePos
  <2>1. posInFrame = 0 /\ sorterPos = 0 /\ readOffset = 0
    BY Zenon DEF Receive!Init
  <2>2. frame.len = 0 /\ frame.last = FALSE
    BY <1>3
  <2>3. frame \in [nil : BOOLEAN, len : 0 .. ReadLength, last : BOOLEAN]
    BY <1>2, <1>3
  <2>4. 0 \in 0 .. 0 /\ 0 \in 0 .. ReadLength /\ 0 = 0 - (0 - 0)
    BY <1>2
  <2> QED BY <2>1, <2>2, <2>3, <2>4, Zenon DEF FramePos
<1>5. ReceivedBytes
  <2>1. Receive!Infinity # ReadLength
    BY <1>2 DEF Receive!Infinity
  <2>2. 0 \in 0 .. ReadLength
    BY <1>2
  <2> QED BY <2>1, <2>2, Zenon DEF ReceivedBytes, Receive!Init
<1>6. 0 .. sorterPos - 1 \subseteq received
  <2>1. sorterPos = 0
    BY Zenon DEF Receive!Init
  <2>2. 0 .. sorterPos - 1 = {}
    BY <2>1
  <2> QED BY <2>2, Zenon
<1>7. ReadPositions
  BY <1>4, <1>5, <1>6, ZenonT(60) DEF ReadPositions
<1>8. reader = [pc |-> "idle", space |-> 0, n |-> 0, m |-> 0]
  BY Zenon DEF Receive!Init
<1>9. ReaderType /\ reader.pc = "idle"
  BY <1>2, <1>8 DEF ReaderType, Stops
<1>10. ReaderAt
  BY <1>9, Zenon DEF ReaderAt, Stops, Receive!Init
<1>11. \A a \in Receive!Actors : completing[a] = "no"
  BY DEF Receive!Actors, Receive!Init
<1>12. completing["Read"] = "no" /\ completing["App"] = "no" /\ completing["RunLoop"] = "no"
  BY <1>11, Zenon DEF Receive!Actors
<1>13. WhoCompletes
  BY <1>11, <1>12, Zenon DEF WhoCompletes, Receive!Init
<1>14. CompletedByRead
  BY Zenon DEF CompletedByRead, Receive!Init
<1>15. Uncounted = 0 /\ bytesRead = 0 /\ readOffset = 0 /\ connBytesRead = 0 /\ highest = 0
       /\ completionsR = 0
  BY <1>9, Zenon DEF Uncounted, Receive!Init
<1>16. StreamCounts
  BY <1>15 DEF StreamCounts
<1>17. ConnectionCounts
  <2>1. 0 \in Nat /\ 0 <= 0
    OBVIOUS
  <2> QED BY <1>12, <1>15, <2>1, Zenon DEF ConnectionCounts, Receive!Init
<1>18. CompletedCounts
  <2>1. 0 \in Nat /\ ~(0 > 0)
    OBVIOUS
  <2> QED BY <1>11, <1>15, <2>1, Zenon DEF CompletedCounts
<1> QED BY <1>1, <1>7, <1>9, <1>10, <1>13, <1>14, <1>16, <1>17, <1>18, ZenonT(60) DEF ReceiveInv

\* is kept by its steps,
LEMMA ReceiveInvStep ==
    ASSUME ReceiveInv, Receive!Next
    PROVE  ReceiveInv'
BY ReadFlagsStep, ReadPositionsStep, ReaderStep, WhoCompletesStep, CompletedByReadStep,
   StreamCountsStep, ConnectionCountsStep, CompletedCountsStep, ZenonT(60)
DEF ReceiveInv

\* and by those of the other half.
LEMMA ReceiveInvStays ==
    ASSUME ReceiveInv, UNCHANGED receiveVars
    PROVE  ReceiveInv'
<1> USE DEF receiveVars
<1>1. ReadFlags' /\ ReadPositions'
  BY Zenon DEF ReceiveInv, ReadFlags, ReadPositions, FramePos, ReceivedBytes
<1>2. ReaderType' /\ ReaderAt'
  BY Zenon DEF ReceiveInv, ReaderType, ReaderAt
<1>3. WhoCompletes' /\ CompletedByRead'
  BY Zenon DEF ReceiveInv, WhoCompletes, CompletedByRead
<1>4. Uncounted' = Uncounted
  BY Zenon DEF Uncounted
<1>5. StreamCounts' /\ ConnectionCounts'
  BY <1>4, Zenon DEF ReceiveInv, StreamCounts, ConnectionCounts
<1>6. CompletedCounts'
  BY Zenon DEF ReceiveInv, CompletedCounts
<1> QED BY <1>1, <1>2, <1>3, <1>5, <1>6, ZenonT(60) DEF ReceiveInv

\* The invariant of the sending half is kept by the receiving half's steps.
LEMMA SendInvStays ==
    ASSUME SendInv, UNCHANGED sendVars
    PROVE  SendInv'
<1> USE DEF sendVars
<1>1. SendFlags'
  BY Zenon DEF SendInv, SendFlags
<1>2. SendNumbers'
  BY Zenon DEF SendInv, SendNumbers
<1>3. SendEnds'
  BY Zenon DEF SendInv, SendEnds
<1>4. SendFrames'
  <2>1. Outstanding' = Outstanding
    BY Zenon DEF Outstanding
  <2> QED BY <2>1, Zenon DEF SendInv, SendFrames
<1>5. SendCompletes'
  BY Zenon DEF SendInv, SendCompletes, CallsIt, Calls
<1> QED BY <1>1, <1>2, <1>3, <1>4, <1>5, ZenonT(60) DEF SendInv

\* What ReceiveInv says of the receiving half.
LEMMA ReceiveTypes ==
    ASSUME ReceiveInv
    PROVE  Receive!TypeOK
<1>1. /\ received \subseteq 0 .. ReadLength - 1 /\ highest \in 0 .. ReadLength
      /\ frames \subseteq (0 .. ReadLength) \X (0 .. ReadLength) /\ overlapped \in BOOLEAN
      /\ sorterPos \in 0 .. ReadLength
      /\ frame \in [nil : BOOLEAN, len : 0 .. ReadLength, last : BOOLEAN]
      /\ posInFrame \in 0 .. frame.len /\ readOffset \in 0 .. ReadLength
      /\ finalOffset \in {ReadLength, Receive!Infinity}
  BY Zenon DEF ReceiveInv, ReadPositions, FramePos, ReceivedBytes, ReadFlags
<1>2. /\ finRead \in BOOLEAN /\ canceledRead \in BOOLEAN
      /\ resetRemotely \in BOOLEAN /\ closedForShutdownR \in BOOLEAN
      /\ readChan \in BOOLEAN /\ readDeadline \in {"none", "set", "expired"}
      /\ completing \in [Receive!Actors -> {"no", "check", "abandon", "notify"}]
  BY Zenon DEF ReceiveInv, ReadFlags
<1>3. Stops \cup {"account", "completing"}
         = {"idle", "wait", "waitTimer", "copy", "account", "completing"}
  BY DEF Stops
<1>4. reader \in [pc : {"idle", "wait", "waitTimer", "copy", "account", "completing"},
                  space : 0 .. MaxRead, n : 0 .. MaxRead, m : 0 .. MaxRead]
  BY <1>3, Zenon DEF ReceiveInv, ReaderType
<1>5. connBytesRead \in Nat /\ completionsR \in Nat
  BY Zenon DEF ReceiveInv, ConnectionCounts, CompletedCounts
<1>6. bytesRead \in 0 .. ReadLength
  <2>1. bytesRead \in Nat /\ Uncounted \in Nat /\ bytesRead + Uncounted <= readOffset
    BY Zenon DEF ReceiveInv, StreamCounts
  <2>2. ReadLength \in Nat
    BY StreamAssumption
  <2> QED BY <1>1, <2>1, <2>2
<1> QED BY <1>1, <1>2, <1>4, <1>5, <1>6, ZenonT(60) DEF Receive!TypeOK

\* Read returns the stream in order, and every byte is counted once.
LEMMA ReceivedInOrder ==
    ASSUME ReceiveInv
    PROVE  ReadAndCountedOnce
<1>1. ReadPositions
  BY Zenon DEF ReceiveInv
<1>2. /\ {readOffset, sorterPos, highest, ReadLength} \subseteq Nat
      /\ readOffset <= sorterPos /\ sorterPos <= highest /\ highest <= ReadLength
  BY <1>1, Sorted, Zenon
<1>3. 0 .. readOffset - 1 \subseteq received
  <2>1. 0 \in Int /\ readOffset \in Int /\ sorterPos \in Int /\ 0 <= 0
    BY <1>2
  <2>2. 0 .. readOffset - 1 \subseteq 0 .. sorterPos - 1
    BY <1>2, <2>1, Wider, Zenon
  <2> QED BY <1>1, <2>2, ZenonT(60) DEF ReadPositions
<1>4. readOffset = sorterPos - (frame.len - posInFrame)
  BY <1>1, Zenon DEF ReadPositions, FramePos
<1>5. finRead => readOffset = ReadLength /\ received = 0 .. ReadLength - 1
  BY <1>1, Zenon DEF ReceiveInv, ReaderAt, ReadPositions, ReceivedBytes
<1>6. ~canceledRead => connBytesRead <= highest
  BY Zenon DEF ReceiveInv, ConnectionCounts
<1>7. connBytesRead >= ReadLength => connBytesRead >= highest
  <2>1. connBytesRead \in Nat
    BY Zenon DEF ReceiveInv, ConnectionCounts
  <2> QED BY <1>2, <2>1
<1>8. completionsR > 0 /\ ~resetRemotely => connBytesRead >= highest
  BY <1>7, Zenon DEF ReceiveInv, CompletedCounts
<1>9. ~canceledRead /\ ~resetRemotely => completionsR <= 1
  <2>1. 0 <= 1 /\ 1 <= 1
    OBVIOUS
  <2> QED BY <2>1, Zenon DEF ReceiveInv, CompletedByRead
<1> QED BY <1>3, <1>4, <1>5, <1>6, <1>8, <1>9, ZenonT(60)
        DEF ReadAndCountedOnce, Receive!ReadReturnsTheStream, Receive!AccountedOnce

-----------------------------------------------------------------------------
(* The stream. *)

\* The half not followed never completes; the stream is deleted when the other
\* one completed too, and again only if the followed half completes again.
Deletions ==
    /\ half \in {"send", "receive"} /\ otherCompleted \in BOOLEAN /\ deletions \in Nat
    /\ half = "receive" => completionsS = 0
    /\ half = "send" => completionsR = 0
    /\ ~otherCompleted => deletions = 0
    /\ otherCompleted => deletions > 0 /\ completionsR + completionsS > 0
    /\ completionsR + completionsS <= 1 => deletions <= 1

\* A step calls onStreamCompleted at most once.
LEMMA ReceiveCompletions ==
    ASSUME Receive!Next
    PROVE  completionsR' \in {completionsR, completionsR + 1}
<1> USE DEF Receive!dataVars, Receive!readVars, Receive!endVars, Receive!flowVars
<1> DEFINE Once == completionsR' \in {completionsR, completionsR + 1}
<1>1. ASSUME NEW space, Receive!Read(space) PROVE Once
  BY <1>1, Zenon DEF Receive!Read
<1>2. CASE Receive!ReadStep
  BY <1>2, Zenon DEF Receive!ReadStep, Receive!Woken, Receive!Copy, Receive!Account,
                     Receive!ReadReturns
<1>3. ASSUME NEW a, Receive!CompletedStep(a) PROVE Once
  BY <1>3, Zenon DEF Receive!CompletedStep, Receive!CheckFinRead, Receive!Abandon,
                     Receive!OnStreamCompleted
<1>4. CASE Receive!CancelRead \/ Receive!TimePasses \/ Receive!closeForShutdown
  BY <1>4, Zenon DEF Receive!CancelRead, Receive!TimePasses, Receive!closeForShutdown
<1>5. ASSUME NEW d, Receive!SetReadDeadline(d) PROVE Once
  BY <1>5, Zenon DEF Receive!SetReadDeadline
<1>6. ASSUME NEW start, NEW end, NEW fin, Receive!handleStreamFrame(start, end, fin) PROVE Once
  BY <1>6, Zenon DEF Receive!handleStreamFrame
<1>7. CASE Receive!handleResetStreamFrame
  BY <1>7, Zenon DEF Receive!handleResetStreamFrame
<1> QED BY <1>1, <1>2, <1>3, <1>4, <1>5, <1>6, <1>7, ZenonT(60) DEF Receive!Next

\* The same for the sending half.
LEMMA SendCompletions ==
    ASSUME Send!Next
    PROVE  completionsS' \in {completionsS, completionsS + 1}
<1> USE DEF Send!endVars, Send!writeVars, Send!sentVars, Send!flowVars, Send!doneVars
<1> DEFINE Once == completionsS' \in {completionsS, completionsS + 1}
<1>1. ASSUME NEW n, Send!Write(n) PROVE Once
  BY <1>1, Zenon DEF Send!Write
<1>2. CASE Send!WriteStep
  BY <1>2, Zenon DEF Send!WriteStep, Send!NotifySender, Send!WriteWoken
<1>3. CASE Send!PopNothingMore \/ Send!PopNoRoom
  BY <1>3, Zenon DEF Send!PopNothingMore, Send!PopNoRoom
<1>4. ASSUME NEW room, Send!PopBlocked(room) \/ Send!PopRetransmission(room) \/ Send!PopNew(room)
      PROVE  Once
  BY <1>4, Zenon DEF Send!PopBlocked, Send!PopRetransmission, Send!PopNew
<1>5. ASSUME NEW f, Send!frameAcked(f) \/ Send!queueRetransmission(f) PROVE Once
  BY <1>5, Zenon DEF Send!frameAcked, Send!queueRetransmission
<1>6. CASE Send!Close \/ Send!closeForShutdown \/ Send!TimePasses
  BY <1>6, Zenon DEF Send!Close, Send!closeForShutdown, Send!TimePasses
<1>7. ASSUME NEW a, Send!cancelWriteImpl(a) PROVE Once
  BY <1>7, Zenon DEF Send!cancelWriteImpl
<1>8. CASE Send!CloseNotifies
  BY <1>8, Zenon DEF Send!CloseNotifies
<1>9. ASSUME NEW a, Send!QueueReset(a) \/ Send!OnStreamCompleted(a) PROVE Once
  BY <1>9, Zenon DEF Send!QueueReset, Send!OnStreamCompleted
<1>10. ASSUME NEW d, Send!SetWriteDeadline(d) PROVE Once
  BY <1>10, Zenon DEF Send!SetWriteDeadline
<1>11. CASE Send!RaiseStreamLimit \/ Send!RaiseConnectionLimit
  BY <1>11, Zenon DEF Send!RaiseStreamLimit, Send!RaiseConnectionLimit,
                      Send!handleMaxStreamDataFrame, Send!handleMaxDataFrame
<1> QED
  BY <1>1, <1>2, <1>3, <1>4, <1>5, <1>6, <1>7, <1>8, <1>9, <1>10, <1>11, ZenonT(60)
  DEF Send!Next, Send!Pop, Send!Acked, Send!Lost, Send!After

\* onStreamCompletedImpl after c calls before.
CompletedAgain(c) ==
    /\ otherCompleted' \in IF c = 0 THEN BOOLEAN ELSE {otherCompleted}
    /\ deletions' = deletions + IF checkIfCompleted(TRUE, otherCompleted') THEN 1 ELSE 0

\* What onStreamCompletedImpl does to the counts, for either half.
LEMMA Deleted ==
    ASSUME Deletions, NEW c \in Nat, c = completionsR + completionsS,
           NEW d \in Nat, d = c + 1, CompletedAgain(c)
    PROVE  /\ otherCompleted' \in BOOLEAN /\ deletions' \in Nat
           /\ ~otherCompleted' => deletions' = 0
           /\ otherCompleted' => deletions' > 0
           /\ d > 0 /\ (d <= 1 => deletions' <= 1)
<1>1. deletions \in Nat
  BY Zenon DEF Deletions
<1>2. d > 0
  OBVIOUS
<1>3. otherCompleted' \in BOOLEAN
  BY Zenon DEF Deletions, CompletedAgain
<1>4. c = 0 => ~otherCompleted /\ deletions = 0
  <2>1. c = 0 => ~(c > 0)
    OBVIOUS
  <2> QED BY <2>1, Zenon DEF Deletions
<1>5. CASE otherCompleted'
  <2>1. deletions' = deletions + 1
    BY <1>5, Zenon DEF checkIfCompleted, CompletedAgain
  <2>2. d <= 1 => c = 0
    OBVIOUS
  <2>3. d <= 1 => deletions = 0
    BY <1>4, <2>2, Zenon
  <2>4. deletions' \in Nat /\ deletions' > 0 /\ (d <= 1 => deletions' <= 1)
    BY <1>1, <2>1, <2>3
  <2> QED BY <1>3, <1>5, <1>2, <2>4, ZenonT(60)
<1>6. CASE ~otherCompleted'
  <2>1. deletions' = deletions + 0
    BY <1>6, Zenon DEF checkIfCompleted, CompletedAgain
  <2>2. deletions = 0
    BY <1>4, <1>6, Zenon DEF Deletions, CompletedAgain
  <2>3. deletions' \in Nat /\ deletions' = 0 /\ deletions' <= 1
    BY <2>1, <2>2
  <2> QED BY <1>3, <1>6, <1>2, <2>3, ZenonT(60)
<1> QED BY <1>5, <1>6, Zenon


StreamInv == ReceiveInv /\ SendInv /\ Deletions

\* Every step keeps the count of deletions.
LEMMA DeletionsStep ==
    ASSUME StreamInv, StreamNext
    PROVE  Deletions'
<1>1. Deletions /\ half \in {"send", "receive"}
  BY Zenon DEF StreamInv, Deletions
<1>2. completionsR \in Nat /\ completionsS \in Nat
  BY Zenon DEF StreamInv, ReceiveInv, CompletedCounts, SendInv, SendCompletes
<1>3. ASSUME UNCHANGED <<half, otherCompleted, deletions, completionsR, completionsS>>
      PROVE  Deletions'
  BY <1>1, <1>3, Zenon DEF Deletions
<1>4. CASE Receiving(Receive!Next)
  <2>1. /\ half = "receive" /\ Receive!Next /\ onStreamCompletedImpl(completionsR)
        /\ UNCHANGED <<half, sendVars>>
    BY <1>4, Zenon DEF Receiving
  <2>2. completionsS = 0 /\ completionsS' = 0
    BY <1>1, <2>1, Zenon DEF Deletions, sendVars
  <2>3. CASE completionsR' = completionsR
    BY <1>3, <2>1, <2>2, <2>3, ZenonT(60) DEF onStreamCompletedImpl
  <2>4. CASE completionsR' # completionsR
    <3>1. CompletedAgain(completionsR)
      BY <2>1, <2>4, ZenonT(60) DEF onStreamCompletedImpl, CompletedAgain
    <3>2. completionsR' = completionsR + 1
      BY <2>1, <2>4, ReceiveCompletions, ZenonT(60)
    <3>3. /\ completionsR = completionsR + completionsS /\ completionsR' \in Nat
          /\ completionsR' + completionsS' = completionsR'
      BY <1>2, <2>2, <3>2
    <3>4. /\ otherCompleted' \in BOOLEAN /\ deletions' \in Nat
          /\ ~otherCompleted' => deletions' = 0
          /\ otherCompleted' => deletions' > 0
          /\ completionsR' > 0 /\ (completionsR' <= 1 => deletions' <= 1)
      BY <1>1, <1>2, <3>1, <3>2, <3>3, Deleted, ZenonT(60)
    <3>5. half' = "receive"
      BY <2>1, ZenonT(60)
    <3> QED BY <2>2, <3>3, <3>4, <3>5, ZenonT(60) DEF Deletions
  <2> QED BY <2>3, <2>4, Zenon
<1>5. CASE Sending(Send!Next)
  <2>1. /\ half = "send" /\ Send!Next /\ onStreamCompletedImpl(completionsS)
        /\ UNCHANGED <<half, receiveVars>>
    BY <1>5, Zenon DEF Sending
  <2>2. completionsR = 0 /\ completionsR' = 0
    BY <1>1, <2>1, ZenonT(60) DEF Deletions, receiveVars
  <2>3. CASE completionsS' = completionsS
    BY <1>3, <2>1, <2>2, <2>3, ZenonT(60) DEF onStreamCompletedImpl
  <2>4. CASE completionsS' # completionsS
    <3>1. CompletedAgain(completionsS)
      BY <2>1, <2>4, Zenon DEF onStreamCompletedImpl, CompletedAgain
    <3>2. completionsS' = completionsS + 1
      BY <2>1, <2>4, SendCompletions, ZenonT(60)
    <3>3. /\ completionsS = completionsR + completionsS /\ completionsS' \in Nat
          /\ completionsR' + completionsS' = completionsS'
      BY <1>2, <2>2, <3>2
    <3>4. /\ otherCompleted' \in BOOLEAN /\ deletions' \in Nat
          /\ ~otherCompleted' => deletions' = 0
          /\ otherCompleted' => deletions' > 0
          /\ completionsS' > 0 /\ (completionsS' <= 1 => deletions' <= 1)
      BY <1>1, <1>2, <3>1, <3>2, <3>3, Deleted, ZenonT(60)
    <3>5. half' = "send"
      BY <2>1, Zenon
    <3> QED BY <2>2, <3>3, <3>4, <3>5, ZenonT(60) DEF Deletions
  <2> QED BY <2>3, <2>4, Zenon
<1>6. CASE OtherCompletes
  <2>1. /\ completionsR + completionsS > 0 /\ ~otherCompleted /\ otherCompleted' = TRUE
        /\ deletions' = deletions + 1
        /\ UNCHANGED <<half, completionsR, completionsS>>
    BY <1>6, Zenon DEF OtherCompletes, checkIfCompleted, receiveVars, sendVars
  <2>2. deletions = 0
    BY <1>1, <2>1, Zenon DEF Deletions
  <2>3. deletions' = 1
    BY <2>1, <2>2
  <2>4. 1 \in Nat /\ 1 > 0 /\ 1 <= 1
    OBVIOUS
  <2> QED BY <1>1, <2>1, <2>3, <2>4, ZenonT(60) DEF Deletions
<1> QED BY <1>4, <1>5, <1>6, ZenonT(60) DEF StreamNext

\* The invariant of the stream is inductive,
LEMMA StreamInvStep ==
    ASSUME StreamInv, [StreamNext]_allVars
    PROVE  StreamInv'
<1>1. ReceiveInv /\ SendInv /\ Deletions
  BY Zenon DEF StreamInv
<1>2. CASE Receiving(Receive!Next)
  <2>1. StreamNext /\ Receive!Next /\ UNCHANGED sendVars
    BY <1>2, Zenon DEF Receiving, StreamNext
  <2> QED BY <1>1, <2>1, ReceiveInvStep, SendInvStays, DeletionsStep, ZenonT(60) DEF StreamInv
<1>3. CASE Sending(Send!Next)
  <2>1. StreamNext /\ Send!Next /\ UNCHANGED receiveVars
    BY <1>3, Zenon DEF Sending, StreamNext
  <2> QED BY <1>1, <2>1, SendInvStep, ReceiveInvStays, DeletionsStep, ZenonT(60) DEF StreamInv
<1>4. CASE OtherCompletes
  <2>1. StreamNext /\ UNCHANGED receiveVars /\ UNCHANGED sendVars
    BY <1>4, Zenon DEF OtherCompletes, StreamNext
  <2> QED BY <1>1, <2>1, SendInvStays, ReceiveInvStays, DeletionsStep, ZenonT(60) DEF StreamInv
<1>5. CASE UNCHANGED allVars
  <2>1. UNCHANGED streamVars /\ UNCHANGED receiveVars /\ UNCHANGED sendVars
    BY <1>5, Zenon DEF allVars
  <2>2. UNCHANGED <<half, otherCompleted, deletions, completionsR, completionsS>>
    BY <2>1, Zenon DEF streamVars, receiveVars, sendVars
  <2>3. Deletions'
    BY <1>1, <2>2, Zenon DEF Deletions
  <2> QED BY <1>1, <2>1, <2>3, SendInvStays, ReceiveInvStays, ZenonT(60) DEF StreamInv
<1> QED BY <1>2, <1>3, <1>4, <1>5, ZenonT(60) DEF StreamNext

\* and holds for a new stream.
LEMMA StreamInvInit ==
    ASSUME StreamInit
    PROVE  StreamInv
<1>1. ReceiveInv
  BY ReceiveInvInit, Zenon DEF StreamInit
<1>2. SendInv
  BY SendInvInit, Zenon DEF StreamInit
<1>3. /\ half \in {"send", "receive"} /\ otherCompleted = FALSE /\ deletions = 0
      /\ completionsR = 0 /\ completionsS = 0
  BY Zenon DEF StreamInit, Receive!Init, Send!Init
<1>4. 0 \in Nat /\ 0 <= 1
  OBVIOUS
<1>5. Deletions
  BY <1>3, <1>4, Zenon DEF Deletions
<1> QED BY <1>1, <1>2, <1>5, ZenonT(60) DEF StreamInv

\* The inductive invariant of the two halves and of onStreamCompletedImpl holds
\* for streams of any length, frames of any size, and any order of calls.
THEOREM StreamInvariant == StreamSpec => []StreamInv
<1>1. StreamInit => StreamInv
  BY StreamInvInit, Zenon
<1>2. StreamInv /\ [StreamNext]_allVars => StreamInv'
  BY StreamInvStep, Zenon
<1> QED BY <1>1, <1>2, PTL DEF StreamSpec

\* All variables of both halves keep their types: no counter of the flow
\* controllers runs past the stream, no position leaves the frame it is in.
THEOREM StreamTypeCorrect == StreamSpec => []StreamTypeOK
<1>1. StreamInv => StreamTypeOK
  BY ReceiveTypes, SendTypes, ZenonT(60) DEF StreamInv, Deletions, StreamTypeOK
<1> QED BY <1>1, StreamInvariant, PTL

\* Read returns the bytes received in order and the end after all of them, and
\* AddBytesRead and Abandon count every byte once (receive_stream.go), however
\* frames, CancelRead, RESET_STREAM, deadlines and Read interleave.
THEOREM ReadOnceInOrder == StreamSpec => []ReadAndCountedOnce
<1>1. StreamInv => ReadAndCountedOnce
  BY ReceivedInOrder, ZenonT(60) DEF StreamInv
<1> QED BY <1>1, StreamInvariant, PTL

\* Every byte popped from the stream is acknowledged, in flight or queued for
\* retransmission, once, and so is the FIN (send_stream.go).
THEOREM BytesNeverForgotten == StreamSpec => []EveryByteOnce
<1>1. StreamInv => EveryByteOnce
  BY SendBytes, Zenon DEF StreamInv
<1> QED BY <1>1, StreamInvariant, PTL

\* The streams map is told once to delete the stream, when both halves are
\* completed (stream.go), unless the receiving half was canceled or reset.
THEOREM DeletedOnce == StreamSpec => []DeletedOnceWhenCompleted
<1>1. ASSUME StreamInv PROVE DeletedOnceWhenCompleted
  <2>1. ReceiveInv /\ SendInv /\ Deletions
    BY <1>1, Zenon DEF StreamInv
  <2>2. Send!CompletedOnceWhenAcked
    BY <2>1, SendCompletedOnce, Zenon
  <2>3. /\ deletions \in Nat /\ completionsR \in Nat /\ completionsS \in Nat
    BY <2>1, Zenon DEF Deletions, ReceiveInv, CompletedCounts, SendInv, SendCompletes
  <2>4. deletions > 0 => otherCompleted /\ completionsR + completionsS > 0
    <3>1. deletions = 0 => ~(deletions > 0)
      OBVIOUS
    <3> QED BY <2>1, <3>1, Zenon DEF Deletions
  <2>5. ASSUME ~canceledRead, ~resetRemotely PROVE deletions <= 1
    <3>1. completionsR = 0 \/ completionsR = 1
      BY <2>1, <2>5, Zenon DEF ReceiveInv, CompletedByRead
    <3>2. completionsS <= 1
      BY <2>2, Zenon DEF Send!CompletedOnceWhenAcked
    <3>3. completionsR = 0 \/ completionsS = 0
      BY <2>1, Zenon DEF Deletions
    <3>4. completionsR + completionsS <= 1
      BY <2>3, <3>1, <3>2, <3>3, SMTT(60)
    <3> QED BY <2>1, <3>4, Zenon DEF Deletions
  <2>6. otherCompleted => deletions > 0
    BY <2>1, Zenon DEF Deletions
  <2> QED BY <2>2, <2>4, <2>5, <2>6, ZenonT(60) DEF DeletedOnceWhenCompleted
<1> QED BY <1>1, StreamInvariant, PTL

\* No byte is sent after a FIN or a RESET_STREAM with the final offset.
THEOREM FinalOffsetStays == StreamSpec => FinalOffsetIsFinal
<1> DEFINE Stays == (finSent \/ resetOffsets # {}) => writeOffset' = writeOffset
<1>1. ASSUME StreamInv, [StreamNext]_allVars PROVE [Stays]_Send!vars
  <2>1. CASE Sending(Send!Next)
    <3>1. SendFlags /\ SendNumbers /\ SendEnds /\ Send!Next
      BY <1>1, <2>1, Zenon DEF StreamInv, SendInv, Sending
    <3> QED BY <3>1, SendEndsStep, Zenon
  <2>2. CASE UNCHANGED sendVars
    BY <2>2, Zenon DEF sendVars
  <2>3. Sending(Send!Next) \/ UNCHANGED sendVars
    BY <1>1, Zenon DEF StreamNext, Receiving, OtherCompletes, allVars
  <2> QED BY <2>1, <2>2, <2>3, Zenon
<1>2. StreamInv /\ [StreamNext]_allVars => [Stays]_Send!vars
  BY <1>1, Zenon
<1>3. [][Stays]_Send!vars => FinalOffsetIsFinal
  BY PTL DEF FinalOffsetIsFinal, Send!FinalOffsetIsFinal
<1> HIDE DEF Stays
<1> QED BY <1>2, <1>3, StreamInvariant, PTL DEF StreamSpec
=============================================================================
