-------------------------- MODULE LossRecoveryProofs --------------------------
(***************************************************************************)
(* Loss recovery for any number of packets, numbers and frames: the sender *)
(* loses track of no frame, and the receiver's ACKs are exact, however     *)
(* packets and ACKs are lost, repeated and reordered.                      *)
(***************************************************************************)
EXTENDS LossRecovery, FiniteSetTheorems, WellFoundedInduction, SequenceTheorems, TLAPS

-----------------------------------------------------------------------------
(* Numbers. *)

\* A set of natural numbers has a least element.
LEMMA LeastNat ==
    ASSUME NEW T \in SUBSET Nat, T # {}
    PROVE  \E x \in T : \A y \in T : x <= y
<1>1. PICK x \in T : \A y \in T : <<y, x>> \notin OpToRel(<, Nat)
  BY NatLessThanWellFounded, WFMin, Zenon
<1>2. \A y \in T : ~(y < x)
  BY <1>1, Zenon DEF OpToRel
<1> QED BY <1>2

\* The largest element of a bounded set of numbers.
LEMMA MaxOf ==
    ASSUME NEW S \in SUBSET Int, NEW N \in Int, S # {}, \A x \in S : x <= N
    PROVE  Max(S) \in S /\ \A x \in S : x <= Max(S)
<1> DEFINE T == {N - x : x \in S}
<1>1. T \in SUBSET Nat /\ T # {}
  <2>1. ASSUME NEW x \in S PROVE N - x \in Nat
    OBVIOUS
  <2>2. PICK x \in S : TRUE
    BY Zenon
  <2>3. N - x \in T
    OBVIOUS
  <2> QED BY <2>1, <2>3, Zenon
<1>2. PICK t \in T : \A y \in T : t <= y
  BY <1>1, LeastNat, Zenon
<1>3. PICK m \in S : t = N - m
  BY <1>2
<1>4. ASSUME NEW x \in S PROVE m >= x
  <2>1. N - x \in T
    OBVIOUS
  <2>2. t <= N - x
    BY <1>2, <2>1
  <2> QED BY <1>3, <2>2
<1>5. Max(S) \in S /\ \A y \in S : Max(S) >= y
  BY <1>3, <1>4, Zenon DEF Max
<1> QED BY <1>5

\* The larger of two numbers.
LEMMA MaxOfTwo ==
    ASSUME NEW a \in Int, NEW b \in Int
    PROVE  Max({a, b}) = IF a >= b THEN a ELSE b
<1>1. Max({a, b}) \in {a, b} /\ \A y \in {a, b} : Max({a, b}) >= y
  BY DEF Max
<1> QED BY <1>1

\* The smallest element of a set of natural numbers.
LEMMA MinOf ==
    ASSUME NEW S \in SUBSET Nat, S # {}
    PROVE  Min(S) \in S /\ \A x \in S : Min(S) <= x
<1>1. PICK m \in S : \A y \in S : m <= y
  BY LeastNat
<1> QED BY <1>1, Zenon DEF Min

-----------------------------------------------------------------------------


-----------------------------------------------------------------------------
(* The sender. *)

Histories == UNION {[D -> Frames \cup {Ping}] : D \in SUBSET Nat}
Handlers ==
    [history : [Spaces -> Histories], largestAcked : [Spaces -> Int],
     lossTime : [Spaces -> BOOLEAN], dropped : BOOLEAN,
     bytesInFlight : Int, alarm : BOOLEAN, numProbesToSend : Nat]

\* Frame f waits in q, or was acknowledged, or one packet of H carries it.
InOnePlace(f, H, q, a) ==
    /\ \A m, n \in DOMAIN H : H[m] = f /\ H[n] = f => m = n
    /\ (\E n \in DOMAIN H : H[n] = f) => f \notin q /\ f \notin a
    /\ f \in q => f \notin a
    /\ f \in q \/ f \in a \/ \E n \in DOMAIN H : H[n] = f

Live(hh, s) == s = OneRTT \/ ~hh.dropped
Located(hh, q, a) ==
    \A s \in Spaces : Live(hh, s) => \A f \in FramesOf[s] : InOnePlace(f, hh.history[s], q, a)

\* Outstanding packets have numbers that were given away, and frames of their space.
Outstanding(hh, nx) ==
    \A s \in Spaces : \A n \in DOMAIN hh.history[s] :
        n \in 0 .. nx[s] - 1 /\ hh.history[s][n] \in FramesOf[s] \cup {Ping}

Counted(hh) == hh.bytesInFlight = Tracked(hh)
Armed(hh) == Tracked(hh) > 0 => hh.alarm

Sender(hh, nx, q, a) ==
    hh \in Handlers /\ Outstanding(hh, nx) /\ Counted(hh) /\ Located(hh, q, a)

SenderInv ==
    /\ next \in [Spaces -> Nat] /\ queue \in SUBSET (Frames \cup {Ping})
    /\ Sender(h, next, queue, acked)
    /\ Armed(h)

\* The two spaces, and what is in them.
LEMMA TwoSpaces ==
    /\ Crypto \in Spaces /\ OneRTT \in Spaces /\ Crypto # OneRTT
    /\ \A s \in Spaces : s = Crypto \/ s = OneRTT
    /\ \A s \in Spaces : FramesOf[s] \subseteq Frames /\ Ping \notin FramesOf[s]
    /\ \A s, t \in Spaces : s # t => FramesOf[s] \cap FramesOf[t] = {}
    /\ Frames = FramesOf[Crypto] \cup FramesOf[OneRTT]
BY LossRecoveryAssumption, Zenon DEF Spaces, Frames

\* A history is a function from numbers to frames.
LEMMA History ==
    /\ \A H \in Histories : DOMAIN H \in SUBSET Nat /\ H \in [DOMAIN H -> Frames \cup {Ping}]
    /\ \A D \in SUBSET Nat : \A H \in [D -> Frames \cup {Ping}] : H \in Histories
BY Zenon DEF Histories

\* The packets of a history that may be outstanding are finitely many.
LEMMA FiniteHistories ==
    ASSUME NEW nx \in [Spaces -> Nat], NEW hh, Outstanding(hh, nx), NEW s \in Spaces
    PROVE  IsFiniteSet(DOMAIN hh.history[s]) /\ Cardinality(DOMAIN hh.history[s]) \in Nat
<1>1. DOMAIN hh.history[s] \subseteq 0 .. nx[s] - 1
  BY DEF Outstanding
<1>2. IsFiniteSet(0 .. nx[s] - 1)
  BY FS_Interval
<1> QED BY <1>1, <1>2, FS_Subset, FS_CardinalityType, ZenonT(60)

\* What RemovePackets does to the fields of the handler.
LEMMA RemoveFields ==
    ASSUME NEW hh \in Handlers, NEW s \in Spaces, NEW S,
           BytesOf(S) \in Int
    PROVE  LET g == RemovePackets(hh, s, S) IN
           /\ g \in Handlers
           /\ g.history[s] = Without(hh.history[s], S)
           /\ \A t \in Spaces : t # s => g.history[t] = hh.history[t]
           /\ g.bytesInFlight = hh.bytesInFlight - BytesOf(S)
           /\ g.dropped = hh.dropped /\ g.alarm = hh.alarm
           /\ g.largestAcked = hh.largestAcked /\ g.lossTime = hh.lossTime
           /\ g.numProbesToSend = hh.numProbesToSend
<1> DEFINE H == hh.history[s]
<1>1. H \in Histories
  BY DEF Handlers
<1>2. Without(H, S) \in Histories
  <2>1. DOMAIN H \in SUBSET Nat /\ H \in [DOMAIN H -> Frames \cup {Ping}]
    BY <1>1, History, Zenon
  <2>2. DOMAIN H \ S \in SUBSET Nat
    BY <2>1, Zenon
  <2>3. Without(H, S) \in [DOMAIN H \ S -> Frames \cup {Ping}]
    BY <2>1, Zenon DEF Without
  <2> QED BY <2>2, <2>3, History, ZenonT(60)
<1> DEFINE K == [hh.history EXCEPT ![s] = Without(H, S)]
           b == hh.bytesInFlight - BytesOf(S)
<1>3. /\ K \in [Spaces -> Histories] /\ K[s] = Without(H, S)
      /\ \A t \in Spaces : t # s => K[t] = hh.history[t]
  <2> HIDE DEF H
  <2> QED BY <1>2 DEF Handlers
<1>4. b \in Int
  BY DEF Handlers
<1>5. RemovePackets(hh, s, S) = [hh EXCEPT !.history = K, !.bytesInFlight = b]
  BY DEF RemovePackets, Handlers
<1> HIDE DEF K, b, H
<1> DEFINE g == [hh EXCEPT !.history = K, !.bytesInFlight = b]
<1>6. /\ g \in Handlers /\ g.history = K /\ g.bytesInFlight = b
      /\ g.dropped = hh.dropped /\ g.alarm = hh.alarm
      /\ g.largestAcked = hh.largestAcked /\ g.lossTime = hh.lossTime
      /\ g.numProbesToSend = hh.numProbesToSend
  BY <1>3, <1>4, ZenonT(60) DEF Handlers
<1> HIDE DEF g
<1> QED BY <1>3, <1>5, <1>6 DEF g, H, b

\* Packets that are removed are no longer counted.
LEMMA RemoveCount ==
    ASSUME NEW nx \in [Spaces -> Nat], NEW hh \in Handlers, Outstanding(hh, nx), Counted(hh),
           NEW s \in Spaces, NEW S \in SUBSET DOMAIN hh.history[s]
    PROVE  LET g == RemovePackets(hh, s, S) IN
           /\ BytesOf(S) \in Nat /\ Outstanding(g, nx) /\ Counted(g)
           /\ Tracked(g) \in Nat /\ Tracked(g) <= Tracked(hh)
<1> DEFINE g == RemovePackets(hh, s, S)
           H == hh.history[s]
<1>1. IsFiniteSet(DOMAIN H) /\ Cardinality(DOMAIN H) \in Nat
  BY FiniteHistories
<1>2. IsFiniteSet(S) /\ Cardinality(S) \in Nat
  BY <1>1, FS_Subset, FS_CardinalityType
<1>3. Cardinality(DOMAIN H \ S) = Cardinality(DOMAIN H) - Cardinality(S)
  <2>1. Cardinality(DOMAIN H \ S) = Cardinality(DOMAIN H) - Cardinality(DOMAIN H \cap S)
    BY <1>1, FS_Difference, ZenonT(60)
  <2>2. DOMAIN H \cap S = S
    OBVIOUS
  <2> QED BY <2>1, <2>2, Zenon
<1>4. Cardinality(DOMAIN H \ S) \in Nat
  BY <1>1, FS_Subset, FS_CardinalityType
<1>5. /\ g.history[s] = Without(H, S)
      /\ \A t \in Spaces : t # s => g.history[t] = hh.history[t]
      /\ g.bytesInFlight = hh.bytesInFlight - Cardinality(S)
  BY <1>2, RemoveFields, SMTT(60) DEF BytesOf
<1>6. DOMAIN Without(H, S) = DOMAIN H \ S
  BY DEF Without
<1>7. \A t \in Spaces : Cardinality(DOMAIN hh.history[t]) \in Nat
  BY FiniteHistories
<1>8. Tracked(g) = Tracked(hh) - Cardinality(S)
  <2> HIDE DEF g
  <2>1. CASE s = Crypto
    BY <1>3, <1>5, <1>6, <1>7, <2>1, <1>2, TwoSpaces, SMTT(60) DEF Tracked
  <2>2. CASE s = OneRTT
    BY <1>3, <1>5, <1>6, <1>7, <2>2, <1>2, TwoSpaces, SMTT(60) DEF Tracked
  <2> QED BY <2>1, <2>2, TwoSpaces, Zenon
<1>9. Tracked(hh) \in Nat /\ hh.bytesInFlight = Tracked(hh)
  BY <1>7, TwoSpaces, SMTT(60) DEF Tracked, Counted
<1>10. Tracked(g) \in Nat
  <2>1. \A t \in Spaces : Cardinality(DOMAIN g.history[t]) \in Nat
    BY <1>4, <1>5, <1>6, <1>7, Zenon
  <2> QED BY <2>1, TwoSpaces, SMTT(60) DEF Tracked
<1>11. Outstanding(g, nx)
  <2> SUFFICES ASSUME NEW t \in Spaces, NEW n \in DOMAIN g.history[t]
               PROVE  n \in 0 .. nx[t] - 1 /\ g.history[t][n] \in FramesOf[t] \cup {Ping}
    BY DEF Outstanding
  <2>1. n \in DOMAIN hh.history[t] /\ g.history[t][n] = hh.history[t][n]
    BY <1>5, <1>6, ZenonT(60) DEF Without
  <2> QED BY <2>1, ZenonT(60) DEF Outstanding
<1> QED BY <1>2, <1>5, <1>8, <1>9, <1>10, <1>11 DEF Counted, BytesOf

\* Sender does not read the times, the probes and what was acknowledged.
LEMMA SameFrames ==
    ASSUME NEW nx, NEW q, NEW a, NEW hh, Sender(hh, nx, q, a),
           NEW g \in Handlers, g.history = hh.history, g.bytesInFlight = hh.bytesInFlight,
           g.dropped = hh.dropped
    PROVE  Sender(g, nx, q, a) /\ Tracked(g) = Tracked(hh)
BY DEF Sender, Outstanding, Counted, Tracked, Located, Live

\* Packets are declared lost: their frames wait in the queue again.
LEMMA Lose ==
    ASSUME NEW nx \in [Spaces -> Nat], NEW q, NEW a, NEW hh, Sender(hh, nx, q, a),
           NEW s \in Spaces, NEW S \in SUBSET DOMAIN hh.history[s]
    PROVE  Sender(RemovePackets(hh, s, S), nx, q \cup FramesIn(hh.history[s], S), a)
<1> DEFINE g == RemovePackets(hh, s, S)
           H == hh.history[s]
           lost == FramesIn(H, S)
<1>1. hh \in Handlers /\ Outstanding(hh, nx) /\ Counted(hh) /\ Located(hh, q, a)
  BY DEF Sender
<1>2. BytesOf(S) \in Int /\ Outstanding(g, nx) /\ Counted(g)
  BY <1>1, RemoveCount, SMTT(60)
<1>3. /\ g \in Handlers /\ g.dropped = hh.dropped
      /\ g.history[s] = Without(H, S)
      /\ \A t \in Spaces : t # s => g.history[t] = hh.history[t]
  BY <1>1, <1>2, RemoveFields, SMTT(60)
<1>4. ASSUME NEW t \in Spaces, Live(g, t), NEW f \in FramesOf[t]
      PROVE  InOnePlace(f, g.history[t], q \cup lost, a)
  <2>1. InOnePlace(f, hh.history[t], q, a)
    BY <1>1, <1>3, <1>4, ZenonT(60) DEF Located, Live
  <2>2. CASE t # s
    <3>1. \A e \in lost : e \in FramesOf[s] \cup {Ping}
      BY <1>1, ZenonT(60) DEF FramesIn, Outstanding
    <3>2. f \notin FramesOf[s] \cup {Ping}
      BY <2>2, TwoSpaces, ZenonT(60)
    <3>3. f \notin lost
      BY <3>1, <3>2, ZenonT(60)
    <3>4. g.history[t] = hh.history[t]
      BY <1>3, <2>2, ZenonT(60)
    <3> QED BY <2>1, <3>3, <3>4, ZenonT(60) DEF InOnePlace
  <2>3. CASE t = s
    <3>1. g.history[t] = Without(H, S)
      BY <1>3, <2>3, ZenonT(60)
    <3>2. DOMAIN Without(H, S) = DOMAIN H \ S /\ \A n \in DOMAIN H \ S : Without(H, S)[n] = H[n]
      BY Zenon DEF Without
    <3>3. f \in lost <=> \E n \in S : H[n] = f
      BY Zenon DEF FramesIn
    <3> HIDE DEF H, lost
    <3>4. InOnePlace(f, H, q, a) /\ S \subseteq DOMAIN H
      BY <2>1, <2>3, ZenonT(60) DEF H
    <3> QED BY <3>1, <3>2, <3>3, <3>4, ZenonT(60) DEF InOnePlace
  <2> QED BY <2>2, <2>3, Zenon
<1> QED BY <1>2, <1>3, <1>4, ZenonT(60) DEF Sender, Located

\* Packets are acknowledged, and with them their frames.
LEMMA Acknowledge ==
    ASSUME NEW nx \in [Spaces -> Nat], NEW q, NEW a, NEW hh, Sender(hh, nx, q, a),
           NEW s \in Spaces, NEW S \in SUBSET DOMAIN hh.history[s]
    PROVE  Sender(RemovePackets(hh, s, S), nx, q, a \cup FramesIn(hh.history[s], S))
<1> DEFINE g == RemovePackets(hh, s, S)
           H == hh.history[s]
           new == FramesIn(H, S)
<1>1. hh \in Handlers /\ Outstanding(hh, nx) /\ Counted(hh) /\ Located(hh, q, a)
  BY DEF Sender
<1>2. BytesOf(S) \in Int /\ Outstanding(g, nx) /\ Counted(g)
  BY <1>1, RemoveCount
<1>3. /\ g \in Handlers /\ g.dropped = hh.dropped
      /\ g.history[s] = Without(H, S)
      /\ \A t \in Spaces : t # s => g.history[t] = hh.history[t]
  BY <1>1, <1>2, RemoveFields
<1>4. ASSUME NEW t \in Spaces, Live(g, t), NEW f \in FramesOf[t]
      PROVE  InOnePlace(f, g.history[t], q, a \cup new)
  <2>1. InOnePlace(f, hh.history[t], q, a)
    BY <1>1, <1>3, <1>4 DEF Located, Live
  <2>2. CASE t # s
    <3>1. \A e \in new : e \in FramesOf[s] \cup {Ping}
      BY <1>1, Zenon DEF FramesIn, Outstanding
    <3>2. f \notin FramesOf[s] \cup {Ping}
      BY <2>2, TwoSpaces, Zenon
    <3>3. f \notin new
      BY <3>1, <3>2, Zenon
    <3>4. g.history[t] = hh.history[t]
      BY <1>3, <2>2
    <3> QED BY <2>1, <3>3, <3>4, ZenonT(60) DEF InOnePlace
  <2>3. CASE t = s
    <3>1. g.history[t] = Without(H, S)
      BY <1>3, <2>3
    <3>2. DOMAIN Without(H, S) = DOMAIN H \ S /\ \A n \in DOMAIN H \ S : Without(H, S)[n] = H[n]
      BY Zenon DEF Without
    <3>3. f \in new <=> \E n \in S : H[n] = f
      BY Zenon DEF FramesIn
    <3> HIDE DEF H, new
    <3>4. InOnePlace(f, H, q, a) /\ S \subseteq DOMAIN H
      BY <2>1, <2>3 DEF H
    <3> QED BY <3>1, <3>2, <3>3, <3>4, ZenonT(60) DEF InOnePlace
  <2> QED BY <2>2, <2>3
<1> QED BY <1>2, <1>3, <1>4, ZenonT(60) DEF Sender, Located

\* DropPackets forgets the Crypto space.
LEMMA Drop ==
    ASSUME NEW nx \in [Spaces -> Nat], NEW q, NEW a, NEW hh, Sender(hh, nx, q, a)
    PROVE  LET g == DropPackets(hh) IN
           /\ Sender(g, nx, q, a) /\ g.alarm = hh.alarm
           /\ Tracked(g) \in Nat /\ Tracked(g) <= Tracked(hh)
<1> DEFINE S == DOMAIN hh.history[Crypto]
           c == RemovePackets(hh, Crypto, S)
           g == DropPackets(hh)
<1>1. hh \in Handlers /\ Outstanding(hh, nx) /\ Counted(hh) /\ Located(hh, q, a)
  BY DEF Sender
<1>2. /\ BytesOf(S) \in Int /\ Outstanding(c, nx) /\ Counted(c)
      /\ Tracked(c) \in Nat /\ Tracked(c) <= Tracked(hh)
  BY <1>1, RemoveCount, TwoSpaces, SMTT(60)
<1>3. /\ c \in Handlers /\ c.alarm = hh.alarm
      /\ \A t \in Spaces : t # Crypto => c.history[t] = hh.history[t]
  BY <1>1, <1>2, RemoveFields, TwoSpaces, SMTT(60)
<1>4. /\ g \in Handlers /\ g.history = c.history /\ g.bytesInFlight = c.bytesInFlight
      /\ g.alarm = c.alarm /\ g.dropped = TRUE
  <2> HIDE DEF c
  <2>1. g = [c EXCEPT !.lossTime[Crypto] = FALSE, !.dropped = TRUE]
    BY DEF DropPackets, c
  <2> HIDE DEF g
  <2> QED BY <1>3, <2>1, TwoSpaces, ZenonT(60) DEF Handlers
<1> HIDE DEF c, g, S
<1>5. Outstanding(g, nx) /\ Counted(g) /\ Tracked(g) = Tracked(c)
  BY <1>2, <1>4 DEF Outstanding, Counted, Tracked
<1>6. Located(g, q, a)
  <2> SUFFICES ASSUME NEW t \in Spaces, Live(g, t), NEW f \in FramesOf[t]
               PROVE  InOnePlace(f, g.history[t], q, a)
    BY DEF Located
  <2>1. t = OneRTT
    BY <1>4 DEF Live
  <2>2. g.history[t] = hh.history[t]
    BY <2>1, <1>3, <1>4, TwoSpaces, ZenonT(60)
  <2> QED BY <1>1, <2>1, <2>2 DEF Located, Live
<1> QED BY <1>2, <1>3, <1>4, <1>5, <1>6, ZenonT(60) DEF Sender, g

\* setLossDetectionTimer arms the timer when there are outstanding packets.
LEMMA SetTimer ==
    ASSUME NEW nx, NEW q, NEW a, NEW hh, Sender(hh, nx, q, a)
    PROVE  LET g == setLossDetectionTimer(hh) IN Sender(g, nx, q, a) /\ Armed(g)
<1> DEFINE g == setLossDetectionTimer(hh)
           some == Tracked(hh) > 0
<1>1. hh \in Handlers
  BY DEF Sender
<1>2. some \in BOOLEAN
  OBVIOUS
<1>3. /\ g \in Handlers /\ g.history = hh.history /\ g.bytesInFlight = hh.bytesInFlight
      /\ g.dropped = hh.dropped /\ g.alarm = some
  <2>1. g = [hh EXCEPT !.alarm = some]
    BY DEF setLossDetectionTimer
  <2> HIDE DEF g, some
  <2> QED BY <1>1, <1>2, <2>1 DEF Handlers
<1>4. Sender(g, nx, q, a) /\ Tracked(g) = Tracked(hh)
  BY <1>3, SameFrames
<1> QED BY <1>3, <1>4, ZenonT(60) DEF Armed

\* A frame is taken from the queue and sent under a new number.
LEMMA Send ==
    ASSUME NEW nx \in [Spaces -> Nat], NEW ny \in [Spaces -> Nat],
           NEW q, NEW a, NEW hh, Sender(hh, nx, q, a), NEW s \in Spaces,
           \A t \in Spaces : nx[t] <= ny[t], nx[s] < ny[s],
           NEW f \in FramesOf[s] \cup {Ping}, f \in q
    PROVE  LET g == AfterSending(hh, s, nx[s], f) IN Sender(g, ny, q \ {f}, a) /\ Armed(g)
<1> DEFINE H == hh.history[s]
           n == nx[s]
           K == [m \in DOMAIN H \cup {n} |-> IF m = n THEN f ELSE H[m]]
           c == [hh EXCEPT !.history[s] = K, !.bytesInFlight = @ + 1,
                           !.numProbesToSend = Counts(@)]
<1>1. hh \in Handlers /\ Outstanding(hh, nx) /\ Counted(hh) /\ Located(hh, q, a)
  BY DEF Sender
<1>2. K \in Histories
  <2>1. H \in Histories
    BY <1>1 DEF Handlers
  <2>2. DOMAIN H \in SUBSET Nat /\ H \in [DOMAIN H -> Frames \cup {Ping}]
    BY <2>1, History, ZenonT(60)
  <2>3. n \in Nat /\ f \in Frames \cup {Ping}
    BY TwoSpaces
  <2> HIDE DEF H, n
  <2>4. DOMAIN H \cup {n} \in SUBSET Nat /\ K \in [DOMAIN H \cup {n} -> Frames \cup {Ping}]
    <3>1. \A m \in DOMAIN H : H[m] \in Frames \cup {Ping}
      BY <2>2
    <3> QED BY <2>2, <2>3, <3>1, ZenonT(60)
  <2> QED BY <2>4, History, ZenonT(60)
<1>3. Counts(hh.numProbesToSend) \in Nat
  BY <1>1 DEF Handlers, Counts
<1>4. /\ c \in Handlers /\ c.history[s] = K
      /\ \A t \in Spaces : t # s => c.history[t] = hh.history[t]
      /\ c.bytesInFlight = hh.bytesInFlight + 1 /\ c.dropped = hh.dropped
  <2> DEFINE J == [hh.history EXCEPT ![s] = K]
             b == hh.bytesInFlight + 1
             p == Counts(hh.numProbesToSend)
             d == [hh EXCEPT !.history = J, !.bytesInFlight = b]
  <2>1. c = [d EXCEPT !.numProbesToSend = p]
    BY <1>1, ZenonT(60) DEF Handlers
  <2> HIDE DEF K
  <2>2. /\ J \in [Spaces -> Histories] /\ J[s] = K
        /\ \A t \in Spaces : t # s => J[t] = hh.history[t]
    BY <1>1, <1>2, ZenonT(60) DEF Handlers
  <2>3. b \in Int
    BY <1>1 DEF Handlers
  <2> HIDE DEF J, b, c
  <2>4. d \in Handlers /\ d.history = J /\ d.bytesInFlight = b /\ d.dropped = hh.dropped
    BY <1>1, <2>2, <2>3, ZenonT(60) DEF Handlers
  <2> HIDE DEF d, p
  <2>5. p \in Nat
    BY <1>3 DEF p
  <2>6. c \in Handlers /\ c.history = J /\ c.bytesInFlight = b /\ c.dropped = hh.dropped
    BY <2>1, <2>4, <2>5 DEF Handlers
  <2> QED BY <2>2, <2>6, ZenonT(60) DEF b
<1>5. DOMAIN K = DOMAIN H \cup {n} /\ K[n] = f /\ n \notin DOMAIN H
      /\ \A m \in DOMAIN H : K[m] = H[m]
  <2>1. n \notin DOMAIN H
    BY <1>1, SMTT(60) DEF Outstanding
  <2> HIDE DEF H, n
  <2> QED BY <2>1, Zenon
<1> HIDE DEF K, c
<1>6. Outstanding(c, ny)
  <2> SUFFICES ASSUME NEW t \in Spaces, NEW m \in DOMAIN c.history[t]
               PROVE  m \in 0 .. ny[t] - 1 /\ c.history[t][m] \in FramesOf[t] \cup {Ping}
    BY DEF Outstanding
  <2>1. CASE m \in DOMAIN hh.history[t]
    <3>1. c.history[t][m] = hh.history[t][m]
      BY <1>4, <1>5, <2>1, ZenonT(60)
    <3>2. m \in 0 .. nx[t] - 1 /\ hh.history[t][m] \in FramesOf[t] \cup {Ping}
      BY <1>1, <2>1, ZenonT(60) DEF Outstanding
    <3> QED BY <3>1, <3>2, SMTT(60)
  <2>2. CASE m \notin DOMAIN hh.history[t]
    <3>1. t = s /\ m = n
      BY <1>4, <1>5, <2>2, Zenon
    <3> QED BY <3>1, <1>4, <1>5, SMTT(60)
  <2> QED BY <2>1, <2>2, ZenonT(60)
<1>7. Counted(c)
  <2>1. \A t \in Spaces : IsFiniteSet(DOMAIN hh.history[t]) /\ Cardinality(DOMAIN hh.history[t]) \in Nat
    BY <1>1, FiniteHistories, ZenonT(60)
  <2>2. Cardinality(DOMAIN K) = Cardinality(DOMAIN H) + 1
    BY <1>5, <2>1, FS_AddElement, ZenonT(60)
  <2>3. Tracked(c) = Tracked(hh) + 1
    <3>1. CASE s = Crypto
      BY <1>4, <2>1, <2>2, <3>1, TwoSpaces, SMTT(60) DEF Tracked
    <3>2. CASE s = OneRTT
      BY <1>4, <2>1, <2>2, <3>2, TwoSpaces, SMTT(60) DEF Tracked
    <3> QED BY <3>1, <3>2, TwoSpaces
  <2> QED BY <1>1, <1>4, <2>3, ZenonT(60) DEF Counted
<1>8. Located(c, q \ {f}, a)
  <2> SUFFICES ASSUME NEW t \in Spaces, Live(c, t), NEW e \in FramesOf[t]
               PROVE  InOnePlace(e, c.history[t], q \ {f}, a)
    BY DEF Located
  <2>1. InOnePlace(e, hh.history[t], q, a)
    BY <1>1, <1>4, ZenonT(60) DEF Located, Live
  <2>2. CASE t # s
    <3>1. e # f
      BY <2>2, TwoSpaces, ZenonT(60)
    <3>2. c.history[t] = hh.history[t]
      BY <1>4, <2>2, ZenonT(60)
    <3> QED BY <2>1, <3>1, <3>2, ZenonT(60) DEF InOnePlace
  <2>3. CASE t = s
    <3>1. c.history[t] = K /\ InOnePlace(e, H, q, a)
      BY <1>4, <2>1, <2>3, ZenonT(60)
    <3> HIDE DEF H, n
    <3>2. CASE e = f
      BY <1>5, <3>1, <3>2, ZenonT(60) DEF InOnePlace
    <3>3. CASE e # f
      BY <1>5, <3>1, <3>3, ZenonT(60) DEF InOnePlace
    <3> QED BY <3>2, <3>3, ZenonT(60)
  <2> QED BY <2>2, <2>3, Zenon
<1>9. Sender(c, ny, q \ {f}, a)
  BY <1>4, <1>6, <1>7, <1>8, ZenonT(60) DEF Sender
<1>10. AfterSending(hh, s, nx[s], f) = setLossDetectionTimer(c)
  BY DEF AfterSending, c, K
<1> HIDE DEF H, n
<1> QED BY <1>9, <1>10, SetTimer, ZenonT(60)

\* Generating a number: next grows, for this space only.
LEMMA PopEffect ==
    ASSUME next \in [Spaces -> Nat], NEW s \in Spaces, Pop(s)
    PROVE  /\ next' \in [Spaces -> Nat] /\ next[s] < next'[s]
           /\ \A t \in Spaces : next[t] <= next'[t]
BY DEF Pop

\* Packing a frame, for a handler hh and a queue q that are in order.
LEMMA PackStep ==
    ASSUME NEW hh, NEW q, next \in [Spaces -> Nat], q \in SUBSET (Frames \cup {Ping}),
           Sender(hh, next, q, acked), Armed(hh), PackPacket(hh, q), acked' = acked
    PROVE  SenderInv'
<1>1. CASE CryptoData(q) # {} /\ hh.dropped
  <2>1. h' = hh /\ queue' = q /\ next' = next
    BY <1>1 DEF PackPacket, genVars
  <2> QED BY <2>1 DEF SenderInv
<1>2. CASE ~(CryptoData(q) # {} /\ hh.dropped)
  <2> DEFINE space == IF CryptoData(q) # {} THEN Crypto ELSE OneRTT
  <2>1. PICK f \in NextFrames(q) :
           /\ Transmit(space, f)
           /\ h' = AfterSending(hh, space, next[space], f)
           /\ queue' = q \ {f}
    BY <1>2, ZenonT(60) DEF PackPacket
  <2>2. space \in Spaces /\ f \in FramesOf[space] \cup {Ping} /\ f \in q
    BY TwoSpaces, ZenonT(60) DEF NextFrames, CryptoData
  <2> HIDE DEF space
  <2>3. /\ next' \in [Spaces -> Nat] /\ next[space] < next'[space]
        /\ \A t \in Spaces : next[t] <= next'[t]
    BY <2>1, <2>2, PopEffect, ZenonT(60) DEF Transmit
  <2>4. Sender(h', next', queue', acked') /\ Armed(h')
    BY <2>1, <2>2, <2>3, Send, ZenonT(60)
  <2> QED BY <2>1, <2>3, <2>4, ZenonT(60) DEF SenderInv
<1> QED BY <1>1, <1>2, ZenonT(60)

\* QueueProbePacket takes the first outstanding packet for lost and sends its
\* frame again.
LEMMA SendPTOStep ==
    ASSUME SenderInv, SendPTO
    PROVE  SenderInv'
<1>1. /\ next \in [Spaces -> Nat] /\ queue \in SUBSET (Frames \cup {Ping})
      /\ Sender(h, next, queue, acked) /\ Armed(h) /\ acked' = acked
  BY DEF SenderInv, SendPTO
<1>2. h \in Handlers /\ Outstanding(h, next) /\ Counted(h)
  BY <1>1 DEF Sender
<1>3. CASE Tracked(h) = 0
  <2>1. PackPacket(h, queue \cup {Ping})
    BY <1>3 DEF SendPTO
  <2>2. Located(h, queue \cup {Ping}, acked)
    <3> SUFFICES ASSUME NEW s \in Spaces, Live(h, s), NEW f \in FramesOf[s]
                 PROVE  InOnePlace(f, h.history[s], queue \cup {Ping}, acked)
      BY DEF Located
    <3>1. InOnePlace(f, h.history[s], queue, acked) /\ f # Ping
      BY <1>1, TwoSpaces, ZenonT(60) DEF Sender, Located
    <3> QED BY <3>1, ZenonT(60) DEF InOnePlace
  <2>3. Sender(h, next, queue \cup {Ping}, acked) /\ queue \cup {Ping} \in SUBSET (Frames \cup {Ping})
    BY <1>1, <2>2, ZenonT(60) DEF Sender
  <2> QED BY <1>1, <2>1, <2>3, PackStep, ZenonT(60)
<1>4. CASE Tracked(h) # 0
  <2> DEFINE s == IF DOMAIN h.history[Crypto] # {} THEN Crypto ELSE OneRTT
             n == FirstOutstanding(h, s)
             g == RemovePackets(h, s, {n})
  <2>1. PackPacket(g, queue \cup {h.history[s][n]})
    BY <1>4, ZenonT(60) DEF SendPTO
  <2>2. s \in Spaces /\ DOMAIN h.history[s] # {}
    <3>1. ASSUME \A t \in Spaces : DOMAIN h.history[t] = {}
          PROVE  FALSE
      <4>1. \A t \in Spaces : Cardinality(DOMAIN h.history[t]) = 0
        BY <3>1, FS_EmptySet, Zenon
      <4> QED BY <1>4, <4>1, TwoSpaces, SMTT(60) DEF Tracked
    <3> QED BY <3>1, TwoSpaces, ZenonT(60)
  <2> HIDE DEF s
  <2>3. DOMAIN h.history[s] \in SUBSET Nat
    BY <1>2, <2>2, SMTT(60) DEF Outstanding
  <2>4. n \in DOMAIN h.history[s]
    BY <2>2, <2>3, MinOf, Zenon DEF FirstOutstanding
  <2> HIDE DEF n
  <2>5. FramesIn(h.history[s], {n}) = {h.history[s][n]}
    BY DEF FramesIn
  <2>6. Sender(g, next, queue \cup {h.history[s][n]}, acked)
    BY <1>1, <2>2, <2>4, <2>5, Lose, ZenonT(60)
  <2>7. Tracked(g) \in Nat /\ Tracked(g) <= Tracked(h) /\ BytesOf({n}) \in Int
    BY <1>1, <1>2, <2>2, <2>4, RemoveCount, SMTT(60)
  <2>8. g.alarm = h.alarm
    BY <1>2, <2>2, <2>7, RemoveFields, ZenonT(60)
  <2>9. Armed(g)
    <3>1. Tracked(h) \in Nat
      BY <1>1, <1>2, FiniteHistories, TwoSpaces, SMTT(60) DEF Tracked
    <3> HIDE DEF g
    <3>2. Tracked(g) > 0 => Tracked(h) > 0
      BY <2>7, <3>1, SMTT(60)
    <3> QED BY <1>1, <2>8, <3>2, ZenonT(60) DEF Armed
  <2>10. queue \cup {h.history[s][n]} \in SUBSET (Frames \cup {Ping})
    BY <1>1, <1>2, <2>2, <2>4, TwoSpaces, SMTT(60) DEF Outstanding
  <2> HIDE DEF g
  <2> QED BY <1>1, <2>1, <2>6, <2>9, <2>10, PackStep, ZenonT(60)
<1> QED BY <1>3, <1>4

\* detectLostPackets: what it takes for lost waits in the queue again.
LEMMA DetectStep ==
    ASSUME NEW hh, NEW q, NEW a, NEW s \in Spaces, NEW cut, next \in [Spaces -> Nat],
           Sender(hh, next, q, a)
    PROVE  Sender(detectLostPackets(hh, s, cut), next, q \cup FramesIn(hh.history[s], Lost(hh, s, cut)), a)
<1> DEFINE S == Lost(hh, s, cut)
           rest == RemovePackets(hh, s, S)
           late == \E n \in DOMAIN rest.history[s] : n <= hh.largestAcked[s]
           g == detectLostPackets(hh, s, cut)
<1>1. S \in SUBSET DOMAIN hh.history[s]
  BY DEF Lost
<1>2. Sender(rest, next, q \cup FramesIn(hh.history[s], S), a)
  BY <1>1, Lose, ZenonT(60)
<1>3. g = [rest EXCEPT !.lossTime[s] = late]
  BY ZenonT(60) DEF detectLostPackets
<1>4. rest \in Handlers /\ late \in BOOLEAN
  BY <1>2, ZenonT(60) DEF Sender
<1> HIDE DEF rest, late, g, S
<1>5. /\ g \in Handlers /\ g.history = rest.history /\ g.bytesInFlight = rest.bytesInFlight
      /\ g.dropped = rest.dropped
  BY <1>3, <1>4, ZenonT(60) DEF Handlers
<1>6. Sender(g, next, q \cup FramesIn(hh.history[s], S), a)
  BY <1>2, <1>5, SameFrames, ZenonT(60)
<1> QED BY <1>6, Zenon DEF g, S

\* The frames of lost packets are frames of their space.
LEMMA LostFrames ==
    ASSUME NEW hh, next \in [Spaces -> Nat], Outstanding(hh, next), NEW s \in Spaces,
           NEW S \in SUBSET DOMAIN hh.history[s]
    PROVE  FramesIn(hh.history[s], S) \subseteq Frames \cup {Ping}
<1> SUFFICES ASSUME NEW n \in S
             PROVE  hh.history[s][n] \in Frames \cup {Ping}
  BY DEF FramesIn
<1> QED BY TwoSpaces, ZenonT(60) DEF Outstanding

\* The timer fires: packets are lost, or probes are due.
LEMMA TimeoutStep ==
    ASSUME SenderInv, OnLossDetectionTimeout
    PROVE  SenderInv'
<1>1. /\ next \in [Spaces -> Nat] /\ queue \in SUBSET (Frames \cup {Ping})
      /\ Sender(h, next, queue, acked) /\ acked' = acked /\ next' = next
  BY DEF SenderInv, OnLossDetectionTimeout, genVars
<1>2. h \in Handlers /\ Outstanding(h, next)
  BY <1>1, ZenonT(60) DEF Sender
<1>3. CASE Tracked(h) > 0 /\ \E s \in Spaces : h.lossTime[s]
  <2>1. PICK s \in Spaces : \E cut \in 0 .. MaxPN[s] + 1 :
           /\ h' = setLossDetectionTimer(detectLostPackets(h, s, cut))
           /\ queue' = queue \cup FramesIn(h.history[s], Lost(h, s, cut))
    BY <1>3, ZenonT(60) DEF OnLossDetectionTimeout
  <2>a. PICK cut \in 0 .. MaxPN[s] + 1 :
           /\ h' = setLossDetectionTimer(detectLostPackets(h, s, cut))
           /\ queue' = queue \cup FramesIn(h.history[s], Lost(h, s, cut))
    BY <2>1, ZenonT(60)
  <2>2. Sender(detectLostPackets(h, s, cut), next, queue', acked)
    BY <1>1, <2>a, DetectStep, ZenonT(60)
  <2>3. Sender(h', next', queue', acked') /\ Armed(h')
    BY <1>1, <2>a, <2>2, SetTimer
  <2>4. Lost(h, s, cut) \in SUBSET DOMAIN h.history[s]
    BY ZenonT(60) DEF Lost
  <2>5. queue' \in SUBSET (Frames \cup {Ping})
    BY <1>1, <1>2, <2>a, <2>4, LostFrames, ZenonT(60)
  <2> QED BY <1>1, <2>3, <2>5, ZenonT(60) DEF SenderInv
<1>4. CASE ~(Tracked(h) > 0 /\ \E s \in Spaces : h.lossTime[s])
  <2> DEFINE p == IF Tracked(h) > 0 THEN AddProbes(h.numProbesToSend) ELSE h.numProbesToSend
             g == [h EXCEPT !.numProbesToSend = p]
  <2>1. h' = setLossDetectionTimer(g) /\ queue' = queue
    BY <1>4, ZenonT(60) DEF OnLossDetectionTimeout
  <2>2. p \in Nat
    BY <1>2, SMTT(60) DEF AddProbes, Handlers
  <2> HIDE DEF p
  <2>3. /\ g \in Handlers /\ g.history = h.history /\ g.bytesInFlight = h.bytesInFlight
        /\ g.dropped = h.dropped
    BY <1>2, <2>2, Zenon DEF Handlers
  <2> HIDE DEF g
  <2>4. Sender(g, next, queue, acked)
    BY <1>1, <2>3, SameFrames, Zenon
  <2>5. Sender(h', next', queue', acked') /\ Armed(h')
    BY <1>1, <2>1, <2>4, SetTimer, ZenonT(60)
  <2> QED BY <1>1, <2>1, <2>5, ZenonT(60) DEF SenderInv
<1> QED BY <1>3, <1>4, ZenonT(60)

\* The largest number of an ACK, and of all of them.
LEMMA Largest ==
    ASSUME NEW N \in Nat, NEW ack \in SUBSET (0 .. N - 1), ack # {}
    PROVE  /\ Max(ack) \in ack /\ Max(ack) \in 0 .. N - 1
           /\ \A l \in Int : Max({l, Max(ack)}) \in Int
<1>1. \A x \in ack : x \in Int /\ x <= N
  OBVIOUS
<1>2. ack \in SUBSET Int
  BY <1>1, ZenonT(60)
<1>3. Max(ack) \in ack
  BY <1>1, <1>2, MaxOf, SMTT(60)
<1>4. Max(ack) \in 0 .. N - 1
  BY <1>3, ZenonT(60)
<1>5. ASSUME NEW l \in Int
      PROVE  Max({l, Max(ack)}) \in Int
  <2> DEFINE m == Max(ack)
  <2>1. m \in Int
    BY <1>4, SMTT(60)
  <2> HIDE DEF m
  <2>2. Max({l, m}) \in Int
    BY <2>1, MaxOfTwo, ZenonT(60)
  <2> QED BY <2>2 DEF m
<1> QED BY <1>3, <1>4, <1>5, ZenonT(60)

\* ReceivedAck: the frames of packets that are acknowledged are acknowledged,
\* those of packets that are now lost wait in the queue again.
LEMMA ReceivedAckStep ==
    ASSUME next \in [Spaces -> Nat], Sender(h, next, queue, acked), Armed(h),
           NEW s \in Spaces, NEW ack \in SUBSET (0 .. next[s] - 1), ack # {}, NEW cut
    PROVE  LET g == AfterAck(h, s, ack, cut) IN
           /\ Sender(g, next, queue \cup FramesIn(h.history[s], LostByAck(s, ack, cut)),
                     acked \cup FramesIn(h.history[s], NewlyAcked(h, s, ack)))
           /\ Armed(g)
<1> DEFINE S == NewlyAcked(h, s, ack)
           H == h.history[s]
           c == WithLargest(h, s, ack)
           d == RemovePackets(c, s, S)
           a == acked \cup FramesIn(H, S)
           g == AfterAck(h, s, ack, cut)
<1>1. S \in SUBSET DOMAIN H
  BY DEF NewlyAcked
<1>2. /\ c \in Handlers /\ c.history = h.history /\ c.bytesInFlight = h.bytesInFlight
      /\ c.dropped = h.dropped /\ c.alarm = h.alarm
  <2>1. h \in Handlers
    BY DEF Sender
  <2>2. Max({h.largestAcked[s], Max(ack)}) \in Int
    BY <2>1, Largest, ZenonT(60) DEF Handlers
  <2> DEFINE m == Max({h.largestAcked[s], Max(ack)})
  <2>3. c = [h EXCEPT !.largestAcked[s] = m]
    BY DEF WithLargest
  <2> HIDE DEF c, m
  <2>4. m \in Int
    BY <2>2, ZenonT(60) DEF m
  <2> QED BY <2>1, <2>3, <2>4, ZenonT(60) DEF Handlers
<1> HIDE DEF c
<1>3. Sender(c, next, queue, acked) /\ Tracked(c) = Tracked(h)
  BY <1>2, SameFrames, SMTT(60)
<1>4. CASE S = {}
  <2>1. g = c /\ LostByAck(s, ack, cut) = {}
    BY <1>4 DEF AfterAck, LostByAck, c
  <2>2. FramesIn(H, {}) = {}
    BY DEF FramesIn
  <2> HIDE DEF g, S
  <2> QED BY <1>2, <1>3, <1>4, <2>1, <2>2, ZenonT(60) DEF Armed, g, S
<1>5. CASE S # {}
  <2> DEFINE L == Lost(d, s, cut)
             e == detectLostPackets(d, s, cut)
             i == [e EXCEPT !.numProbesToSend = 0]
             q == queue \cup FramesIn(d.history[s], L)
  <2>1. g = setLossDetectionTimer(i) /\ LostByAck(s, ack, cut) = L
    BY <1>5, ZenonT(60) DEF AfterAck, AfterAcks, LostByAck, c
  <2>2. Sender(d, next, queue, a)
    BY <1>1, <1>2, <1>3, Acknowledge, ZenonT(60)
  <2>3. Sender(e, next, q, a)
    BY <2>2, DetectStep, ZenonT(60)
  <2>4. FramesIn(d.history[s], L) = FramesIn(H, L)
    <3>1. c \in Handlers /\ Outstanding(c, next) /\ Counted(c)
      BY <1>3, SMTT(60) DEF Sender
    <3>2. BytesOf(S) \in Int
      BY <1>1, <1>2, <3>1, RemoveCount, SMTT(60)
    <3>3. d.history[s] = Without(H, S)
      BY <1>2, <3>1, <3>2, RemoveFields, SMTT(60)
    <3>4. \A n \in L : n \in DOMAIN d.history[s]
      BY DEF Lost
    <3> HIDE DEF d, L, H, S
    <3>5. \A n \in L : d.history[s][n] = H[n]
      BY <3>3, <3>4, ZenonT(60) DEF Without
    <3> QED BY <3>5, Zenon DEF FramesIn
  <2> HIDE DEF e
  <2>5. e \in Handlers
    BY <2>3 DEF Sender
  <2>6. /\ i \in Handlers /\ i.history = e.history /\ i.bytesInFlight = e.bytesInFlight
        /\ i.dropped = e.dropped
    BY <2>5, ZenonT(60) DEF Handlers
  <2> HIDE DEF i, q
  <2>7. Sender(i, next, q, a)
    BY <2>3, <2>6, SameFrames, ZenonT(60)
  <2> HIDE DEF a, L, d
  <2>8. Sender(g, next, q, a) /\ Armed(g)
    BY <2>1, <2>7, SetTimer, ZenonT(60)
  <2> QED BY <2>1, <2>4, <2>8 DEF q, a
<1> QED BY <1>4, <1>5, ZenonT(60)

\* handleAckFrame, which also drops the Crypto space.
LEMMA AckStep ==
    ASSUME SenderInv, NEW a, a.space \in Spaces,
           a.ack \in SUBSET (0 .. next[a.space] - 1), a.ack # {}, handleAckFrame(a)
    PROVE  SenderInv'
<1> DEFINE s == a.space
<1>1. /\ next \in [Spaces -> Nat] /\ queue \in SUBSET (Frames \cup {Ping})
      /\ Sender(h, next, queue, acked) /\ Armed(h) /\ next' = next
  BY ZenonT(60) DEF SenderInv, handleAckFrame, genVars
<1>2. CASE Invalid(s, a.ack)
  <2>1. UNCHANGED <<h, queue, acked>>
    BY <1>2, ZenonT(60) DEF handleAckFrame
  <2> QED BY <1>1, <2>1, ZenonT(60) DEF SenderInv
<1>3. CASE ~Invalid(s, a.ack)
  <2>1. PICK cut \in 0 .. MaxPN[s] + 1 :
           LET after == AfterAck(h, s, a.ack, cut) IN
           /\ h' = IF s = OneRTT /\ ~h.dropped THEN DropPackets(after) ELSE after
           /\ queue' = queue \cup FramesIn(h.history[s], LostByAck(s, a.ack, cut))
    BY <1>3, ZenonT(60) DEF handleAckFrame
  <2>2. acked' = acked \cup FramesIn(h.history[s], NewlyAcked(h, s, a.ack))
    BY <1>3, ZenonT(60) DEF handleAckFrame
  <2> DEFINE after == AfterAck(h, s, a.ack, cut)
  <2>3. Sender(after, next, queue', acked') /\ Armed(after)
    BY <1>1, <2>1, <2>2, ReceivedAckStep, ZenonT(60)
  <2>4. queue' \in SUBSET (Frames \cup {Ping})
    <3>1. h \in Handlers /\ Outstanding(h, next)
      BY <1>1, SMTT(60) DEF Sender
    <3>2. LostByAck(s, a.ack, cut) \in SUBSET DOMAIN h.history[s]
      <4> DEFINE S == NewlyAcked(h, s, a.ack)
                 c == WithLargest(h, s, a.ack)
                 d == RemovePackets(c, s, S)
      <4>1. LostByAck(s, a.ack, cut) \subseteq DOMAIN d.history[s]
        BY DEF LostByAck, AfterAcks, Lost
      <4>2. c.history = h.history
        BY <3>1 DEF WithLargest, Handlers
      <4>3. d.history[s] = Without(c.history[s], S)
        BY <3>1, ZenonT(60) DEF RemovePackets, WithLargest, Handlers
      <4> QED BY <4>1, <4>2, <4>3, SMTT(60) DEF Without
    <3> QED BY <1>1, <2>1, <3>1, <3>2, LostFrames, ZenonT(60)
  <2>5. CASE s = OneRTT /\ ~h.dropped
    <3>1. h' = DropPackets(after)
      BY <2>1, <2>5, ZenonT(60)
    <3> HIDE DEF after
    <3>2. /\ Sender(h', next, queue', acked') /\ h'.alarm = after.alarm
          /\ Tracked(h') \in Nat /\ Tracked(h') <= Tracked(after)
      BY <1>1, <2>3, <3>1, Drop, ZenonT(60)
    <3>3. Tracked(h') > 0 => Tracked(after) > 0
      <4>1. after \in Handlers /\ Outstanding(after, next)
        BY <2>3, ZenonT(60) DEF Sender
      <4>2. Tracked(after) \in Nat
        BY <1>1, <4>1, FiniteHistories, TwoSpaces, SMTT(60) DEF Tracked
      <4> QED BY <3>2, <4>2, SMTT(60)
    <3>4. Armed(h')
      BY <2>3, <3>2, <3>3, Zenon DEF Armed
    <3> QED BY <1>1, <2>4, <3>2, <3>4, ZenonT(60) DEF SenderInv
  <2>6. CASE ~(s = OneRTT /\ ~h.dropped)
    <3>1. h' = after
      BY <2>1, <2>6, ZenonT(60)
    <3> QED BY <1>1, <2>3, <2>4, <3>1, ZenonT(60) DEF SenderInv
  <2> QED BY <2>5, <2>6, ZenonT(60)
<1> QED BY <1>2, <1>3, ZenonT(60)

-----------------------------------------------------------------------------
(* Ranges of packet numbers (ReceivedPacketHistory). *)

Ranges == Seq([lo : Nat, hi : Nat])

\* No range is empty, and there is a gap between any two.
Ordered(rs) ==
    /\ \A k \in DOMAIN rs : rs[k].lo <= rs[k].hi
    /\ \A j, k \in DOMAIN rs : j < k => rs[j].hi + 1 < rs[k].lo

Has(rs, n) == \E k \in DOMAIN rs : rs[k].lo <= n /\ n <= rs[k].hi

\* The elements of a sequence of ranges.
LEMMA RangeFields ==
    ASSUME NEW rs \in Ranges
    PROVE  /\ Len(rs) \in Nat /\ DOMAIN rs = 1 .. Len(rs)
           /\ \A k \in 1 .. Len(rs) : rs[k] \in [lo : Nat, hi : Nat] /\ rs[k].lo \in Nat /\ rs[k].hi \in Nat
<1>1. Len(rs) \in Nat /\ DOMAIN rs = 1 .. Len(rs)
  BY LenProperties DEF Ranges
<1>2. \A k \in 1 .. Len(rs) : rs[k] \in [lo : Nat, hi : Nat]
  BY ElementOfSeq, Zenon DEF Ranges
<1> QED BY <1>1, <1>2

\* What is in the ranges.
LEMMA CoveredIn ==
    ASSUME NEW rs \in Ranges
    PROVE  /\ Covered(rs) \subseteq Nat
           /\ \A n \in Nat : n \in Covered(rs) <=> Has(rs, n)
<1>1. \A k \in DOMAIN rs : rs[k].lo \in Nat /\ rs[k].hi \in Nat
  BY RangeFields
<1>2. \A n : n \in Covered(rs) <=> \E k \in DOMAIN rs : n \in rs[k].lo .. rs[k].hi
  BY Zenon DEF Covered
<1>3. \A k \in DOMAIN rs : \A n : n \in rs[k].lo .. rs[k].hi
          <=> n \in Int /\ rs[k].lo <= n /\ n <= rs[k].hi
  BY <1>1
<1>4. \A k \in DOMAIN rs : \A n : n \in rs[k].lo .. rs[k].hi => n \in Nat
  BY <1>1
<1> QED BY <1>2, <1>3, <1>4, SMTT(60) DEF Has

\* If membership changes by p, so does what is covered.
LEMMA CoveredAdds ==
    ASSUME NEW rs \in Ranges, NEW t \in Ranges, NEW p \in Nat,
           \A n \in Nat : Has(t, n) <=> Has(rs, n) \/ n = p
    PROVE  Covered(t) = Covered(rs) \cup {p}
BY CoveredIn, Zenon

\* A range of its own for p, between others that it does not touch.
IsInsertion(t, rs, k, p) ==
    /\ k \in 0 .. Len(rs) /\ Len(t) = Len(rs) + 1
    /\ \A j \in 1 .. k : rs[j].hi + 1 < p /\ t[j] = rs[j]
    /\ t[k + 1] = Single(p)
    /\ \A j \in k + 1 .. Len(rs) : p + 1 < rs[j].lo /\ t[j + 1] = rs[j]

\* A range of its own keeps the ranges of addToRanges in order, and adds p.
LEMMA InsertRange ==
    ASSUME NEW rs \in Ranges, Ordered(rs), NEW p \in Nat, NEW k, NEW t \in Ranges,
           IsInsertion(t, rs, k, p)
    PROVE  Ordered(t) /\ Covered(t) = Covered(rs) \cup {p}
<1> SUFFICES ASSUME k \in 0 .. Len(rs),
                    \A j \in 1 .. k : rs[j].hi + 1 < p,
                    \A j \in k + 1 .. Len(rs) : p + 1 < rs[j].lo,
                    Len(t) = Len(rs) + 1,
                    \A j \in 1 .. k : t[j] = rs[j],
                    t[k + 1] = Single(p),
                    \A j \in k + 1 .. Len(rs) : t[j + 1] = rs[j]
             PROVE  Ordered(t) /\ Covered(t) = Covered(rs) \cup {p}
  BY Zenon DEF IsInsertion
<1>1. /\ Len(rs) \in Nat /\ DOMAIN rs = 1 .. Len(rs)
      /\ \A j \in 1 .. Len(rs) : rs[j].lo \in Nat /\ rs[j].hi \in Nat
  BY RangeFields
<1>2. DOMAIN t = 1 .. Len(rs) + 1
  BY RangeFields
<1>3. t[k + 1].lo = p /\ t[k + 1].hi = p
  BY DEF Single
<1>4. \A j \in k + 2 .. Len(rs) + 1 : t[j] = rs[j - 1]
  <2> TAKE j \in k + 2 .. Len(rs) + 1
  <2>1. j - 1 \in k + 1 .. Len(rs)
    BY <1>1
  <2>2. t[(j - 1) + 1] = rs[j - 1]
    BY <2>1
  <2> QED BY <1>1, <2>2
<1>5. ASSUME NEW i \in 1 .. Len(rs) + 1
      PROVE  \/ i \in 1 .. k /\ i \in DOMAIN rs /\ t[i] = rs[i]
             \/ i = k + 1
             \/ i \in k + 2 .. Len(rs) + 1 /\ i - 1 \in DOMAIN rs /\ i - 1 >= k + 1 /\ t[i] = rs[i - 1]
  BY <1>1, <1>4
<1>6. Ordered(t)
  <2>1. ASSUME NEW i \in DOMAIN t
        PROVE  t[i].lo <= t[i].hi
    <3>1. i = k + 1 \/ \E j \in DOMAIN rs : t[i] = rs[j]
      BY <1>2, <1>5
    <3>2. \A j \in DOMAIN rs : rs[j].lo <= rs[j].hi
      BY DEF Ordered
    <3> QED BY <1>3, <3>1, <3>2
  <2>2. ASSUME NEW i \in DOMAIN t, NEW j \in DOMAIN t, i < j
        PROVE  t[i].hi + 1 < t[j].lo
    <3>1. i \in 1 .. Len(rs) + 1 /\ j \in 1 .. Len(rs) + 1
      BY <1>2
    <3>2. CASE i \in 1 .. k /\ t[i] = rs[i] /\ i \in DOMAIN rs
      <4>1. CASE j \in 1 .. k
        BY <1>1, <1>5, <2>2, <3>1, <3>2, <4>1, SMTT(60) DEF Ordered
      <4>2. CASE j = k + 1
        BY <1>1, <1>3, <3>2, <4>2, ZenonT(60)
      <4>3. CASE j \in k + 2 .. Len(rs) + 1
        <5>1. j - 1 \in DOMAIN rs /\ t[j] = rs[j - 1] /\ i < j - 1
          BY <1>1, <1>4, <3>2, <4>3, SMTT(60)
        <5> QED BY <1>1, <3>2, <5>1 DEF Ordered
      <4> QED BY <1>1, <3>1, <4>1, <4>2, <4>3, SMTT(60)
    <3>3. CASE i = k + 1
      <4>1. j - 1 \in k + 1 .. Len(rs) /\ t[j] = rs[j - 1]
        BY <1>1, <1>4, <2>2, <3>1, <3>3, SMTT(60)
      <4> QED BY <1>3, <3>3, <4>1, SMTT(60)
    <3>4. CASE i \in k + 2 .. Len(rs) + 1
      <4>1. /\ j - 1 \in DOMAIN rs /\ i - 1 \in DOMAIN rs /\ i - 1 < j - 1
            /\ t[j] = rs[j - 1] /\ t[i] = rs[i - 1]
        BY <1>1, <1>4, <2>2, <3>1, <3>4, SMTT(60)
      <4> QED BY <1>1, <4>1 DEF Ordered
    <3> QED BY <1>5, <3>1, <3>2, <3>3, <3>4, ZenonT(60)
  <2> QED BY <2>1, <2>2 DEF Ordered
<1>7. ASSUME NEW n \in Nat
      PROVE  Has(t, n) <=> Has(rs, n) \/ n = p
  <2>1. ASSUME Has(t, n)
        PROVE  Has(rs, n) \/ n = p
    <3>1. PICK i \in DOMAIN t : t[i].lo <= n /\ n <= t[i].hi
      BY <2>1 DEF Has
    <3>2. i \in 1 .. Len(rs) + 1
      BY <1>2
    <3>3. i # k + 1 => Has(rs, n)
      BY <1>5, <3>1, <3>2, SMTT(60) DEF Has
    <3>4. i = k + 1 => n = p
      BY <1>3, <3>1
    <3> QED BY <3>3, <3>4
  <2>2. ASSUME Has(rs, n)
        PROVE  Has(t, n)
    <3>1. PICK j \in DOMAIN rs : rs[j].lo <= n /\ n <= rs[j].hi
      BY <2>2 DEF Has
    <3>2. CASE j <= k
      <4>1. j \in DOMAIN t /\ t[j] = rs[j]
        BY <1>1, <1>2, <3>2
      <4> QED BY <3>1, <4>1 DEF Has
    <3>3. CASE j > k
      <4>1. j + 1 \in DOMAIN t /\ t[j + 1] = rs[j]
        BY <1>1, <1>2, <3>3
      <4> QED BY <3>1, <4>1 DEF Has
    <3> QED BY <1>1, <3>2, <3>3
  <2>3. Has(t, p)
    <3>1. k + 1 \in DOMAIN t
      BY <1>1, <1>2, SMTT(60)
    <3> QED BY <1>3, <3>1 DEF Has
  <2> QED BY <2>1, <2>2, <2>3, ZenonT(60)
<1> QED BY <1>6, <1>7, CoveredAdds

\* Range k grows by p at one of its ends, and still touches no other.
IsExtension(t, rs, k, p) ==
    /\ k \in 1 .. Len(rs) /\ Len(t) = Len(rs)
    /\ \A j \in 1 .. Len(rs) : j # k => t[j] = rs[j]
    /\ \/ rs[k].hi + 1 = p /\ t[k].lo = rs[k].lo /\ t[k].hi = p
       \/ p + 1 = rs[k].lo /\ t[k].lo = p /\ t[k].hi = rs[k].hi
    /\ \A j \in 1 .. Len(rs) : j < k => rs[j].hi + 1 < p
    /\ \A j \in 1 .. Len(rs) : k < j => p + 1 < rs[j].lo

\* So does growing a range by p.
LEMMA ExtendRange ==
    ASSUME NEW rs \in Ranges, Ordered(rs), NEW p \in Nat, NEW k, NEW t \in Ranges,
           IsExtension(t, rs, k, p)
    PROVE  Ordered(t) /\ Covered(t) = Covered(rs) \cup {p}
<1> SUFFICES ASSUME k \in 1 .. Len(rs), Len(t) = Len(rs),
                    \A j \in 1 .. Len(rs) : j # k => t[j] = rs[j],
                    \/ rs[k].hi + 1 = p /\ t[k].lo = rs[k].lo /\ t[k].hi = p
                    \/ p + 1 = rs[k].lo /\ t[k].lo = p /\ t[k].hi = rs[k].hi,
                    \A j \in 1 .. Len(rs) : j < k => rs[j].hi + 1 < p,
                    \A j \in 1 .. Len(rs) : k < j => p + 1 < rs[j].lo
             PROVE  Ordered(t) /\ Covered(t) = Covered(rs) \cup {p}
  BY ZenonT(60) DEF IsExtension
<1>1. /\ Len(rs) \in Nat /\ DOMAIN rs = 1 .. Len(rs) /\ DOMAIN t = 1 .. Len(rs)
      /\ \A j \in 1 .. Len(rs) : rs[j].lo \in Nat /\ rs[j].hi \in Nat
  BY RangeFields
<1>2. rs[k].lo <= rs[k].hi
  BY <1>1, ZenonT(60) DEF Ordered
<1>3. t[k].lo \in {rs[k].lo, p} /\ t[k].hi \in {rs[k].hi, p} /\ t[k].lo <= t[k].hi
  BY <1>1, <1>2
<1>4. Ordered(t)
  <2>1. ASSUME NEW i \in DOMAIN t
        PROVE  t[i].lo <= t[i].hi
    BY <1>1, <1>3 DEF Ordered
  <2>2. ASSUME NEW i \in DOMAIN t, NEW j \in DOMAIN t, i < j
        PROVE  t[i].hi + 1 < t[j].lo
    <3>1. rs[i].hi + 1 < rs[j].lo
      BY <1>1, <2>2 DEF Ordered
    <3>2. CASE i = k
      BY <1>1, <1>3, <2>2, <3>1, <3>2, ZenonT(60)
    <3>3. CASE j = k
      BY <1>1, <1>3, <2>2, <3>1, <3>3, SMTT(60)
    <3>4. CASE i # k /\ j # k
      BY <1>1, <3>1, <3>4, SMTT(60)
    <3> QED BY <3>2, <3>3, <3>4, ZenonT(60)
  <2> QED BY <2>1, <2>2 DEF Ordered
<1>5. ASSUME NEW n \in Nat
      PROVE  Has(t, n) <=> Has(rs, n) \/ n = p
  <2>1. t[k].lo <= n /\ n <= t[k].hi <=> (rs[k].lo <= n /\ n <= rs[k].hi) \/ n = p
    BY <1>1, <1>2
  <2>2. \A j \in DOMAIN rs : j # k => t[j] = rs[j]
    BY <1>1
  <2> QED BY <1>1, <2>1, <2>2, Zenon DEF Has
<1> QED BY <1>4, <1>5, CoveredAdds

\* p is all that was missing between ranges k - 1 and k.
IsMerger(t, rs, k, p) ==
    /\ k \in 2 .. Len(rs) /\ rs[k - 1].hi + 1 = p /\ p + 1 = rs[k].lo
    /\ Len(t) = Len(rs) - 1
    /\ \A j \in 1 .. k - 2 : t[j] = rs[j]
    /\ t[k - 1].lo = rs[k - 1].lo /\ t[k - 1].hi = rs[k].hi
    /\ \A j \in k .. Len(rs) - 1 : t[j] = rs[j + 1]

\* And so does merging the two ranges that p lies between.
LEMMA MergeRanges ==
    ASSUME NEW rs \in Ranges, Ordered(rs), NEW p \in Nat, NEW k, NEW t \in Ranges,
           IsMerger(t, rs, k, p)
    PROVE  Ordered(t) /\ Covered(t) = Covered(rs) \cup {p}
<1>1. /\ k \in 2 .. Len(rs) /\ Len(t) = Len(rs) - 1
      /\ rs[k - 1].hi + 1 = p /\ p + 1 = rs[k].lo
      /\ t[k - 1].lo = rs[k - 1].lo /\ t[k - 1].hi = rs[k].hi
  BY Zenon DEF IsMerger
<1>2. Len(rs) \in Nat /\ DOMAIN rs = 1 .. Len(rs) /\ DOMAIN t = 1 .. Len(t)
  BY RangeFields
<1>3. DOMAIN t = 1 .. Len(rs) - 1
  BY <1>1, <1>2, Zenon
<1>4. k \in Int /\ k - 1 \in DOMAIN rs /\ k \in DOMAIN rs /\ k - 1 \in DOMAIN t
  BY <1>1, <1>2, <1>3
<1>5. ASSUME NEW j \in DOMAIN rs
      PROVE  rs[j].lo \in Nat /\ rs[j].hi \in Nat /\ rs[j].lo <= rs[j].hi
  <2>1. rs[j].lo \in Nat /\ rs[j].hi \in Nat
    BY <1>2, RangeFields
  <2> QED BY <2>1, Zenon DEF Ordered
<1>6. t[k - 1].lo <= p /\ p <= t[k - 1].hi /\ t[k - 1].lo <= t[k - 1].hi
  <2>1. /\ rs[k - 1].lo \in Nat /\ rs[k - 1].hi \in Nat /\ rs[k - 1].lo <= rs[k - 1].hi
        /\ rs[k].lo \in Nat /\ rs[k].hi \in Nat /\ rs[k].lo <= rs[k].hi
    BY <1>4, <1>5, Zenon
  <2>2. rs[k - 1].lo <= p /\ p <= rs[k].hi /\ rs[k - 1].lo <= rs[k].hi
    BY <1>1, <2>1, SMTT(60)
  <2> QED BY <1>1, <2>2, Zenon
\* Where range i of t comes from.
<1>7. ASSUME NEW i \in DOMAIN t
      PROVE  \/ i < k - 1 /\ i \in DOMAIN rs /\ t[i] = rs[i]
             \/ i = k - 1
             \/ i >= k /\ i + 1 \in DOMAIN rs /\ t[i] = rs[i + 1]
  <2>1. i < k - 1 => i \in 1 .. k - 2 /\ i \in DOMAIN rs
    BY <1>1, <1>2, <1>3
  <2>2. i >= k => i \in k .. Len(rs) - 1 /\ i + 1 \in DOMAIN rs
    BY <1>1, <1>2, <1>3
  <2>3. i < k - 1 \/ i = k - 1 \/ i >= k
    BY <1>2, <1>3, <1>4
  <2>4. i \in 1 .. k - 2 => t[i] = rs[i]
    BY Zenon DEF IsMerger
  <2>5. i \in k .. Len(rs) - 1 => t[i] = rs[i + 1]
    BY Zenon DEF IsMerger
  <2> QED BY <2>1, <2>2, <2>3, <2>4, <2>5, Zenon
\* Where range j of rs went.
<1>8. ASSUME NEW j \in DOMAIN rs
      PROVE  \/ j \in DOMAIN t /\ t[j] = rs[j]
             \/ j = k - 1 \/ j = k
             \/ j - 1 \in DOMAIN t /\ t[j - 1] = rs[j]
  <2>1. j < k - 1 => j \in 1 .. k - 2 /\ j \in DOMAIN t
    BY <1>1, <1>2, <1>3
  <2>2. j > k => j - 1 \in k .. Len(rs) - 1 /\ j - 1 \in DOMAIN t /\ (j - 1) + 1 = j
    BY <1>1, <1>2, <1>3
  <2>3. j < k - 1 \/ j = k - 1 \/ j = k \/ j > k
    BY <1>2, <1>4
  <2>4. j \in 1 .. k - 2 => t[j] = rs[j]
    BY Zenon DEF IsMerger
  <2>5. j - 1 \in k .. Len(rs) - 1 => t[j - 1] = rs[(j - 1) + 1]
    BY Zenon DEF IsMerger
  <2> QED BY <2>1, <2>2, <2>3, <2>4, <2>5, ZenonT(60)
<1>9. Ordered(t)
  <2>1. ASSUME NEW i \in DOMAIN t
        PROVE  t[i].lo <= t[i].hi
    BY <1>5, <1>6, <1>7, Zenon
  <2>2. ASSUME NEW i \in DOMAIN t, NEW j \in DOMAIN t, i < j
        PROVE  t[i].hi + 1 < t[j].lo
    \* The end of a range of t is the end of range a of rs, the start of range b.
    <3>1. PICK a \in DOMAIN rs : t[i].hi = rs[a].hi /\ a = IF i < k - 1 THEN i ELSE i + 1
      <4>1. CASE i < k - 1
        <5>1. i # k - 1 /\ ~(i >= k)
          BY <1>2, <1>3, <1>4, <4>1
        <5> QED BY <1>7, <4>1, <5>1, ZenonT(60)
      <4>2. CASE i = k - 1
        <5>1. k = i + 1 /\ ~(i < k - 1)
          BY <1>4, <4>2
        <5> QED BY <1>1, <1>4, <4>2, <5>1, Zenon
      <4>3. CASE i >= k
        <5>1. ~(i < k - 1) /\ i # k - 1
          BY <1>2, <1>3, <1>4, <4>3
        <5> QED BY <1>7, <5>1, Zenon
      <4> QED BY <1>7, <4>1, <4>2, <4>3, Zenon
    <3>2. PICK b \in DOMAIN rs : t[j].lo = rs[b].lo /\ b = IF j < k THEN j ELSE j + 1
      <4>1. CASE j < k - 1
        <5>1. j < k /\ j # k - 1 /\ ~(j >= k)
          BY <1>2, <1>3, <1>4, <4>1
        <5> QED BY <1>7, <5>1, ZenonT(60)
      <4>2. CASE j = k - 1
        <5>1. j < k
          BY <1>4, <4>2
        <5> QED BY <1>1, <1>4, <4>2, <5>1, ZenonT(60)
      <4>3. CASE j >= k
        <5>1. ~(j < k) /\ ~(j < k - 1) /\ j # k - 1
          BY <1>2, <1>3, <1>4, <4>3, SMTT(60)
        <5> QED BY <1>7, <5>1, Zenon
      <4> QED BY <1>7, <4>1, <4>2, <4>3, ZenonT(60)
    <3>3. a < b
      <4>1. i \in Int /\ j \in Int /\ k \in Int /\ i < j
        BY <1>2, <1>3, <1>4, <2>2
      <4> QED BY <3>1, <3>2, <4>1, SMTT(60)
    <3> QED BY <3>1, <3>2, <3>3, Zenon DEF Ordered
  <2> QED BY <2>1, <2>2, Zenon DEF Ordered
<1>10. ASSUME NEW n \in Nat
       PROVE  Has(t, n) <=> Has(rs, n) \/ n = p
  <2>1. t[k - 1].lo <= n /\ n <= t[k - 1].hi <=>
            \/ rs[k - 1].lo <= n /\ n <= rs[k - 1].hi
            \/ rs[k].lo <= n /\ n <= rs[k].hi
            \/ n = p
    <3> DEFINE a == rs[k - 1].lo
               b == rs[k - 1].hi
               c == rs[k].lo
               d == rs[k].hi
    <3>1. /\ a \in Nat /\ b \in Nat /\ c \in Nat /\ d \in Nat
          /\ a <= b /\ b + 1 = p /\ p + 1 = c /\ c <= d
      BY <1>1, <1>4, <1>5, Zenon
    <3>2. t[k - 1].lo = a /\ t[k - 1].hi = d
      BY <1>1, Zenon
    <3> HIDE DEF a, b, c, d
    <3>3. a <= n /\ n <= d <=> (a <= n /\ n <= b) \/ (c <= n /\ n <= d) \/ n = p
      BY <3>1
    <3> QED BY <3>2, <3>3, Zenon DEF a, b, c, d
  <2>2. ASSUME Has(t, n)
        PROVE  Has(rs, n) \/ n = p
    <3>1. PICK i \in DOMAIN t : t[i].lo <= n /\ n <= t[i].hi
      BY <2>2, Zenon DEF Has
    <3>2. CASE i = k - 1
      BY <1>4, <2>1, <3>1, <3>2, Zenon DEF Has
    <3>3. CASE i # k - 1
      BY <1>7, <3>1, <3>3, Zenon DEF Has
    <3> QED BY <3>2, <3>3, Zenon
  <2>3. ASSUME Has(rs, n)
        PROVE  Has(t, n)
    <3>1. PICK j \in DOMAIN rs : rs[j].lo <= n /\ n <= rs[j].hi
      BY <2>3, Zenon DEF Has
    <3>2. CASE j = k - 1 \/ j = k
      BY <1>4, <2>1, <3>1, <3>2, Zenon DEF Has
    <3>3. CASE j # k - 1 /\ j # k
      BY <1>8, <3>1, <3>3, Zenon DEF Has
    <3> QED BY <3>2, <3>3, Zenon
  <2>4. Has(t, p)
    BY <1>4, <1>6, ZenonT(60) DEF Has
  <2> QED BY <2>2, <2>3, <2>4, Zenon
<1> QED BY <1>9, <1>10, CoveredAdds, Zenon

\* Part of the ranges.
LEMMA PartOfRanges ==
    ASSUME NEW rs \in Ranges, NEW m \in 1 .. Len(rs) + 1, NEW n \in 0 .. Len(rs), m <= n + 1
    PROVE  LET t == SubSeq(rs, m, n) IN
           /\ t \in Ranges /\ Len(t) = n - m + 1
           /\ \A i \in 1 .. n - m + 1 : t[i] = rs[m + i - 1]
<1>1. Len(rs) \in Nat /\ \A k \in 1 .. Len(rs) : rs[k] \in [lo : Nat, hi : Nat]
  BY RangeFields
<1>2. \A i \in m .. n : rs[i] \in [lo : Nat, hi : Nat]
  BY <1>1
<1>3. m \in Int /\ n \in Int
  BY <1>1
<1> DEFINE t == SubSeq(rs, m, n)
<1>4. /\ t \in Ranges /\ Len(t) = IF m <= n THEN n - m + 1 ELSE 0
      /\ \A i \in 1 .. n - m + 1 : t[i] = rs[m + i - 1]
  <2> DEFINE S == [lo : Nat, hi : Nat]
  <2>1. \A i \in m .. n : rs[i] \in S
    BY <1>2
  <2> HIDE DEF S
  <2>2. /\ t \in Seq(S) /\ Len(t) = IF m <= n THEN n - m + 1 ELSE 0
        /\ \A i \in 1 .. n - m + 1 : t[i] = rs[m + i - 1]
    BY <1>3, <2>1, SubSeqProperties
  <2> QED BY <2>2, Zenon DEF S, Ranges
<1> HIDE DEF t
<1>5. Len(t) = n - m + 1
  BY <1>3, <1>4
<1> QED BY <1>4, <1>5, SMTT(60) DEF t

\* Ranges one after the other, and with one of them replaced.
LEMMA JoinedRanges ==
    ASSUME NEW a \in Ranges, NEW b \in Ranges
    PROVE  /\ a \o b \in Ranges /\ Len(a \o b) = Len(a) + Len(b)
           /\ \A i \in 1 .. Len(a) + Len(b) :
                 (a \o b)[i] = IF i <= Len(a) THEN a[i] ELSE b[i - Len(a)]
<1> DEFINE S == [lo : Nat, hi : Nat]
<1>1. a \in Seq(S) /\ b \in Seq(S)
  BY DEF Ranges
<1> HIDE DEF S
<1>2. /\ a \o b \in Seq(S) /\ Len(a \o b) = Len(a) + Len(b)
      /\ \A i \in 1 .. Len(a) + Len(b) :
            (a \o b)[i] = IF i <= Len(a) THEN a[i] ELSE b[i - Len(a)]
  BY <1>1, ConcatProperties, Zenon
<1> QED BY <1>2 DEF Ranges, S

\* A sequence of ranges in which addToRanges changed the range at k.
LEMMA ReplacedRange ==
    ASSUME NEW rs \in Ranges, NEW k \in 1 .. Len(rs), NEW e \in [lo : Nat, hi : Nat]
    PROVE  LET t == [rs EXCEPT ![k] = e] IN
           /\ t \in Ranges /\ Len(t) = Len(rs)
           /\ \A j \in 1 .. Len(rs) : t[j] = IF j = k THEN e ELSE rs[j]
<1> DEFINE S == [lo : Nat, hi : Nat]
<1>1. rs \in Seq(S) /\ e \in S
  BY DEF Ranges
<1> HIDE DEF S
<1> DEFINE t == [rs EXCEPT ![k] = e]
<1>2. /\ t \in Seq(S) /\ Len(t) = Len(rs)
      /\ \A j \in 1 .. Len(rs) : t[j] = IF j = k THEN e ELSE rs[j]
  BY <1>1, ExceptSeq
<1> QED BY <1>2 DEF Ranges, S

\* InsertAfter and Remove for ranges.
LEMMA InsertedRange ==
    ASSUME NEW rs \in Ranges, NEW k \in 0 .. Len(rs), NEW e \in [lo : Nat, hi : Nat]
    PROVE  LET t == InsertAfter(rs, k, e) IN
           /\ t \in Ranges /\ Len(t) = Len(rs) + 1
           /\ \A j \in 1 .. k : t[j] = rs[j]
           /\ t[k + 1] = e
           /\ \A j \in k + 1 .. Len(rs) : t[j + 1] = rs[j]
<1> DEFINE a == SubSeq(rs, 1, k)
           b == <<e>>
           c == SubSeq(rs, k + 1, Len(rs))
           ab == a \o b
           t == ab \o c
<1>1. Len(rs) \in Nat
  BY RangeFields
<1>2. InsertAfter(rs, k, e) = t
  BY Zenon DEF InsertAfter
<1>3. a \in Ranges /\ Len(a) = k /\ \A i \in 1 .. k : a[i] = rs[i]
  <2>1. a \in Ranges /\ Len(a) = k - 1 + 1 /\ \A i \in 1 .. k - 1 + 1 : a[i] = rs[1 + i - 1]
    BY <1>1, PartOfRanges
  <2> HIDE DEF a
  <2> QED BY <1>1, <2>1
<1>4. b \in Ranges /\ Len(b) = 1 /\ b[1] = e
  BY DEF Ranges
<1>5. /\ c \in Ranges /\ Len(c) = Len(rs) - k
      /\ \A i \in 1 .. Len(rs) - k : c[i] = rs[k + i]
  <2>1. /\ c \in Ranges /\ Len(c) = Len(rs) - (k + 1) + 1
        /\ \A i \in 1 .. Len(rs) - (k + 1) + 1 : c[i] = rs[(k + 1) + i - 1]
    BY <1>1, PartOfRanges
  <2> HIDE DEF c
  <2> QED BY <1>1, <2>1
<1> HIDE DEF a, b, c
<1>6. /\ ab \in Ranges /\ Len(ab) = k + 1
      /\ \A i \in 1 .. k + 1 : ab[i] = IF i <= k THEN a[i] ELSE b[i - k]
  <2>1. /\ ab \in Ranges /\ Len(ab) = Len(a) + Len(b)
        /\ \A i \in 1 .. Len(a) + Len(b) : ab[i] = IF i <= Len(a) THEN a[i] ELSE b[i - Len(a)]
    BY <1>3, <1>4, JoinedRanges, ZenonT(60)
  <2> HIDE DEF ab
  <2> QED BY <1>3, <1>4, <2>1
<1> HIDE DEF ab
<1>7. /\ t \in Ranges /\ Len(t) = (k + 1) + (Len(rs) - k)
      /\ \A i \in 1 .. (k + 1) + (Len(rs) - k) : t[i] = IF i <= k + 1 THEN ab[i] ELSE c[i - (k + 1)]
  <2>1. /\ t \in Ranges /\ Len(t) = Len(ab) + Len(c)
        /\ \A i \in 1 .. Len(ab) + Len(c) : t[i] = IF i <= Len(ab) THEN ab[i] ELSE c[i - Len(ab)]
    BY <1>5, <1>6, JoinedRanges, Zenon
  <2> HIDE DEF t
  <2> QED BY <1>5, <1>6, <2>1
<1> HIDE DEF t
<1>8. Len(t) = Len(rs) + 1
  BY <1>1, <1>7
<1>9. \A j \in 1 .. k : t[j] = rs[j]
  BY <1>1, <1>3, <1>6, <1>7, SMTT(60)
<1>10. t[k + 1] = e
  <2>1. t[k + 1] = ab[k + 1] /\ ab[k + 1] = b[(k + 1) - k]
    BY <1>1, <1>6, <1>7, SMTT(60)
  <2>2. (k + 1) - k = 1
    BY <1>1
  <2> QED BY <1>4, <2>1, <2>2, SMTT(60)
<1>11. \A j \in k + 1 .. Len(rs) : t[j + 1] = rs[j]
  <2> TAKE j \in k + 1 .. Len(rs)
  <2>1. t[j + 1] = c[(j + 1) - (k + 1)]
    <3>1. j + 1 \in 1 .. (k + 1) + (Len(rs) - k) /\ ~(j + 1 <= k + 1)
      BY <1>1
    <3> QED BY <1>7, <3>1
  <2>2. (j + 1) - (k + 1) = j - k /\ j - k \in 1 .. Len(rs) - k /\ k + (j - k) = j
    BY <1>1
  <2>3. c[j - k] = rs[k + (j - k)]
    BY <1>5, <2>2
  <2> QED BY <2>1, <2>2, <2>3
<1> QED BY <1>2, <1>7, <1>8, <1>9, <1>10, <1>11, ZenonT(60)

\* What the list has at each place after Remove.
LEMMA RemovedRange ==
    ASSUME NEW rs \in Ranges, NEW k \in 1 .. Len(rs)
    PROVE  LET t == Remove(rs, k) IN
           /\ t \in Ranges /\ Len(t) = Len(rs) - 1
           /\ \A j \in 1 .. k - 1 : t[j] = rs[j]
           /\ \A j \in k .. Len(rs) - 1 : t[j] = rs[j + 1]
<1> DEFINE a == SubSeq(rs, 1, k - 1)
           c == SubSeq(rs, k + 1, Len(rs))
           t == a \o c
<1>1. Len(rs) \in Nat
  BY RangeFields
<1>2. Remove(rs, k) = t
  BY DEF Remove
<1>3. a \in Ranges /\ Len(a) = k - 1 /\ \A i \in 1 .. k - 1 : a[i] = rs[i]
  <2>1. /\ a \in Ranges /\ Len(a) = (k - 1) - 1 + 1
        /\ \A i \in 1 .. (k - 1) - 1 + 1 : a[i] = rs[1 + i - 1]
    BY <1>1, PartOfRanges
  <2> HIDE DEF a
  <2> QED BY <1>1, <2>1
<1>4. /\ c \in Ranges /\ Len(c) = Len(rs) - k
      /\ \A i \in 1 .. Len(rs) - k : c[i] = rs[k + i]
  <2>1. /\ c \in Ranges /\ Len(c) = Len(rs) - (k + 1) + 1
        /\ \A i \in 1 .. Len(rs) - (k + 1) + 1 : c[i] = rs[(k + 1) + i - 1]
    BY <1>1, PartOfRanges, SMTT(60)
  <2> HIDE DEF c
  <2> QED BY <1>1, <2>1
<1> HIDE DEF a, c
<1>5. /\ t \in Ranges /\ Len(t) = (k - 1) + (Len(rs) - k)
      /\ \A i \in 1 .. (k - 1) + (Len(rs) - k) : t[i] = IF i <= k - 1 THEN a[i] ELSE c[i - (k - 1)]
  <2>1. /\ t \in Ranges /\ Len(t) = Len(a) + Len(c)
        /\ \A i \in 1 .. Len(a) + Len(c) : t[i] = IF i <= Len(a) THEN a[i] ELSE c[i - Len(a)]
    BY <1>3, <1>4, JoinedRanges, ZenonT(60)
  <2> HIDE DEF t
  <2> QED BY <1>3, <1>4, <2>1
<1> HIDE DEF t
<1>6. Len(t) = Len(rs) - 1
  BY <1>1, <1>5
<1>7. \A j \in 1 .. k - 1 : t[j] = rs[j]
  BY <1>1, <1>3, <1>5, SMTT(60)
<1>8. \A j \in k .. Len(rs) - 1 : t[j] = rs[j + 1]
  <2> TAKE j \in k .. Len(rs) - 1
  <2>1. t[j] = c[j - (k - 1)]
    BY <1>1, <1>5
  <2>2. j - (k - 1) \in 1 .. Len(rs) - k /\ k + (j - (k - 1)) = j + 1
    BY <1>1
  <2>3. c[j - (k - 1)] = rs[k + (j - (k - 1))]
    BY <1>4, <2>2
  <2> QED BY <2>1, <2>2, <2>3
<1> QED BY <1>2, <1>5, <1>6, <1>7, <1>8, ZenonT(60)

\* addToRanges adds p and nothing else, and merges what now touches.
LEMMA AddToRanges ==
    ASSUME NEW rs \in Ranges, Ordered(rs), NEW p \in Nat
    PROVE  LET t == addToRanges(rs, p) IN
           /\ t \in Ranges /\ Ordered(t) /\ Covered(t) = Covered(rs) \cup {p}
           /\ Len(t) <= Len(rs) + 1
<1> DEFINE reached == {k \in DOMAIN rs : rs[k].lo <= p + 1}
           k == Max(reached)
           t == addToRanges(rs, p)
           Done == t \in Ranges /\ Ordered(t) /\ Covered(t) = Covered(rs) \cup {p}
                     /\ Len(t) <= Len(rs) + 1
<1> SUFFICES Done
  OBVIOUS
<1>1. /\ Len(rs) \in Nat /\ DOMAIN rs = 1 .. Len(rs)
      /\ \A j \in 1 .. Len(rs) : rs[j] \in [lo : Nat, hi : Nat] /\ rs[j].lo \in Nat /\ rs[j].hi \in Nat
  BY RangeFields
<1>2. Single(p) \in [lo : Nat, hi : Nat]
  BY DEF Single
<1>3. CASE reached = {}
  <2>1. t = <<Single(p)>> \o rs
    BY <1>3, Zenon DEF addToRanges
  <2> DEFINE b == <<Single(p)>>
  <2>2. b \in Ranges /\ Len(b) = 1 /\ b[1] = Single(p)
    BY <1>2 DEF Ranges
  <2>3. t = b \o rs
    BY <2>1
  <2> HIDE DEF b, t
  <2>4. /\ t \in Ranges /\ Len(t) = 1 + Len(rs)
        /\ \A i \in 1 .. 1 + Len(rs) : t[i] = IF i <= 1 THEN b[i] ELSE rs[i - 1]
    <3>1. /\ t \in Ranges /\ Len(t) = Len(b) + Len(rs)
          /\ \A i \in 1 .. Len(b) + Len(rs) : t[i] = IF i <= Len(b) THEN b[i] ELSE rs[i - Len(b)]
      BY <2>2, <2>3, JoinedRanges, Zenon
    <3> QED BY <2>2, <3>1
  <2>5. Len(t) = Len(rs) + 1 /\ t[0 + 1] = Single(p)
    BY <1>1, <2>2, <2>4
  <2>6. ASSUME NEW j \in 0 + 1 .. Len(rs)
        PROVE  t[j + 1] = rs[j]
    <3>1. j + 1 \in 1 .. 1 + Len(rs) /\ ~(j + 1 <= 1) /\ (j + 1) - 1 = j
      BY <1>1
    <3>2. (IF j + 1 <= 1 THEN b[j + 1] ELSE rs[(j + 1) - 1]) = rs[j]
      BY <3>1, Zenon
    <3> QED BY <2>4, <3>1, <3>2, ZenonT(60)
  <2>7. \A j \in 0 + 1 .. Len(rs) : p + 1 < rs[j].lo
    BY <1>1, <1>3
  <2>8. Ordered(t) /\ Covered(t) = Covered(rs) \cup {p}
    <3>1. IsInsertion(t, rs, 0, p)
      BY <1>1, <2>5, <2>6, <2>7, SMTT(60) DEF IsInsertion
    <3> QED BY <2>4, <3>1, InsertRange, ZenonT(60)
  <2> QED BY <1>1, <2>4, <2>5, <2>8, SMTT(60)
<1>4. CASE reached # {}
  <2>1. /\ k \in 1 .. Len(rs) /\ rs[k].lo <= p + 1
        /\ \A j \in 1 .. Len(rs) : k < j => p + 1 < rs[j].lo
    <3>1. reached \in SUBSET Int /\ \A j \in reached : j <= Len(rs)
      BY <1>1
    <3>2. k \in reached /\ \A j \in reached : j <= k
      <4>1. Len(rs) \in Int
        BY <1>1
      <4> HIDE DEF reached
      <4> QED BY <1>4, <3>1, <4>1, MaxOf, ZenonT(60)
    <3> HIDE DEF k
    <3>3. ASSUME NEW j \in 1 .. Len(rs), k < j
          PROVE  p + 1 < rs[j].lo
      <4>1. j \notin reached
        <5> HIDE DEF reached
        <5>1. k \in Int
          BY <3>1, <3>2, ZenonT(60)
        <5> QED BY <3>2, <3>3, <5>1
      <4> QED BY <1>1, <4>1
    <3> QED BY <1>1, <3>2, <3>3, ZenonT(60)
  <2> DEFINE up   == [rs EXCEPT ![k].hi = p]
             down == [rs EXCEPT ![k].lo = p]
  <2>2. t = CASE p \in rs[k].lo .. rs[k].hi -> rs
              [] rs[k].hi = p - 1 -> Merged(up, k)
              [] rs[k].lo = p + 1 -> Merged(down, k)
              [] OTHER -> InsertAfter(rs, k, Single(p))
    BY <1>4 DEF addToRanges
  <2> HIDE DEF k, reached, up, down, t
  <2>3. /\ k \in DOMAIN rs /\ rs[k].lo \in Nat /\ rs[k].hi \in Nat /\ rs[k].lo <= rs[k].hi
        /\ \A j \in 1 .. Len(rs) : j < k => rs[j].hi + 1 < rs[k].lo
    BY <1>1, <2>1, ZenonT(60) DEF Ordered
  <2>4. CASE p \in rs[k].lo .. rs[k].hi
    <3>1. t = rs
      BY <2>2, <2>3, <2>4
    <3>2. p \in Covered(rs)
      BY <2>3, <2>4, SMTT(60) DEF Covered
    <3> QED BY <1>1, <3>1, <3>2
  <2>5. CASE rs[k].hi = p - 1
    <3> DEFINE e == [lo |-> rs[k].lo, hi |-> p]
               u == [rs EXCEPT ![k] = e]
    <3>1. up = u
      <4>1. [rs[k] EXCEPT !.hi = p] = e
        BY <1>1, <2>1
      <4> QED BY <4>1, ZenonT(60) DEF up
    <3>2. e \in [lo : Nat, hi : Nat] /\ e.lo = rs[k].lo /\ e.hi = p
      BY <2>3
    <3> HIDE DEF e
    <3>3. /\ u \in Ranges /\ Len(u) = Len(rs)
          /\ \A j \in 1 .. Len(rs) : u[j] = IF j = k THEN e ELSE rs[j]
      BY <2>1, <3>2, ReplacedRange
    <3> HIDE DEF u
    <3>4. Merged(u, k) = u
      <4>1. ASSUME k > 1, u[k - 1].hi + 1 = u[k].lo
            PROVE  FALSE
        <5>1. k - 1 \in 1 .. Len(rs) /\ k - 1 < k /\ k - 1 # k
          BY <1>1, <2>1, <4>1, SMTT(60)
        <5>2. rs[k - 1].hi + 1 < rs[k].lo
          BY <2>3, <5>1
        <5>3. u[k - 1] = rs[k - 1] /\ u[k] = e
          BY <2>1, <3>3, <5>1
        <5> QED BY <1>1, <2>3, <3>2, <4>1, <5>1, <5>2, <5>3, SMTT(60)
      <4> QED BY <4>1 DEF Merged
    <3>5. t = u
      <4>1. p \notin rs[k].lo .. rs[k].hi /\ rs[k].lo # p + 1
        BY <2>3, <2>5
      <4> QED BY <2>2, <2>5, <3>1, <3>4, <4>1, ZenonT(60)
    <3>6. Ordered(u) /\ Covered(u) = Covered(rs) \cup {p}
      <4>1. rs[k].hi + 1 = p /\ u[k].lo = rs[k].lo /\ u[k].hi = p
        BY <2>1, <2>3, <2>5, <3>2, <3>3, SMTT(60)
      <4>2. \A j \in 1 .. Len(rs) : j # k => u[j] = rs[j]
        BY <3>3
      <4>3. \A j \in 1 .. Len(rs) : j < k => rs[j].hi + 1 < p
        BY <1>1, <2>3, <2>5, SMTT(60)
      <4>4. IsExtension(u, rs, k, p)
        BY <2>1, <3>3, <4>1, <4>2, <4>3, ZenonT(60) DEF IsExtension
      <4> QED BY <3>3, <4>4, ExtendRange, SMTT(60)
    <3> QED BY <1>1, <3>3, <3>5, <3>6, SMTT(60)
  <2>6. CASE rs[k].lo = p + 1
    <3> DEFINE e == [lo |-> p, hi |-> rs[k].hi]
               u == [rs EXCEPT ![k] = e]
    <3>1. down = u
      <4>1. [rs[k] EXCEPT !.lo = p] = e
        BY <1>1, <2>1, SMTT(60)
      <4> QED BY <4>1, Zenon DEF down
    <3>2. e \in [lo : Nat, hi : Nat] /\ e.lo = p /\ e.hi = rs[k].hi
      BY <2>3
    <3> HIDE DEF e
    <3>3. /\ u \in Ranges /\ Len(u) = Len(rs)
          /\ \A j \in 1 .. Len(rs) : u[j] = IF j = k THEN e ELSE rs[j]
      BY <2>1, <3>2, ReplacedRange
    <3> HIDE DEF u
    <3>4. t = Merged(u, k)
      <4>1. p \notin rs[k].lo .. rs[k].hi /\ rs[k].hi # p - 1
        BY <2>3, <2>6, SMTT(60)
      <4> QED BY <2>2, <2>6, <3>1, <4>1, SMTT(60)
    <3>5. u[k].lo = p /\ u[k].hi = rs[k].hi /\ \A j \in 1 .. Len(rs) : j # k => u[j] = rs[j]
      BY <2>1, <3>2, <3>3, SMTT(60)
    <3>6. CASE k > 1 /\ u[k - 1].hi + 1 = u[k].lo
      <4> DEFINE d == [lo |-> u[k - 1].lo, hi |-> u[k].hi]
                 v == [u EXCEPT ![k - 1] = d]
      <4>1. k - 1 \in 1 .. Len(rs) /\ k - 1 # k /\ k \in 2 .. Len(rs)
        BY <1>1, <2>1, <3>6, SMTT(60)
      <4>2. u[k - 1] = rs[k - 1]
        BY <3>5, <4>1
      <4>3. [u EXCEPT ![k - 1].hi = u[k].hi] = v
        <5>1. [u[k - 1] EXCEPT !.hi = u[k].hi] = d
          BY <1>1, <4>1, <4>2, SMTT(60)
        <5> QED BY <5>1, ZenonT(60)
      <4>4. d \in [lo : Nat, hi : Nat] /\ d.lo = rs[k - 1].lo /\ d.hi = rs[k].hi
        BY <1>1, <2>3, <3>5, <4>1, <4>2, SMTT(60)
      <4> HIDE DEF d
      <4>5. /\ v \in Ranges /\ Len(v) = Len(rs)
            /\ \A j \in 1 .. Len(rs) : v[j] = IF j = k - 1 THEN d ELSE u[j]
        BY <3>3, <4>1, <4>4, ReplacedRange
      <4> HIDE DEF v
      <4>6. t = Remove(v, k)
        BY <3>4, <3>6, <4>3, ZenonT(60) DEF Merged
      <4>7. /\ t \in Ranges /\ Len(t) = Len(rs) - 1
            /\ \A j \in 1 .. k - 1 : t[j] = v[j]
            /\ \A j \in k .. Len(rs) - 1 : t[j] = v[j + 1]
        <5>1. k \in 1 .. Len(v)
          BY <2>1, <4>5
        <5>2. /\ t \in Ranges /\ Len(t) = Len(v) - 1
              /\ \A j \in 1 .. k - 1 : t[j] = v[j]
              /\ \A j \in k .. Len(v) - 1 : t[j] = v[j + 1]
          BY <4>5, <4>6, <5>1, RemovedRange, Zenon
        <5> QED BY <4>5, <5>2
      <4> HIDE DEF t
      <4>8. \A j \in 1 .. k - 2 : t[j] = rs[j]
        <5> TAKE j \in 1 .. k - 2
        <5>1. j \in 1 .. k - 1 /\ j \in 1 .. Len(rs) /\ j # k /\ j # k - 1
          BY <1>1, <2>1
        <5> QED BY <3>5, <4>5, <4>7, <5>1, ZenonT(60)
      <4>9. t[k - 1] = d
        BY <1>1, <2>1, <4>1, <4>5, <4>7, SMTT(60)
      <4>10. \A j \in k .. Len(rs) - 1 : t[j] = rs[j + 1]
        BY <1>1, <2>1, <3>5, <4>5, <4>7, SMTT(60)
      <4>11. rs[k - 1].hi + 1 = p /\ p + 1 = rs[k].lo
        BY <2>3, <2>6, <3>5, <3>6, <4>2
      <4>12. Ordered(t) /\ Covered(t) = Covered(rs) \cup {p}
        <5>1. t[k - 1].lo = rs[k - 1].lo /\ t[k - 1].hi = rs[k].hi
          BY <4>4, <4>9
        <5>2. IsMerger(t, rs, k, p)
          BY <4>1, <4>7, <4>8, <4>10, <4>11, <5>1, ZenonT(60) DEF IsMerger
        <5> QED BY <4>7, <5>2, MergeRanges, ZenonT(60)
      <4> QED BY <1>1, <4>7, <4>12, SMTT(60)
    <3>7. CASE ~(k > 1 /\ u[k - 1].hi + 1 = u[k].lo)
      <4>1. t = u
        BY <3>4, <3>7, SMTT(60) DEF Merged
      <4>2. ASSUME NEW j \in 1 .. Len(rs), j < k
            PROVE  rs[j].hi + 1 < p
        <5>1. k > 1 /\ k - 1 \in 1 .. Len(rs) /\ k - 1 # k /\ k - 1 < k
          BY <1>1, <2>1, <4>2
        <5>2. u[k - 1] = rs[k - 1]
          BY <3>5, <5>1
        <5>3. rs[k - 1].hi + 1 < p + 1 /\ rs[k - 1].hi + 1 # p
          BY <2>3, <2>6, <3>5, <3>7, <5>1, <5>2, ZenonT(60)
        <5>4. rs[k - 1].lo <= rs[k - 1].hi
          BY <1>1, <5>1 DEF Ordered
        <5>5. CASE j = k - 1
          BY <1>1, <5>1, <5>3, <5>5, SMTT(60)
        <5>6. CASE j < k - 1
          <6>1. rs[j].hi + 1 < rs[k - 1].lo
            BY <1>1, <5>1, <5>6, ZenonT(60) DEF Ordered
          <6> QED BY <1>1, <5>1, <5>3, <5>4, <6>1, SMTT(60)
        <5> QED BY <1>1, <2>1, <4>2, <5>5, <5>6, SMTT(60)
      <4>3. Ordered(u) /\ Covered(u) = Covered(rs) \cup {p}
        <5>1. p + 1 = rs[k].lo
          BY <2>3, <2>6, ZenonT(60)
        <5>2. IsExtension(u, rs, k, p)
          BY <2>1, <3>3, <3>5, <4>2, <5>1, ZenonT(60) DEF IsExtension
        <5> QED BY <3>3, <5>2, ExtendRange
      <4> QED BY <1>1, <3>3, <4>1, <4>3
    <3> QED BY <3>6, <3>7
  <2>7. CASE p \notin rs[k].lo .. rs[k].hi /\ rs[k].hi # p - 1 /\ rs[k].lo # p + 1
    <3>1. t = InsertAfter(rs, k, Single(p))
      BY <2>2, <2>7
    <3>2. k \in 0 .. Len(rs)
      BY <1>1, <2>1
    <3> HIDE DEF t
    <3>3. /\ t \in Ranges /\ Len(t) = Len(rs) + 1
          /\ \A j \in 1 .. k : t[j] = rs[j]
          /\ t[k + 1] = Single(p)
          /\ \A j \in k + 1 .. Len(rs) : t[j + 1] = rs[j]
      BY <1>2, <3>1, <3>2, InsertedRange, ZenonT(60)
    <3>4. rs[k].hi + 1 < p
      BY <2>1, <2>3, <2>7, SMTT(60)
    <3>5. \A j \in 1 .. k : rs[j].hi + 1 < p
      <4> TAKE j \in 1 .. k
      <4>1. CASE j = k
        BY <3>4, <4>1, ZenonT(60)
      <4>2. CASE j < k
        BY <1>1, <2>1, <2>3, <3>4, <4>2, SMTT(60)
      <4> QED BY <1>1, <2>1, <4>1, <4>2, SMTT(60)
    <3>6. \A j \in k + 1 .. Len(rs) : p + 1 < rs[j].lo
      BY <1>1, <2>1, SMTT(60)
    <3>7. Ordered(t) /\ Covered(t) = Covered(rs) \cup {p}
      <4>1. IsInsertion(t, rs, k, p)
        BY <3>2, <3>3, <3>5, <3>6, ZenonT(60) DEF IsInsertion
      <4> QED BY <3>3, <4>1, InsertRange, ZenonT(60)
    <3> QED BY <1>1, <3>3, <3>7, SMTT(60)
  <2> HIDE DEF t
  <2> QED BY <2>4, <2>5, <2>6, <2>7
<1> QED BY <1>3, <1>4

\* DeleteBelow keeps exactly the numbers from p on.
LEMMA DeletedBelow ==
    ASSUME NEW rs \in Ranges, Ordered(rs), NEW p \in Nat
    PROVE  LET d == DeleteBelow(rs, p) IN
           /\ d \in Ranges /\ Ordered(d) /\ Len(d) <= Len(rs)
           /\ \A n \in Nat : n \in Covered(d) <=> n \in Covered(rs) /\ n >= p
<1> DEFINE below == {0} \cup {k \in DOMAIN rs : rs[k].hi < p}
           gone == Max(below)
           kept == SubSeq(rs, gone + 1, Len(rs))
           d == DeleteBelow(rs, p)
<1>1. /\ Len(rs) \in Nat /\ DOMAIN rs = 1 .. Len(rs)
      /\ \A k \in 1 .. Len(rs) : rs[k].lo \in Nat /\ rs[k].hi \in Nat
  BY RangeFields
<1>2. /\ \A k \in DOMAIN rs : rs[k].lo <= rs[k].hi
      /\ \A j, k \in DOMAIN rs : j < k => rs[j].hi + 1 < rs[k].lo
  BY DEF Ordered
<1>3. gone \in below /\ \A k \in below : k <= gone
  <2>1. /\ below \in SUBSET Int /\ below # {} /\ Len(rs) \in Int
        /\ \A k \in below : k <= Len(rs)
    BY <1>1
  <2> HIDE DEF below
  <2>2. gone \in below /\ \A k \in below : k <= gone
    BY <2>1, MaxOf, Zenon
  <2> QED BY <2>2
<1>4. gone \in 0 .. Len(rs) /\ \A k \in DOMAIN rs : rs[k].hi < p <=> k <= gone
  <2>1. gone \in 0 .. Len(rs)
    BY <1>1, <1>3
  <2>2. ASSUME NEW k \in DOMAIN rs, rs[k].hi < p
        PROVE  k <= gone
    BY <1>3, <2>2, ZenonT(60)
  <2>3. ASSUME NEW k \in DOMAIN rs, k <= gone
        PROVE  rs[k].hi < p
    <3>1. gone \in DOMAIN rs /\ rs[gone].hi < p
      BY <1>1, <1>3, <2>1, <2>3
    <3> HIDE DEF gone
    <3> QED BY <1>1, <1>2, <2>3, <3>1, SMTT(60)
  <2> QED BY <2>1, <2>2, <2>3, ZenonT(60)
<1>5. d = IF kept # <<>> /\ kept[1].lo < p THEN [kept EXCEPT ![1].lo = p] ELSE kept
  BY DEF DeleteBelow
<1> HIDE DEF gone, d
<1>6. /\ kept \in Ranges /\ Len(kept) = Len(rs) - gone
      /\ \A i \in 1 .. Len(rs) - gone : kept[i] = rs[gone + i]
  <2>1. gone + 1 \in 1 .. Len(rs) + 1 /\ Len(rs) \in 0 .. Len(rs) /\ gone + 1 <= Len(rs) + 1
    BY <1>1, <1>4
  <2>2. /\ kept \in Ranges /\ Len(kept) = Len(rs) - (gone + 1) + 1
        /\ \A i \in 1 .. Len(rs) - (gone + 1) + 1 : kept[i] = rs[(gone + 1) + i - 1]
    BY <2>1, PartOfRanges, ZenonT(60)
  <2> HIDE DEF kept
  <2>3. Len(rs) - (gone + 1) + 1 = Len(rs) - gone
    BY <1>1, <1>4, SMTT(60)
  <2>4. \A i \in 1 .. Len(rs) - gone : (gone + 1) + i - 1 = gone + i
    BY <1>1, <1>4, SMTT(60)
  <2> QED BY <2>2, <2>3, <2>4, ZenonT(60)
<1> HIDE DEF kept
\* What is kept of each range.
<1>7. /\ d \in Ranges /\ Len(d) = Len(rs) - gone
      /\ \A i \in 1 .. Len(rs) - gone :
            /\ d[i].hi = rs[gone + i].hi
            /\ d[i].lo = IF rs[gone + i].lo < p THEN p ELSE rs[gone + i].lo
  <2>1. \A i \in 2 .. Len(rs) - gone : ~(rs[gone + i].lo < p)
    <3> TAKE i \in 2 .. Len(rs) - gone
    <3>1. gone + 1 \in DOMAIN rs /\ gone + i \in DOMAIN rs /\ gone + 1 < gone + i /\ ~(gone + 1 <= gone)
      BY <1>1, <1>4, SMTT(60)
    <3>2. ~(rs[gone + 1].hi < p) /\ rs[gone + 1].hi + 1 < rs[gone + i].lo
      BY <1>2, <1>4, <3>1, ZenonT(60)
    <3> QED BY <1>1, <3>1, <3>2, SMTT(60)
  <2>2. CASE kept # <<>> /\ kept[1].lo < p
    <3> DEFINE e == [kept[1] EXCEPT !.lo = p]
    <3>1. 1 \in 1 .. Len(kept) /\ kept[1] \in [lo : Nat, hi : Nat]
      <4>1. Len(kept) # 0
        BY <1>6, <2>2, EmptySeq, ZenonT(60) DEF Ranges
      <4>2. 1 \in 1 .. Len(kept)
        BY <1>6, <4>1, RangeFields
      <4> QED BY <1>6, <4>2, RangeFields, ZenonT(60)
    <3>2. e \in [lo : Nat, hi : Nat] /\ e.lo = p /\ e.hi = kept[1].hi
      BY <3>1
    <3>3. d = [kept EXCEPT ![1] = e]
      BY <1>5, <2>2
    <3> HIDE DEF e
    <3>4. /\ d \in Ranges /\ Len(d) = Len(kept)
          /\ \A j \in 1 .. Len(kept) : d[j] = IF j = 1 THEN e ELSE kept[j]
      <4> DEFINE u == [kept EXCEPT ![1] = e]
      <4>1. /\ u \in Ranges /\ Len(u) = Len(kept)
            /\ \A j \in 1 .. Len(kept) : u[j] = IF j = 1 THEN e ELSE kept[j]
        <5>1. kept \in Ranges /\ 1 \in 1 .. Len(kept) /\ e \in [lo : Nat, hi : Nat]
          BY <1>6, <3>1, <3>2
        <5> QED BY <5>1, ReplacedRange, SMTT(60)
      <4> QED BY <3>3, <4>1
    <3>5. kept[1] = rs[gone + 1] /\ rs[gone + 1].lo < p
      BY <1>6, <2>2, <3>1, ZenonT(60)
    <3>6. ASSUME NEW i \in 1 .. Len(rs) - gone
          PROVE  /\ d[i].hi = rs[gone + i].hi
                 /\ d[i].lo = IF rs[gone + i].lo < p THEN p ELSE rs[gone + i].lo
      <4>1. CASE i = 1
        BY <1>6, <3>2, <3>4, <3>5, <4>1, ZenonT(60)
      <4>2. CASE i # 1
        <5>1. i \in 2 .. Len(rs) - gone
          BY <1>1, <1>4, <4>2, SMTT(60)
        <5> QED BY <1>6, <2>1, <3>4, <4>2, <5>1, ZenonT(60)
      <4> QED BY <4>1, <4>2
    <3> QED BY <1>6, <3>4, <3>6, ZenonT(60)
  <2>3. CASE ~(kept # <<>> /\ kept[1].lo < p)
    <3>1. d = kept
      BY <1>5, <2>3
    <3>2. ASSUME NEW i \in 1 .. Len(rs) - gone
          PROVE  ~(rs[gone + i].lo < p)
      <4>1. CASE i = 1
        <5>1. kept # <<>>
          BY <1>1, <1>4, <1>6, EmptySeq, SMTT(60) DEF Ranges
        <5> QED BY <1>6, <2>3, <4>1, <5>1, ZenonT(60)
      <4>2. CASE i # 1
        <5>1. i \in 2 .. Len(rs) - gone
          BY <1>1, <1>4, <4>2
        <5> QED BY <2>1, <5>1, ZenonT(60)
      <4> QED BY <4>1, <4>2
    <3> QED BY <1>6, <3>1, <3>2, SMTT(60)
  <2> QED BY <2>2, <2>3, ZenonT(60)
<1>8. DOMAIN d = 1 .. Len(rs) - gone
  BY <1>7, RangeFields, SMTT(60)
<1>9. \A i \in DOMAIN d :
          /\ gone + i \in DOMAIN rs /\ gone + i \in 1 .. Len(rs) /\ rs[gone + i].hi >= p
  <2> TAKE i \in DOMAIN d
  <2>1. gone + i \in DOMAIN rs /\ gone + i \in 1 .. Len(rs) /\ ~(gone + i <= gone)
    BY <1>1, <1>4, <1>8, SMTT(60)
  <2> QED BY <1>1, <1>4, <2>1, SMTT(60)
<1>10. Ordered(d)
  <2>1. ASSUME NEW i \in DOMAIN d
        PROVE  d[i].lo <= d[i].hi
    BY <1>1, <1>2, <1>7, <1>8, <1>9, ZenonT(60)
  <2>2. ASSUME NEW i \in DOMAIN d, NEW j \in DOMAIN d, i < j
        PROVE  d[i].hi + 1 < d[j].lo
    <3>1. gone + i < gone + j
      BY <1>1, <1>4, <1>8, <2>2, SMTT(60)
    <3>2. rs[gone + i].hi + 1 < rs[gone + j].lo
      BY <1>2, <1>9, <3>1, SMTT(60)
    <3>3. ~(rs[gone + j].lo < p)
      BY <1>1, <1>9, <3>2, SMTT(60)
    <3> QED BY <1>7, <1>8, <3>2, <3>3, SMTT(60)
  <2> QED BY <2>1, <2>2 DEF Ordered
<1>11. ASSUME NEW n \in Nat
       PROVE  Has(d, n) <=> Has(rs, n) /\ n >= p
  <2>1. ASSUME Has(d, n)
        PROVE  Has(rs, n) /\ n >= p
    <3>1. PICK i \in DOMAIN d : d[i].lo <= n /\ n <= d[i].hi
      BY <2>1, SMTT(60) DEF Has
    <3>2. rs[gone + i].lo <= n /\ n <= rs[gone + i].hi /\ n >= p
      BY <1>1, <1>7, <1>8, <1>9, <3>1, SMTT(60)
    <3> QED BY <1>9, <3>2 DEF Has
  <2>2. ASSUME Has(rs, n), n >= p
        PROVE  Has(d, n)
    <3>1. PICK k \in DOMAIN rs : rs[k].lo <= n /\ n <= rs[k].hi
      BY <2>2 DEF Has
    <3>2. ~(rs[k].hi < p)
      BY <1>1, <2>2, <3>1, SMTT(60)
    <3>3. ~(k <= gone)
      BY <1>4, <3>2
    <3> DEFINE i == k - gone
    <3>4. i \in DOMAIN d /\ gone + i = k
      BY <1>1, <1>4, <1>8, <3>3, SMTT(60)
    <3> HIDE DEF i
    <3>5. d[i].lo <= n /\ n <= d[i].hi
      BY <1>1, <1>7, <1>8, <2>2, <3>1, <3>4, ZenonT(60)
    <3> QED BY <3>4, <3>5 DEF Has
  <2> QED BY <2>1, <2>2, SMTT(60)
<1>12. \A n \in Nat : n \in Covered(d) <=> n \in Covered(rs) /\ n >= p
  BY <1>7, <1>11, CoveredIn
<1> QED BY <1>1, <1>4, <1>7, <1>10, <1>12, SMTT(60) DEF d

\* Tail deletes the first range and nothing else.
LEMMA TailOfRanges ==
    ASSUME NEW rs \in Ranges, Ordered(rs), rs # <<>>
    PROVE  LET t == Tail(rs) IN
           /\ t \in Ranges /\ Ordered(t) /\ Len(t) = Len(rs) - 1 /\ Len(rs) > 0
           /\ Head(rs) = rs[1] /\ rs[1].hi \in Nat
           /\ \A n \in Nat : n \in Covered(t) <=> n \in Covered(rs) /\ n > rs[1].hi
<1> DEFINE t == Tail(rs)
<1>1. /\ Len(rs) \in Nat /\ DOMAIN rs = 1 .. Len(rs)
      /\ \A k \in 1 .. Len(rs) : rs[k].lo \in Nat /\ rs[k].hi \in Nat
  BY RangeFields
<1>2. /\ \A k \in DOMAIN rs : rs[k].lo <= rs[k].hi
      /\ \A j, k \in DOMAIN rs : j < k => rs[j].hi + 1 < rs[k].lo
  BY DEF Ordered
<1>3. /\ t \in Ranges /\ Len(t) = Len(rs) - 1
      /\ \A i \in 1 .. Len(t) : t[i] = rs[i + 1]
  <2> DEFINE S == [lo : Nat, hi : Nat]
  <2>1. rs \in Seq(S)
    BY DEF Ranges
  <2> HIDE DEF S
  <2>2. /\ t \in Seq(S) /\ Len(t) = Len(rs) - 1
        /\ \A i \in 1 .. Len(t) : t[i] = rs[i + 1]
    BY <2>1, HeadTailProperties, Zenon
  <2> QED BY <2>2 DEF Ranges, S
<1>4. Len(rs) > 0
  BY <1>1, EmptySeq DEF Ranges
<1>5. Head(rs) = rs[1]
  BY DEF Ranges
<1> HIDE DEF t
<1>6. DOMAIN t = 1 .. Len(rs) - 1
  BY <1>3, RangeFields
<1>7. \A i \in DOMAIN t : i + 1 \in DOMAIN rs /\ t[i] = rs[i + 1] /\ rs[1].hi < rs[i + 1].lo
  <2> TAKE i \in DOMAIN t
  <2>1. i + 1 \in DOMAIN rs /\ 1 \in DOMAIN rs /\ 1 < i + 1
    BY <1>1, <1>4, <1>6
  <2>2. t[i] = rs[i + 1]
    BY <1>3, <1>6
  <2>3. rs[1].hi + 1 < rs[i + 1].lo
    BY <1>2, <2>1
  <2> QED BY <1>1, <2>1, <2>2, <2>3, SMTT(60)
<1>8. Ordered(t)
  <2>1. ASSUME NEW i \in DOMAIN t, NEW j \in DOMAIN t, i < j
        PROVE  t[i].hi + 1 < t[j].lo
    <3>1. i + 1 < j + 1
      BY <1>1, <1>6, <2>1, SMTT(60)
    <3> QED BY <1>2, <1>7, <3>1, SMTT(60)
  <2> QED BY <1>2, <1>7, <2>1, ZenonT(60) DEF Ordered
<1>9. ASSUME NEW n \in Nat
      PROVE  Has(t, n) <=> Has(rs, n) /\ n > rs[1].hi
  <2>1. ASSUME Has(t, n)
        PROVE  Has(rs, n) /\ n > rs[1].hi
    <3>1. PICK i \in DOMAIN t : t[i].lo <= n /\ n <= t[i].hi
      BY <2>1 DEF Has
    <3>2. i + 1 \in DOMAIN rs /\ rs[i + 1].lo <= n /\ n <= rs[i + 1].hi /\ rs[1].hi < rs[i + 1].lo
      BY <1>7, <3>1
    <3>3. n > rs[1].hi
      BY <1>1, <1>4, <3>2, SMTT(60)
    <3> QED BY <3>2, <3>3 DEF Has
  <2>2. ASSUME Has(rs, n), n > rs[1].hi
        PROVE  Has(t, n)
    <3>1. PICK k \in DOMAIN rs : rs[k].lo <= n /\ n <= rs[k].hi
      BY <2>2 DEF Has
    <3>2. k # 1
      BY <1>1, <2>2, <3>1
    <3>3. k - 1 \in DOMAIN t /\ (k - 1) + 1 = k
      BY <1>1, <1>6, <3>2
    <3>4. t[k - 1] = rs[k]
      BY <1>7, <3>3
    <3> QED BY <3>1, <3>3, <3>4 DEF Has
  <2> QED BY <2>1, <2>2, SMTT(60)
<1>10. \A n \in Nat : n \in Covered(t) <=> n \in Covered(rs) /\ n > rs[1].hi
  BY <1>3, <1>9, CoveredIn
<1> QED BY <1>1, <1>3, <1>4, <1>5, <1>8, <1>10, SMTT(60) DEF t

-----------------------------------------------------------------------------
(* The receiver: one receivedPacketTracker, which got the numbers nums. *)

Trackers ==
    [ranges : Ranges, ignoreBelow : Nat, forgot : Nat, lastAck : SUBSET Nat,
     ackQueued : BOOLEAN, ackAlarm : BOOLEAN, eliciting : Nat]

Exact(t, nums) ==
    /\ t \in Trackers /\ Ordered(t.ranges) /\ Len(t.ranges) <= MaxNumAckRanges
    /\ Covered(t.ranges) \subseteq nums
    /\ \A n \in nums : n >= t.ignoreBelow /\ n >= t.forgot => n \in Covered(t.ranges)

Due(t) == t.ackQueued \/ t.ackAlarm => t.ranges # <<>>

\* IgnoreBelow deletes only what the peer has confirmed.
LEMMA IgnoreStep ==
    ASSUME NEW nums \in SUBSET Nat, NEW t, Exact(t, nums), NEW p \in Nat
    PROVE  LET u == IgnoreBelow(t, p) IN
           /\ Exact(u, nums) /\ u.lastAck = t.lastAck
           /\ p <= t.ignoreBelow => u = t
           /\ u.ignoreBelow = IF p <= t.ignoreBelow THEN t.ignoreBelow ELSE p
<1>1. t \in Trackers /\ t.ranges \in Ranges /\ Ordered(t.ranges)
      /\ Len(t.ranges) <= MaxNumAckRanges /\ t.ignoreBelow \in Nat /\ t.forgot \in Nat
  BY DEF Exact, Trackers
<1>2. CASE p <= t.ignoreBelow
  BY <1>2, ZenonT(60) DEF IgnoreBelow
<1>3. CASE ~(p <= t.ignoreBelow)
  <2> DEFINE d == DeleteBelow(t.ranges, p)
             u == [t EXCEPT !.ignoreBelow = p, !.ranges = d]
  <2>1. /\ d \in Ranges /\ Ordered(d) /\ Len(d) <= Len(t.ranges)
        /\ \A n \in Nat : n \in Covered(d) <=> n \in Covered(t.ranges) /\ n >= p
    BY <1>1, DeletedBelow, ZenonT(60)
  <2>2. IgnoreBelow(t, p) = u
    BY <1>3, ZenonT(60) DEF IgnoreBelow
  <2> HIDE DEF d
  <2>3. /\ u \in Trackers /\ u.ranges = d /\ u.ignoreBelow = p
        /\ u.forgot = t.forgot /\ u.lastAck = t.lastAck
    BY <1>1, <2>1, ZenonT(60) DEF Trackers
  <2> HIDE DEF u
  <2>4. Len(d) <= MaxNumAckRanges
    BY <1>1, <2>1, RangeFields, LossRecoveryAssumption, SMTT(60)
  <2>5. Covered(d) \subseteq nums
    <3>1. Covered(d) \subseteq Nat
      BY <2>1, CoveredIn, ZenonT(60)
    <3> QED BY <2>1, <3>1 DEF Exact
  <2>6. ASSUME NEW n \in nums, n >= p, n >= t.forgot
        PROVE  n \in Covered(d)
    <3>1. n >= t.ignoreBelow
      BY <1>1, <1>3, <2>6, SMTT(60)
    <3> QED BY <2>1, <2>6, <3>1, ZenonT(60) DEF Exact
  <2> QED BY <1>3, <2>1, <2>2, <2>3, <2>4, <2>5, <2>6, ZenonT(60) DEF Exact
<1> QED BY <1>2, <1>3, ZenonT(60)

\* A number is added, and the oldest range may be forgotten.
LEMMA AddStep ==
    ASSUME NEW nums \in SUBSET Nat, NEW t, Exact(t, nums), NEW p \in Nat
    PROVE  LET v == maybeDeleteOldRanges([t EXCEPT !.ranges = addToRanges(@, p)]) IN
           Exact(v, nums \cup {p}) /\ v.ranges # <<>>
<1> DEFINE a == addToRanges(t.ranges, p)
           u == [t EXCEPT !.ranges = a]
           v == maybeDeleteOldRanges(u)
           all == nums \cup {p}
<1>1. t \in Trackers /\ t.ranges \in Ranges /\ Ordered(t.ranges)
      /\ Len(t.ranges) <= MaxNumAckRanges /\ t.ignoreBelow \in Nat /\ t.forgot \in Nat
  BY DEF Exact, Trackers
<1>2. a \in Ranges /\ Ordered(a) /\ Covered(a) = Covered(t.ranges) \cup {p} /\ Len(a) <= Len(t.ranges) + 1
  BY <1>1, AddToRanges, ZenonT(60)
<1>3. [t EXCEPT !.ranges = addToRanges(@, p)] = u
  OBVIOUS
<1> HIDE DEF a
<1>4. /\ u \in Trackers /\ u.ranges = a /\ u.ignoreBelow = t.ignoreBelow /\ u.forgot = t.forgot
  BY <1>1, <1>2, ZenonT(60) DEF Trackers
<1>5. /\ Covered(a) \subseteq all
      /\ \A n \in all : n >= t.ignoreBelow /\ n >= t.forgot => n \in Covered(a)
  <2>1. /\ Covered(t.ranges) \subseteq nums
        /\ \A n \in nums : n >= t.ignoreBelow /\ n >= t.forgot => n \in Covered(t.ranges)
    BY ZenonT(60) DEF Exact
  <2> QED BY <1>2, <2>1, ZenonT(60)
<1>6. Len(a) \in Nat /\ Len(t.ranges) \in Nat /\ a # <<>> /\ MaxNumAckRanges \in Nat \ {0}
  <2>1. \A n \in Nat : n \in Covered(a) <=> Has(a, n)
    BY <1>2, CoveredIn, ZenonT(60)
  <2>2. Has(a, p)
    BY <1>2, <2>1, ZenonT(60)
  <2>3. DOMAIN a # {}
    BY <2>2, ZenonT(60) DEF Has
  <2>4. a # <<>>
    BY <2>3, SMTT(60)
  <2> QED BY <1>1, <1>2, <2>4, RangeFields, LossRecoveryAssumption, ZenonT(60)
<1> HIDE DEF u
<1>7. CASE Len(a) <= MaxNumAckRanges
  <2>1. v = u
    BY <1>4, <1>7, ZenonT(60) DEF maybeDeleteOldRanges
  <2> QED BY <1>2, <1>3, <1>4, <1>5, <1>6, <1>7, <2>1, ZenonT(60) DEF Exact
<1>8. CASE ~(Len(a) <= MaxNumAckRanges)
  <2> DEFINE b == Tail(a)
             o == Max({u.forgot, Head(a).hi + 1})
             w == [u EXCEPT !.ranges = b, !.forgot = o]
  <2>1. v = w
    <3>1. v = [u EXCEPT !.ranges = Tail(@), !.forgot = Max({@, Head(u.ranges).hi + 1})]
      BY <1>4, <1>8, ZenonT(60) DEF maybeDeleteOldRanges
    <3> QED BY <1>4, <3>1, ZenonT(60)
  <2>2. /\ b \in Ranges /\ Ordered(b) /\ Len(b) = Len(a) - 1
        /\ Head(a) = a[1] /\ a[1].hi \in Nat
        /\ \A n \in Nat : n \in Covered(b) <=> n \in Covered(a) /\ n > a[1].hi
    BY <1>2, <1>6, TailOfRanges, ZenonT(60)
  <2>3. o \in Nat /\ o >= t.forgot /\ o >= a[1].hi + 1
    <3>1. o = IF u.forgot >= a[1].hi + 1 THEN u.forgot ELSE a[1].hi + 1
      <4>1. u.forgot \in Int /\ a[1].hi + 1 \in Int
        BY <1>1, <1>4, <2>2, SMTT(60)
      <4> QED BY <2>2, <4>1, MaxOfTwo, ZenonT(60)
    <3> HIDE DEF o
    <3> QED BY <1>1, <1>4, <2>2, <3>1, SMTT(60)
  <2> HIDE DEF b, o
  <2>4. w \in Trackers /\ w.ranges = b /\ w.forgot = o /\ w.ignoreBelow = t.ignoreBelow
    BY <1>4, <2>2, <2>3, ZenonT(60) DEF Trackers
  <2> HIDE DEF w
  <2>5. Len(b) <= MaxNumAckRanges /\ b # <<>>
    <3>1. Len(b) <= MaxNumAckRanges /\ Len(b) > 0
      BY <1>1, <1>2, <1>6, <1>8, <2>2
    <3> QED BY <3>1
  <2>6. Covered(b) \subseteq all
    <3>1. Covered(b) \subseteq Nat
      BY <2>2, CoveredIn, ZenonT(60)
    <3> QED BY <1>5, <2>2, <3>1, ZenonT(60)
  <2>7. ASSUME NEW n \in all, n >= t.ignoreBelow, n >= o
        PROVE  n \in Covered(b)
    <3>1. n \in Nat
      OBVIOUS
    <3> HIDE DEF all
    <3>2. n >= t.forgot /\ n > a[1].hi
      BY <1>1, <2>2, <2>3, <2>7, <3>1, SMTT(60)
    <3> QED BY <1>5, <2>2, <2>7, <3>1, <3>2, ZenonT(60)
  <2> QED BY <1>3, <2>1, <2>2, <2>4, <2>5, <2>6, <2>7, ZenonT(60) DEF Exact
<1> QED BY <1>7, <1>8, ZenonT(60)

\* Queueing an ACK, or setting the alarm, leaves the ranges alone.
LEMMA QueueStep ==
    ASSUME NEW nums, NEW t, Exact(t, nums), NEW missing, NEW e
    PROVE  LET u == maybeQueueAck(t, missing, e) IN
           Exact(u, nums) /\ u.ranges = t.ranges
<1> DEFINE count == IF t.ackQueued \/ missing \/ ~e THEN t.eliciting ELSE t.eliciting + 1
           queued == t.ackQueued \/ missing \/ count >= initialAckElicitingPacketsBeforeAck
           alarm == ~queued /\ (t.ackAlarm \/ e)
           u == maybeQueueAck(t, missing, e)
<1>1. t \in Trackers /\ t.eliciting \in Nat
  BY DEF Exact, Trackers
<1>2. count \in Nat /\ queued \in BOOLEAN /\ alarm \in BOOLEAN
  <2>1. count \in Nat
    BY <1>1
  <2>2. queued \in BOOLEAN
    BY Zenon
  <2>3. alarm \in BOOLEAN
    BY Zenon
  <2> QED BY <2>1, <2>2, <2>3, ZenonT(60)
<1>3. u = IF t.lastAck = {} THEN [t EXCEPT !.ackQueued = TRUE]
          ELSE [t EXCEPT !.eliciting = count, !.ackQueued = queued, !.ackAlarm = alarm]
  BY Zenon DEF maybeQueueAck
<1> HIDE DEF count, queued, alarm
<1>4. u \in Trackers /\ u.ranges = t.ranges /\ u.ignoreBelow = t.ignoreBelow /\ u.forgot = t.forgot
  BY <1>1, <1>2, <1>3, ZenonT(60) DEF Trackers
<1> HIDE DEF u
<1>5. Exact(u, nums)
  BY <1>4 DEF Exact
<1> QED BY <1>4, <1>5, ZenonT(60) DEF u

\* A packet p arrives, with an ACK of everything below confirmed: an ACK that
\* is due is still not empty, although confirmed ranges were deleted.
LEMMA ReceivedStep ==
    ASSUME NEW nums \in SUBSET Nat, NEW t, Exact(t, nums), Due(t),
           NEW p \in Nat, NEW confirmed \in Nat, confirmed <= p, NEW e
    PROVE  LET w == ReceivedPacket(IgnoreBelow(t, confirmed), p, e) IN
           Exact(w, nums \cup {p}) /\ Due(w)
<1> DEFINE u == IgnoreBelow(t, confirmed)
           v == maybeDeleteOldRanges([u EXCEPT !.ranges = addToRanges(@, p)])
           w == ReceivedPacket(u, p, e)
<1>1. /\ Exact(u, nums) /\ u.lastAck = t.lastAck
      /\ confirmed <= t.ignoreBelow => u = t
      /\ u.ignoreBelow = IF confirmed <= t.ignoreBelow THEN t.ignoreBelow ELSE confirmed
  BY IgnoreStep
<1> HIDE DEF u
<1>2. u \in Trackers /\ u.ignoreBelow \in Nat /\ t.ignoreBelow \in Nat
  BY <1>1 DEF Exact, Trackers
<1>3. ASSUME p < u.ignoreBelow
      PROVE  Exact(w, nums \cup {p}) /\ Due(w)
  <2>1. u = t
    BY <1>1, <1>2, <1>3, SMTT(60)
  <2>2. w = t
    BY <1>3, <2>1, ZenonT(60) DEF ReceivedPacket
  <2>3. Exact(t, nums \cup {p})
    <3>1. ~(p >= t.ignoreBelow)
      BY <1>2, <1>3, <2>1, SMTT(60)
    <3> QED BY <3>1, ZenonT(60) DEF Exact
  <2>4. Exact(w, nums \cup {p}) /\ Due(w)
    BY <2>2, <2>3, ZenonT(60)
  <2> HIDE DEF w
  <2> QED BY <2>4, ZenonT(60)
<1>4. ASSUME ~(p < u.ignoreBelow)
      PROVE  Exact(w, nums \cup {p}) /\ Due(w)
  <2>1. Exact(v, nums \cup {p}) /\ v.ranges # <<>>
    BY <1>1, AddStep, Zenon
  <2>2. w = maybeQueueAck(v, isMissing(u, p), e)
    BY <1>4, Zenon DEF ReceivedPacket
  <2> HIDE DEF v, w
  <2>3. Exact(w, nums \cup {p}) /\ w.ranges = v.ranges
    BY <2>1, <2>2, QueueStep, ZenonT(60)
  <2> QED BY <2>1, <2>3, ZenonT(60) DEF Due
<1> HIDE DEF w
<1> QED BY <1>3, <1>4 DEF w, u

-----------------------------------------------------------------------------
(* The protocol: what is under way, and what arrived, was sent. *)

\* The numbers of the packets that were sent: those given away and not skipped.
Sent(s) == (0 .. next[s] - 1) \ skipped[s]
Nums(s) == {p.pn : p \in received[s]}
Arrived == [pn : Nat, frame : Frames \cup {Ping, NoFrame}]
Packets == [space : Spaces, pn : Nat, frame : Frames \cup {Ping, NoFrame}, heard : Nat]

Given ==
    /\ next \in [Spaces -> Nat] /\ skipped \in [Spaces -> SUBSET Nat]
    /\ \A s \in Spaces : skipped[s] \subseteq 0 .. next[s] - 1
    /\ heard \in Nat /\ heard <= next[OneRTT]
    /\ err # "ack"

\* A packet has a number that was sent, above the numbers its ACK confirms.
PacketsSent ==
    \A p \in net :
        p \in Packets /\ p.pn \in Sent(p.space) /\ (p.space = OneRTT => p.heard <= p.pn)

AcksSent ==
    \A a \in acks : a.space \in Spaces /\ a.ack \subseteq Sent(a.space) /\ a.ack # {}

ArrivedSent ==
    received \in [Spaces -> SUBSET Arrived] /\ \A s \in Spaces : Nums(s) \subseteq Sent(s)

Receiver ==
    r \in [Spaces -> Trackers] /\ \A s \in Spaces : Exact(r[s], Nums(s)) /\ Due(r[s])

ProtocolInv == Given /\ PacketsSent /\ AcksSent /\ ArrivedSent /\ Receiver

\* The numbers sent grow by the one that is used, whether or not one is skipped.
LEMMA SentGrows ==
    ASSUME Given, NEW s \in Spaces, Pop(s)
    PROVE  /\ next' \in [Spaces -> Nat] /\ skipped' \in [Spaces -> SUBSET Nat]
           /\ \A t \in Spaces : skipped'[t] \subseteq 0 .. next'[t] - 1
           /\ \A t \in Spaces : next[t] <= next'[t] /\ Sent(t) \subseteq Sent(t)'
           /\ next[s] \in Sent(s)'
<1>1. /\ next \in [Spaces -> Nat] /\ skipped \in [Spaces -> SUBSET Nat]
      /\ \A t \in Spaces : skipped[t] \subseteq 0 .. next[t] - 1
  BY DEF Given
<1> DEFINE n == next[s] + 1
<1>2. CASE next' = [next EXCEPT ![s] = n] /\ UNCHANGED <<skipFrom, skipped>>
  <2>1. next' \in [Spaces -> Nat] /\ skipped' = skipped /\ next'[s] = next[s] + 1
        /\ \A t \in Spaces : t # s => next'[t] = next[t]
    BY <1>1, <1>2, SMTT(60)
  <2> QED BY <1>1, <2>1, SMTT(60) DEF Sent
<1>3. CASE next' = [next EXCEPT ![s] = n + 1] /\ skipped' = [skipped EXCEPT ![s] = @ \cup {n}]
  <2>1. /\ next' \in [Spaces -> Nat] /\ next'[s] = next[s] + 2
        /\ \A t \in Spaces : t # s => next'[t] = next[t]
    BY <1>1, <1>3, SMTT(60)
  <2>2. /\ skipped' \in [Spaces -> SUBSET Nat] /\ skipped'[s] = skipped[s] \cup {n}
        /\ \A t \in Spaces : t # s => skipped'[t] = skipped[t]
    BY <1>1, <1>3, SMTT(60)
  <2>3. \A t \in Spaces : skipped'[t] \subseteq 0 .. next'[t] - 1
    BY <1>1, <2>1, <2>2, SMTT(60)
  <2>4. \A t \in Spaces : next[t] <= next'[t] /\ Sent(t) \subseteq Sent(t)'
    BY <1>1, <2>1, <2>2, SMTT(60) DEF Sent
  <2>5. next[s] \in Sent(s)'
    BY <1>1, <2>1, <2>2, SMTT(60) DEF Sent
  <2> QED BY <2>1, <2>2, <2>3, <2>4, <2>5, ZenonT(60)
<1> QED BY <1>2, <1>3, Zenon DEF Pop

\* A packet is sent.
LEMMA TransmitStep ==
    ASSUME ProtocolInv, NEW s \in Spaces, NEW f \in Frames \cup {Ping, NoFrame},
           Transmit(s, f), UNCHANGED <<heard, recvVars>>, err' # "ack"
    PROVE  ProtocolInv'
<1> DEFINE p == [space |-> s, pn |-> next[s], frame |-> f, heard |-> heard]
<1>1. /\ Given /\ PacketsSent /\ AcksSent /\ ArrivedSent /\ Receiver /\ Pop(s)
      /\ net' = net \cup {p} /\ acks' = acks
      /\ heard' = heard /\ r' = r /\ received' = received
  BY Zenon DEF ProtocolInv, Transmit, recvVars
<1>2. /\ next' \in [Spaces -> Nat] /\ skipped' \in [Spaces -> SUBSET Nat]
      /\ \A t \in Spaces : skipped'[t] \subseteq 0 .. next'[t] - 1
      /\ \A t \in Spaces : next[t] <= next'[t] /\ Sent(t) \subseteq Sent(t)'
      /\ next[s] \in Sent(s)'
  BY <1>1, SentGrows, ZenonT(60)
<1>3. heard \in Nat /\ heard <= next[OneRTT] /\ next \in [Spaces -> Nat]
  BY <1>1, ZenonT(60) DEF Given
<1>4. Given'
  BY <1>1, <1>2, <1>3, TwoSpaces, SMTT(60) DEF Given
<1>5. PacketsSent'
  <2>1. p \in Packets /\ p.space = s /\ p.pn = next[s] /\ p.heard = heard
    BY <1>3, ZenonT(60) DEF Packets
  <2> HIDE DEF p
  <2>2. p.space = OneRTT => p.heard <= p.pn
    BY <1>3, <2>1, ZenonT(60)
  <2>3. \A q : q = p => q \in Packets /\ q.pn \in Sent(q.space)' /\ (q.space = OneRTT => q.heard <= q.pn)
    <3> SUFFICES ASSUME NEW q, q = p
                 PROVE  q \in Packets /\ q.pn \in Sent(q.space)' /\ (q.space = OneRTT => q.heard <= q.pn)
      BY Zenon
    <3>1. q \in Packets /\ q.space = s /\ q.pn = next[s] /\ (q.space = OneRTT => q.heard <= q.pn)
      BY <2>1, <2>2, ZenonT(60)
    <3> QED BY <1>2, <3>1, ZenonT(60)
  <2>4. \A q \in net : q \in Packets /\ q.pn \in Sent(q.space)' /\ (q.space = OneRTT => q.heard <= q.pn)
    <3>1. \A q \in net : q \in Packets /\ q.space \in Spaces /\ q.pn \in Sent(q.space) /\ (q.space = OneRTT => q.heard <= q.pn)
      BY <1>1 DEF PacketsSent, Packets
    <3> QED BY <1>2, <3>1, ZenonT(60)
  <2>5. \A q \in net' : q \in Packets /\ q.pn \in Sent(q.space)' /\ (q.space = OneRTT => q.heard <= q.pn)
    BY <1>1, <2>3, <2>4, ZenonT(60)
  <2> QED BY <2>5, ZenonT(60) DEF PacketsSent
<1>6. AcksSent'
  BY <1>1, <1>2, ZenonT(60) DEF AcksSent
<1>7. ArrivedSent' /\ Receiver'
  <2>1. \A t \in Spaces : Nums(t)' = Nums(t)
    BY <1>1, ZenonT(60) DEF Nums
  <2>2. ArrivedSent'
    BY <1>1, <1>2, <2>1, ZenonT(60) DEF ArrivedSent
  <2>3. Receiver'
    BY <1>1, <2>1, ZenonT(60) DEF Receiver
  <2> QED BY <2>2, <2>3, ZenonT(60)
<1> QED BY <1>4, <1>5, <1>6, <1>7, ZenonT(60) DEF ProtocolInv

\* A step that changes nothing but the sender's own state, or loses something.
LEMMA QuietStep ==
    ASSUME ProtocolInv, UNCHANGED <<genVars, heard, recvVars>>, err' # "ack",
           net' \subseteq net, acks' \subseteq acks
    PROVE  ProtocolInv'
<1>1. /\ next' = next /\ skipped' = skipped /\ heard' = heard /\ r' = r /\ received' = received
      /\ Given /\ PacketsSent /\ AcksSent /\ ArrivedSent /\ Receiver
  BY Zenon DEF genVars, recvVars, ProtocolInv
<1>2. \A s : Sent(s)' = Sent(s) /\ Nums(s)' = Nums(s)
  BY <1>1, ZenonT(60) DEF Sent, Nums
<1>3. Given'
  BY <1>1, ZenonT(60) DEF Given
<1>4. PacketsSent' /\ AcksSent'
  BY <1>1, <1>2, ZenonT(60) DEF PacketsSent, AcksSent
<1>5. ArrivedSent' /\ Receiver'
  BY <1>1, <1>2, ZenonT(60) DEF ArrivedSent, Receiver
<1> QED BY <1>3, <1>4, <1>5, ZenonT(60) DEF ProtocolInv

\* Packing sends a frame of the queue, or fails for want of keys.
LEMMA PackProtocol ==
    ASSUME ProtocolInv, NEW hh, NEW q \in SUBSET (Frames \cup {Ping}), err = "none",
           PackPacket(hh, q), UNCHANGED <<heard, recvVars>>
    PROVE  ProtocolInv'
<1> DEFINE space == IF CryptoData(q) # {} THEN Crypto ELSE OneRTT
<1>1. CASE CryptoData(q) # {} /\ hh.dropped
  <2>1. err' = "packer" /\ UNCHANGED <<genVars, netVars>>
    BY <1>1, ZenonT(60) DEF PackPacket
  <2>2. err' # "ack"
    BY <2>1
  <2>3. UNCHANGED genVars /\ net' \subseteq net /\ acks' \subseteq acks
    BY <2>1, ZenonT(60) DEF netVars
  <2> QED BY <2>2, <2>3, QuietStep, ZenonT(60)
<1>2. CASE ~(CryptoData(q) # {} /\ hh.dropped)
  <2>1. /\ \E f \in NextFrames(q) : Transmit(space, f)
        /\ err' = err
    BY <1>2, ZenonT(60) DEF PackPacket
  <2>2. PICK f \in NextFrames(q) : Transmit(space, f)
    BY <2>1, ZenonT(60)
  <2>3. f \in Frames \cup {Ping, NoFrame}
    BY <2>2, ZenonT(60) DEF NextFrames, CryptoData
  <2>4. space \in Spaces
    BY TwoSpaces, ZenonT(60)
  <2>5. err' # "ack"
    BY <2>1
  <2> HIDE DEF space
  <2> QED BY <2>2, <2>3, <2>4, <2>5, TransmitStep, ZenonT(60)
<1> QED BY <1>1, <1>2, ZenonT(60)

\* The frame of an outstanding packet.
LEMMA OutstandingFrame ==
    ASSUME SenderInv, NEW s \in Spaces, DOMAIN h.history[s] # {}
    PROVE  h.history[s][FirstOutstanding(h, s)] \in Frames \cup {Ping}
<1>1. h.history[s] \in Histories
  BY DEF SenderInv, Sender, Handlers
<1> DEFINE H == h.history[s]
<1>2. DOMAIN H \in SUBSET Nat /\ H \in [DOMAIN H -> Frames \cup {Ping}]
  BY <1>1, History, ZenonT(60)
<1>3. Min(DOMAIN H) \in DOMAIN H
  BY <1>2, MinOf, ZenonT(60)
<1> QED BY <1>2, <1>3, ZenonT(60) DEF FirstOutstanding

\* A probe sends a frame again, or a PING.
LEMMA ProbeProtocol ==
    ASSUME SenderInv, ProtocolInv, SendPTO
    PROVE  ProtocolInv'
<1>1. /\ queue \in SUBSET (Frames \cup {Ping}) /\ err = "none" /\ UNCHANGED <<heard, recvVars>>
  BY Zenon DEF SenderInv, SendPTO, MaySend
<1>2. CASE Tracked(h) = 0
  <2>1. PackPacket(h, queue \cup {Ping})
    BY <1>2, ZenonT(60) DEF SendPTO
  <2>2. queue \cup {Ping} \in SUBSET (Frames \cup {Ping})
    BY <1>1, ZenonT(60)
  <2> QED BY <1>1, <2>1, <2>2, PackProtocol, ZenonT(60)
<1>3. CASE ~(Tracked(h) = 0)
  <2> DEFINE s == IF DOMAIN h.history[Crypto] # {} THEN Crypto ELSE OneRTT
             n == FirstOutstanding(h, s)
             q == queue \cup {h.history[s][n]}
  <2>1. PackPacket(RemovePackets(h, s, {n}), q)
    BY <1>3, ZenonT(60) DEF SendPTO
  <2>2. s \in Spaces
    BY TwoSpaces, ZenonT(60)
  <2>3. DOMAIN h.history[s] # {}
    <3>1. CASE DOMAIN h.history[Crypto] # {}
      BY <3>1, ZenonT(60)
    <3>2. CASE DOMAIN h.history[Crypto] = {}
      <4>1. Cardinality(DOMAIN h.history[Crypto]) = 0
        BY <3>2, FS_EmptySet, ZenonT(60)
      <4>2. Cardinality(DOMAIN h.history[OneRTT]) # 0
        BY <1>3, <4>1, SMTT(60) DEF Tracked
      <4>3. DOMAIN h.history[OneRTT] # {}
        BY <4>2, FS_EmptySet, ZenonT(60)
      <4> QED BY <3>2, <4>3, ZenonT(60)
    <3> QED BY <3>1, <3>2, ZenonT(60)
  <2> HIDE DEF s
  <2>4. h.history[s][n] \in Frames \cup {Ping}
    BY <2>2, <2>3, OutstandingFrame, ZenonT(60)
  <2>5. q \in SUBSET (Frames \cup {Ping})
    BY <1>1, <2>4, ZenonT(60)
  <2> HIDE DEF q
  <2> QED BY <1>1, <2>1, <2>5, PackProtocol, ZenonT(60)
<1> QED BY <1>2, <1>3, ZenonT(60)

\* What the receiver has after a packet p, in its space and in the other one.
LEMMA ReceiverStep ==
    ASSUME Receiver, received \in [Spaces -> SUBSET Arrived], NEW s \in Spaces,
           NEW a \in Arrived, NEW w, Exact(w, Nums(s) \cup {a.pn}), Due(w),
           r' = [r EXCEPT ![s] = w], received' = [received EXCEPT ![s] = @ \cup {a}]
    PROVE  /\ received' \in [Spaces -> SUBSET Arrived]
           /\ Nums(s)' = Nums(s) \cup {a.pn}
           /\ \A t \in Spaces : t # s => Nums(t)' = Nums(t)
           /\ Receiver'
<1>1. /\ received' \in [Spaces -> SUBSET Arrived] /\ received'[s] = received[s] \cup {a}
      /\ \A t \in Spaces : t # s => received'[t] = received[t]
  OBVIOUS
<1>2. Nums(s)' = Nums(s) \cup {a.pn}
  <2>1. Nums(s)' = {p.pn : p \in received'[s]}
    BY DEF Nums
  <2> QED BY <1>1, <2>1, ZenonT(60) DEF Nums
<1>3. \A t \in Spaces : t # s => Nums(t)' = Nums(t)
  BY <1>1, ZenonT(60) DEF Nums
<1>4. w \in Trackers
  BY DEF Exact
<1>5. r \in [Spaces -> Trackers]
  BY DEF Receiver
<1>6. r' \in [Spaces -> Trackers] /\ r'[s] = w /\ \A t \in Spaces : t # s => r'[t] = r[t]
  BY <1>4, <1>5, ZenonT(60)
<1>7. ASSUME NEW t \in Spaces
      PROVE  Exact(r'[t], Nums(t)') /\ Due(r'[t])
  <2>1. CASE t = s
    BY <1>2, <1>6, <2>1, ZenonT(60)
  <2>2. CASE t # s
    BY <1>3, <1>6, <2>2, ZenonT(60) DEF Receiver
  <2> QED BY <2>1, <2>2, ZenonT(60)
<1>8. Receiver'
  BY <1>6, <1>7, ZenonT(60) DEF Receiver, Exact, Due
<1> QED BY <1>1, <1>2, <1>3, <1>8, ZenonT(60)

\* A packet arrives.
LEMMA UnpackStep ==
    ASSUME ProtocolInv, NEW p \in net, handleUnpackedPacket(p),
           net' \subseteq net, acks' \subseteq acks
    PROVE  ProtocolInv'
<1> DEFINE s == p.space
           a == [pn |-> p.pn, frame |-> p.frame]
           e == (p.frame # NoFrame)
<1>1. /\ Given /\ PacketsSent /\ AcksSent /\ ArrivedSent /\ Receiver
      /\ received' = [received EXCEPT ![s] = @ \cup {a}] /\ UNCHANGED sendVars
  BY Zenon DEF ProtocolInv, handleUnpackedPacket
<1>2. PICK confirmed \in {0, p.heard} :
          r' = [r EXCEPT ![s] =
                   ReceivedPacket(IF s = OneRTT THEN IgnoreBelow(@, confirmed) ELSE @, p.pn, e)]
  BY Zenon DEF handleUnpackedPacket
<1>3. /\ p \in Packets /\ p.pn \in Sent(s) /\ (s = OneRTT => p.heard <= p.pn)
  BY <1>1, ZenonT(60) DEF PacketsSent
<1>4. s \in Spaces /\ p.pn \in Nat /\ p.heard \in Nat /\ a \in Arrived /\ a.pn = p.pn
  BY <1>3, ZenonT(60) DEF Packets, Arrived
<1> HIDE DEF e
<1> DEFINE t == r[s]
           c == IF s = OneRTT THEN confirmed ELSE 0
           w == ReceivedPacket(IgnoreBelow(t, c), p.pn, e)
<1>5. Exact(t, Nums(s)) /\ Due(t) /\ t.ignoreBelow \in Nat /\ Nums(s) \in SUBSET Nat
  <2>1. Exact(t, Nums(s)) /\ Due(t)
    BY <1>1, <1>4, ZenonT(60) DEF Receiver
  <2>2. t.ignoreBelow \in Nat
    BY <2>1, ZenonT(60) DEF Exact, Trackers
  <2>3. Nums(s) \in SUBSET Nat
    BY <1>1, <1>4, SMTT(60) DEF ArrivedSent, Arrived, Nums
  <2> QED BY <2>1, <2>2, <2>3, ZenonT(60)
<1>6. c \in Nat /\ c <= p.pn
  BY <1>2, <1>3, <1>4, SMTT(60)
<1>7. r' = [r EXCEPT ![s] = w]
  <2>1. CASE s = OneRTT
    BY <1>2, <2>1, ZenonT(60)
  <2>2. CASE s # OneRTT
    <3>1. IgnoreBelow(t, 0) = t
      BY <1>5, SMTT(60) DEF IgnoreBelow
    <3>2. w = ReceivedPacket(t, p.pn, e)
      BY <2>2, <3>1, ZenonT(60)
    <3>3. r' = [r EXCEPT ![s] = ReceivedPacket(t, p.pn, e)]
      BY <1>2, <2>2, ZenonT(60)
    <3> QED BY <3>2, <3>3, ZenonT(60)
  <2> QED BY <2>1, <2>2, ZenonT(60)
<1> HIDE DEF c, t
<1>8. Exact(w, Nums(s) \cup {p.pn}) /\ Due(w)
  BY <1>4, <1>5, <1>6, ReceivedStep, ZenonT(60)
<1> HIDE DEF w, a, s
<1>9. received \in [Spaces -> SUBSET Arrived]
  BY <1>1, ZenonT(60) DEF ArrivedSent
<1>10. /\ received' \in [Spaces -> SUBSET Arrived]
       /\ Nums(s)' = Nums(s) \cup {a.pn}
       /\ \A u \in Spaces : u # s => Nums(u)' = Nums(u)
       /\ Receiver'
  BY <1>1, <1>4, <1>7, <1>8, <1>9, ReceiverStep, ZenonT(60) DEF s
<1>11. /\ next' = next /\ skipped' = skipped /\ heard' = heard /\ err' = err
  BY <1>1, ZenonT(60) DEF sendVars, genVars
<1>12. \A u : Sent(u)' = Sent(u)
  BY <1>11, ZenonT(60) DEF Sent
<1>13. ArrivedSent'
  <2>1. ASSUME NEW u \in Spaces
        PROVE  Nums(u)' \subseteq Sent(u)'
    <3>1. Nums(u) \subseteq Sent(u)
      BY <1>1, ZenonT(60) DEF ArrivedSent
    <3>2. CASE u = s
      <4>1. Nums(u)' = Nums(u) \cup {p.pn}
        BY <1>4, <1>10, <3>2, ZenonT(60) DEF s
      <4>2. p.pn \in Sent(u)
        BY <1>3, <3>2, ZenonT(60)
      <4> QED BY <1>12, <3>1, <4>1, <4>2, ZenonT(60)
    <3>3. CASE u # s
      BY <1>10, <1>12, <3>1, <3>3, ZenonT(60)
    <3> QED BY <3>2, <3>3, ZenonT(60)
  <2> QED BY <1>10, <2>1, ZenonT(60) DEF ArrivedSent
<1>14. Given' /\ PacketsSent' /\ AcksSent'
  BY <1>1, <1>11, <1>12, ZenonT(60) DEF Given, PacketsSent, AcksSent
<1> QED BY <1>10, <1>13, <1>14, ZenonT(60) DEF ProtocolInv

\* The receiver sends an ACK: it is not empty, and acknowledges what was sent.
LEMMA GetAckStep ==
    ASSUME ProtocolInv, NEW s \in Spaces, GetAckFrame(s)
    PROVE  ProtocolInv'
<1> DEFINE t == r[s]
           ack == Covered(t.ranges)
           u == [t EXCEPT !.lastAck = ack, !.ackAlarm = FALSE, !.ackQueued = FALSE, !.eliciting = 0]
           b == [space |-> s, ack |-> ack]
<1>1. /\ Given /\ PacketsSent /\ AcksSent /\ ArrivedSent /\ Receiver
      /\ t.ackQueued \/ t.ackAlarm
      /\ acks' = acks \cup {b} /\ r' = [r EXCEPT ![s] = u]
      /\ UNCHANGED <<sendVars, received, net>>
  BY Zenon DEF ProtocolInv, GetAckFrame
<1>2. Exact(t, Nums(s)) /\ Due(t) /\ r \in [Spaces -> Trackers] /\ t \in Trackers
  BY <1>1, ZenonT(60) DEF Receiver
<1>3. t.ranges \in Ranges /\ Ordered(t.ranges) /\ ack \subseteq Nums(s) /\ t.ranges # <<>>
  <2>1. t.ranges \in Ranges
    BY <1>2 DEF Trackers
  <2>2. Ordered(t.ranges) /\ ack \subseteq Nums(s)
    BY <1>2, ZenonT(60) DEF Exact
  <2>3. t.ranges # <<>>
    BY <1>1, <1>2, ZenonT(60) DEF Due
  <2> QED BY <2>1, <2>2, <2>3, ZenonT(60)
<1>4. ack \subseteq Nat /\ ack # {}
  <2>1. Len(t.ranges) \in Nat /\ DOMAIN t.ranges = 1 .. Len(t.ranges) /\ t.ranges[1].lo \in Nat
        /\ 1 \in DOMAIN t.ranges
    <3>1. Len(t.ranges) > 0
      BY <1>3, TailOfRanges, ZenonT(60)
    <3> QED BY <1>3, <3>1, RangeFields, SMTT(60)
  <2>2. Has(t.ranges, t.ranges[1].lo)
    BY <1>3, <2>1, SMTT(60) DEF Has, Ordered
  <2> QED BY <1>3, <2>1, <2>2, CoveredIn, ZenonT(60)
<1> HIDE DEF ack
<1>5. /\ u \in Trackers /\ u.ranges = t.ranges /\ u.ignoreBelow = t.ignoreBelow
      /\ u.forgot = t.forgot /\ u.ackAlarm = FALSE /\ u.ackQueued = FALSE
  BY <1>2, <1>4, ZenonT(60) DEF Trackers
<1> HIDE DEF u
<1>6. Exact(u, Nums(s)) /\ Due(u)
  <2>1. Exact(u, Nums(s))
    BY <1>2, <1>5, Zenon DEF Exact
  <2> QED BY <1>5, <2>1, Zenon DEF Due
<1>7. /\ next' = next /\ skipped' = skipped /\ heard' = heard /\ err' = err
      /\ received' = received /\ net' = net
  BY <1>1, ZenonT(60) DEF sendVars, genVars
<1>8. \A v : Sent(v)' = Sent(v) /\ Nums(v)' = Nums(v)
  BY <1>7, ZenonT(60) DEF Sent, Nums
<1>9. Receiver'
  <2>1. r' \in [Spaces -> Trackers] /\ r'[s] = u /\ \A v \in Spaces : v # s => r'[v] = r[v]
    BY <1>1, <1>2, <1>5, ZenonT(60)
  <2>2. ASSUME NEW v \in Spaces
        PROVE  Exact(r'[v], Nums(v)') /\ Due(r'[v])
    <3>1. CASE v = s
      BY <1>6, <1>8, <2>1, <3>1, ZenonT(60)
    <3>2. CASE v # s
      BY <1>1, <1>8, <2>1, <3>2, ZenonT(60) DEF Receiver
    <3> QED BY <3>1, <3>2, ZenonT(60)
  <2> QED BY <2>1, <2>2, ZenonT(60) DEF Receiver, Exact, Due
<1>10. AcksSent'
  <2>1. \A x : x = b => x.space = s /\ x.ack = ack
    OBVIOUS
  <2>2. ack \subseteq Sent(s)
    BY <1>1, <1>3, ZenonT(60) DEF ArrivedSent
  <2>3. \A x : x = b => x.space \in Spaces /\ x.ack \subseteq Sent(x.space) /\ x.ack # {}
    BY <1>4, <2>1, <2>2, ZenonT(60)
  <2>4. \A x \in acks : x.space \in Spaces /\ x.ack \subseteq Sent(x.space) /\ x.ack # {}
    BY <1>1, ZenonT(60) DEF AcksSent
  <2> HIDE DEF b
  <2>5. \A x \in acks' : x.space \in Spaces /\ x.ack \subseteq Sent(x.space) /\ x.ack # {}
    BY <1>1, <2>3, <2>4, ZenonT(60)
  <2> QED BY <1>8, <2>5, ZenonT(60) DEF AcksSent
<1>11. Given' /\ PacketsSent' /\ ArrivedSent'
  BY <1>1, <1>7, <1>8, ZenonT(60) DEF Given, PacketsSent, ArrivedSent
<1> QED BY <1>9, <1>10, <1>11, ZenonT(60) DEF ProtocolInv

\* An ACK of numbers that were sent is valid, and updates what was heard.
LEMMA AckProtocol ==
    ASSUME ProtocolInv, NEW a \in acks, handleAckFrame(a),
           net' \subseteq net, acks' \subseteq acks
    PROVE  ProtocolInv'
<1> DEFINE s == a.space
<1>1. /\ Given /\ PacketsSent /\ AcksSent /\ ArrivedSent /\ Receiver
      /\ err = "none" /\ UNCHANGED <<genVars, recvVars>>
  BY Zenon DEF ProtocolInv, handleAckFrame
<1>2. s \in Spaces /\ a.ack \subseteq Sent(s) /\ a.ack # {}
  BY <1>1, ZenonT(60) DEF AcksSent
<1>3. next \in [Spaces -> Nat] /\ heard \in Nat /\ heard <= next[OneRTT]
  BY <1>1 DEF Given
<1>4. /\ Max(a.ack) \in a.ack /\ Max(a.ack) \in 0 .. next[s] - 1
  <2>1. a.ack \in SUBSET (0 .. next[s] - 1) /\ next[s] \in Nat
    BY <1>2, <1>3, ZenonT(60) DEF Sent
  <2> QED BY <1>2, <2>1, Largest, ZenonT(60)
<1>5. ~Invalid(s, a.ack)
  <2>1. ~(Max(a.ack) >= next[s])
    BY <1>2, <1>3, <1>4, SMTT(60)
  <2>2. a.ack \cap skipped[s] = {}
    BY <1>2, ZenonT(60) DEF Sent
  <2> QED BY <2>1, <2>2, ZenonT(60) DEF Invalid
<1>6. /\ heard' = IF s = OneRTT THEN Max({heard, Max(a.ack) + 1}) ELSE heard
      /\ err' = err
  BY <1>5, ZenonT(60) DEF handleAckFrame
<1>7. heard' \in Nat /\ heard' <= next[OneRTT]
  <2>1. CASE s = OneRTT
    <3> DEFINE m == Max(a.ack)
    <3>1. m \in 0 .. next[OneRTT] - 1 /\ next[OneRTT] \in Nat
      BY <1>2, <1>3, <1>4, <2>1, ZenonT(60)
    <3>2. heard' = Max({heard, m + 1})
      BY <1>6, <2>1, ZenonT(60)
    <3> HIDE DEF m
    <3>3. m + 1 \in Int /\ heard \in Int
      BY <1>3, <3>1, SMTT(60)
    <3>4. heard' = IF heard >= m + 1 THEN heard ELSE m + 1
      BY <3>2, <3>3, MaxOfTwo, ZenonT(60)
    <3> QED BY <1>3, <3>1, <3>4, SMTT(60)
  <2>2. CASE s # OneRTT
    BY <1>3, <1>6, <2>2, ZenonT(60)
  <2> QED BY <2>1, <2>2, ZenonT(60)
<1>8. /\ next' = next /\ skipped' = skipped /\ r' = r /\ received' = received
  BY <1>1, ZenonT(60) DEF genVars, recvVars
<1>9. \A v : Sent(v)' = Sent(v) /\ Nums(v)' = Nums(v)
  BY <1>8, ZenonT(60) DEF Sent, Nums
<1>10. Given'
  <2>1. err' # "ack"
    BY <1>1, <1>6, ZenonT(60)
  <2> QED BY <1>1, <1>7, <1>8, <2>1, ZenonT(60) DEF Given
<1>11. PacketsSent' /\ AcksSent'
  BY <1>1, <1>9, ZenonT(60) DEF PacketsSent, AcksSent
<1>12. ArrivedSent' /\ Receiver'
  BY <1>1, <1>8, <1>9, ZenonT(60) DEF ArrivedSent, Receiver
<1> QED BY <1>10, <1>11, <1>12, ZenonT(60) DEF ProtocolInv

-----------------------------------------------------------------------------
(* The invariant of the whole. *)

Inv == SenderInv /\ ProtocolInv

\* At first every frame waits to be sent and nothing was received.
LEMMA InitStep == Init => Inv
<1> SUFFICES ASSUME Init
             PROVE  Inv
  OBVIOUS
<1>1. /\ next = [s \in Spaces |-> 0] /\ skipped = [s \in Spaces |-> {}] /\ h = NewHandler
      /\ queue = Frames /\ acked = {} /\ heard = 0 /\ err = "none"
      /\ r = [s \in Spaces |-> NewTracker] /\ received = [s \in Spaces |-> {}]
      /\ net = {} /\ acks = {}
  BY Zenon DEF Init
<1>2. DOMAIN Empty = {} /\ Empty \in Histories
  <2>1. DOMAIN Empty = {} /\ Empty \in [{} -> Frames \cup {Ping}]
    BY DEF Empty
  <2>2. {} \in SUBSET Nat
    BY ZenonT(60)
  <2> QED BY <2>1, <2>2, History, ZenonT(60)
<1>3. /\ h \in Handlers /\ \A s \in Spaces : h.history[s] = Empty
      /\ h.bytesInFlight = 0 /\ h.dropped = FALSE
  <2> DEFINE H == [s \in Spaces |-> Empty]
             L == [s \in Spaces |-> -1]
             T == [s \in Spaces |-> FALSE]
  <2>1. H \in [Spaces -> Histories] /\ L \in [Spaces -> Int] /\ T \in [Spaces -> BOOLEAN]
        /\ \A s \in Spaces : H[s] = Empty
    BY <1>2, SMTT(60)
  <2>2. h = [history |-> H, largestAcked |-> L, lossTime |-> T, dropped |-> FALSE,
             bytesInFlight |-> 0, alarm |-> FALSE, numProbesToSend |-> 0]
    BY <1>1, ZenonT(60) DEF NewHandler
  <2> HIDE DEF H, L, T
  <2> QED BY <2>1, <2>2, SMTT(60) DEF Handlers
<1>4. Tracked(h) = 0
  <2>1. Cardinality(DOMAIN h.history[Crypto]) = 0 /\ Cardinality(DOMAIN h.history[OneRTT]) = 0
    BY <1>2, <1>3, TwoSpaces, FS_EmptySet, ZenonT(60)
  <2> QED BY <2>1 DEF Tracked
<1>5. SenderInv
  <2>1. next \in [Spaces -> Nat] /\ queue \in SUBSET (Frames \cup {Ping})
    BY <1>1, ZenonT(60)
  <2>2. Outstanding(h, next)
    BY <1>2, <1>3, ZenonT(60) DEF Outstanding
  <2>3. Counted(h) /\ Armed(h)
    BY <1>3, <1>4, SMTT(60) DEF Counted, Armed
  <2>4. Located(h, queue, acked)
    <3>1. ASSUME NEW s \in Spaces, NEW f \in FramesOf[s]
          PROVE  InOnePlace(f, h.history[s], queue, acked)
      <4>1. f \in queue /\ f \notin acked
        BY <1>1, TwoSpaces, ZenonT(60)
      <4> QED BY <1>2, <1>3, <4>1, ZenonT(60) DEF InOnePlace
    <3> QED BY <3>1, ZenonT(60) DEF Located
  <2> QED BY <1>3, <2>1, <2>2, <2>3, <2>4, ZenonT(60) DEF SenderInv, Sender
<1>6. Given
  BY <1>1, TwoSpaces, SMTT(60) DEF Given
<1>7. PacketsSent /\ AcksSent
  BY <1>1, ZenonT(60) DEF PacketsSent, AcksSent
<1>8. ArrivedSent /\ \A s \in Spaces : Nums(s) = {}
  <2>1. \A s \in Spaces : Nums(s) = {}
    BY <1>1, ZenonT(60) DEF Nums
  <2>2. received \in [Spaces -> SUBSET Arrived]
    BY <1>1, ZenonT(60)
  <2> QED BY <2>1, <2>2, ZenonT(60) DEF ArrivedSent
<1>9. Receiver
  <2>1. <<>> \in Ranges /\ Len(<<>>) = 0 /\ DOMAIN <<>> = {}
    BY EmptySeq, SMTT(60) DEF Ranges
  <2>2. NewTracker \in Trackers /\ NewTracker.ranges = <<>>
        /\ NewTracker.ackQueued = FALSE /\ NewTracker.ackAlarm = FALSE
    BY <2>1 DEF NewTracker, Trackers
  <2>3. Covered(<<>>) = {}
    BY <2>1, ZenonT(60) DEF Covered
  <2>4. Ordered(<<>>)
    BY <2>1, ZenonT(60) DEF Ordered
  <2>5. Len(<<>>) <= MaxNumAckRanges
    BY <2>1, LossRecoveryAssumption, SMTT(60)
  <2>6. Exact(NewTracker, {})
    BY <2>2, <2>3, <2>4, <2>5, ZenonT(60) DEF Exact
  <2>7. Due(NewTracker)
    BY <2>2, ZenonT(60) DEF Due
  <2> QED BY <1>1, <1>8, <2>2, <2>6, <2>7, ZenonT(60) DEF Receiver
<1> QED BY <1>5, <1>6, <1>7, <1>8, <1>9, ZenonT(60) DEF Inv, ProtocolInv

\* The sender's part of the invariant where the sender does nothing.
LEMMA SenderIdle ==
    ASSUME SenderInv, next' = next, h' = h, queue' = queue, acked' = acked
    PROVE  SenderInv'
<1>1. Sender(h, next, queue, acked)' /\ Armed(h)'
  BY Zenon DEF SenderInv
<1> QED BY <1>1, ZenonT(60) DEF SenderInv

\* An arriving ACK.
LEMMA AckArrives ==
    ASSUME Inv, NEW a \in acks, handleAckFrame(a), net' \subseteq net, acks' \subseteq acks
    PROVE  Inv'
<1>1. SenderInv /\ ProtocolInv /\ AcksSent
  BY Zenon DEF Inv, ProtocolInv
<1>2. a.space \in Spaces /\ a.ack \in SUBSET (0 .. next[a.space] - 1) /\ a.ack # {}
  BY <1>1, ZenonT(60) DEF AcksSent, Sent
<1>3. SenderInv'
  BY <1>1, <1>2, AckStep, ZenonT(60)
<1>4. ProtocolInv'
  BY <1>1, AckProtocol, ZenonT(60)
<1> QED BY <1>3, <1>4, ZenonT(60) DEF Inv

\* An arriving packet.
LEMMA PacketArrives ==
    ASSUME Inv, NEW p \in net, handleUnpackedPacket(p), net' \subseteq net, acks' \subseteq acks
    PROVE  Inv'
<1>1. SenderInv /\ ProtocolInv
  BY Zenon DEF Inv
<1>2. UNCHANGED sendVars
  BY Zenon DEF handleUnpackedPacket
<1>3. SenderInv'
  <2>1. next' = next /\ h' = h /\ queue' = queue /\ acked' = acked
    BY <1>2, ZenonT(60) DEF sendVars, genVars
  <2> QED BY <1>1, <2>1, SenderIdle, ZenonT(60)
<1>4. ProtocolInv'
  BY <1>1, UnpackStep, ZenonT(60)
<1> QED BY <1>3, <1>4, ZenonT(60) DEF Inv

\* Something gets lost.
LEMMA NothingHappens ==
    ASSUME Inv, UNCHANGED <<sendVars, recvVars>>, net' \subseteq net, acks' \subseteq acks
    PROVE  Inv'
<1>1. /\ UNCHANGED <<genVars, heard, recvVars>> /\ err' = err
      /\ next' = next /\ h' = h /\ queue' = queue /\ acked' = acked
  BY ZenonT(60) DEF sendVars, genVars
<1>2. SenderInv'
  BY <1>1, SenderIdle, ZenonT(60) DEF Inv
<1>3. err' # "ack"
  BY <1>1, ZenonT(60) DEF Inv, ProtocolInv, Given
<1>4. ProtocolInv'
  BY <1>1, <1>3, QuietStep, ZenonT(60) DEF Inv
<1> QED BY <1>2, <1>4, ZenonT(60) DEF Inv

\* Every action preserves the invariant.
LEMMA NextStep == Inv /\ [Next]_vars => Inv'
<1> SUFFICES ASSUME Inv, [Next]_vars
             PROVE  Inv'
  OBVIOUS
<1>1. SenderInv /\ ProtocolInv /\ queue \in SUBSET (Frames \cup {Ping}) /\ next \in [Spaces -> Nat]
      /\ Sender(h, next, queue, acked) /\ Armed(h)
  BY ZenonT(60) DEF Inv, SenderInv
<1>2. CASE SendAny
  <2>1. PackPacket(h, queue) /\ err = "none" /\ acked' = acked /\ UNCHANGED <<heard, recvVars>>
    BY <1>2, ZenonT(60) DEF SendAny, MaySend
  <2>2. SenderInv'
    BY <1>1, <2>1, PackStep, ZenonT(60)
  <2>3. ProtocolInv'
    BY <1>1, <2>1, PackProtocol, ZenonT(60)
  <2> QED BY <2>2, <2>3, ZenonT(60) DEF Inv
<1>3. CASE SendPTO
  <2>1. SenderInv'
    BY <1>1, <1>3, SendPTOStep, ZenonT(60)
  <2>2. ProtocolInv'
    BY <1>1, <1>3, ProbeProtocol, ZenonT(60)
  <2> QED BY <2>1, <2>2, Zenon DEF Inv
<1>4. CASE OnLossDetectionTimeout
  <2>1. SenderInv'
    BY <1>1, <1>4, TimeoutStep, Zenon
  <2>2. /\ err = "none" /\ UNCHANGED <<genVars, heard, recvVars>> /\ err' = err
        /\ net' \subseteq net /\ acks' \subseteq acks
    BY <1>4, ZenonT(60) DEF OnLossDetectionTimeout, netVars
  <2>3. err' # "ack"
    BY <2>2, ZenonT(60)
  <2>4. ProtocolInv'
    BY <1>1, <2>2, <2>3, QuietStep, ZenonT(60)
  <2> QED BY <2>1, <2>4, Zenon DEF Inv
<1>5. ASSUME NEW s \in Spaces, GetAckFrame(s)
      PROVE  Inv'
  <2>1. next' = next /\ h' = h /\ queue' = queue /\ acked' = acked
    BY <1>5, ZenonT(60) DEF GetAckFrame, sendVars, genVars
  <2>2. SenderInv'
    BY <1>1, <2>1, SenderIdle, ZenonT(60)
  <2>3. ProtocolInv'
    BY <1>1, <1>5, GetAckStep, ZenonT(60)
  <2> QED BY <2>2, <2>3, ZenonT(60) DEF Inv
<1>6. CASE DeliverPacket
  <2>1. PICK p \in net :
            /\ net' = net \ {p} /\ acks' = acks
            /\ IF Undecryptable(p) THEN UNCHANGED <<sendVars, recvVars>> ELSE handleUnpackedPacket(p)
    BY <1>6, ZenonT(60) DEF DeliverPacket
  <2>2. net' \subseteq net /\ acks' \subseteq acks
    BY <2>1, ZenonT(60)
  <2>3. CASE Undecryptable(p)
    BY <2>1, <2>2, <2>3, NothingHappens, ZenonT(60)
  <2>4. CASE ~Undecryptable(p)
    BY <2>1, <2>2, <2>4, PacketArrives, ZenonT(60)
  <2> QED BY <2>3, <2>4, ZenonT(60)
<1>7. CASE DeliverAck
  <2>1. PICK a \in acks : acks' = acks \ {a} /\ handleAckFrame(a) /\ net' = net
    BY <1>7, ZenonT(60) DEF DeliverAck
  <2>2. net' \subseteq net /\ acks' \subseteq acks
    BY <2>1, ZenonT(60)
  <2> QED BY <2>1, <2>2, AckArrives, ZenonT(60)
<1>8. CASE SendAck
  <2>1. /\ Transmit(OneRTT, NoFrame) /\ err = "none" /\ err' = err /\ UNCHANGED <<heard, recvVars>>
        /\ h' = h /\ queue' = queue /\ acked' = acked
    BY <1>8, ZenonT(60) DEF SendAck, MaySend
  <2>2. err' # "ack"
    BY <2>1
  <2>3. ProtocolInv'
    BY <1>1, <2>1, <2>2, TwoSpaces, TransmitStep, ZenonT(60)
  <2>4. SenderInv'
    <3>1. next' \in [Spaces -> Nat] /\ \A t \in Spaces : next[t] <= next'[t]
      BY <1>1, <2>1, TwoSpaces, PopEffect, ZenonT(60) DEF Transmit
    <3>2. h \in Handlers /\ Outstanding(h, next) /\ Counted(h) /\ Located(h, queue, acked)
      BY <1>1, ZenonT(60) DEF Sender
    <3>3. Outstanding(h, next')
      BY <1>1, <3>1, <3>2, SMTT(60) DEF Outstanding
    <3>4. Sender(h', next', queue', acked')
      BY <2>1, <3>2, <3>3, ZenonT(60) DEF Sender
    <3> QED BY <1>1, <2>1, <3>1, <3>4, ZenonT(60) DEF SenderInv, Sender, Outstanding, Counted, Located, Armed, Tracked, Live, InOnePlace
  <2> QED BY <2>3, <2>4, ZenonT(60) DEF Inv
<1>9. CASE Fault
  <2>1. CASE \E p \in net : net' = net \ {p} /\ UNCHANGED <<acks, sendVars, recvVars>>
    <3>1. net' \subseteq net /\ acks' \subseteq acks /\ UNCHANGED <<sendVars, recvVars>>
      BY <2>1, ZenonT(60)
    <3> QED BY <3>1, NothingHappens, ZenonT(60)
  <2>2. CASE \E a \in acks : acks' = acks \ {a} /\ UNCHANGED <<net, sendVars, recvVars>>
    <3>1. net' \subseteq net /\ acks' \subseteq acks /\ UNCHANGED <<sendVars, recvVars>>
      BY <2>2, ZenonT(60)
    <3> QED BY <3>1, NothingHappens, Zenon
  <2>3. CASE \E p \in net : handleUnpackedPacket(p) /\ UNCHANGED <<net, acks>>
    <3>1. net' \subseteq net /\ acks' \subseteq acks
      BY <2>3, ZenonT(60)
    <3> QED BY <2>3, <3>1, PacketArrives, ZenonT(60)
  <2>4. CASE \E a \in acks : handleAckFrame(a) /\ UNCHANGED <<net, acks>>
    <3>1. net' \subseteq net /\ acks' \subseteq acks
      BY <2>4, ZenonT(60)
    <3> QED BY <2>4, <3>1, AckArrives, ZenonT(60)
  <2> QED BY <1>9, <2>1, <2>2, <2>3, <2>4, ZenonT(60) DEF Fault
<1>10. CASE UNCHANGED vars
  <2>1. net' \subseteq net /\ acks' \subseteq acks /\ UNCHANGED <<sendVars, recvVars>>
    BY <1>10, ZenonT(60) DEF vars, netVars
  <2> QED BY <2>1, NothingHappens, Zenon
<1> QED BY <1>2, <1>3, <1>4, <1>5, <1>6, <1>7, <1>8, <1>9, <1>10, ZenonT(60) DEF Next, Progress

\* The invariant holds in every behaviour.
LEMMA Invariance == Spec => []Inv
BY InitStep, NextStep, PTL DEF Spec

\* A frame in one place is carried by one packet, or by none.
LEMMA Carriers ==
    ASSUME NEW f, NEW H, NEW q, NEW a, InOnePlace(f, H, q, a)
    PROVE  LET carriers == {n \in DOMAIN H : H[n] = f} IN
           IF f \in q THEN carriers = {}
           ELSE Cardinality(carriers) = IF f \in a THEN 0 ELSE 1
<1> DEFINE carriers == {n \in DOMAIN H : H[n] = f}
<1>1. CASE \E n \in DOMAIN H : H[n] = f
  <2>1. PICK n \in DOMAIN H : H[n] = f
    BY <1>1, ZenonT(60)
  <2>2. carriers = {n} /\ f \notin q /\ f \notin a
    BY <2>1, ZenonT(60) DEF InOnePlace
  <2>3. Cardinality({n}) = 1
    BY FS_Singleton, ZenonT(60)
  <2> QED BY <2>2, <2>3, ZenonT(60)
<1>2. CASE ~(\E n \in DOMAIN H : H[n] = f)
  <2>1. carriers = {} /\ (f \in q \/ f \in a)
    BY <1>2, Zenon DEF InOnePlace
  <2>2. Cardinality({}) = 0
    BY FS_EmptySet
  <2> QED BY <2>1, <2>2
<1> QED BY <1>1, <1>2, ZenonT(60)

\* FramesTracked (sent_packet_handler.go): for any number of packets, frames,
\* losses and repetitions, no frame is forgotten by the sender or under way
\* twice, the timer is armed while something is outstanding, and bytesInFlight
\* is what is outstanding.
THEOREM FramesNeverForgotten == Spec => []FramesTracked
<1>1. Inv => FramesTracked
  <2> SUFFICES ASSUME Inv
               PROVE  FramesTracked
    OBVIOUS
  <2>1. Located(h, queue, acked) /\ Counted(h) /\ Armed(h)
    BY ZenonT(60) DEF Inv, SenderInv, Sender
  <2>2. ASSUME NEW s \in Spaces, NEW f \in FramesOf[s], s = OneRTT \/ ~h.dropped
        PROVE  LET carriers == {n \in DOMAIN h.history[s] : h.history[s][n] = f} IN
               IF f \in queue THEN carriers = {}
               ELSE Cardinality(carriers) = IF f \in acked THEN 0 ELSE 1
    <3>1. InOnePlace(f, h.history[s], queue, acked)
      BY <2>1, <2>2, ZenonT(60) DEF Located, Live
    <3> QED BY <3>1, Carriers, SMTT(60)
  <2> QED BY <2>1, <2>2, ZenonT(60) DEF FramesTracked, Counted, Armed
<1> QED BY <1>1, Invariance, PTL

\* TrackersExact (received_packet_history.go): the ranges of every ACK hold what
\* arrived and nothing else, an ACK that is due is not empty, and the sender
\* rejects none, for any order of arrivals, any numbers skipped and any limit
\* on the number of ranges.
THEOREM AcksAreExact == Spec => []TrackersExact
<1>1. Inv => TrackersExact
  <2> SUFFICES ASSUME Inv
               PROVE  TrackersExact
    OBVIOUS
  <2>1. err # "ack" /\ Receiver
    BY ZenonT(60) DEF Inv, ProtocolInv, Given
  <2>2. ASSUME NEW s \in Spaces
        PROVE  ExactFor(r[s], {p.pn : p \in received[s]}) /\ (r[s].ackQueued \/ r[s].ackAlarm => r[s].ranges # <<>>)
    <3> DEFINE t == r[s]
    <3>1. Exact(t, Nums(s)) /\ Due(t)
      BY <2>1, ZenonT(60) DEF Receiver
    <3>2. /\ t.ranges \in Ranges /\ t.ignoreBelow \in Nat /\ t.forgot \in Nat
      BY <3>1, ZenonT(60) DEF Exact, Trackers
    <3>3. /\ \A k \in DOMAIN t.ranges : t.ranges[k].lo <= t.ranges[k].hi
          /\ \A j, k \in DOMAIN t.ranges : j < k => t.ranges[j].hi + 1 < t.ranges[k].lo
          /\ Len(t.ranges) <= MaxNumAckRanges /\ Covered(t.ranges) \subseteq Nums(s)
      BY <3>1, ZenonT(60) DEF Exact, Ordered
    <3>4. \A k \in 2 .. Len(t.ranges) : t.ranges[k - 1].hi + 1 < t.ranges[k].lo
      <4> TAKE k \in 2 .. Len(t.ranges)
      <4>1. k - 1 \in DOMAIN t.ranges /\ k \in DOMAIN t.ranges /\ k - 1 < k
        BY <3>2, RangeFields, SMTT(60)
      <4> HIDE DEF t
      <4> QED BY <3>3, <4>1, ZenonT(60)
    <3>5. \A n \in Nums(s) : n >= Max({t.ignoreBelow, t.forgot}) => n \in Covered(t.ranges)
      <4>1. Max({t.ignoreBelow, t.forgot}) = IF t.ignoreBelow >= t.forgot THEN t.ignoreBelow ELSE t.forgot
        BY <3>2, MaxOfTwo, SMTT(60)
      <4>2. Nums(s) \subseteq Nat
        BY <2>1, SMTT(60) DEF Inv, ProtocolInv, ArrivedSent, Arrived, Nums
      <4>3. \A n \in Nums(s) : n >= t.ignoreBelow /\ n >= t.forgot => n \in Covered(t.ranges)
        BY <3>1, ZenonT(60) DEF Exact
      <4> HIDE DEF t
      <4> QED BY <3>2, <4>1, <4>2, <4>3, SMTT(60)
    <3>6. ExactFor(t, Nums(s))
      BY <3>3, <3>4, <3>5, ZenonT(60) DEF ExactFor
    <3> QED BY <3>1, <3>6, ZenonT(60) DEF Nums, Due
  <2> QED BY <2>1, <2>2, ZenonT(60) DEF TrackersExact
<1> QED BY <1>1, Invariance, PTL
=============================================================================
