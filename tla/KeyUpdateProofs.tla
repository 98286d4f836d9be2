----------------------------- MODULE KeyUpdateProofs -----------------------------
(***************************************************************************)
(* Proofs about the updates of the 1-RTT keys, for every keyUpdateInterval *)
(* and any number of packets that 4 bytes can tell apart, in any order and *)
(* with any repetitions.                                                   *)
(***************************************************************************)
EXTENDS KeyUpdate, FiniteSetTheorems, WellFoundedInduction, TLAPS

-----------------------------------------------------------------------------
(* Numbers. *)

\* A set of natural numbers has a least element.
LEMMA LeastNat ==
    ASSUME NEW T \in SUBSET Nat, T # {}
    PROVE  \E x \in T : \A y \in T : x <= y
<1>1. PICK x \in T : \A y \in T : <<y, x>> \notin OpToRel(<, Nat)
  BY NatLessThanWellFounded, WFMin, Zenon
<1>2. \A y \in T : ~(y < x)
  BY <1>1, Zenon DEF OpToRel
<1> QED BY <1>2

\* Division with remainder.
LEMMA Division ==
    ASSUME NEW n \in Nat, NEW d \in Nat \ {0}
    PROVE  /\ n % d \in 0 .. d - 1
           /\ \E k \in Nat : n = d * k + (n % d)
<1>1. n = d * (n \div d) + (n % d)
  BY Z3
<1>2. n \div d \in Nat /\ n % d \in 0 .. d - 1
  OBVIOUS
<1> QED
  BY <1>1, <1>2, Zenon

\* The largest element of a bounded set of numbers.
LEMMA MaxOf ==
    ASSUME NEW S \in SUBSET Int, NEW N \in Int, S # {}, \A x \in S : x <= N
    PROVE  Max(S) \in S /\ \A x \in S : x <= Max(S)
<1> DEFINE T == {N - x : x \in S}
<1>1. T \in SUBSET Nat /\ T # {}
  <2>1. ASSUME NEW x \in S PROVE N - x \in Nat
    OBVIOUS
  <2>2. PICK x \in S : TRUE
    BY Zenon
  <2>3. N - x \in T
    OBVIOUS
  <2> QED BY <2>1, <2>3, Zenon
<1>2. PICK t \in T : \A y \in T : t <= y
  BY <1>1, LeastNat, Zenon
<1>3. PICK m \in S : t = N - m
  BY <1>2
<1>4. ASSUME NEW x \in S PROVE m >= x
  <2>1. N - x \in T
    OBVIOUS
  <2>2. t <= N - x
    BY <1>2, <2>1
  <2> QED BY <1>3, <2>2
<1>5. Max(S) \in S /\ \A y \in S : Max(S) >= y
  BY <1>3, <1>4, Zenon DEF Max
<1> QED BY <1>5

\* The larger of two numbers.
LEMMA MaxOfTwo ==
    ASSUME NEW a \in Int, NEW b \in Int
    PROVE  Max({a, b}) = IF a >= b THEN a ELSE b
<1>1. Max({a, b}) \in {a, b} /\ \A y \in {a, b} : Max({a, b}) >= y
  BY DEF Max
<1> QED BY <1>1

\* The smallest element of a set of natural numbers.
LEMMA MinOf ==
    ASSUME NEW S \in SUBSET Nat, S # {}
    PROVE  Min(S) \in S /\ \A x \in S : Min(S) <= x
<1>1. PICK m \in S : \A y \in S : m <= y
  BY LeastNat
<1> QED BY <1>1, Zenon DEF Min

-----------------------------------------------------------------------------


-----------------------------------------------------------------------------
(* The inductive invariant. *)

KeyOf(e) == aead[e].a.keyPhase
LargestRcvd(e) == aead[e].u.largestRcvdPacketNumber
FirstRcvd(e) == aead[e].a.firstRcvdWithCurrentKey
FirstSent(e) == aead[e].a.firstSentWithCurrentKey

\* Numbers and keys of what an endpoint has sent: there is one packet of each
\* number, later ones do not have an older key, and the ones with the current key
\* are those since the first with it.
SentInv ==
    /\ \A p, q \in network :
          p.from = q.from =>
             /\ p.packetNumber = q.packetNumber => p = q
             /\ p.packetNumber <= q.packetNumber => p.keyPhase <= q.keyPhase
    /\ \A p \in network :
          /\ p.packetNumber < sent[p.from].next
          /\ p.keyPhase <= KeyOf(p.from)
          /\ p.keyPhase = KeyOf(p.from) <=>
                FirstSent(p.from) # InvalidPacketNumber /\ p.packetNumber >= FirstSent(p.from)
    /\ \A e \in Endpoints : FirstSent(e) < sent[e].next

\* What e has received is among the packets sent, with keys that it has reached.
Received(e, rcvd, largest, key, first, packets) ==
    /\ largest = 0 \/ largest \in rcvd
    /\ \A n \in rcvd :
          /\ n <= largest
          /\ \E p \in packets :
                /\ p.from = Peer(e) /\ p.packetNumber = n /\ p.keyPhase <= key
                /\ p.keyPhase = key => first # InvalidPacketNumber
    /\ first # InvalidPacketNumber =>
          \E p \in packets : p.from = Peer(e) /\ p.packetNumber = first /\ p.keyPhase = key

RcvdInv ==
    \A e \in Endpoints :
       Received(e, aead[e].u.rcvd, LargestRcvd(e), KeyOf(e), FirstRcvd(e), network)

\* An ACK is for received packets, and its own key is not older than theirs.
AckInv ==
    /\ \A q \in network : \A n \in q.ack :
          /\ n \in aead[q.from].u.rcvd
          /\ \E p \in network :
                p.from = Peer(q.from) /\ p.packetNumber = n /\ p.keyPhase <= q.keyPhase
    /\ \A e \in Endpoints :
          aead[e].a.largestAcked # InvalidPacketNumber =>
             \E q \in network : q.from = Peer(e) /\ aead[e].a.largestAcked \in q.ack

\* What is no longer outstanding was received by the peer.
OutstandingInv ==
    \A e \in Endpoints :
       \A n \in 0 .. sent[e].next - 1 :
          n \notin sent[e].outstanding => n \in aead[Peer(e)].u.rcvd /\ n <= sent[e].largestAcked

\* So much of its number is in a packet that the receiver cannot take it for a
\* smaller one.
NumberInv ==
    \A p \in network :
       /\ p.wire = Truncated(p.packetNumber, p.len)
       /\ 2 * (p.packetNumber - (LargestRcvd(Peer(p.from)) + 1)) < EpochDelta(p.len)

\* An endpoint that is behind has sent and received with its key.
PhaseInv ==
    \A e \in Endpoints :
       /\ KeyOf(e) <= KeyOf(Peer(e)) + 1
       /\ KeyOf(e) = KeyOf(Peer(e)) + 1 =>
             FirstSent(Peer(e)) # InvalidPacketNumber /\ FirstRcvd(Peer(e)) # InvalidPacketNumber

\* The previous key is there until it expires.
PrevKeyInv ==
    \A e \in Endpoints :
       KeyOf(e) > 0 /\ ~aead[e].a.prevRcvAEADExpired => aead[e].a.prevRcvAEAD

NumberOrNone == Nat \cup {InvalidPacketNumber}

AEADs == [keyPhase : Nat, largestAcked : NumberOrNone,
          prevRcvAEAD : BOOLEAN, prevRcvAEADExpired : BOOLEAN,
          firstRcvdWithCurrentKey : NumberOrNone, firstSentWithCurrentKey : NumberOrNone,
          numRcvdWithCurrentKey : Nat, numSentWithCurrentKey : Nat]

Unpackers == [largestRcvdPacketNumber : Nat, rcvd : SUBSET Nat, ackQueued : BOOLEAN]

SentHandlers == [next : Nat, outstanding : SUBSET Nat, largestAcked : NumberOrNone]

Packets == [from : Endpoints, keyPhase : Nat, packetNumber : Nat, len : 2 .. 4, wire : Nat,
            ack : SUBSET Nat]

TypeInv ==
    /\ aead \in [Endpoints -> [a : AEADs, u : Unpackers]]
    /\ sent \in [Endpoints -> SentHandlers]
    /\ network \subseteq Packets
    /\ \A e \in Endpoints :
          /\ sent[e].next <= MaxPackets[e] /\ sent[e].largestAcked < sent[e].next
          /\ sent[e].outstanding \subseteq 0 .. sent[e].next - 1

KeysInv ==
    /\ TypeInv /\ SentInv /\ RcvdInv /\ AckInv /\ OutstandingInv /\ NumberInv
    /\ PhaseInv /\ PrevKeyInv

-----------------------------------------------------------------------------
(* Packet numbers. *)

\* A and B are multiples of d, n and m the numbers w and v after them.
Multiples(d, n, m, w, v, A, B) ==
    /\ n = A + w /\ m = B + v
    /\ w \in 0 .. d - 1 /\ v \in 0 .. d - 1
    /\ A <= B - 2 * d \/ A = B - d \/ A = B \/ A = B + d \/ A >= B + 2 * d
    /\ B <= d => B = 0 \/ B = d

\* Two numbers have such multiples.
LEMMA HaveMultiples ==
    ASSUME NEW d \in Nat \ {0}, NEW n \in Nat, NEW m \in Nat
    PROVE  \E A, B \in Nat : Multiples(d, n, m, n % d, m % d, A, B)
<1>1. PICK a \in Nat : n = d * a + (n % d)
  BY Division, Zenon
<1>2. PICK b \in Nat : m = d * b + (m % d)
  BY Division, Zenon
<1>3. d * a \in Nat /\ d * b \in Nat
  OBVIOUS
<1>4. n % d \in 0 .. d - 1 /\ m % d \in 0 .. d - 1
  BY Division
<1>5. /\ a = b => d * a = d * b
      /\ a = b + 1 => d * a = d * b + d
      /\ b = a + 1 => d * b = d * a + d
  OBVIOUS
<1>6. a >= b + 2 => d * a >= d * b + 2 * d
  <2> SUFFICES ASSUME a >= b + 2 PROVE d * a >= d * b + 2 * d
    OBVIOUS
  <2>1. PICK c \in Nat : a = b + 2 + c
    <3>1. a - b - 2 \in Nat /\ a = b + 2 + (a - b - 2)
      OBVIOUS
    <3> QED
      BY <3>1
  <2>2. d * a = d * b + 2 * d + d * c /\ d * c \in Nat
    BY <2>1
  <2> QED
    BY <1>3, <2>2
<1>7. b >= a + 2 => d * b >= d * a + 2 * d
  <2> SUFFICES ASSUME b >= a + 2 PROVE d * b >= d * a + 2 * d
    OBVIOUS
  <2>1. PICK c \in Nat : b = a + 2 + c
    <3>1. b - a - 2 \in Nat /\ b = a + 2 + (b - a - 2)
      OBVIOUS
    <3> QED
      BY <3>1
  <2>2. d * b = d * a + 2 * d + d * c /\ d * c \in Nat
    BY <2>1
  <2> QED
    BY <1>3, <2>2
<1>8. d * b <= d => d * b = 0 \/ d * b = d
  <2>1. b = 0 => d * b = 0
    OBVIOUS
  <2>2. b = 1 => d * b = d
    OBVIOUS
  <2>3. b >= 2 => d * b >= 2 * d
    <3> SUFFICES ASSUME b >= 2 PROVE d * b >= 2 * d
      OBVIOUS
    <3>1. b - 2 \in Nat /\ d * b = 2 * d + d * (b - 2)
      OBVIOUS
    <3>2. d * (b - 2) \in Nat
      BY <3>1
    <3> QED
      BY <3>1, <3>2
  <2> QED
    BY <1>3, <2>1, <2>2, <2>3
<1> DEFINE A == d * a
           B == d * b
<1>9. /\ A \in Nat /\ B \in Nat /\ n = A + (n % d) /\ m = B + (m % d)
      /\ B <= d => B = 0 \/ B = d
      /\ A <= B - 2 * d \/ A = B - d \/ A = B \/ A = B + d \/ A >= B + 2 * d
  BY <1>1, <1>2, <1>3, <1>5, <1>6, <1>7, <1>8
<1>10. Multiples(d, n, m, n % d, m % d, A, B)
  <2> HIDE DEF A, B
  <2> QED
    BY <1>4, <1>9 DEF Multiples
<1> QED
  BY <1>9, <1>10

\* closestTo returns one of the two, and the one that is less than half of d away
\* if the other is not.
LEMMA ClosestNear ==
    ASSUME NEW d \in Nat, NEW t \in Int, NEW x \in Int, NEW y \in Int,
           2 * (x - t) < d, 2 * (t - x) < d, 2 * (y - t) >= d \/ 2 * (t - y) >= d
    PROVE  closestTo(t, x, y) = x /\ closestTo(t, y, x) = x
BY DEF closestTo, Distance

\* closestTo returns one of the two.
LEMMA ClosestEither ==
    ASSUME NEW t, NEW x, NEW y
    PROVE  closestTo(t, x, y) = x \/ closestTo(t, x, y) = y
BY DEF closestTo

\* DecodePacketNumber finds a number that is less than half an epoch away from
\* the next one expected.
LEMMA DecodeExact ==
    ASSUME NEW d \in Nat \ {0}, NEW last \in Nat, NEW n \in Nat,
           2 * (n - (last + 1)) < d, 2 * (last + 1 - n) < d
    PROVE  DecodeInEpoch(d, last, n % d) = n
<1> DEFINE w == n % d
           v == last % d
<1> SUFFICES DecodeInEpoch(d, last, w) = n
  OBVIOUS
<1>1. PICK A \in Nat, B \in Nat : Multiples(d, n, last, w, v, A, B)
  BY HaveMultiples, Zenon
<1>2. DecodeInEpoch(d, last, w)
         = LET prev == IF last - v > d THEN last - v - d ELSE 0
           IN  closestTo(last + 1, last - v + w, closestTo(last + 1, prev + w, last - v + d + w))
  BY Zenon DEF DecodeInEpoch
<1> HIDE DEF w, v
<1> USE DEF Multiples
<1>3. A = B - d \/ A = B \/ A = B + d
  BY <1>1
<1>4. last - v = B
  BY <1>1
<1> DEFINE prev == IF B > d THEN B - d ELSE 0
<1>5. DecodeInEpoch(d, last, w) = closestTo(last + 1, B + w, closestTo(last + 1, prev + w, B + d + w))
  BY <1>2, <1>4
<1>6. prev \in Nat /\ (A = B - d => prev = A) /\ (prev = 0 => B = 0 \/ B = d) /\ (prev # 0 => prev = B - d)
  BY <1>1
<1> HIDE DEF prev
<1> DEFINE t == last + 1
           inner == closestTo(t, prev + w, B + d + w)
<1>7. CASE A = B
  <2>1. inner = prev + w \/ inner = n + d
    BY <1>1, <1>7, ClosestEither
  <2>2. inner \in Int /\ (inner = n \/ 2 * (inner - t) >= d \/ 2 * (t - inner) >= d)
    <3> HIDE DEF inner
    <3> QED
      BY <1>1, <1>6, <1>7, <2>1
  <2> HIDE DEF inner
  <2>3. closestTo(t, n, inner) = n
    BY <1>1, <2>2, ClosestNear, ClosestEither
  <2> QED
    BY <1>1, <1>5, <1>7, <2>3 DEF inner
<1>8. CASE A = B + d
  <2>1. 2 * (t - (prev + w)) >= d /\ 2 * (t - (B + w)) >= d /\ n = B + d + w
    BY <1>1, <1>6, <1>8 DEF prev
  <2>2. inner = n
    BY <1>1, <1>6, <2>1, ClosestNear
  <2>3. closestTo(t, B + w, n) = n
    BY <1>1, <2>1, ClosestNear
  <2> QED
    BY <1>5, <2>2, <2>3
<1>9. CASE A = B - d
  <2>1. 2 * (B + d + w - t) >= d /\ 2 * (B + w - t) >= d /\ n = prev + w
    BY <1>1, <1>6, <1>9
  <2>2. inner = n
    BY <1>1, <2>1, ClosestNear
  <2>3. closestTo(t, B + w, n) = n
    BY <1>1, <2>1, ClosestNear
  <2> QED
    BY <1>5, <2>2, <2>3
<1> QED
  BY <1>3, <1>7, <1>8, <1>9

\* A number further behind is never taken for a smaller one.
LEMMA DecodeNotBelow ==
    ASSUME NEW d \in Nat \ {0}, NEW last \in Nat, NEW n \in Nat,
           2 * (last + 1 - n) >= d
    PROVE  DecodeInEpoch(d, last, n % d) >= n
<1> DEFINE w == n % d
           v == last % d
<1> SUFFICES DecodeInEpoch(d, last, w) >= n
  OBVIOUS
<1>1. PICK A \in Nat, B \in Nat : Multiples(d, n, last, w, v, A, B)
  BY HaveMultiples, Zenon
<1>2. DecodeInEpoch(d, last, w)
         = LET prev == IF last - v > d THEN last - v - d ELSE 0
           IN  closestTo(last + 1, last - v + w, closestTo(last + 1, prev + w, last - v + d + w))
  BY Zenon DEF DecodeInEpoch
<1> HIDE DEF w, v
<1> USE DEF Multiples
<1>3. A <= B - d \/ A = B
  BY <1>1
<1>4. last - v = B
  BY <1>1
<1> DEFINE prev == IF B > d THEN B - d ELSE 0
<1>5. DecodeInEpoch(d, last, w) = closestTo(last + 1, B + w, closestTo(last + 1, prev + w, B + d + w))
  BY <1>2, <1>4
<1>6. prev \in Nat /\ (A <= B - d => A <= prev) /\ (prev = 0 => B = 0 \/ B = d) /\ (prev # 0 => prev = B - d)
  BY <1>1
<1> HIDE DEF prev
<1> DEFINE t == last + 1
           inner == closestTo(t, prev + w, B + d + w)
<1>7. inner = prev + w \/ inner = B + d + w
  BY ClosestEither
<1>8. closestTo(t, B + w, inner) = B + w \/ closestTo(t, B + w, inner) = inner
  BY ClosestEither
<1>9. CASE A <= B - d
  <2> HIDE DEF inner
  <2>1. B + w >= n /\ inner >= n
    BY <1>1, <1>6, <1>7, <1>9
  <2> QED
    BY <1>5, <1>8, <2>1 DEF inner
<1>10. CASE A = B
  <2>1. B + w = n /\ n <= t
    BY <1>1, <1>10
  <2>2. inner >= n \/ inner = n - d
    <3> HIDE DEF inner
    <3> QED
      BY <1>1, <1>6, <1>7, <2>1
  <2>3. inner = n - d => closestTo(t, n, inner) = n
    <3> HIDE DEF inner
    <3> QED
      BY <2>1 DEF closestTo, Distance
  <2> QED
    BY <1>5, <1>8, <2>1, <2>2, <2>3
<1> QED
  BY <1>3, <1>9, <1>10

-----------------------------------------------------------------------------
(* The operations on the keys, field by field. *)

\* From a to b at most the previous key is gone, and that only if the packet is late.
OnlyDropsPrev(a, b, late) ==
    /\ b.keyPhase = a.keyPhase /\ b.largestAcked = a.largestAcked
    /\ b.firstRcvdWithCurrentKey = a.firstRcvdWithCurrentKey
    /\ b.firstSentWithCurrentKey = a.firstSentWithCurrentKey
    /\ b.prevRcvAEADExpired = a.prevRcvAEADExpired
    /\ b.prevRcvAEAD = a.prevRcvAEAD \/ late

\* From a to b a packet with the current key and number pn is opened.
OpensCurrent(a, b, pn, late) ==
    /\ b.keyPhase = a.keyPhase /\ b.largestAcked = a.largestAcked
    /\ b.firstRcvdWithCurrentKey
         = IF a.firstRcvdWithCurrentKey = InvalidPacketNumber THEN pn
           ELSE a.firstRcvdWithCurrentKey
    /\ b.firstSentWithCurrentKey = a.firstSentWithCurrentKey
    /\ b.prevRcvAEADExpired = a.prevRcvAEADExpired
    /\ b.prevRcvAEAD = a.prevRcvAEAD \/ late

\* From a to b a packet with the next key and number pn is opened.
OpensNext(a, b, pn) ==
    /\ a.firstRcvdWithCurrentKey # InvalidPacketNumber
    /\ pn >= a.firstRcvdWithCurrentKey
    /\ b.keyPhase = a.keyPhase + 1 /\ b.largestAcked = a.largestAcked
    /\ b.firstRcvdWithCurrentKey = pn
    /\ b.firstSentWithCurrentKey = InvalidPacketNumber
    /\ b.prevRcvAEAD

\* rollKeys goes to the next phase, in which nothing was sent or received yet.
LEMMA RollKeys ==
    ASSUME NEW a \in AEADs
    PROVE  /\ rollKeys(a) \in AEADs
           /\ rollKeys(a).keyPhase = a.keyPhase + 1
           /\ rollKeys(a).largestAcked = a.largestAcked
           /\ rollKeys(a).firstRcvdWithCurrentKey = InvalidPacketNumber
           /\ rollKeys(a).firstSentWithCurrentKey = InvalidPacketNumber
           /\ rollKeys(a).prevRcvAEAD
<1>1. rollKeys(a) \in AEADs
  <2> DEFINE z == [a EXCEPT !.keyPhase = @ + 1]
             b == [z EXCEPT !.prevRcvAEAD = TRUE, !.prevRcvAEADExpired = FALSE]
             c == [b EXCEPT !.firstRcvdWithCurrentKey = InvalidPacketNumber,
                            !.firstSentWithCurrentKey = InvalidPacketNumber]
             d == [c EXCEPT !.numRcvdWithCurrentKey = 0, !.numSentWithCurrentKey = 0]
  <2>0. z \in AEADs
    BY DEF AEADs
  <2>1. b \in AEADs
    <3> HIDE DEF z
    <3> QED BY <2>0, Zenon DEF AEADs
  <2>2. c \in AEADs
    <3> HIDE DEF b
    <3> QED BY <2>1, Zenon DEF AEADs, NumberOrNone
  <2>3. d \in AEADs
    <3> HIDE DEF c
    <3> QED BY <2>2, Zenon DEF AEADs
  <2> QED BY <2>3 DEF rollKeys
<1>2. /\ rollKeys(a).keyPhase = a.keyPhase + 1
      /\ rollKeys(a).largestAcked = a.largestAcked
      /\ rollKeys(a).firstRcvdWithCurrentKey = InvalidPacketNumber
      /\ rollKeys(a).firstSentWithCurrentKey = InvalidPacketNumber
  BY DEF rollKeys, AEADs, NumberOrNone, InvalidPacketNumber
<1>3. rollKeys(a).prevRcvAEAD = TRUE
  BY DEF rollKeys, AEADs
<1> QED BY <1>1, <1>2, <1>3

\* Counters are numbers.
LEMMA CountsUp == \A n \in Nat : CountUp(n) \in Nat
BY KeyUpdateAssumption DEF CountUp

\* Seal sets what was sent first with the current key, once.
LEMMA SealEffect ==
    ASSUME NEW a \in AEADs, NEW pn \in Nat
    PROVE  /\ Seal(a, pn) \in AEADs
           /\ Seal(a, pn).keyPhase = a.keyPhase
           /\ Seal(a, pn).largestAcked = a.largestAcked
           /\ Seal(a, pn).firstRcvdWithCurrentKey = a.firstRcvdWithCurrentKey
           /\ Seal(a, pn).firstSentWithCurrentKey
                = IF a.firstSentWithCurrentKey = InvalidPacketNumber THEN pn
                  ELSE a.firstSentWithCurrentKey
           /\ Seal(a, pn).prevRcvAEAD = a.prevRcvAEAD
           /\ Seal(a, pn).prevRcvAEADExpired = a.prevRcvAEADExpired
BY CountsUp, Zenon DEF Seal, AEADs, NumberOrNone

\* KeyPhase rolls the keys only if that is allowed.
LEMMA KeyPhaseEffect ==
    ASSUME NEW a \in AEADs
    PROVE  KeyPhase(a) = a \/ (updateAllowed(a) /\ KeyPhase(a) = rollKeys(a))
BY DEF KeyPhase, shouldInitiateKeyUpdate

\* Open drops the previous key of a late packet.
LEMMA DropPrev ==
    ASSUME NEW a \in AEADs, NEW late \in BOOLEAN
    PROVE  LET b == IF a.prevRcvAEAD /\ late THEN [a EXCEPT !.prevRcvAEAD = FALSE] ELSE a
           IN  b \in AEADs /\ OnlyDropsPrev(a, b, late)
<1>1. CASE a.prevRcvAEAD /\ late
  <2> DEFINE b == [a EXCEPT !.prevRcvAEAD = FALSE]
  <2>1. b \in AEADs
    BY Zenon DEF AEADs
  <2>2. /\ b.keyPhase = a.keyPhase /\ b.largestAcked = a.largestAcked
        /\ b.firstRcvdWithCurrentKey = a.firstRcvdWithCurrentKey
        /\ b.firstSentWithCurrentKey = a.firstSentWithCurrentKey
        /\ b.prevRcvAEADExpired = a.prevRcvAEADExpired
    BY DEF AEADs
  <2> HIDE DEF b
  <2>3. OnlyDropsPrev(a, b, late)
    BY <2>2, <1>1 DEF OnlyDropsPrev
  <2> QED BY <1>1, <2>1, <2>3, Zenon DEF b
<1>2. CASE ~(a.prevRcvAEAD /\ late)
  BY <1>2, Zenon DEF OnlyDropsPrev
<1> QED BY <1>1, <1>2

\* Open counts a packet with the current key and remembers the first one.
LEMMA CurrentKey ==
    ASSUME NEW a \in AEADs, NEW b \in AEADs, NEW pn \in Nat, NEW late \in BOOLEAN,
           OnlyDropsPrev(a, b, late)
    PROVE  LET c == [b EXCEPT !.numRcvdWithCurrentKey = CountUp(@),
                              !.firstRcvdWithCurrentKey =
                                  IF @ = InvalidPacketNumber THEN pn ELSE @]
           IN  c \in AEADs /\ OpensCurrent(a, c, pn, late)
<1> DEFINE c == [b EXCEPT !.numRcvdWithCurrentKey = CountUp(@),
                          !.firstRcvdWithCurrentKey = IF @ = InvalidPacketNumber THEN pn ELSE @]
<1>1. c \in AEADs
  BY CountsUp, Zenon DEF AEADs, NumberOrNone
<1>2. /\ c.keyPhase = b.keyPhase /\ c.largestAcked = b.largestAcked
      /\ c.firstSentWithCurrentKey = b.firstSentWithCurrentKey
      /\ c.prevRcvAEADExpired = b.prevRcvAEADExpired
      /\ c.prevRcvAEAD = b.prevRcvAEAD
      /\ c.firstRcvdWithCurrentKey = IF b.firstRcvdWithCurrentKey = InvalidPacketNumber THEN pn
                                     ELSE b.firstRcvdWithCurrentKey
  BY DEF AEADs
<1> HIDE DEF c
<1>3. OpensCurrent(a, c, pn, late)
  BY <1>2 DEF OnlyDropsPrev, OpensCurrent
<1> QED BY <1>1, <1>3 DEF c

\* Open rolls the keys for a packet with the next key.
LEMMA NextKey ==
    ASSUME NEW a \in AEADs, NEW b \in AEADs, NEW pn \in Nat, NEW late \in BOOLEAN,
           OnlyDropsPrev(a, b, late),
           a.firstRcvdWithCurrentKey # InvalidPacketNumber, pn >= a.firstRcvdWithCurrentKey
    PROVE  LET c == [rollKeys(b) EXCEPT !.firstRcvdWithCurrentKey = pn]
           IN  c \in AEADs /\ OpensNext(a, c, pn)
<1> DEFINE r == rollKeys(b)
           c == [r EXCEPT !.firstRcvdWithCurrentKey = pn]
<1>1. r \in AEADs
  BY RollKeys
<1>2. /\ r.keyPhase = a.keyPhase + 1 /\ r.largestAcked = a.largestAcked
      /\ r.firstSentWithCurrentKey = InvalidPacketNumber
      /\ r.prevRcvAEAD
  BY RollKeys DEF OnlyDropsPrev
<1> HIDE DEF r
<1>3. c \in AEADs
  BY <1>1 DEF AEADs, NumberOrNone
<1>4. /\ c.keyPhase = r.keyPhase /\ c.largestAcked = r.largestAcked
      /\ c.firstSentWithCurrentKey = r.firstSentWithCurrentKey
      /\ c.prevRcvAEAD = r.prevRcvAEAD /\ c.firstRcvdWithCurrentKey = pn
  BY <1>1 DEF AEADs
<1> HIDE DEF c
<1>5. OpensNext(a, c, pn)
  BY <1>2, <1>4 DEF OpensNext
<1> QED BY <1>3, <1>5 DEF c, r

\* What Open does to the keys: it fails, or the packet has the previous, the
\* current or the next key and the number it is taken for.
LEMMA OpenEffect ==
    ASSUME NEW a \in AEADs, NEW p \in Packets, NEW pn \in Nat, NEW late \in BOOLEAN
    PROVE  LET r == Open(a, p, pn, late)
           IN  /\ r.a \in AEADs
               /\ \/ r.res # "ok" /\ OnlyDropsPrev(a, r.a, late)
                  \/ /\ r.res = "ok" /\ p.packetNumber = pn
                     /\ \/ p.keyPhase = a.keyPhase - 1 /\ OnlyDropsPrev(a, r.a, late)
                        \/ p.keyPhase = a.keyPhase /\ OpensCurrent(a, r.a, pn, late)
                        \/ p.keyPhase = a.keyPhase + 1 /\ OpensNext(a, r.a, pn)
<1> DEFINE b == IF a.prevRcvAEAD /\ late THEN [a EXCEPT !.prevRcvAEAD = FALSE] ELSE a
           c == [b EXCEPT !.numRcvdWithCurrentKey = CountUp(@),
                          !.firstRcvdWithCurrentKey = IF @ = InvalidPacketNumber THEN pn ELSE @]
           d == [rollKeys(b) EXCEPT !.firstRcvdWithCurrentKey = pn]
           first == a.firstRcvdWithCurrentKey
           r == Open(a, p, pn, late)
<1>1. b \in AEADs /\ OnlyDropsPrev(a, b, late)
  BY DropPrev
<1>2. b.keyPhase = a.keyPhase /\ b.firstRcvdWithCurrentKey = first
  <2> HIDE DEF b
  <2> QED BY <1>1, Zenon DEF OnlyDropsPrev
<1>3. c \in AEADs /\ OpensCurrent(a, c, pn, late)
  <2> HIDE DEF b
  <2> QED BY <1>1, CurrentKey, Zenon
<1>4. ASSUME first # InvalidPacketNumber, pn >= first
      PROVE  d \in AEADs /\ OpensNext(a, d, pn)
  <2> HIDE DEF b
  <2> QED BY <1>1, <1>4, NextKey
<1>5. \/ r.res # "ok" /\ r.a = b
      \/ r.res = "ok" /\ KeyOpens(b.keyPhase - 1, p, pn) /\ r.a = b
      \/ r.res = "ok" /\ KeyOpens(b.keyPhase, p, pn) /\ r.a = c
      \/ /\ r.res = "ok" /\ KeyOpens(b.keyPhase + 1, p, pn) /\ r.a = d
         /\ b.firstRcvdWithCurrentKey # InvalidPacketNumber /\ ~(pn < b.firstRcvdWithCurrentKey)
  BY Zenon DEF Open
<1>6. first \in Int
  BY DEF AEADs, NumberOrNone, InvalidPacketNumber
<1> HIDE DEF b, c, d, r, first
<1>7. ASSUME ~(pn < first) PROVE pn >= first
  BY <1>6, <1>7
<1> SUFFICES /\ r.a \in AEADs
             /\ \/ r.res # "ok" /\ OnlyDropsPrev(a, r.a, late)
                \/ /\ r.res = "ok" /\ p.packetNumber = pn
                   /\ \/ p.keyPhase = a.keyPhase - 1 /\ OnlyDropsPrev(a, r.a, late)
                      \/ p.keyPhase = a.keyPhase /\ OpensCurrent(a, r.a, pn, late)
                      \/ p.keyPhase = a.keyPhase + 1 /\ OpensNext(a, r.a, pn)
  BY DEF r
<1> QED BY <1>1, <1>2, <1>3, <1>4, <1>5, <1>7, Zenon DEF KeyOpens

-----------------------------------------------------------------------------
(* The endpoints, and the packet numbers that they choose. *)

\* Each of the two endpoints is the other's peer.
LEMMA Peers ==
    ASSUME NEW e \in Endpoints
    PROVE  /\ Peer(e) \in Endpoints /\ Peer(e) # e /\ Peer(Peer(e)) = e
           /\ \A x \in Endpoints : x = e \/ x = Peer(e)
<1>1. PICK x, y \in Endpoints : x # y /\ Endpoints = {x, y}
  BY KeyUpdateAssumption
<1>2. Peer(x) = y /\ Peer(y) = x
  BY <1>1 DEF Peer
<1> QED BY <1>1, <1>2

\* What 2, 3 and 4 bytes tell apart is twice what GetPacketNumberLengthForHeader
\* allows to be unacknowledged.
LEMMA Powers ==
    /\ \A len \in 2 .. 4 : EpochDelta(len) \in Nat /\ EpochDelta(len) >= 4
    /\ EpochDelta(2) = 2 * 2 ^ (2 * ByteBits - 1)
    /\ EpochDelta(3) = 2 * 2 ^ (3 * ByteBits - 1)
    /\ EpochDelta(4) = 2 * 2 ^ (ByteBits * 4 - 1)
    /\ 2 ^ (2 * ByteBits - 1) \in Nat /\ 2 ^ (3 * ByteBits - 1) \in Nat
    /\ 2 ^ (ByteBits * 4 - 1) \in Nat
<1> DEFINE P(b) ==
        /\ 2 ^ (b * 2) \in Nat /\ 2 ^ (b * 2) >= 4
        /\ 2 ^ (b * 3) \in Nat /\ 2 ^ (b * 3) >= 4
        /\ 2 ^ (b * 4) \in Nat /\ 2 ^ (b * 4) >= 4
        /\ 2 ^ (b * 2) = 2 * 2 ^ (2 * b - 1)
        /\ 2 ^ (b * 3) = 2 * 2 ^ (3 * b - 1)
        /\ 2 ^ (b * 4) = 2 * 2 ^ (b * 4 - 1)
        /\ 2 ^ (2 * b - 1) \in Nat /\ 2 ^ (3 * b - 1) \in Nat /\ 2 ^ (b * 4 - 1) \in Nat
<1>1. P(1) /\ P(2)
  OBVIOUS
<1>2. P(3) /\ P(4)
  OBVIOUS
<1>3. P(5) /\ P(6)
  OBVIOUS
<1>4. P(7)
  OBVIOUS
<1>5. P(8)
  OBVIOUS
<1> HIDE DEF P
<1>6. ByteBits = 1 \/ ByteBits = 2 \/ ByteBits = 3 \/ ByteBits = 4
       \/ ByteBits = 5 \/ ByteBits = 6 \/ ByteBits = 7 \/ ByteBits = 8
  BY KeyUpdateAssumption
<1>7. P(ByteBits)
  BY <1>1, <1>2, <1>3, <1>4, <1>5, <1>6, Zenon
<1>8. \A len \in 2 .. 4 : len = 2 \/ len = 3 \/ len = 4
  OBVIOUS
<1> QED BY <1>7, <1>8, Zenon DEF P, EpochDelta

\* The number that a header is taken for is a number.
LEMMA DecodeNat ==
    ASSUME NEW d \in Nat \ {0}, NEW last \in Nat, NEW w \in Nat
    PROVE  DecodeInEpoch(d, last, w) \in Nat
<1> DEFINE v == last % d
           epoch == last - v
           prev == IF epoch > d THEN epoch - d ELSE 0
<1>1. v \in Nat /\ v <= last
  <2>1. v \in 0 .. d - 1
    BY Division
  <2>2. PICK k \in Nat : last = d * k + v
    BY Division, Zenon
  <2>3. d * k \in Nat
    OBVIOUS
  <2> HIDE DEF v
  <2> QED BY <2>1, <2>2, <2>3
<1> HIDE DEF v
<1>2. epoch \in Nat /\ prev \in Nat
  BY <1>1
<1>3. DecodeInEpoch(d, last, w)
        = closestTo(last + 1, epoch + w, closestTo(last + 1, prev + w, (epoch + d) + w))
  BY Zenon DEF DecodeInEpoch, v
<1> HIDE DEF epoch, prev
<1> QED BY <1>2, <1>3 DEF closestTo

\* The types of the fields.
LEMMA Fields ==
    ASSUME TypeInv, NEW e \in Endpoints
    PROVE  /\ aead[e].a \in AEADs /\ aead[e].u \in Unpackers
           /\ KeyOf(e) \in Nat /\ LargestRcvd(e) \in Nat /\ aead[e].u.rcvd \in SUBSET Nat
           /\ FirstRcvd(e) \in NumberOrNone /\ FirstSent(e) \in NumberOrNone
           /\ aead[e].a.largestAcked \in NumberOrNone
           /\ sent[e] \in SentHandlers /\ sent[e].next \in Nat
           /\ sent[e].outstanding \in SUBSET Nat /\ sent[e].largestAcked \in NumberOrNone
<1>1. aead[e] \in [a : AEADs, u : Unpackers] /\ sent[e] \in SentHandlers
  BY DEF TypeInv
<1>2. aead[e].a \in AEADs /\ aead[e].u \in Unpackers
  BY <1>1
<1>3. /\ KeyOf(e) \in Nat /\ FirstRcvd(e) \in NumberOrNone /\ FirstSent(e) \in NumberOrNone
      /\ aead[e].a.largestAcked \in NumberOrNone
  BY <1>2 DEF AEADs, KeyOf, FirstRcvd, FirstSent
<1>4. LargestRcvd(e) \in Nat /\ aead[e].u.rcvd \in SUBSET Nat
  BY <1>2 DEF Unpackers, LargestRcvd
<1>5. /\ sent[e].next \in Nat /\ sent[e].outstanding \in SUBSET Nat
      /\ sent[e].largestAcked \in NumberOrNone
  BY <1>1 DEF SentHandlers
<1> QED BY <1>1, <1>2, <1>3, <1>4, <1>5

\* PeekPacketNumber's length leaves the peer no smaller number to take it for,
\* because all packets before the oldest outstanding one were received.
LEMMA NumberChoice ==
    ASSUME TypeInv, RcvdInv, OutstandingInv, NEW e \in Endpoints
    PROVE  LET pn == PeekPacketNumber(sent[e])
           IN  /\ pn.packetNumber = sent[e].next /\ pn.len \in 2 .. 4
               /\ 2 * (sent[e].next - (LargestRcvd(Peer(e)) + 1)) < EpochDelta(pn.len)
<1> DEFINE s == sent[e]
           next == s.next
           L == LargestRcvd(Peer(e))
           lowest == IF s.outstanding # {} THEN Min(s.outstanding) ELSE s.largestAcked + 1
           len == GetPacketNumberLengthForHeader(next, lowest)
<1>1. Peer(e) \in Endpoints
  BY Peers
<1>2. next \in Nat /\ s.outstanding \in SUBSET Nat /\ s.largestAcked \in NumberOrNone /\ L \in Nat
  BY <1>1, Fields
<1>3. /\ next <= MaxPackets[e] /\ s.largestAcked < next
      /\ s.outstanding \subseteq 0 .. next - 1
  BY DEF TypeInv
<1>4. ASSUME NEW n \in 0 .. next - 1, n \notin s.outstanding
      PROVE  n <= L /\ n <= s.largestAcked
  BY <1>1, <1>4 DEF OutstandingInv, RcvdInv, Received
<1>5. MaxPackets[e] \in Nat /\ MaxPackets[e] <= 2 ^ (ByteBits * 4 - 1) - 1
  <2>1. MaxPackets[e] \in 0 .. 2 ^ (ByteBits * 4 - 1) - 1
    BY KeyUpdateAssumption
  <2>2. 2 ^ (ByteBits * 4 - 1) \in Nat
    BY Powers
  <2> QED BY <2>1, <2>2
<1> HIDE DEF s, next, L
<1>6. lowest \in Nat /\ lowest <= L + 1
  <2>1. CASE s.outstanding # {}
    <3> DEFINE m == Min(s.outstanding)
    <3>1. m \in s.outstanding /\ \A x \in s.outstanding : m <= x
      BY <1>2, <2>1, MinOf
    <3> HIDE DEF m
    <3>2. m \in 0 .. next - 1
      BY <1>3, <3>1
    <3>3. CASE m = 0
      BY <1>2, <2>1, <3>3 DEF m
    <3>4. CASE m # 0
      <4>1. m - 1 \in 0 .. next - 1 /\ m - 1 \notin s.outstanding
        BY <1>2, <3>1, <3>2, <3>4
      <4>2. m - 1 <= L
        BY <1>4, <4>1
      <4> QED BY <1>2, <2>1, <3>2, <4>2 DEF m
    <3> QED BY <3>3, <3>4
  <2>2. CASE s.outstanding = {}
    <3>1. CASE next = 0
      BY <1>2, <1>3, <2>2, <3>1 DEF NumberOrNone, InvalidPacketNumber
    <3>2. CASE next # 0
      <4>1. next - 1 \in 0 .. next - 1
        BY <1>2, <3>2
      <4>2. next - 1 <= L /\ next - 1 <= s.largestAcked
        BY <1>4, <2>2, <4>1
      <4> QED BY <1>2, <1>3, <2>2, <3>2, <4>2 DEF NumberOrNone, InvalidPacketNumber
    <3> QED BY <3>1, <3>2
  <2> QED BY <2>1, <2>2
<1> HIDE DEF lowest
<1>7. len \in 2 .. 4 /\ 2 * (next - lowest) < EpochDelta(len)
  <2> DEFINE h2 == 2 ^ (2 * ByteBits - 1)
             h3 == 2 ^ (3 * ByteBits - 1)
             h4 == 2 ^ (ByteBits * 4 - 1)
  <2>1. /\ EpochDelta(2) = 2 * h2 /\ EpochDelta(3) = 2 * h3 /\ EpochDelta(4) = 2 * h4
        /\ h2 \in Nat /\ h3 \in Nat /\ h4 \in Nat
    BY Powers
  <2>2. len = IF next - lowest < h2 THEN 2 ELSE IF next - lowest < h3 THEN 3 ELSE 4
    BY Zenon DEF GetPacketNumberLengthForHeader
  <2>3. next - lowest < h4
    BY <1>2, <1>3, <1>5, <1>6, <2>1
  <2> HIDE DEF len, h2, h3, h4
  <2>4. CASE len = 2
    BY <1>2, <1>6, <2>1, <2>2, <2>4
  <2>5. CASE len = 3
    BY <1>2, <1>6, <2>1, <2>2, <2>5
  <2>6. CASE len = 4
    BY <1>2, <1>6, <2>1, <2>3, <2>6
  <2> QED BY <2>2, <2>4, <2>5, <2>6
<1> HIDE DEF len
<1>8. EpochDelta(len) \in Nat
  BY <1>7, Powers
<1>9. 2 * (next - (L + 1)) < EpochDelta(len)
  BY <1>2, <1>6, <1>7, <1>8
<1>10. PeekPacketNumber(sent[e]) = [packetNumber |-> next, len |-> len]
  BY Zenon DEF PeekPacketNumber, s, next, len, lowest
<1> QED BY <1>7, <1>9, <1>10 DEF next, s, L

-----------------------------------------------------------------------------
(* What the invariant says of keys and their packets. *)

\* An endpoint that may update its keys has a peer that is not behind, and that
\* has sent and received with its key if it is not ahead: the peer received a
\* packet with the current key, and acknowledged it with a key not older.
LEMMA UpdateAllowedMeans ==
    ASSUME KeysInv, NEW e \in Endpoints, updateAllowed(aead[e].a)
    PROVE  /\ KeyOf(e) <= KeyOf(Peer(e))
           /\ KeyOf(e) = KeyOf(Peer(e)) =>
                 /\ FirstSent(Peer(e)) # InvalidPacketNumber
                 /\ FirstRcvd(Peer(e)) # InvalidPacketNumber
<1> DEFINE f == Peer(e)
           n == aead[e].a.largestAcked
<1>1. f \in Endpoints /\ Peer(f) = e
  BY Peers
<1>2. FirstSent(e) # InvalidPacketNumber /\ n # InvalidPacketNumber /\ n >= FirstSent(e)
  BY DEF updateAllowed, FirstSent
<1>3. PICK q \in network : q.from = f /\ n \in q.ack
  BY <1>2 DEF KeysInv, AckInv
<1>4. n \in aead[f].u.rcvd
  BY <1>3 DEF KeysInv, AckInv
<1>5. PICK p \in network : p.from = e /\ p.packetNumber = n /\ p.keyPhase <= q.keyPhase
  BY <1>1, <1>3 DEF KeysInv, AckInv
<1>6. p.keyPhase = KeyOf(e)
  BY <1>2, <1>5 DEF KeysInv, SentInv
<1>7. /\ q.keyPhase <= KeyOf(f)
      /\ q.keyPhase = KeyOf(f) => FirstSent(f) # InvalidPacketNumber
  BY <1>3 DEF KeysInv, SentInv
<1>8. /\ p.keyPhase <= KeyOf(f)
      /\ p.keyPhase = KeyOf(f) => FirstRcvd(f) # InvalidPacketNumber
  <2>1. PICK r \in network : /\ r.from = Peer(f) /\ r.packetNumber = n /\ r.keyPhase <= KeyOf(f)
                             /\ r.keyPhase = KeyOf(f) => FirstRcvd(f) # InvalidPacketNumber
    BY <1>1, <1>4 DEF KeysInv, RcvdInv, Received
  <2>2. r = p
    BY <1>1, <1>5, <2>1 DEF KeysInv, SentInv
  <2> QED BY <2>1, <2>2
<1>9. q.keyPhase \in Nat /\ KeyOf(e) \in Nat /\ KeyOf(f) \in Nat
  BY <1>1, Fields DEF KeysInv, TypeInv, Packets
<1> QED BY <1>5, <1>6, <1>7, <1>8, <1>9

\* The keys of a packet and of its receiver: it is not more than one phase
\* ahead; then the receiver has sent and received with its key, and the packet
\* is after the first one with that key.  A packet with an older key is before it.
LEMMA PacketMeans ==
    ASSUME KeysInv, NEW e \in Endpoints, NEW p \in network, p.from = Peer(e)
    PROVE  /\ p.keyPhase <= KeyOf(e) + 1
           /\ p.keyPhase = KeyOf(e) + 1 =>
                 /\ KeyOf(Peer(e)) = KeyOf(e) + 1
                 /\ FirstSent(e) # InvalidPacketNumber /\ FirstRcvd(e) # InvalidPacketNumber
                 /\ p.packetNumber > FirstRcvd(e)
           /\ p.keyPhase < KeyOf(e) /\ FirstRcvd(e) # InvalidPacketNumber =>
                 p.packetNumber < FirstRcvd(e)
<1> DEFINE f == Peer(e)
<1>1. f \in Endpoints /\ Peer(f) = e
  BY Peers
<1>2. /\ p.packetNumber \in Nat /\ p.keyPhase \in Nat /\ KeyOf(e) \in Nat /\ KeyOf(f) \in Nat
      /\ FirstRcvd(e) \in NumberOrNone
  BY <1>1, Fields DEF KeysInv, TypeInv, Packets
<1>3. p.keyPhase <= KeyOf(f)
  BY DEF KeysInv, SentInv
<1>4. /\ KeyOf(f) <= KeyOf(e) + 1
      /\ KeyOf(f) = KeyOf(e) + 1 =>
            FirstSent(e) # InvalidPacketNumber /\ FirstRcvd(e) # InvalidPacketNumber
  BY <1>1 DEF KeysInv, PhaseInv
<1>5. ASSUME FirstRcvd(e) # InvalidPacketNumber
      PROVE  /\ p.keyPhase > KeyOf(e) => p.packetNumber > FirstRcvd(e)
             /\ p.keyPhase < KeyOf(e) => p.packetNumber < FirstRcvd(e)
  <2>1. PICK q \in network : q.from = f /\ q.packetNumber = FirstRcvd(e) /\ q.keyPhase = KeyOf(e)
    BY <1>5 DEF KeysInv, RcvdInv, Received
  <2>2. /\ p.packetNumber <= q.packetNumber => p.keyPhase <= q.keyPhase
        /\ q.packetNumber <= p.packetNumber => q.keyPhase <= p.keyPhase
    BY <2>1 DEF KeysInv, SentInv
  <2>3. FirstRcvd(e) \in Nat
    BY <1>2, <1>5 DEF NumberOrNone
  <2> QED BY <1>2, <2>1, <2>2, <2>3
<1> QED BY <1>2, <1>3, <1>4, <1>5

-----------------------------------------------------------------------------
(* Sending. *)

\* KeyPhase, field by field.
LEMMA KeyPhaseFields ==
    ASSUME NEW a \in AEADs
    PROVE  /\ KeyPhase(a) \in AEADs
           /\ KeyPhase(a).largestAcked = a.largestAcked
           /\ \/ KeyPhase(a) = a
              \/ /\ updateAllowed(a)
                 /\ KeyPhase(a).keyPhase = a.keyPhase + 1
                 /\ KeyPhase(a).firstRcvdWithCurrentKey = InvalidPacketNumber
                 /\ KeyPhase(a).firstSentWithCurrentKey = InvalidPacketNumber
                 /\ KeyPhase(a).prevRcvAEAD
BY KeyPhaseEffect, RollKeys

\* PackNothing and PackPacket, endpoint by endpoint.
LEMMA PackEffect ==
    ASSUME KeysInv, NEW e \in Endpoints, NEW b, b = KeyPhase(aead[e].a),
           PackNothing(e) \/ PackPacket(e)
    PROVE  /\ \A x \in Endpoints \ {e} : aead'[x] = aead[x]
           /\ DOMAIN aead' = Endpoints
           /\ \/ aead'[e] = [aead[e] EXCEPT !.a = b] /\ sent' = sent /\ network' = network
              \/ /\ sent[e].next < MaxPackets[e]
                 /\ aead'[e] = [a |-> Seal(b, sent[e].next), u |-> [aead[e].u EXCEPT !.ackQueued = FALSE]]
                 /\ sent' = [sent EXCEPT ![e].next = sent[e].next + 1,
                                         ![e].outstanding = sent[e].outstanding \cup {sent[e].next}]
                 /\ network' = network \cup
                      {PacketOf(e, b, IF aead[e].u.ackQueued THEN aead[e].u.rcvd ELSE {})}
<1>1. aead = [x \in Endpoints |-> aead[x]]
  BY DEF KeysInv, TypeInv
<1>2. CASE PackNothing(e)
  BY <1>1, <1>2 DEF PackNothing
<1>3. CASE PackPacket(e)
  <2>1. aead' = [aead EXCEPT ![e] = [a |-> Seal(b, sent[e].next), u |-> [aead[e].u EXCEPT !.ackQueued = FALSE]]]
    BY <1>3 DEF PackPacket
  <2>2. /\ \A x \in Endpoints \ {e} : aead'[x] = aead[x]
        /\ DOMAIN aead' = Endpoints
        /\ aead'[e] = [a |-> Seal(b, sent[e].next), u |-> [aead[e].u EXCEPT !.ackQueued = FALSE]]
    BY <1>1, <2>1
  <2>3. /\ sent[e].next < MaxPackets[e]
        /\ sent' = [sent EXCEPT ![e].next = sent[e].next + 1,
                                ![e].outstanding = sent[e].outstanding \cup {sent[e].next}]
        /\ network' = network \cup
             {PacketOf(e, b, IF aead[e].u.ackQueued THEN aead[e].u.rcvd ELSE {})}
    BY <1>3 DEF PackPacket
  <2> QED BY <2>2, <2>3
<1> QED BY <1>2, <1>3

\* The keys and the unpacker of e after either.
LEMMA PackKeys ==
    ASSUME KeysInv, NEW e \in Endpoints, NEW b, b = KeyPhase(aead[e].a),
           PackNothing(e) \/ PackPacket(e)
    PROVE  /\ b \in AEADs /\ aead'[e].a \in AEADs /\ aead'[e].u \in Unpackers
           /\ aead'[e] \in [a : AEADs, u : Unpackers]
           /\ KeyOf(e)' = b.keyPhase /\ FirstRcvd(e)' = b.firstRcvdWithCurrentKey
           /\ aead'[e].a.largestAcked = aead[e].a.largestAcked
           /\ aead'[e].u.rcvd = aead[e].u.rcvd /\ LargestRcvd(e)' = LargestRcvd(e)
           /\ aead'[e].a.prevRcvAEAD = b.prevRcvAEAD
           /\ aead'[e].a.prevRcvAEADExpired = b.prevRcvAEADExpired
           /\ \/ FirstSent(e)' = b.firstSentWithCurrentKey /\ network' = network
              \/ /\ FirstSent(e)' = IF b.firstSentWithCurrentKey = InvalidPacketNumber
                                    THEN sent[e].next ELSE b.firstSentWithCurrentKey
                 /\ network' = network \cup
                      {PacketOf(e, b, IF aead[e].u.ackQueued THEN aead[e].u.rcvd ELSE {})}
<1>1. aead[e].a \in AEADs /\ aead[e].u \in Unpackers /\ sent[e].next \in Nat
      /\ aead[e] \in [a : AEADs, u : Unpackers]
  BY Fields DEF KeysInv, TypeInv
<1>2. b \in AEADs /\ b.largestAcked = aead[e].a.largestAcked
  BY <1>1, KeyPhaseFields
<1> DEFINE x == aead'[e]
<1>3. CASE x = [aead[e] EXCEPT !.a = b] /\ network' = network
  <2>1. x.a = b /\ x.u = aead[e].u /\ x \in [a : AEADs, u : Unpackers]
    BY <1>1, <1>2, <1>3
  <2> HIDE DEF x
  <2>2. /\ x.a \in AEADs /\ x.u \in Unpackers
        /\ x.a.keyPhase = b.keyPhase /\ x.a.firstRcvdWithCurrentKey = b.firstRcvdWithCurrentKey
        /\ x.a.largestAcked = aead[e].a.largestAcked
        /\ x.u.rcvd = aead[e].u.rcvd
        /\ x.u.largestRcvdPacketNumber = aead[e].u.largestRcvdPacketNumber
        /\ x.a.prevRcvAEAD = b.prevRcvAEAD
        /\ x.a.prevRcvAEADExpired = b.prevRcvAEADExpired
        /\ x.a.firstSentWithCurrentKey = b.firstSentWithCurrentKey
    BY <1>1, <1>2, <2>1, Zenon
  <2> QED BY <1>2, <1>3, <2>1, <2>2, Zenon DEF x, KeyOf, FirstRcvd, FirstSent, LargestRcvd
<1>4. CASE /\ x = [a |-> Seal(b, sent[e].next), u |-> [aead[e].u EXCEPT !.ackQueued = FALSE]]
           /\ network' = network \cup
                {PacketOf(e, b, IF aead[e].u.ackQueued THEN aead[e].u.rcvd ELSE {})}
  <2>1. x.a = Seal(b, sent[e].next) /\ x.u = [aead[e].u EXCEPT !.ackQueued = FALSE]
    BY <1>4
  <2>2. /\ x.u \in Unpackers /\ x.u.rcvd = aead[e].u.rcvd
        /\ x.u.largestRcvdPacketNumber = aead[e].u.largestRcvdPacketNumber
    BY <1>1, <2>1, Zenon DEF Unpackers
  <2>3. x = [a |-> x.a, u |-> x.u]
    BY <1>4
  <2> HIDE DEF x
  <2>4. /\ x.a \in AEADs
        /\ x.a.keyPhase = b.keyPhase /\ x.a.firstRcvdWithCurrentKey = b.firstRcvdWithCurrentKey
        /\ x.a.largestAcked = b.largestAcked
        /\ x.a.prevRcvAEAD = b.prevRcvAEAD
        /\ x.a.prevRcvAEADExpired = b.prevRcvAEADExpired
        /\ x.a.firstSentWithCurrentKey = IF b.firstSentWithCurrentKey = InvalidPacketNumber
                                         THEN sent[e].next ELSE b.firstSentWithCurrentKey
    BY <1>1, <1>2, <2>1, SealEffect
  <2>5. x \in [a : AEADs, u : Unpackers]
    BY <2>2, <2>3, <2>4
  <2> QED BY <1>2, <1>4, <2>2, <2>4, <2>5, ZenonT(60) DEF x, KeyOf, FirstRcvd, FirstSent, LargestRcvd
<1> QED BY <1>3, <1>4, PackEffect, Zenon

\* Packing keeps the phases together: the keys are rolled only where the peer is
\* not behind.
LEMMA PackPhaseInv ==
    ASSUME KeysInv, NEW e \in Endpoints, PackNothing(e) \/ PackPacket(e)
    PROVE  PhaseInv' /\ PrevKeyInv'
<1> DEFINE f == Peer(e)
           b == KeyPhase(aead[e].a)
<1>1. /\ f \in Endpoints /\ f # e /\ Peer(f) = e
      /\ \A x \in Endpoints : x = e \/ x = f
  BY Peers
<1>2. KeyOf(e) \in Nat /\ KeyOf(f) \in Nat /\ sent[e].next \in Nat /\ aead[e].a \in AEADs
  BY <1>1, Fields DEF KeysInv
<1>3. aead'[f] = aead[f]
  BY <1>1, PackEffect, Zenon
<1>4. KeyOf(f)' = KeyOf(f) /\ FirstSent(f)' = FirstSent(f) /\ FirstRcvd(f)' = FirstRcvd(f)
  BY <1>3 DEF KeyOf, FirstSent, FirstRcvd
<1>5. \/ /\ KeyOf(e)' = KeyOf(e) /\ FirstRcvd(e)' = FirstRcvd(e)
         /\ FirstSent(e) # InvalidPacketNumber => FirstSent(e)' # InvalidPacketNumber
      \/ updateAllowed(aead[e].a) /\ KeyOf(e)' = KeyOf(e) + 1
  <2>1. KeyOf(e)' = b.keyPhase /\ FirstRcvd(e)' = b.firstRcvdWithCurrentKey
    BY PackKeys
  <2>2. \/ FirstSent(e)' = b.firstSentWithCurrentKey
        \/ FirstSent(e)' = IF b.firstSentWithCurrentKey = InvalidPacketNumber
                           THEN sent[e].next ELSE b.firstSentWithCurrentKey
    BY PackKeys
  <2>3. b = aead[e].a \/ (updateAllowed(aead[e].a) /\ b.keyPhase = KeyOf(e) + 1)
    BY <1>2, KeyPhaseFields DEF KeyOf
  <2> HIDE DEF b
  <2> QED BY <2>1, <2>2, <2>3 DEF KeyOf, FirstRcvd, FirstSent
<1>6. /\ KeyOf(e) <= KeyOf(f) + 1
      /\ KeyOf(e) = KeyOf(f) + 1 =>
            FirstSent(f) # InvalidPacketNumber /\ FirstRcvd(f) # InvalidPacketNumber
      /\ KeyOf(f) <= KeyOf(e) + 1
      /\ KeyOf(f) = KeyOf(e) + 1 =>
            FirstSent(e) # InvalidPacketNumber /\ FirstRcvd(e) # InvalidPacketNumber
  BY <1>1 DEF KeysInv, PhaseInv
<1>7. /\ (KeyOf(e) <= KeyOf(f) + 1)'
      /\ (KeyOf(e) = KeyOf(f) + 1 =>
             FirstSent(f) # InvalidPacketNumber /\ FirstRcvd(f) # InvalidPacketNumber)'
      /\ (KeyOf(f) <= KeyOf(e) + 1)'
      /\ (KeyOf(f) = KeyOf(e) + 1 =>
             FirstSent(e) # InvalidPacketNumber /\ FirstRcvd(e) # InvalidPacketNumber)'
  <2>1. CASE /\ KeyOf(e)' = KeyOf(e) /\ FirstRcvd(e)' = FirstRcvd(e)
             /\ FirstSent(e) # InvalidPacketNumber => FirstSent(e)' # InvalidPacketNumber
    BY <1>2, <1>4, <1>6, <2>1, ZenonT(60) DEF InvalidPacketNumber
  <2>2. CASE updateAllowed(aead[e].a) /\ KeyOf(e)' = KeyOf(e) + 1
    <3>1. /\ KeyOf(e) <= KeyOf(f)
          /\ KeyOf(e) = KeyOf(f) =>
                FirstSent(f) # InvalidPacketNumber /\ FirstRcvd(f) # InvalidPacketNumber
      BY <2>2, UpdateAllowedMeans
    <3> QED BY <1>2, <1>4, <1>6, <2>2, <3>1 DEF InvalidPacketNumber
  <2> QED BY <1>5, <2>1, <2>2
<1>8. PhaseInv'
  <2> HIDE DEF f
  <2>1. Peer(e) = f
    BY DEF f
  <2> QED BY <1>1, <1>7, <2>1, Zenon DEF PhaseInv
<1>9. PrevKeyInv'
  <2>1. /\ aead'[e].a.prevRcvAEAD = b.prevRcvAEAD
        /\ aead'[e].a.prevRcvAEADExpired = b.prevRcvAEADExpired
        /\ KeyOf(e)' = b.keyPhase
    BY PackKeys
  <2>2. b = aead[e].a \/ b.prevRcvAEAD
    BY <1>2, KeyPhaseFields
  <2> HIDE DEF b
  <2>3. ASSUME NEW x \in Endpoints
        PROVE  (KeyOf(x) > 0 /\ ~aead[x].a.prevRcvAEADExpired => aead[x].a.prevRcvAEAD)'
    <3>1. CASE x = e
      BY <2>1, <2>2, <3>1, Zenon DEF KeysInv, PrevKeyInv, KeyOf
    <3>2. CASE x = f
      BY <1>1, <1>3, <3>2, ZenonT(60) DEF KeysInv, PrevKeyInv, KeyOf
    <3> QED BY <1>1, <3>1, <3>2
  <2> QED BY <2>3 DEF PrevKeyInv
<1> QED BY <1>8, <1>9

\* The packet of PackPacket.
LEMMA NewPacket ==
    ASSUME KeysInv, NEW e \in Endpoints, NEW b \in AEADs, NEW ack \in SUBSET Nat
    PROVE  LET p == PacketOf(e, b, ack)
           IN  /\ p \in Packets
               /\ p.from = e /\ p.keyPhase = b.keyPhase /\ p.packetNumber = sent[e].next
               /\ p.ack = ack /\ p.wire = Truncated(p.packetNumber, p.len)
               /\ 2 * (p.packetNumber - (LargestRcvd(Peer(e)) + 1)) < EpochDelta(p.len)
<1> DEFINE pn == PeekPacketNumber(sent[e])
           p == PacketOf(e, b, ack)
           w == Truncated(pn.packetNumber, pn.len)
<1>1. /\ pn.packetNumber = sent[e].next /\ pn.len \in 2 .. 4 /\ sent[e].next \in Nat
      /\ 2 * (sent[e].next - (LargestRcvd(Peer(e)) + 1)) < EpochDelta(pn.len)
  BY NumberChoice, Fields DEF KeysInv
<1>2. w \in Nat
  <2>1. EpochDelta(pn.len) \in Nat \ {0}
    BY <1>1, Powers
  <2> DEFINE d == EpochDelta(pn.len)
             n == pn.packetNumber
  <2>2. n \in Nat /\ d \in Nat \ {0} /\ w = n % d
    BY <1>1, <2>1 DEF Truncated
  <2> HIDE DEF d, n, w
  <2>3. w \in 0 .. d - 1
    BY <2>2, Division
  <2> QED BY <2>2, <2>3
<1>3. p = [from |-> e, keyPhase |-> b.keyPhase, packetNumber |-> pn.packetNumber,
           len |-> pn.len, wire |-> w, ack |-> ack]
  BY Zenon DEF PacketOf
<1>4. b.keyPhase \in Nat
  BY DEF AEADs
<1>5. w = Truncated(pn.packetNumber, pn.len)
  OBVIOUS
<1> HIDE DEF pn, w
<1>6. /\ p.from = e /\ p.keyPhase = b.keyPhase /\ p.packetNumber = sent[e].next
      /\ p.ack = ack /\ p.wire = w /\ p.len = pn.len
  BY <1>1, <1>3
<1>7. p \in Packets
  BY <1>1, <1>2, <1>3, <1>4 DEF Packets
<1> HIDE DEF p
<1>8. p.wire = Truncated(p.packetNumber, p.len)
  BY <1>1, <1>5, <1>6
<1> QED BY <1>1, <1>6, <1>7, <1>8 DEF p

\* Packing preserves the invariant.
LEMMA PackStep ==
    ASSUME KeysInv, NEW e \in Endpoints, PackNothing(e) \/ PackPacket(e)
    PROVE  KeysInv'
<1> DEFINE f == Peer(e)
           b == KeyPhase(aead[e].a)
           k == aead[e].a.keyPhase
           next == sent[e].next
           ack == IF aead[e].u.ackQueued THEN aead[e].u.rcvd ELSE {}
           p == PacketOf(e, b, ack)
<1>1. /\ f \in Endpoints /\ f # e /\ Peer(f) = e
      /\ \A x \in Endpoints : x = e \/ x = f
  BY Peers
<1>2. /\ k \in Nat /\ KeyOf(f) \in Nat /\ next \in Nat /\ aead[e].a \in AEADs
      /\ aead[e].u.rcvd \in SUBSET Nat
      /\ sent[e] \in SentHandlers /\ sent[f] \in SentHandlers
      /\ FirstSent(e) \in NumberOrNone
  BY <1>1, Fields DEF KeysInv, KeyOf
<1>3. aead'[f] = aead[f]
  BY <1>1, PackEffect, Zenon
<1>4. /\ KeyOf(f)' = KeyOf(f) /\ FirstSent(f)' = FirstSent(f) /\ FirstRcvd(f)' = FirstRcvd(f)
      /\ LargestRcvd(f)' = LargestRcvd(f)
  BY <1>3, SMTT(60) DEF KeyOf, FirstSent, FirstRcvd, LargestRcvd
<1>5. /\ b \in AEADs /\ aead'[e] \in [a : AEADs, u : Unpackers]
      /\ KeyOf(e)' = b.keyPhase /\ FirstRcvd(e)' = b.firstRcvdWithCurrentKey
      /\ aead'[e].a.largestAcked = aead[e].a.largestAcked
      /\ aead'[e].u.rcvd = aead[e].u.rcvd /\ LargestRcvd(e)' = LargestRcvd(e)
  BY PackKeys
<1>6. \/ b = aead[e].a
      \/ /\ b.keyPhase = k + 1
         /\ b.firstRcvdWithCurrentKey = InvalidPacketNumber
         /\ b.firstSentWithCurrentKey = InvalidPacketNumber
  BY <1>2, KeyPhaseFields
<1>7. ack \in SUBSET Nat /\ ack \subseteq aead[e].u.rcvd
  BY <1>2
<1>8. /\ p \in Packets
      /\ p.from = e /\ p.keyPhase = b.keyPhase /\ p.packetNumber = next
      /\ p.ack = ack /\ p.wire = Truncated(p.packetNumber, p.len)
      /\ 2 * (p.packetNumber - (LargestRcvd(f) + 1)) < EpochDelta(p.len)
  <2>1. b \in AEADs
    BY <1>5
  <2> HIDE DEF b, ack
  <2> QED BY <1>7, <2>1, NewPacket
<1>9. \/ sent' = sent /\ network' = network
      \/ /\ next < MaxPackets[e]
         /\ sent' = [sent EXCEPT ![e].next = next + 1,
                                 ![e].outstanding = sent[e].outstanding \cup {next}]
         /\ network' = network \cup {p}
  BY PackEffect, Zenon
<1>10. DOMAIN aead' = Endpoints
  BY PackEffect, Zenon
<1>11. \/ FirstSent(e)' = b.firstSentWithCurrentKey /\ network' = network
       \/ /\ FirstSent(e)' = IF b.firstSentWithCurrentKey = InvalidPacketNumber
                             THEN next ELSE b.firstSentWithCurrentKey
          /\ network' = network \cup {p}
  BY PackKeys
<1>12. /\ sent'[f] = sent[f] /\ sent' = [x \in Endpoints |-> sent'[x]]
       /\ sent'[e].largestAcked = sent[e].largestAcked
       /\ \/ sent'[e] = sent[e] /\ network' = network
          \/ /\ next < MaxPackets[e] /\ network' = network \cup {p}
             /\ sent'[e].next = next + 1
             /\ sent'[e].outstanding = sent[e].outstanding \cup {next}
             /\ sent'[e] \in SentHandlers
  <2>1. sent = [x \in Endpoints |-> sent[x]]
    BY DEF KeysInv, TypeInv
  <2>2. CASE sent' = sent /\ network' = network
    BY <2>1, <2>2
  <2>3. CASE /\ next < MaxPackets[e]
             /\ sent' = [sent EXCEPT ![e].next = next + 1,
                                     ![e].outstanding = sent[e].outstanding \cup {next}]
             /\ network' = network \cup {p}
    <3> DEFINE s == [sent[e] EXCEPT !.next = next + 1,
                                    !.outstanding = sent[e].outstanding \cup {next}]
    <3>1. sent' = [sent EXCEPT ![e] = s]
      BY <2>1, <2>3, Zenon
    <3>2. /\ s.largestAcked = sent[e].largestAcked /\ s.next = next + 1
          /\ s.outstanding = sent[e].outstanding \cup {next}
          /\ s \in SentHandlers
      <4> DEFINE s0 == sent[e]
                 out == s0.outstanding \cup {next}
      <4>1. out \in SUBSET Nat /\ next + 1 \in Nat /\ s0 \in SentHandlers
        BY <1>2 DEF SentHandlers
      <4>2. s = [s0 EXCEPT !.next = next + 1, !.outstanding = out]
        OBVIOUS
      <4> HIDE DEF s0, out, s, next
      <4>3. /\ s.largestAcked = s0.largestAcked /\ s.next = next + 1 /\ s.outstanding = out
            /\ s \in SentHandlers
        BY <4>1, <4>2, Zenon DEF SentHandlers
      <4> QED BY <4>3 DEF out, s0
    <3> HIDE DEF s
    <3>3. sent'[f] = sent[f] /\ sent'[e] = s /\ sent' = [x \in Endpoints |-> sent'[x]]
      BY <1>1, <2>1, <3>1
    <3> QED BY <2>3, <3>2, <3>3, Zenon
  <2> QED BY <1>9, <2>2, <2>3
<1> HIDE DEF b, p, ack, f
<1>13. aead'[f] \in [a : AEADs, u : Unpackers] /\ sent[e] \in SentHandlers
  BY <1>1, <1>2, <1>3 DEF KeysInv, TypeInv
<1>14. TypeInv'
  <2>1. aead' \in [Endpoints -> [a : AEADs, u : Unpackers]]
    <3>1. \A x \in Endpoints : aead'[x] \in [a : AEADs, u : Unpackers]
      BY <1>1, <1>5, <1>13, ZenonT(60)
    <3>2. aead' = [x \in Endpoints |-> aead'[x]]
      BY <1>10, PackEffect DEF PackNothing, PackPacket, KeysInv, TypeInv
    <3> QED BY <3>1, <3>2
  <2>2. sent' \in [Endpoints -> SentHandlers]
    <3>1. \A x \in Endpoints : sent'[x] \in SentHandlers
      BY <1>1, <1>2, <1>12
    <3> QED BY <1>12, <3>1
  <2>3. network' \subseteq Packets
    BY <1>8, <1>12 DEF KeysInv, TypeInv
  <2>4. ASSUME NEW x \in Endpoints
        PROVE  /\ sent'[x].next <= MaxPackets[x] /\ sent'[x].largestAcked < sent'[x].next
               /\ sent'[x].outstanding \subseteq 0 .. sent'[x].next - 1
    <3>1. MaxPackets[e] \in Nat
      BY KeyUpdateAssumption, Powers
    <3>2. /\ sent[e].next <= MaxPackets[e] /\ sent[e].largestAcked < sent[e].next
          /\ sent[e].outstanding \subseteq 0 .. sent[e].next - 1
          /\ sent[f].next <= MaxPackets[f] /\ sent[f].largestAcked < sent[f].next
          /\ sent[f].outstanding \subseteq 0 .. sent[f].next - 1
      BY <1>1 DEF KeysInv, TypeInv
    <3>3. CASE x = f
      BY <1>12, <3>2, <3>3
    <3>4. CASE x = e /\ sent'[e] = sent[e]
      BY <3>2, <3>4
    <3>5. CASE x = e /\ sent'[e] # sent[e]
      <4>1. sent[e].largestAcked \in NumberOrNone
        BY <1>2 DEF SentHandlers
      <4>2. /\ sent'[e].next <= MaxPackets[e]
            /\ sent'[e].largestAcked < sent'[e].next
        BY <1>2, <1>12, <3>1, <3>2, <3>5, <4>1, SMTT(60) DEF NumberOrNone, InvalidPacketNumber
      <4>3. 0 .. next - 1 \subseteq 0 .. next /\ next \in 0 .. next /\ next + 1 - 1 = next
        BY <1>2
      <4>4. sent'[e].outstanding \subseteq 0 .. next
        BY <1>12, <3>2, <3>5, <4>3, ZenonT(60)
      <4> QED BY <1>12, <3>5, <4>2, <4>3, <4>4
    <3> QED BY <1>1, <3>3, <3>4, <3>5
  <2> QED BY <2>1, <2>2, <2>3, <2>4, Zenon DEF TypeInv
<1>15. /\ p \notin network
       /\ \A q \in network : /\ q.packetNumber \in Nat /\ q.keyPhase \in Nat /\ q.from \in Endpoints
                             /\ q.from = e => q.packetNumber < next /\ q.keyPhase <= k
  BY <1>1, <1>2, <1>8 DEF KeysInv, SentInv, TypeInv, Packets, KeyOf
<1>16. b.keyPhase \in Nat /\ (b.keyPhase = k \/ b.keyPhase = k + 1)
  BY <1>2, <1>6
<1>17. \A q \in network' : q \in network \/ (q = p /\ network' # network)
  BY <1>12, <1>15
<1>18. SentInv'
  <2>1. ASSUME NEW q \in network', NEW r \in network', q.from = r.from
        PROVE  /\ q.packetNumber = r.packetNumber => q = r
               /\ q.packetNumber <= r.packetNumber => q.keyPhase <= r.keyPhase
    <3>1. CASE q \in network /\ r \in network
      BY <2>1, <3>1 DEF KeysInv, SentInv
    <3>2. CASE q = p /\ r = p
      BY <1>8, <1>16, <3>2
    <3>3. CASE q \in network /\ r = p
      BY <1>2, <1>8, <1>15, <1>16, <2>1, <3>3, SMTT(60)
    <3>4. CASE q = p /\ r \in network
      BY <1>2, <1>8, <1>15, <1>16, <2>1, <3>4, SMTT(60)
    <3> QED BY <1>17, <3>1, <3>2, <3>3, <3>4, SMTT(60)
  <2> DEFINE First == FirstSent(e)'
  <2>2. /\ FirstSent(e) < next
        /\ \A q \in network : q.from = e =>
              (q.keyPhase = k <=>
                  FirstSent(e) # InvalidPacketNumber /\ q.packetNumber >= FirstSent(e))
    BY ZenonT(60) DEF KeysInv, SentInv, KeyOf
  <2>3. \/ network' = network /\ b.keyPhase = k /\ First = FirstSent(e)
        \/ network' = network /\ b.keyPhase = k + 1 /\ First = InvalidPacketNumber
        \/ b.keyPhase = k /\ FirstSent(e) # InvalidPacketNumber /\ First = FirstSent(e)
        \/ network' # network /\ b.keyPhase = k /\ FirstSent(e) = InvalidPacketNumber /\ First = next
        \/ network' # network /\ b.keyPhase = k + 1 /\ First = next
    <3>1. network' = network \cup {p} => network' # network
      BY <1>15, ZenonT(60)
    <3>2. CASE b = aead[e].a
      BY <1>11, <3>1, <3>2 DEF FirstSent
    <3>3. CASE b.keyPhase = k + 1 /\ b.firstSentWithCurrentKey = InvalidPacketNumber
      BY <1>11, <3>1, <3>3
    <3> QED BY <1>6, <3>2, <3>3
  <2> HIDE DEF First
  <2>4. sent'[e].next \in Nat /\ next <= sent'[e].next /\ (network' # network => next < sent'[e].next)
    BY <1>2, <1>12
  <2>5. ASSUME NEW q \in network', q.from = e
        PROVE  /\ q.packetNumber < sent'[e].next
               /\ q.keyPhase <= b.keyPhase
               /\ q.keyPhase = b.keyPhase <=>
                     First # InvalidPacketNumber /\ q.packetNumber >= First
    <3>1. CASE q \in network
      <4>1. /\ q.packetNumber \in Nat /\ q.keyPhase \in Nat
            /\ q.packetNumber < next /\ q.keyPhase <= k
        BY <1>15, <2>5, <3>1
      <4>2. q.keyPhase = k <=>
              FirstSent(e) # InvalidPacketNumber /\ q.packetNumber >= FirstSent(e)
        BY <2>2, <2>5, <3>1, ZenonT(60)
      <4> QED BY <1>2, <1>16, <2>3, <2>4, <4>1, <4>2, SMTT(60) DEF InvalidPacketNumber
    <3>2. CASE q = p /\ network' # network
      BY <1>2, <1>8, <1>16, <2>2, <2>3, <2>4, <3>2, SMTT(60) DEF NumberOrNone, InvalidPacketNumber
    <3> QED BY <1>17, <3>1, <3>2, ZenonT(60)
  <2>6. ASSUME NEW q \in network', q.from = f
        PROVE  /\ q.packetNumber < sent'[f].next
               /\ q.keyPhase <= KeyOf(f)
               /\ q.keyPhase = KeyOf(f) <=>
                     FirstSent(f) # InvalidPacketNumber /\ q.packetNumber >= FirstSent(f)
    <3>1. q \in network
      BY <1>1, <1>8, <1>17, <2>6
    <3> QED BY <1>12, <2>6, <3>1 DEF KeysInv, SentInv
  <2>7. ASSUME NEW x \in Endpoints PROVE (FirstSent(x) < sent[x].next)'
    <3>1. CASE x = e
      <4>1. First < sent'[e].next
        BY <1>2, <1>12, <2>2, <2>3, <2>4, SMTT(60) DEF NumberOrNone, InvalidPacketNumber
      <4> QED BY <3>1, <4>1 DEF First
    <3>2. CASE x = f
      BY <1>1, <1>4, <1>12, <3>2, Zenon DEF KeysInv, SentInv
    <3> QED BY <1>1, <3>1, <3>2
  <2>8. ASSUME NEW q \in network'
        PROVE  (/\ q.packetNumber < sent[q.from].next
                /\ q.keyPhase <= KeyOf(q.from)
                /\ q.keyPhase = KeyOf(q.from) <=>
                     FirstSent(q.from) # InvalidPacketNumber /\ q.packetNumber >= FirstSent(q.from))'
    <3>1. q.from = e \/ q.from = f
      BY <1>1, <1>8, <1>15, <1>17
    <3>2. CASE q.from = e
      BY <1>5, <2>5, <3>2, Zenon DEF First
    <3>3. CASE q.from = f
      BY <1>4, <2>6, <3>3, Zenon
    <3> QED BY <3>1, <3>2, <3>3, ZenonT(60)
  <2> QED BY <2>1, <2>7, <2>8, Zenon DEF SentInv
<1>19. NumberInv'
  <2>1. ASSUME NEW q \in network'
        PROVE  (/\ q.wire = Truncated(q.packetNumber, q.len)
                /\ 2 * (q.packetNumber - (LargestRcvd(Peer(q.from)) + 1)) < EpochDelta(q.len))'
    <3>1. Peer(q.from) \in Endpoints
      BY <1>8, <1>15, <1>17, Peers
    <3>2. LargestRcvd(Peer(q.from))' = LargestRcvd(Peer(q.from))
      BY <1>1, <1>4, <1>5, <3>1
    <3>3. CASE q \in network
      BY <3>2, <3>3 DEF KeysInv, NumberInv
    <3>4. CASE q = p
      BY <1>8, <3>2, <3>4 DEF f
    <3> QED BY <1>17, <3>3, <3>4
  <2> QED BY <2>1, Zenon DEF NumberInv
<1>20. AckInv'
  <2>1. ASSUME NEW q \in network', NEW n \in q.ack
        PROVE  (/\ n \in aead[q.from].u.rcvd
                /\ \E r \in network :
                      r.from = Peer(q.from) /\ r.packetNumber = n /\ r.keyPhase <= q.keyPhase)'
    <3>1. network \subseteq network'
      BY <1>12
    <3>2. CASE q \in network
      <4>1. /\ n \in aead[q.from].u.rcvd
            /\ \E r \in network :
                  r.from = Peer(q.from) /\ r.packetNumber = n /\ r.keyPhase <= q.keyPhase
        BY <3>2 DEF KeysInv, AckInv
      <4>2. aead'[q.from].u.rcvd = aead[q.from].u.rcvd
        BY <1>1, <1>3, <1>5, <1>15, <3>2, ZenonT(60)
      <4> QED BY <3>1, <4>1, <4>2
    <3>3. CASE q = p
      <4>1. n \in aead[e].u.rcvd
        BY <1>7, <1>8, <3>3, ZenonT(60)
      <4>2. PICK r \in network : r.from = f /\ r.packetNumber = n /\ r.keyPhase <= k
        BY <4>1 DEF KeysInv, RcvdInv, Received, f, KeyOf
      <4>3. r.keyPhase <= q.keyPhase
        BY <1>2, <1>8, <1>15, <1>16, <3>3, <4>2, SMTT(60)
      <4> QED BY <1>5, <1>8, <3>1, <3>3, <4>1, <4>2, <4>3, SMTT(60) DEF f
    <3> QED BY <1>17, <3>2, <3>3
  <2>2. ASSUME NEW x \in Endpoints
        PROVE  (aead[x].a.largestAcked # InvalidPacketNumber =>
                  \E q \in network : q.from = Peer(x) /\ aead[x].a.largestAcked \in q.ack)'
    <3>1. aead'[x].a.largestAcked = aead[x].a.largestAcked
      BY <1>1, <1>3, <1>5
    <3>2. network \subseteq network'
      BY <1>12
    <3>3. aead[x].a.largestAcked # InvalidPacketNumber =>
             \E q \in network : q.from = Peer(x) /\ aead[x].a.largestAcked \in q.ack
      BY DEF KeysInv, AckInv
    <3> QED BY <3>1, <3>2, <3>3, ZenonT(60)
  <2> QED BY <2>1, <2>2, Zenon DEF AckInv
<1>21. OutstandingInv'
  <2>1. ASSUME NEW x \in Endpoints, NEW n \in 0 .. sent'[x].next - 1, n \notin sent'[x].outstanding
        PROVE  n \in aead'[Peer(x)].u.rcvd /\ n <= sent'[x].largestAcked
    <3>1. aead'[Peer(x)].u.rcvd = aead[Peer(x)].u.rcvd
      BY <1>1, <1>3, <1>5, Peers
    <3>2. sent'[x].largestAcked = sent[x].largestAcked
      BY <1>1, <1>12
    <3>3. n \in 0 .. sent[x].next - 1 /\ n \notin sent[x].outstanding
      <4>1. CASE sent'[x] = sent[x]
        BY <2>1, <4>1
      <4>2. CASE sent'[x] # sent[x]
        BY <1>1, <1>2, <1>12, <2>1, <4>2
      <4> QED BY <4>1, <4>2
    <3> QED BY <3>1, <3>2, <3>3, ZenonT(60) DEF KeysInv, OutstandingInv
  <2> QED BY <2>1, Zenon DEF OutstandingInv
<1>22. RcvdInv'
  <2>1. ASSUME NEW x \in Endpoints
        PROVE  Received(x, aead'[x].u.rcvd, LargestRcvd(x)', KeyOf(x)', FirstRcvd(x)', network')
    <3> DEFINE R == aead[x].u.rcvd
               L == LargestRcvd(x)
    <3>1. Received(x, R, L, KeyOf(x), FirstRcvd(x), network)
      BY ZenonT(60) DEF KeysInv, RcvdInv
    <3>2. network \subseteq network'
      BY <1>12
    <3>3. L' = L /\ R' = R
      BY <1>1, <1>3, <1>4, <1>5, SMTT(60)
    <3> HIDE DEF R, L
    <3>4. CASE KeyOf(x)' = KeyOf(x) /\ FirstRcvd(x)' = FirstRcvd(x)
      <4> DEFINE K == KeyOf(x)
                 F == FirstRcvd(x)
      <4>1. Received(x, R, L, K, F, network)
        BY <3>1
      <4> HIDE DEF K, F
      <4>2. Received(x, R, L, K, F, network')
        BY <3>2, <4>1, ZenonT(60) DEF Received
      <4> QED BY <3>3, <3>4, <4>2 DEF K, F, R, L
    <3>5. CASE x = e /\ KeyOf(e)' = k + 1 /\ FirstRcvd(e)' = InvalidPacketNumber
      <4>1. ASSUME NEW y \in R
            PROVE  \E r \in network' : /\ r.from = Peer(e) /\ r.packetNumber = y
                                       /\ r.keyPhase <= k + 1 /\ r.keyPhase # k + 1
        <5>1. PICK r \in network : r.from = Peer(e) /\ r.packetNumber = y /\ r.keyPhase <= k
          BY <3>1, <3>5, SMTT(60) DEF KeyOf, Received
        <5>2. r.keyPhase <= k + 1 /\ r.keyPhase # k + 1
          BY <1>2, <1>15, <5>1
        <5> QED BY <3>2, <5>1, <5>2, SMTT(60)
      <4>2. (L = 0 \/ L \in R) /\ \A y \in R : y <= L
        BY <3>1 DEF Received
      <4>3. Received(e, R, L, k + 1, InvalidPacketNumber, network')
        BY <4>1, <4>2, ZenonT(60) DEF Received
      <4> QED BY <3>3, <3>5, <4>3, SMTT(60) DEF R, L
    <3>6. \/ KeyOf(x)' = KeyOf(x) /\ FirstRcvd(x)' = FirstRcvd(x)
          \/ x = e /\ KeyOf(e)' = k + 1 /\ FirstRcvd(e)' = InvalidPacketNumber
      <4>1. CASE x = f
        BY <1>4, <4>1, ZenonT(60)
      <4>2. CASE x = e
        BY <1>5, <1>6, <4>2 DEF KeyOf, FirstRcvd
      <4> QED BY <1>1, <4>1, <4>2
    <3> QED BY <3>4, <3>5, <3>6
  <2> QED BY <2>1, ZenonT(60) DEF RcvdInv
<1>23. PhaseInv' /\ PrevKeyInv'
  BY PackPhaseInv
<1> QED BY <1>14, <1>18, <1>19, <1>20, <1>21, <1>22, <1>23, ZenonT(60) DEF KeysInv

-----------------------------------------------------------------------------
(* Receiving. *)

\* ACKs are for packets that were sent.
LEMMA AckBound ==
    ASSUME KeysInv, NEW e \in Endpoints, NEW p \in network, p.from = Peer(e)
    PROVE  /\ p.ack \in SUBSET Nat
           /\ \A n \in p.ack : n < sent[e].next
           /\ p.ack # {} => Max(p.ack) \in p.ack /\ \A n \in p.ack : n <= Max(p.ack)
<1>1. p.ack \in SUBSET Nat /\ sent[e].next \in Nat
  BY Fields DEF KeysInv, TypeInv, Packets
<1>2. ASSUME NEW n \in p.ack PROVE n < sent[e].next
  <2>1. PICK r \in network : r.from = Peer(p.from) /\ r.packetNumber = n
    BY DEF KeysInv, AckInv
  <2>2. r.from = e
    BY <2>1, Peers
  <2> QED BY <2>1, <2>2 DEF KeysInv, SentInv
<1>3. ASSUME p.ack # {} PROVE Max(p.ack) \in p.ack /\ \A n \in p.ack : n <= Max(p.ack)
  <2> DEFINE S == p.ack
             N == sent[e].next
  <2>1. S \in SUBSET Int /\ N \in Int /\ S # {} /\ \A n \in S : n <= N
    BY <1>1, <1>2, <1>3
  <2> HIDE DEF S, N
  <2>2. Max(S) \in S /\ \A n \in S : n <= Max(S)
    BY <2>1, MaxOf, Zenon
  <2> QED BY <2>2 DEF S
<1> QED BY <1>1, <1>2, <1>3, ZenonT(60)

\* SetLargestAcked changes nothing else.
LEMMA SetLargestAcked ==
    ASSUME NEW a \in AEADs, NEW m \in Nat
    PROVE  LET b == [a EXCEPT !.largestAcked = m]
           IN  /\ b \in AEADs /\ b.largestAcked = m
               /\ b.keyPhase = a.keyPhase
               /\ b.firstRcvdWithCurrentKey = a.firstRcvdWithCurrentKey
               /\ b.firstSentWithCurrentKey = a.firstSentWithCurrentKey
               /\ b.prevRcvAEAD = a.prevRcvAEAD /\ b.prevRcvAEADExpired = a.prevRcvAEADExpired
BY DEF AEADs, NumberOrNone

\* The keys of e after it received p: a packet with the previous, the current or
\* the next key was opened.
KeysAfter(e, p) ==
    \/ /\ p.keyPhase = KeyOf(e) - 1
       /\ KeyOf(e)' = KeyOf(e) /\ FirstSent(e)' = FirstSent(e) /\ FirstRcvd(e)' = FirstRcvd(e)
    \/ /\ p.keyPhase = KeyOf(e)
       /\ KeyOf(e)' = KeyOf(e) /\ FirstSent(e)' = FirstSent(e)
       /\ FirstRcvd(e)' = IF FirstRcvd(e) = InvalidPacketNumber THEN p.packetNumber
                          ELSE FirstRcvd(e)
    \/ /\ p.keyPhase = KeyOf(e) + 1
       /\ KeyOf(e)' = KeyOf(e) + 1 /\ FirstSent(e)' = InvalidPacketNumber
       /\ FirstRcvd(e)' = p.packetNumber

\* The previous key of e is dropped only when it is expired.
PrevAfter(e) ==
    KeyOf(e)' > 0 /\ ~aead'[e].a.prevRcvAEADExpired => aead'[e].a.prevRcvAEAD

\* What handleSinglePacket does with a packet that does not open.
Drops(e) ==
    /\ KeyOf(e)' = KeyOf(e) /\ FirstSent(e)' = FirstSent(e) /\ FirstRcvd(e)' = FirstRcvd(e)
    /\ aead'[e].a.largestAcked = aead[e].a.largestAcked
    /\ aead'[e].u = aead[e].u /\ sent' = sent

\* What it does with one that does.
Accepts(e, p) ==
    /\ KeysAfter(e, p)
    /\ aead'[e].u.rcvd = aead[e].u.rcvd \cup {p.packetNumber}
    /\ LargestRcvd(e)' = IF LargestRcvd(e) >= p.packetNumber THEN LargestRcvd(e)
                         ELSE p.packetNumber
    /\ aead'[e].a.largestAcked = IF p.ack = {} THEN aead[e].a.largestAcked ELSE Max(p.ack)
    /\ sent' = [sent EXCEPT ![e] = sent'[e]]
    /\ sent'[e].next = sent[e].next
    /\ sent'[e].outstanding = sent[e].outstanding \ p.ack
    /\ sent'[e].largestAcked
         = IF p.ack = {} \/ sent[e].largestAcked >= Max(p.ack) THEN sent[e].largestAcked
           ELSE Max(p.ack)

\* handleSinglePacket drops the packet or accepts it.
LEMMA ReceiveEffect ==
    ASSUME KeysInv, NEW e \in Endpoints, NEW p \in network, p.from = Peer(e),
           handleSinglePacket(e, p)
    PROVE  /\ \A x \in Endpoints \ {e} : aead'[x] = aead[x] /\ sent'[x] = sent[x]
           /\ aead' \in [Endpoints -> [a : AEADs, u : Unpackers]]
           /\ sent' \in [Endpoints -> SentHandlers]
           /\ PrevAfter(e) /\ (Drops(e) \/ Accepts(e, p))
<1> DEFINE a == aead[e].a
           u == aead[e].u
           L == u.largestRcvdPacketNumber
           pn == DecodePacketNumber(p.len, L, p.wire)
<1>1. /\ a \in AEADs /\ u \in Unpackers /\ aead[e] \in [a : AEADs, u : Unpackers]
      /\ L \in Nat /\ u.rcvd \in SUBSET Nat
      /\ sent[e] \in SentHandlers /\ sent[e].next \in Nat
      /\ sent[e].outstanding \in SUBSET Nat /\ sent[e].largestAcked \in NumberOrNone
  BY Fields DEF KeysInv, TypeInv, LargestRcvd
<1>2. p \in Packets /\ p.len \in 2 .. 4 /\ p.wire \in Nat
  BY DEF KeysInv, TypeInv, Packets
<1>3. pn \in Nat
  <2> DEFINE d == EpochDelta(p.len)
             w == p.wire
  <2>1. d \in Nat \ {0} /\ w \in Nat
    BY <1>2, Powers
  <2>2. pn = DecodeInEpoch(d, L, w)
    BY DEF DecodePacketNumber
  <2> HIDE DEF d, w, L, pn
  <2> QED BY <1>1, <2>1, <2>2, DecodeNat
<1>4. PICK late \in IF a.prevRcvAEADExpired THEN BOOLEAN ELSE {FALSE} :
         LET r == unpackShortHeaderPacket(aead[e], p, late)
         IN  IF r.open.res # "ok"
             THEN /\ aead' = [aead EXCEPT ![e].a = r.open.a]
                  /\ UNCHANGED sent
             ELSE /\ aead' = [aead EXCEPT ![e] =
                       [a |-> IF p.ack = {} THEN r.open.a
                              ELSE [r.open.a EXCEPT !.largestAcked = Max(p.ack)],
                        u |-> [largestRcvdPacketNumber |-> Max({u.largestRcvdPacketNumber, r.pn}),
                               rcvd |-> u.rcvd \cup {r.pn},
                               ackQueued |-> TRUE]]]
                  /\ sent' = IF p.ack = {} THEN sent
                             ELSE [sent EXCEPT ![e].outstanding = @ \ p.ack,
                                               ![e].largestAcked = Max({@, Max(p.ack)})]
  BY Zenon DEF handleSinglePacket
<1> DEFINE r == Open(a, p, pn, late)
           c == r.a
<1>5. unpackShortHeaderPacket(aead[e], p, late) = [pn |-> pn, open |-> r]
  BY Zenon DEF unpackShortHeaderPacket
<1>6. late \in BOOLEAN /\ (late => a.prevRcvAEADExpired)
  BY <1>4, ZenonT(60)
<1>7. /\ c \in AEADs
      /\ \/ r.res # "ok" /\ OnlyDropsPrev(a, c, late)
         \/ /\ r.res = "ok" /\ p.packetNumber = pn
            /\ \/ p.keyPhase = a.keyPhase - 1 /\ OnlyDropsPrev(a, c, late)
               \/ p.keyPhase = a.keyPhase /\ OpensCurrent(a, c, pn, late)
               \/ p.keyPhase = a.keyPhase + 1 /\ OpensNext(a, c, pn)
  <2> HIDE DEF a, pn
  <2> QED BY <1>1, <1>2, <1>3, <1>6, OpenEffect
<1>8. \/ /\ r.res # "ok"
         /\ aead' = [aead EXCEPT ![e].a = c] /\ sent' = sent
      \/ /\ r.res = "ok"
         /\ aead' = [aead EXCEPT ![e] =
              [a |-> IF p.ack = {} THEN c ELSE [c EXCEPT !.largestAcked = Max(p.ack)],
               u |-> [largestRcvdPacketNumber |-> Max({L, pn}),
                      rcvd |-> u.rcvd \cup {pn}, ackQueued |-> TRUE]]]
         /\ sent' = IF p.ack = {} THEN sent
                    ELSE [sent EXCEPT ![e].outstanding = @ \ p.ack,
                                      ![e].largestAcked = Max({@, Max(p.ack)})]
  <2> HIDE DEF pn, r, u
  <2>1. [pn |-> pn, open |-> r].pn = pn /\ [pn |-> pn, open |-> r].open = r
    OBVIOUS
  <2> QED BY <1>4, <1>5, <2>1, ZenonT(60)
<1>9. c.keyPhase > 0 /\ ~c.prevRcvAEADExpired => c.prevRcvAEAD
  <2>1. a.keyPhase > 0 /\ ~a.prevRcvAEADExpired => a.prevRcvAEAD
    BY DEF KeysInv, PrevKeyInv, KeyOf
  <2> HIDE DEF a, r, pn
  <2> QED BY <1>6, <1>7, <2>1, ZenonT(60) DEF OnlyDropsPrev, OpensCurrent, OpensNext
<1>10. /\ c.largestAcked = a.largestAcked
       /\ r.res # "ok" => /\ c.keyPhase = a.keyPhase
                          /\ c.firstSentWithCurrentKey = a.firstSentWithCurrentKey
                          /\ c.firstRcvdWithCurrentKey = a.firstRcvdWithCurrentKey
  <2> HIDE DEF a, r, pn
  <2> QED BY <1>7, Zenon DEF OnlyDropsPrev, OpensCurrent, OpensNext
<1>11. ASSUME r.res = "ok"
       PROVE  /\ p.packetNumber = pn
              /\ \/ /\ p.keyPhase = a.keyPhase - 1
                    /\ c.keyPhase = a.keyPhase
                    /\ c.firstSentWithCurrentKey = a.firstSentWithCurrentKey
                    /\ c.firstRcvdWithCurrentKey = a.firstRcvdWithCurrentKey
                 \/ /\ p.keyPhase = a.keyPhase
                    /\ c.keyPhase = a.keyPhase
                    /\ c.firstSentWithCurrentKey = a.firstSentWithCurrentKey
                    /\ c.firstRcvdWithCurrentKey
                         = IF a.firstRcvdWithCurrentKey = InvalidPacketNumber
                           THEN p.packetNumber ELSE a.firstRcvdWithCurrentKey
                 \/ /\ p.keyPhase = a.keyPhase + 1
                    /\ c.keyPhase = a.keyPhase + 1
                    /\ c.firstSentWithCurrentKey = InvalidPacketNumber
                    /\ c.firstRcvdWithCurrentKey = p.packetNumber
  <2> HIDE DEF a, r, pn
  <2> QED BY <1>7, <1>11, ZenonT(60) DEF OnlyDropsPrev, OpensCurrent, OpensNext
<1>12. aead = [x \in Endpoints |-> aead[x]] /\ sent = [x \in Endpoints |-> sent[x]]
  BY DEF KeysInv, TypeInv
<1>13. /\ \A x \in Endpoints : aead[x] \in [a : AEADs, u : Unpackers]
       /\ \A x \in Endpoints : sent[x] \in SentHandlers
  BY DEF KeysInv, TypeInv
<1> HIDE DEF r, pn, c
<1>14. CASE /\ r.res # "ok"
            /\ aead' = [aead EXCEPT ![e].a = c] /\ sent' = sent
  <2>1. /\ \A x \in Endpoints \ {e} : aead'[x] = aead[x]
        /\ aead'[e] = [aead[e] EXCEPT !.a = c] /\ aead' = [x \in Endpoints |-> aead'[x]]
    BY <1>12, <1>14
  <2>2. aead'[e].a = c /\ aead'[e].u = u /\ aead'[e] \in [a : AEADs, u : Unpackers]
    BY <1>1, <1>7, <2>1
  <2>3. aead' \in [Endpoints -> [a : AEADs, u : Unpackers]]
    <3>1. \A x \in Endpoints : aead'[x] \in [a : AEADs, u : Unpackers]
      BY <1>13, <2>1, <2>2
    <3> QED BY <2>1, <3>1
  <2>4. sent' \in [Endpoints -> SentHandlers]
    BY <1>12, <1>13, <1>14
  <2>5. PrevAfter(e)
    BY <1>9, <2>2, Zenon DEF PrevAfter, KeyOf
  <2>6. Drops(e)
    BY <1>10, <1>14, <2>2, ZenonT(60) DEF Drops, KeyOf, FirstSent, FirstRcvd
  <2> QED BY <1>14, <2>1, <2>3, <2>4, <2>5, <2>6, ZenonT(60)
<1>15. CASE /\ r.res = "ok"
            /\ aead' = [aead EXCEPT ![e] =
                 [a |-> IF p.ack = {} THEN c ELSE [c EXCEPT !.largestAcked = Max(p.ack)],
                  u |-> [largestRcvdPacketNumber |-> Max({L, pn}),
                         rcvd |-> u.rcvd \cup {pn}, ackQueued |-> TRUE]]]
            /\ sent' = IF p.ack = {} THEN sent
                       ELSE [sent EXCEPT ![e].outstanding = @ \ p.ack,
                                         ![e].largestAcked = Max({@, Max(p.ack)})]
  <2> DEFINE A == IF p.ack = {} THEN c ELSE [c EXCEPT !.largestAcked = Max(p.ack)]
             U == [largestRcvdPacketNumber |-> Max({L, pn}),
                   rcvd |-> u.rcvd \cup {pn}, ackQueued |-> TRUE]
             m == Max(p.ack)
  <2>1. p.ack # {} => m \in p.ack /\ m \in Nat
    BY AckBound
  <2>2. p.packetNumber = pn
    BY <1>11, <1>15
  <2>3. /\ A \in AEADs
        /\ A.largestAcked = IF p.ack = {} THEN aead[e].a.largestAcked ELSE m
        /\ A.keyPhase = c.keyPhase
        /\ A.firstRcvdWithCurrentKey = c.firstRcvdWithCurrentKey
        /\ A.firstSentWithCurrentKey = c.firstSentWithCurrentKey
        /\ A.prevRcvAEAD = c.prevRcvAEAD /\ A.prevRcvAEADExpired = c.prevRcvAEADExpired
    <3> HIDE DEF m
    <3>1. m = Max(p.ack)
      BY DEF m
    <3>2. CASE p.ack = {}
      BY <1>7, <1>10, <3>2
    <3>3. CASE p.ack # {}
      BY <1>7, <2>1, <3>1, <3>3, SetLargestAcked, SMTT(60)
    <3> QED BY <3>2, <3>3
  <2>4. Max({L, pn}) = IF L >= pn THEN L ELSE pn
    BY <1>1, <1>3, MaxOfTwo, SMTT(60)
  <2>5. /\ U \in Unpackers /\ U.rcvd = u.rcvd \cup {pn}
        /\ U.largestRcvdPacketNumber = IF L >= pn THEN L ELSE pn
    BY <1>1, <1>3, <2>4 DEF Unpackers
  <2>6. aead' = [aead EXCEPT ![e] = [a |-> A, u |-> U]]
    BY <1>15
  <2> HIDE DEF A, U, m
  <2>7. /\ \A x \in Endpoints \ {e} : aead'[x] = aead[x]
        /\ aead'[e] = [a |-> A, u |-> U] /\ aead' = [x \in Endpoints |-> aead'[x]]
    BY <1>12, <2>6, ZenonT(60)
  <2>8. aead'[e].a = A /\ aead'[e].u = U /\ aead'[e] \in [a : AEADs, u : Unpackers]
    BY <2>3, <2>5, <2>7
  <2>9. aead' \in [Endpoints -> [a : AEADs, u : Unpackers]]
    <3>1. \A x \in Endpoints : aead'[x] \in [a : AEADs, u : Unpackers]
      BY <1>13, <2>7, <2>8
    <3> QED BY <2>7, <3>1
  <2>10. PrevAfter(e)
    BY <1>9, <2>3, <2>8, Zenon DEF PrevAfter, KeyOf
  <2>11. KeysAfter(e, p)
    BY <1>11, <1>15, <2>3, <2>8, ZenonT(60) DEF KeysAfter, KeyOf, FirstSent, FirstRcvd
  <2> DEFINE S == sent[e]
             n == S.largestAcked
  <2>12. /\ \A x \in Endpoints \ {e} : sent'[x] = sent[x]
         /\ sent' = [sent EXCEPT ![e] = sent'[e]]
         /\ sent'[e] \in SentHandlers
         /\ sent'[e].next = S.next
         /\ sent'[e].outstanding = S.outstanding \ p.ack
         /\ sent'[e].largestAcked = IF p.ack = {} \/ n >= m THEN n ELSE m
    <3>1. CASE p.ack = {}
      <4>1. sent' = sent
        BY <1>15, <3>1
      <4> QED BY <1>1, <1>12, <3>1, <4>1
    <3>2. CASE p.ack # {}
      <4> DEFINE T == [S EXCEPT !.outstanding = S.outstanding \ p.ack,
                                !.largestAcked = Max({n, m})]
      <4>1. sent' = [sent EXCEPT ![e] = T]
        BY <1>1, <1>12, <1>15, <3>2, ZenonT(60) DEF SentHandlers, m
      <4>2. Max({n, m}) = IF n >= m THEN n ELSE m
        BY <1>1, <2>1, <3>2, MaxOfTwo, SMTT(60) DEF NumberOrNone, InvalidPacketNumber
      <4>3. n \in NumberOrNone /\ S.outstanding \ p.ack \in SUBSET Nat /\ S \in SentHandlers
        BY <1>1
      <4>4. /\ T \in SentHandlers /\ T.next = S.next /\ T.outstanding = S.outstanding \ p.ack
            /\ T.largestAcked = IF n >= m THEN n ELSE m
        <5> DEFINE x == Max({n, m})
                   O == S.outstanding \ p.ack
        <5>1. x \in NumberOrNone
          BY <2>1, <3>2, <4>2, <4>3 DEF NumberOrNone
        <5>2. T = [S EXCEPT !.outstanding = O, !.largestAcked = x]
          OBVIOUS
        <5>3. O \in SUBSET Nat
          BY <4>3
        <5> HIDE DEF x, S, O, T
        <5>4. T \in SentHandlers /\ T.next = S.next /\ T.outstanding = O /\ T.largestAcked = x
          BY <4>3, <5>1, <5>2, <5>3, ZenonT(60) DEF SentHandlers
        <5> QED BY <4>2, <5>4 DEF x, O
      <4> HIDE DEF T, S
      <4>5. /\ \A x \in Endpoints \ {e} : sent'[x] = sent[x]
            /\ sent'[e] = T
        BY <1>12, <4>1
      <4> QED BY <3>2, <4>1, <4>4, <4>5, ZenonT(60)
    <3> QED BY <3>1, <3>2
  <2>13. sent' \in [Endpoints -> SentHandlers]
    <3>1. sent' = [x \in Endpoints |-> sent'[x]]
      BY <1>12, <2>12
    <3>2. \A x \in Endpoints : sent'[x] \in SentHandlers
      BY <1>13, <2>12
    <3> QED BY <3>1, <3>2, SMTT(60)
  <2>14. Accepts(e, p)
    BY <2>2, <2>3, <2>5, <2>8, <2>11, <2>12, ZenonT(60) DEF Accepts, LargestRcvd, m
  <2> QED BY <2>7, <2>9, <2>10, <2>12, <2>13, <2>14, ZenonT(60)
<1> QED BY <1>8, <1>14, <1>15, ZenonT(60)

\* Receiving preserves the invariant.
LEMMA ReceiveStep ==
    ASSUME KeysInv, NEW e \in Endpoints, NEW p \in network, p.from = Peer(e),
           handleSinglePacket(e, p), network' = network
    PROVE  KeysInv'
<1> DEFINE f == Peer(e)
           k == KeyOf(e)
           n == p.packetNumber
<1>1. /\ f \in Endpoints /\ f # e /\ Peer(f) = e /\ p.from = f
      /\ \A x \in Endpoints : x = e \/ x = f
  BY Peers
<1>2. /\ k \in Nat /\ KeyOf(f) \in Nat /\ LargestRcvd(e) \in Nat
      /\ FirstSent(e) \in NumberOrNone /\ FirstRcvd(e) \in NumberOrNone
      /\ sent[e].next \in Nat /\ sent[e].outstanding \in SUBSET Nat
      /\ sent[e].largestAcked \in NumberOrNone
  BY <1>1, Fields DEF KeysInv
<1>3. n \in Nat /\ p.keyPhase \in Nat
  BY Zenon DEF KeysInv, TypeInv, Packets
<1>4. /\ aead'[f] = aead[f] /\ sent'[f] = sent[f]
      /\ aead' \in [Endpoints -> [a : AEADs, u : Unpackers]]
      /\ sent' \in [Endpoints -> SentHandlers]
      /\ PrevAfter(e) /\ (Drops(e) \/ Accepts(e, p))
  BY <1>1, ReceiveEffect, Zenon
<1>5. /\ KeyOf(f)' = KeyOf(f) /\ FirstSent(f)' = FirstSent(f) /\ FirstRcvd(f)' = FirstRcvd(f)
      /\ LargestRcvd(f)' = LargestRcvd(f)
  BY <1>4, Zenon DEF KeyOf, FirstSent, FirstRcvd, LargestRcvd
<1>6. /\ KeyOf(e)' \in Nat
      /\ \/ /\ KeyOf(e)' = k /\ FirstSent(e)' = FirstSent(e)
            /\ FirstRcvd(e) # InvalidPacketNumber => FirstRcvd(e)' = FirstRcvd(e)
            /\ FirstRcvd(e)' # FirstRcvd(e) => FirstRcvd(e)' = n /\ p.keyPhase = k
         \/ /\ KeyOf(e)' = k + 1 /\ FirstSent(e)' = InvalidPacketNumber
            /\ FirstRcvd(e)' = n /\ p.keyPhase = k + 1
  <2>1. CASE Drops(e)
    BY <1>2, <2>1, ZenonT(60) DEF Drops
  <2>2. CASE Accepts(e, p)
    <3>1. KeysAfter(e, p)
      BY <2>2 DEF Accepts
    <3> QED BY <1>2, <3>1, SMTT(60) DEF KeysAfter
  <2> QED BY <1>4, <2>1, <2>2, Zenon
<1>7. /\ p.ack \in SUBSET Nat
      /\ \A x \in p.ack : x < sent[e].next
      /\ p.ack # {} => Max(p.ack) \in p.ack /\ \A x \in p.ack : x <= Max(p.ack)
  BY AckBound
<1>8. \A q \in network : q.packetNumber \in Nat /\ q.keyPhase \in Nat /\ q.from \in Endpoints
  BY Zenon DEF KeysInv, TypeInv, Packets
<1>9. /\ sent'[e].next = sent[e].next
      /\ sent'[e].outstanding \subseteq sent[e].outstanding
      /\ sent[e].outstanding \ p.ack \subseteq sent'[e].outstanding
      /\ sent'[e].largestAcked \in NumberOrNone /\ sent[e].largestAcked <= sent'[e].largestAcked
      /\ sent'[e].largestAcked < sent[e].next
      /\ sent'[e].outstanding # sent[e].outstanding => \A x \in p.ack : x <= sent'[e].largestAcked
  <2>1. sent[e].largestAcked < sent[e].next
    BY Zenon DEF KeysInv, TypeInv
  <2>2. CASE Drops(e)
    <3>1. sent'[e] = sent[e]
      BY <2>2, Zenon DEF Drops
    <3> QED BY <1>2, <2>1, <3>1, SMTT(60) DEF NumberOrNone, InvalidPacketNumber
  <2>3. CASE Accepts(e, p)
    <3> DEFINE la == sent[e].largestAcked
               la2 == sent'[e].largestAcked
               m == Max(p.ack)
    <3>1. /\ sent'[e].next = sent[e].next
          /\ sent'[e].outstanding = sent[e].outstanding \ p.ack
          /\ la2 = IF p.ack = {} \/ la >= m THEN la ELSE m
      BY <2>3, Zenon DEF Accepts
    <3>2. /\ p.ack # {} => m \in Nat /\ m < sent[e].next /\ \A x \in p.ack : x <= m /\ x \in Nat
      BY <1>7
    <3> HIDE DEF m, la, la2
    <3>3. la \in NumberOrNone /\ la < sent[e].next
      BY <1>2, <2>1, ZenonT(60) DEF la
    <3>4. la2 \in NumberOrNone /\ la <= la2 /\ la2 < sent[e].next
      BY <3>1, <3>2, <3>3 DEF NumberOrNone, InvalidPacketNumber
    <3>5. \A x \in p.ack : x <= la2
      BY <3>1, <3>2, <3>3 DEF NumberOrNone, InvalidPacketNumber
    <3> QED BY <3>1, <3>4, <3>5, Zenon DEF la, la2
  <2> QED BY <1>4, <2>2, <2>3, Zenon
<1> HIDE DEF f, k, n
<1>10. TypeInv'
  <2>1. network' \subseteq Packets
    BY DEF KeysInv, TypeInv
  <2>2. ASSUME NEW x \in Endpoints
        PROVE  /\ sent'[x].next <= MaxPackets[x] /\ sent'[x].largestAcked < sent'[x].next
               /\ sent'[x].outstanding \subseteq 0 .. sent'[x].next - 1
    <3>1. /\ sent[x].next <= MaxPackets[x] /\ sent[x].largestAcked < sent[x].next
          /\ sent[x].outstanding \subseteq 0 .. sent[x].next - 1
      BY DEF KeysInv, TypeInv
    <3>2. CASE x = e
      BY <1>9, <3>1, <3>2, ZenonT(60)
    <3>3. CASE x = f
      BY <1>4, <3>1, <3>3
    <3> QED BY <1>1, <3>2, <3>3, SMTT(60)
  <2> QED BY <1>4, <2>1, <2>2, ZenonT(60) DEF TypeInv
<1>11. SentInv'
  <2>1. ASSUME NEW q \in network, NEW r \in network, q.from = r.from
        PROVE  /\ q.packetNumber = r.packetNumber => q = r
               /\ q.packetNumber <= r.packetNumber => q.keyPhase <= r.keyPhase
    BY <2>1 DEF KeysInv, SentInv
  <2>2. ASSUME NEW q \in network
        PROVE  (/\ q.packetNumber < sent[q.from].next
                /\ q.keyPhase <= KeyOf(q.from)
                /\ q.keyPhase = KeyOf(q.from) <=>
                      FirstSent(q.from) # InvalidPacketNumber /\ q.packetNumber >= FirstSent(q.from))'
    <3>1. /\ q.packetNumber < sent[q.from].next
          /\ q.keyPhase <= KeyOf(q.from)
          /\ q.keyPhase = KeyOf(q.from) <=>
                FirstSent(q.from) # InvalidPacketNumber /\ q.packetNumber >= FirstSent(q.from)
      BY DEF KeysInv, SentInv
    <3>2. CASE q.from = f
      BY <1>4, <1>5, <3>1, <3>2, ZenonT(60)
    <3>3. CASE q.from = e
      <4>1. q.packetNumber < sent'[e].next
        BY <1>9, <3>1, <3>3, SMTT(60)
      <4>2. CASE KeyOf(e)' = k /\ FirstSent(e)' = FirstSent(e)
        BY <3>1, <3>3, <4>1, <4>2 DEF k
      <4>3. CASE KeyOf(e)' = k + 1 /\ FirstSent(e)' = InvalidPacketNumber
        <5>1. q.keyPhase <= k + 1 /\ q.keyPhase # k + 1
          BY <1>2, <1>8, <3>1, <3>3, SMTT(60) DEF k
        <5> QED BY <3>3, <4>1, <4>3, <5>1, ZenonT(60)
      <4> QED BY <1>6, <4>2, <4>3, SMTT(60)
    <3> QED BY <1>1, <1>8, <3>2, <3>3, ZenonT(60)
  <2>3. ASSUME NEW x \in Endpoints PROVE (FirstSent(x) < sent[x].next)'
    <3>1. FirstSent(x) < sent[x].next
      BY Zenon DEF KeysInv, SentInv
    <3>2. CASE x = f
      BY <1>4, <1>5, <3>1, <3>2, ZenonT(60)
    <3>3. CASE x = e
      BY <1>2, <1>6, <1>9, <3>1, <3>3, SMTT(60) DEF InvalidPacketNumber
    <3> QED BY <1>1, <3>2, <3>3
  <2> QED BY <2>1, <2>2, <2>3, ZenonT(60) DEF SentInv
<1>12. NumberInv'
  <2>1. ASSUME NEW q \in network
        PROVE  (/\ q.wire = Truncated(q.packetNumber, q.len)
                /\ 2 * (q.packetNumber - (LargestRcvd(Peer(q.from)) + 1)) < EpochDelta(q.len))'
    <3> DEFINE g == Peer(q.from)
    <3>1. q.wire = Truncated(q.packetNumber, q.len)
      BY DEF KeysInv, NumberInv
    <3>2. 2 * (q.packetNumber - (LargestRcvd(g) + 1)) < EpochDelta(q.len)
      BY DEF KeysInv, NumberInv
    <3>3. g \in Endpoints
      BY <1>8, Peers
    <3>4. EpochDelta(q.len) \in Nat
      BY Powers, Zenon DEF KeysInv, TypeInv, Packets
    <3> HIDE DEF g
    <3>5. LargestRcvd(g) \in Nat /\ LargestRcvd(g)' \in Nat /\ LargestRcvd(g) <= LargestRcvd(g)'
      <4>1. CASE g = f
        BY <1>1, <1>5, <4>1, Fields, SMTT(60) DEF KeysInv
      <4>2. CASE g = e /\ Drops(e)
        BY <1>2, <4>2, SMTT(60) DEF Drops, LargestRcvd
      <4>3. CASE g = e /\ Accepts(e, p)
        BY <1>2, <1>3, <4>3 DEF Accepts, n
      <4> QED BY <1>1, <1>4, <3>3, <4>1, <4>2, <4>3, ZenonT(60)
    <3>6. 2 * (q.packetNumber - (LargestRcvd(g)' + 1)) < EpochDelta(q.len)
      BY <1>8, <3>2, <3>4, <3>5, SMTT(60)
    <3> QED BY <3>1, <3>6 DEF g
  <2> QED BY <2>1, ZenonT(60) DEF NumberInv
<1>13. /\ aead[e].u.rcvd \subseteq aead'[e].u.rcvd
       /\ aead'[e].u.rcvd \subseteq aead[e].u.rcvd \cup {n}
       /\ aead'[e].u.rcvd # aead[e].u.rcvd =>
             p.keyPhase = KeyOf(e)' \/ p.keyPhase = KeyOf(e)' - 1
       /\ p.keyPhase = KeyOf(e)' /\ aead'[e].u.rcvd # aead[e].u.rcvd =>
             FirstRcvd(e)' # InvalidPacketNumber
  <2>1. CASE Drops(e)
    BY <2>1, ZenonT(60) DEF Drops
  <2>2. CASE Accepts(e, p)
    <3>1. aead'[e].u.rcvd = aead[e].u.rcvd \cup {n} /\ KeysAfter(e, p)
      BY <2>2 DEF Accepts, n
    <3> QED BY <1>2, <1>3, <3>1, SMTT(60) DEF KeysAfter, k, n, InvalidPacketNumber
  <2> QED BY <1>4, <2>1, <2>2, Zenon
<1>14. AckInv'
  <2>1. ASSUME NEW q \in network, NEW x \in q.ack
        PROVE  (/\ x \in aead[q.from].u.rcvd
                /\ \E r \in network :
                      r.from = Peer(q.from) /\ r.packetNumber = x /\ r.keyPhase <= q.keyPhase)'
    <3>1. /\ x \in aead[q.from].u.rcvd
          /\ \E r \in network :
                r.from = Peer(q.from) /\ r.packetNumber = x /\ r.keyPhase <= q.keyPhase
      BY Zenon DEF KeysInv, AckInv
    <3>2. x \in aead'[q.from].u.rcvd
      BY <1>1, <1>4, <1>8, <1>13, <3>1, ZenonT(60)
    <3> QED BY <3>1, <3>2
  <2>2. ASSUME NEW x \in Endpoints
        PROVE  (aead[x].a.largestAcked # InvalidPacketNumber =>
                  \E q \in network : q.from = Peer(x) /\ aead[x].a.largestAcked \in q.ack)'
    <3>1. aead[x].a.largestAcked # InvalidPacketNumber =>
             \E q \in network : q.from = Peer(x) /\ aead[x].a.largestAcked \in q.ack
      BY DEF KeysInv, AckInv
    <3>2. CASE aead'[x].a.largestAcked = aead[x].a.largestAcked
      BY <3>1, <3>2
    <3>3. CASE aead'[x].a.largestAcked # aead[x].a.largestAcked
      <4>1. x # f
        BY <1>4, <3>3
      <4>2. x = e
        BY <1>1, <4>1
      <4>3. ~Drops(e)
        BY <3>3, <4>2, Zenon DEF Drops
      <4>4. p.ack # {} /\ aead'[e].a.largestAcked = Max(p.ack)
        BY <1>4, <3>3, <4>2, <4>3, ZenonT(60) DEF Accepts
      <4>5. aead'[e].a.largestAcked \in p.ack
        BY <1>7, <4>4
      <4> QED BY <1>1, <4>2, <4>5, ZenonT(60) DEF f
    <3> QED BY <3>2, <3>3, SMTT(60)
  <2> QED BY <2>1, <2>2, ZenonT(60) DEF AckInv
<1>15. OutstandingInv'
  <2>1. ASSUME NEW x \in Endpoints, NEW y \in 0 .. sent'[x].next - 1, y \notin sent'[x].outstanding
        PROVE  y \in aead'[Peer(x)].u.rcvd /\ y <= sent'[x].largestAcked
    <3>1. CASE x = f
      <4>1. y \in aead[e].u.rcvd /\ y <= sent'[f].largestAcked
        BY <1>1, <1>4, <2>1, <3>1, ZenonT(60) DEF KeysInv, OutstandingInv
      <4> QED BY <1>1, <1>13, <3>1, <4>1, ZenonT(60)
    <3>2. CASE x = e
      <4>1. y \in 0 .. sent[e].next - 1
        BY <1>9, <3>2, Zenon
      <4>2. CASE y \notin sent[e].outstanding
        <5>1. y \in aead[f].u.rcvd /\ y <= sent[e].largestAcked
          BY <4>1, <4>2, ZenonT(60) DEF KeysInv, OutstandingInv, f
        <5>2. y <= sent'[e].largestAcked
          BY <1>2, <1>9, <4>1, <5>1, SMTT(60) DEF NumberOrNone, InvalidPacketNumber
        <5> QED BY <1>4, <3>2, <5>1, <5>2, ZenonT(60) DEF f
      <4>3. CASE y \in sent[e].outstanding
        <5>1. y \in p.ack
          BY <1>9, <2>1, <3>2, <4>3, Zenon
        <5>2. y <= sent'[e].largestAcked
          BY <1>9, <2>1, <3>2, <4>3, <5>1, ZenonT(60)
        <5>3. y \in aead[f].u.rcvd
          BY <1>1, <5>1 DEF KeysInv, AckInv
        <5> QED BY <1>4, <3>2, <5>2, <5>3, ZenonT(60) DEF f
      <4> QED BY <4>2, <4>3
    <3> QED BY <1>1, <3>1, <3>2, Zenon
  <2> QED BY <2>1, ZenonT(60) DEF OutstandingInv
<1>16. RcvdInv'
  <2>1. ASSUME NEW x \in Endpoints
        PROVE  Received(x, aead'[x].u.rcvd, LargestRcvd(x)', KeyOf(x)', FirstRcvd(x)', network)
    <3>1. Received(x, aead[x].u.rcvd, LargestRcvd(x), KeyOf(x), FirstRcvd(x), network)
      BY ZenonT(60) DEF KeysInv, RcvdInv
    <3>2. CASE x = f
      BY <1>4, <1>5, <3>1, <3>2
    <3>3. CASE x = e
      <4>1. LargestRcvd(e)' = 0 \/ LargestRcvd(e)' \in aead'[e].u.rcvd
        <5>1. CASE Drops(e)
          BY <3>1, <3>3, <5>1, Zenon DEF Received, Drops, LargestRcvd
        <5>2. CASE Accepts(e, p)
          BY <3>1, <3>3, <5>2, Zenon DEF Received, Accepts
        <5> QED BY <1>4, <5>1, <5>2, Zenon
      <4>2. ASSUME NEW y \in aead'[e].u.rcvd PROVE y <= LargestRcvd(e)'
        <5>1. CASE Drops(e)
          BY <3>1, <3>3, <5>1, ZenonT(60) DEF Received, Drops, LargestRcvd
        <5>2. CASE Accepts(e, p)
          <6>1. /\ y \in aead[e].u.rcvd \cup {n} /\ n \in Nat /\ LargestRcvd(e) \in Nat
                /\ LargestRcvd(e)' = IF LargestRcvd(e) >= n THEN LargestRcvd(e) ELSE n
            BY <1>2, <1>3, <1>13, <5>2, ZenonT(60) DEF Accepts, n
          <6>2. y \in aead[e].u.rcvd => y \in Nat /\ y <= LargestRcvd(e)
            BY <3>1, <3>3, Fields, Zenon DEF KeysInv, Received
          <6> QED BY <6>1, <6>2, SMTT(60)
        <5> QED BY <1>4, <5>1, <5>2, Zenon
      <4>3. ASSUME NEW y \in aead'[e].u.rcvd
            PROVE  \E r \in network :
                      /\ r.from = Peer(e) /\ r.packetNumber = y /\ r.keyPhase <= KeyOf(e)'
                      /\ r.keyPhase = KeyOf(e)' => FirstRcvd(e)' # InvalidPacketNumber
        <5>1. CASE y \in aead[e].u.rcvd
          <6>1. PICK r \in network :
                   /\ r.from = Peer(e) /\ r.packetNumber = y /\ r.keyPhase <= k
                   /\ r.keyPhase = k => FirstRcvd(e) # InvalidPacketNumber
            BY <3>1, <3>3, <5>1, ZenonT(60) DEF k, Received
          <6>2. /\ r.keyPhase <= KeyOf(e)'
                /\ r.keyPhase = KeyOf(e)' => FirstRcvd(e)' # InvalidPacketNumber
            <7>1. r.keyPhase \in Nat
              BY <1>8
            <7> QED BY <1>2, <1>3, <1>6, <6>1, <7>1, SMTT(60) DEF InvalidPacketNumber
          <6> QED BY <6>1, <6>2, Zenon
        <5>2. CASE y \notin aead[e].u.rcvd
          <6>1. y = n /\ aead'[e].u.rcvd # aead[e].u.rcvd
            BY <1>13, <5>2, ZenonT(60)
          <6>2. /\ p.keyPhase <= KeyOf(e)'
                /\ p.keyPhase = KeyOf(e)' => FirstRcvd(e)' # InvalidPacketNumber
            BY <1>3, <1>6, <1>13, <6>1, SMTT(60)
          <6> QED BY <6>1, <6>2, Zenon DEF n
        <5> QED BY <5>1, <5>2, Zenon
      <4>4. ASSUME FirstRcvd(e)' # InvalidPacketNumber
            PROVE  \E r \in network : /\ r.from = Peer(e) /\ r.packetNumber = FirstRcvd(e)'
                                      /\ r.keyPhase = KeyOf(e)'
        <5>1. CASE FirstRcvd(e)' = n /\ p.keyPhase = KeyOf(e)'
          BY <5>1, ZenonT(60) DEF n
        <5>2. CASE FirstRcvd(e)' = FirstRcvd(e) /\ KeyOf(e)' = k
          BY <3>1, <3>3, <4>4, <5>2 DEF k, Received
        <5> QED BY <1>6, <5>1, <5>2
      <4> QED BY <3>3, <4>1, <4>2, <4>3, <4>4, ZenonT(60) DEF Received
    <3> QED BY <1>1, <3>2, <3>3
  <2> QED BY <2>1, ZenonT(60) DEF RcvdInv, Received
<1>17. PhaseInv'
  <2>1. /\ k <= KeyOf(f) + 1
        /\ k = KeyOf(f) + 1 =>
              FirstSent(f) # InvalidPacketNumber /\ FirstRcvd(f) # InvalidPacketNumber
        /\ KeyOf(f) <= k + 1
        /\ KeyOf(f) = k + 1 =>
              FirstSent(e) # InvalidPacketNumber /\ FirstRcvd(e) # InvalidPacketNumber
    BY <1>1 DEF KeysInv, PhaseInv, f, k
  <2>2. p.keyPhase = k + 1 => KeyOf(f) = k + 1
    BY PacketMeans, Zenon DEF f, k
  <2>3. /\ (KeyOf(e) <= KeyOf(f) + 1)'
        /\ (KeyOf(e) = KeyOf(f) + 1 =>
               FirstSent(f) # InvalidPacketNumber /\ FirstRcvd(f) # InvalidPacketNumber)'
        /\ (KeyOf(f) <= KeyOf(e) + 1)'
        /\ (KeyOf(f) = KeyOf(e) + 1 =>
               FirstSent(e) # InvalidPacketNumber /\ FirstRcvd(e) # InvalidPacketNumber)'
    <3>1. CASE /\ KeyOf(e)' = k /\ FirstSent(e)' = FirstSent(e)
               /\ FirstRcvd(e) # InvalidPacketNumber => FirstRcvd(e)' = FirstRcvd(e)
      BY <1>2, <1>5, <2>1, <3>1, ZenonT(60) DEF InvalidPacketNumber
    <3>2. CASE KeyOf(e)' = k + 1 /\ KeyOf(f) = k + 1
      BY <1>2, <1>5, <3>2 DEF InvalidPacketNumber
    <3> QED BY <1>6, <2>2, <3>1, <3>2, ZenonT(60)
  <2>4. Peer(e) = f
    BY DEF f
  <2> QED BY <1>1, <2>3, <2>4, ZenonT(60) DEF PhaseInv
<1>18. PrevKeyInv'
  <2>1. ASSUME NEW x \in Endpoints
        PROVE  (KeyOf(x) > 0 /\ ~aead[x].a.prevRcvAEADExpired => aead[x].a.prevRcvAEAD)'
    <3>1. CASE x = e
      BY <1>4, <3>1, Zenon DEF PrevAfter
    <3>2. CASE x = f
      BY <1>1, <1>4, <3>2, Zenon DEF KeysInv, PrevKeyInv, KeyOf
    <3> QED BY <1>1, <3>1, <3>2
  <2> QED BY <2>1, ZenonT(60) DEF PrevKeyInv
<1> QED BY <1>10, <1>11, <1>12, <1>14, <1>15, <1>16, <1>17, <1>18, ZenonT(60) DEF KeysInv

-----------------------------------------------------------------------------
(* Time, and the specification. *)

\* The expiry of the previous key preserves the invariant.
LEMMA TimeStep ==
    ASSUME KeysInv, NEW e \in Endpoints, TimePasses(e)
    PROVE  KeysInv'
<1> DEFINE a == aead[e].a
           b == [a EXCEPT !.prevRcvAEADExpired = TRUE]
<1>1. aead' = [aead EXCEPT ![e].a.prevRcvAEADExpired = TRUE] /\ sent' = sent /\ network' = network
  BY SMTT(60) DEF TimePasses
<1>2. aead = [x \in Endpoints |-> aead[x]] /\ aead[e] \in [a : AEADs, u : Unpackers] /\ a \in AEADs
  BY DEF KeysInv, TypeInv
<1>3. aead' = [aead EXCEPT ![e] = [aead[e] EXCEPT !.a = b]]
  BY <1>1, <1>2
<1>4. /\ b \in AEADs
      /\ b.keyPhase = a.keyPhase /\ b.largestAcked = a.largestAcked
      /\ b.firstRcvdWithCurrentKey = a.firstRcvdWithCurrentKey
      /\ b.firstSentWithCurrentKey = a.firstSentWithCurrentKey
  BY <1>2, Zenon DEF AEADs
<1>5. b.prevRcvAEADExpired = TRUE
  BY <1>2 DEF AEADs
<1> HIDE DEF b
<1>6. /\ \A x \in Endpoints \ {e} : aead'[x] = aead[x]
      /\ aead'[e] = [aead[e] EXCEPT !.a = b] /\ aead' = [x \in Endpoints |-> aead'[x]]
  BY <1>2, <1>3
<1>7. aead'[e].a = b /\ aead'[e].u = aead[e].u /\ aead'[e] \in [a : AEADs, u : Unpackers]
  BY <1>2, <1>4, <1>6
<1>8. /\ \A x \in Endpoints : /\ aead'[x].a.keyPhase = aead[x].a.keyPhase
                              /\ aead'[x].a.largestAcked = aead[x].a.largestAcked
                              /\ aead'[x].a.firstRcvdWithCurrentKey = aead[x].a.firstRcvdWithCurrentKey
                              /\ aead'[x].a.firstSentWithCurrentKey = aead[x].a.firstSentWithCurrentKey
      /\ \A x \in Endpoints : aead'[x].u = aead[x].u
  BY <1>4, <1>6, <1>7
<1>9. \A x \in Endpoints : /\ KeyOf(x)' = KeyOf(x) /\ FirstRcvd(x)' = FirstRcvd(x)
                           /\ FirstSent(x)' = FirstSent(x) /\ LargestRcvd(x)' = LargestRcvd(x)
  BY <1>8, ZenonT(60) DEF KeyOf, FirstRcvd, FirstSent, LargestRcvd
<1>10. /\ \A x \in Endpoints : Peer(x) \in Endpoints
       /\ \A q \in network : q.from \in Endpoints
  BY Peers DEF KeysInv, TypeInv, Packets
<1>11. TypeInv'
  <2>1. \A x \in Endpoints : aead'[x] \in [a : AEADs, u : Unpackers]
    BY <1>6, <1>7 DEF KeysInv, TypeInv
  <2>2. aead' \in [Endpoints -> [a : AEADs, u : Unpackers]]
    BY <1>6, <2>1
  <2> QED BY <1>1, <2>2 DEF KeysInv, TypeInv
<1>12. SentInv' /\ PhaseInv'
  <2>1. SentInv'
    BY <1>1, <1>9, <1>10, ZenonT(60) DEF KeysInv, SentInv
  <2>2. PhaseInv'
    BY <1>9, <1>10, Zenon DEF KeysInv, PhaseInv
  <2> QED BY <2>1, <2>2
<1>13. RcvdInv'
  BY <1>1, <1>8, <1>9, Zenon DEF KeysInv, RcvdInv
<1>14. AckInv'
  <2>1. /\ \A q \in network : \A n \in q.ack :
              /\ n \in aead'[q.from].u.rcvd
              /\ \E p \in network :
                    p.from = Peer(q.from) /\ p.packetNumber = n /\ p.keyPhase <= q.keyPhase
    BY <1>8, <1>10, ZenonT(60) DEF KeysInv, AckInv
  <2>2. \A x \in Endpoints :
           aead'[x].a.largestAcked # InvalidPacketNumber =>
              \E q \in network : q.from = Peer(x) /\ aead'[x].a.largestAcked \in q.ack
    BY <1>8 DEF KeysInv, AckInv
  <2> QED BY <1>1, <2>1, <2>2, Zenon DEF AckInv
<1>15. OutstandingInv' /\ NumberInv'
  <2>1. OutstandingInv'
    BY <1>1, <1>8, <1>10, Zenon DEF KeysInv, OutstandingInv
  <2>2. NumberInv'
    BY <1>1, <1>9, <1>10, Zenon DEF KeysInv, NumberInv
  <2> QED BY <2>1, <2>2
<1>16. PrevKeyInv'
  <2>1. ASSUME NEW x \in Endpoints
        PROVE  (KeyOf(x) > 0 /\ ~aead[x].a.prevRcvAEADExpired => aead[x].a.prevRcvAEAD)'
    <3>1. CASE x = e
      BY <1>5, <1>7, <3>1, Zenon
    <3>2. CASE x # e
      BY <1>6, <3>2, Zenon DEF KeysInv, PrevKeyInv, KeyOf
    <3> QED BY <3>1, <3>2
  <2> QED BY <2>1, Zenon DEF PrevKeyInv
<1> QED BY <1>11, <1>12, <1>13, <1>14, <1>15, <1>16, ZenonT(60) DEF KeysInv

\* The invariant holds at first.
LEMMA KeysInit == UpdateInit => KeysInv
<1> SUFFICES ASSUME UpdateInit PROVE KeysInv
  OBVIOUS
<1>1. newUpdatableAEAD \in AEADs
  BY DEF newUpdatableAEAD, AEADs, NumberOrNone, InvalidPacketNumber
<1>2. newUnpacker \in Unpackers
  BY DEF newUnpacker, Unpackers
<1>3. /\ aead = [e \in Endpoints |-> [a |-> newUpdatableAEAD, u |-> newUnpacker]]
      /\ sent = [e \in Endpoints |-> [next |-> 0, outstanding |-> {},
                                      largestAcked |-> InvalidPacketNumber]]
      /\ network = {}
  BY DEF UpdateInit
<1>4. \A e \in Endpoints :
         /\ aead[e].a = newUpdatableAEAD /\ aead[e].u = newUnpacker
         /\ sent[e].next = 0 /\ sent[e].outstanding = {}
         /\ sent[e].largestAcked = InvalidPacketNumber
  BY <1>3, ZenonT(60)
<1>5. \A e \in Endpoints :
         /\ KeyOf(e) = 0 /\ FirstRcvd(e) = InvalidPacketNumber
         /\ FirstSent(e) = InvalidPacketNumber /\ LargestRcvd(e) = 0
         /\ aead[e].a.largestAcked = InvalidPacketNumber /\ aead[e].u.rcvd = {}
  BY <1>4 DEF newUpdatableAEAD, newUnpacker, KeyOf, FirstRcvd, FirstSent, LargestRcvd
<1>6. TypeInv
  <2>1. aead \in [Endpoints -> [a : AEADs, u : Unpackers]]
    BY <1>1, <1>2, <1>3, ZenonT(60)
  <2>2. sent \in [Endpoints -> SentHandlers]
    BY <1>3 DEF SentHandlers, NumberOrNone
  <2>3. ASSUME NEW e \in Endpoints
        PROVE  /\ sent[e].next <= MaxPackets[e] /\ sent[e].largestAcked < sent[e].next
               /\ sent[e].outstanding \subseteq 0 .. sent[e].next - 1
    <3>1. MaxPackets[e] \in Nat
      BY KeyUpdateAssumption, Powers, SMTT(60)
    <3> QED BY <1>4, <3>1 DEF InvalidPacketNumber
  <2> QED BY <1>3, <2>1, <2>2, <2>3, ZenonT(60) DEF TypeInv
<1>7. SentInv
  BY <1>3, <1>4, <1>5, SMTT(60) DEF SentInv, InvalidPacketNumber
<1>8. RcvdInv
  BY <1>5, ZenonT(60) DEF RcvdInv, Received
<1>9. AckInv
  BY <1>3, <1>5 DEF AckInv
<1>10. OutstandingInv
  BY <1>4 DEF OutstandingInv
<1>11. NumberInv
  BY <1>3 DEF NumberInv
<1>12. PhaseInv
  BY <1>5, Peers DEF PhaseInv
<1>13. PrevKeyInv
  BY <1>5 DEF PrevKeyInv
<1> QED BY <1>6, <1>7, <1>8, <1>9, <1>10, <1>11, <1>12, <1>13, SMTT(60) DEF KeysInv

\* Every step preserves it.
LEMMA KeysStep == KeysInv /\ [UpdateNext]_updateVars => KeysInv'
<1>1. ASSUME KeysInv, UNCHANGED updateVars PROVE KeysInv'
  <2>1. aead' = aead /\ sent' = sent /\ network' = network
    BY <1>1 DEF updateVars
  <2>2. \A e : /\ KeyOf(e)' = KeyOf(e) /\ FirstRcvd(e)' = FirstRcvd(e)
               /\ FirstSent(e)' = FirstSent(e) /\ LargestRcvd(e)' = LargestRcvd(e)
    BY <2>1, ZenonT(60) DEF KeyOf, FirstRcvd, FirstSent, LargestRcvd
  <2>3. TypeInv' /\ SentInv' /\ PhaseInv' /\ PrevKeyInv'
    BY <1>1, <2>1, <2>2, ZenonT(60) DEF KeysInv, TypeInv, SentInv, PhaseInv, PrevKeyInv
  <2>4. RcvdInv'
    BY <1>1, <2>1, <2>2, ZenonT(60) DEF KeysInv, RcvdInv, Received
  <2>5. AckInv' /\ OutstandingInv' /\ NumberInv'
    BY <1>1, <2>1, <2>2 DEF KeysInv, AckInv, OutstandingInv, NumberInv
  <2> QED BY <2>3, <2>4, <2>5 DEF KeysInv
<1>2. ASSUME KeysInv, UpdateNext PROVE KeysInv'
  <2>1. PICK e \in Endpoints : PackNothing(e) \/ PackPacket(e) \/ Receive(e) \/ TimePasses(e)
    BY <1>2 DEF UpdateNext
  <2>2. CASE PackNothing(e) \/ PackPacket(e)
    BY <1>2, <2>2, PackStep
  <2>3. CASE Receive(e)
    <3>1. PICK p \in network : p.from = Peer(e) /\ handleSinglePacket(e, p)
      BY <2>3 DEF Receive
    <3>2. network' = network
      BY <2>3 DEF Receive
    <3> QED BY <1>2, <3>1, <3>2, ReceiveStep
  <2>4. CASE TimePasses(e)
    BY <1>2, <2>4, TimeStep
  <2> QED BY <2>1, <2>2, <2>3, <2>4
<1> QED BY <1>1, <1>2

\* The invariant holds throughout.
LEMMA KeysCorrect == UpdateSpec => []KeysInv
BY KeysInit, KeysStep, PTL DEF UpdateSpec

-----------------------------------------------------------------------------
(* The properties. *)

\* What Open returns, b being the keys without the previous one if that is late.
OpenResult(b, p, pn) ==
    IF Bit(p.keyPhase) # Bit(b.keyPhase)
    THEN IF b.firstRcvdWithCurrentKey = InvalidPacketNumber \/ pn < b.firstRcvdWithCurrentKey
         THEN IF b.keyPhase = 0 THEN "wrong initial keyphase"
              ELSE IF ~b.prevRcvAEAD THEN "keys dropped"
              ELSE IF KeyOpens(b.keyPhase - 1, p, pn) THEN "ok" ELSE "decryption failed"
         ELSE IF ~KeyOpens(b.keyPhase + 1, p, pn) THEN "decryption failed"
         ELSE IF b.firstSentWithCurrentKey = InvalidPacketNumber THEN "keys updated too quickly"
         ELSE "ok"
    ELSE IF ~KeyOpens(b.keyPhase, p, pn) THEN "decryption failed" ELSE "ok"

\* Open returns that.
LEMMA OpenReturns ==
    ASSUME NEW a \in AEADs, NEW p, NEW pn, NEW late \in BOOLEAN
    PROVE  \E b \in AEADs : /\ OnlyDropsPrev(a, b, late) /\ (~late => b = a)
                            /\ Open(a, p, pn, late).res = OpenResult(b, p, pn)
<1> DEFINE b == IF a.prevRcvAEAD /\ late THEN [a EXCEPT !.prevRcvAEAD = FALSE] ELSE a
<1>1. b \in AEADs /\ OnlyDropsPrev(a, b, late)
  BY DropPrev
<1>2. ~late => b = a
  OBVIOUS
<1>3. Open(a, p, pn, late).res = OpenResult(b, p, pn)
  BY Zenon DEF Open, OpenResult
<1> HIDE DEF b
<1> QED BY <1>1, <1>2, <1>3

\* The bit of the phase tells neighbours apart.
LEMMA Bits ==
    ASSUME NEW j \in Nat
    PROVE  Bit(j + 1) # Bit(j)
BY Z3 DEF Bit

\* In the states of the invariant only late packets are dropped.
LEMMA OnlyLate == KeysInv => OnlyLatePacketsAreDropped
<1> SUFFICES ASSUME KeysInv PROVE OnlyLatePacketsAreDropped
  OBVIOUS
<1>1. ASSUME NEW p \in network
      PROVE  LET x == aead[Peer(p.from)]
                 r == unpackShortHeaderPacket(x, p, FALSE)
                 keyIsGone == \/ p.keyPhase = x.a.keyPhase - 1 /\ ~x.a.prevRcvAEAD
                              \/ p.keyPhase <= x.a.keyPhase - 2
                 overtaken == 2 * (x.u.largestRcvdPacketNumber + 1 - p.packetNumber) >= EpochDelta(p.len)
             IN  /\ r.open.res \notin {"wrong initial keyphase", "keys updated too quickly"}
                 /\ r.open.res = "ok" \/ keyIsGone \/ overtaken
                 /\ r.open.res = "ok" => r.pn = p.packetNumber
  <2> DEFINE e == Peer(p.from)
             a == aead[e].a
             L == aead[e].u.largestRcvdPacketNumber
             n == p.packetNumber
             d == EpochDelta(p.len)
             pn == DecodePacketNumber(p.len, L, p.wire)
             res == Open(a, p, pn, FALSE).res
             k == a.keyPhase
             first == a.firstRcvdWithCurrentKey
             ph == p.keyPhase
             keyIsGone == \/ ph = k - 1 /\ ~a.prevRcvAEAD
                          \/ ph <= k - 2
             overtaken == 2 * (L + 1 - n) >= d
  <2>1. p.from \in Endpoints /\ p \in Packets /\ p.len \in 2 .. 4 /\ ph \in Nat /\ n \in Nat
    BY DEF KeysInv, TypeInv, Packets
  <2>2. e \in Endpoints /\ Peer(e) = p.from
    BY <2>1, Peers, ZenonT(60)
  <2>3. L \in Nat /\ k \in Nat /\ first \in NumberOrNone /\ a \in AEADs
    BY <2>2, Fields DEF KeysInv, KeyOf, LargestRcvd, FirstRcvd
  <2>4. d \in Nat \ {0}
    BY <2>1, Powers, SMTT(60)
  <2>5. pn = DecodeInEpoch(d, L, n % d) /\ 2 * (n - (L + 1)) < d
    BY DEF KeysInv, NumberInv, DecodePacketNumber, Truncated, LargestRcvd
  <2>6. pn \in Nat /\ pn >= n /\ (pn = n \/ overtaken)
    <3> HIDE DEF d, L, n, pn
    <3>1. CASE 2 * (L + 1 - n) < d
      <4>1. DecodeInEpoch(d, L, n % d) = n
        BY <2>1, <2>3, <2>4, <2>5, <3>1, DecodeExact, ZenonT(60)
      <4>2. pn = n
        BY <2>5, <4>1
      <4> QED BY <2>1, <4>2
    <3>2. CASE 2 * (L + 1 - n) >= d
      <4>1. pn >= n
        BY <2>1, <2>3, <2>4, <2>5, <3>2, DecodeNotBelow, ZenonT(60)
      <4>2. n % d \in Nat
        <5>1. n % d \in 0 .. d - 1
          BY <2>1, <2>4, Division, ZenonT(60)
        <5> QED BY <2>4, <5>1
      <4>3. pn \in Nat
        BY <2>3, <2>4, <2>5, <4>2, DecodeNat, ZenonT(60)
      <4> QED BY <3>2, <4>1, <4>3
    <3> QED BY <2>1, <2>3, <2>4, <3>1, <3>2
  <2>7. /\ ph <= k + 1
        /\ ph = k + 1 => /\ a.firstSentWithCurrentKey # InvalidPacketNumber
                         /\ first # InvalidPacketNumber /\ n > first
        /\ ph < k /\ first # InvalidPacketNumber => n < first
    BY <2>2, PacketMeans DEF KeyOf, FirstRcvd, FirstSent
  <2>8. /\ ph = k + 1 => Bit(ph) # Bit(k)
        /\ ph = k => Bit(ph) = Bit(k)
        /\ ph = k - 1 => Bit(ph) # Bit(k)
    <3>1. ph = k + 1 => Bit(ph) # Bit(k)
      BY <2>3, Bits, ZenonT(60)
    <3>2. ph = k - 1 => k = ph + 1
      BY <2>1, <2>3
    <3> HIDE DEF ph, k
    <3>3. ph = k - 1 => Bit(ph) # Bit(k)
      BY <2>1, <3>2, Bits
    <3> QED BY <3>1, <3>3, Zenon
  <2>9. res = OpenResult(a, p, pn)
    <3> HIDE DEF a, pn
    <3>1. PICK b \in AEADs : (~FALSE => b = a) /\ Open(a, p, pn, FALSE).res = OpenResult(b, p, pn)
      <4>1. FALSE \in BOOLEAN
        OBVIOUS
      <4> QED BY <2>3, <4>1, OpenReturns, Zenon
    <3> QED BY <3>1, Zenon
  <2>10. ph = k + 1 \/ ph = k \/ ph = k - 1 \/ ph <= k - 2
    <3> HIDE DEF ph, k, n, first, a, pn
    <3> QED BY <2>1, <2>3, <2>7
  <2>11. /\ ph = k + 1 => ph # k /\ ph # k - 1
         /\ ph = k => ph # k - 1 /\ ph # k + 1
         /\ ph = k - 1 => ph # k + 1 /\ ph # k /\ ph < k /\ k # 0
         /\ ph <= k - 2 => ph # k + 1 /\ ph # k /\ ph # k - 1 /\ ph < k /\ k # 0
    <3> HIDE DEF ph, k, n, first, a, pn, L
    <3> QED BY <2>1, <2>3
  <2>12. /\ ph = k + 1 => ~(pn < first)
         /\ ph < k /\ ~(first = InvalidPacketNumber \/ pn < first) => pn # n
    <3> HIDE DEF ph, k, n, first, a, pn, L, overtaken
    <3> QED BY <2>1, <2>3, <2>6, <2>7, SMTT(60) DEF NumberOrNone
  <2>13. KeyOpens(k - 1, p, pn) \/ KeyOpens(k, p, pn) \/ KeyOpens(k + 1, p, pn) => pn = n
    BY DEF KeyOpens
  <2> HIDE DEF overtaken, pn
  <2>14. /\ res \notin {"wrong initial keyphase", "keys updated too quickly"}
         /\ res = "ok" \/ keyIsGone \/ overtaken
         /\ res = "ok" => pn = n
    <3> HIDE DEF res, n, k, first, ph, keyIsGone, a
    <3>1. res = IF Bit(ph) # Bit(k)
                THEN IF first = InvalidPacketNumber \/ pn < first
                     THEN IF k = 0 THEN "wrong initial keyphase"
                          ELSE IF ~a.prevRcvAEAD THEN "keys dropped"
                          ELSE IF ph = k - 1 /\ n = pn THEN "ok" ELSE "decryption failed"
                     ELSE IF ~(ph = k + 1 /\ n = pn) THEN "decryption failed"
                     ELSE IF a.firstSentWithCurrentKey = InvalidPacketNumber
                     THEN "keys updated too quickly"
                     ELSE "ok"
                ELSE IF ~(ph = k /\ n = pn) THEN "decryption failed" ELSE "ok"
      BY <2>9, Zenon DEF OpenResult, KeyOpens, ph, k, n, first
    <3>2. CASE ph = k + 1
      <4>1. res = IF ~(n = pn) THEN "decryption failed" ELSE "ok"
        BY <2>7, <2>8, <2>12, <3>1, <3>2, ZenonT(60)
      <4> QED BY <2>6, <4>1, Zenon
    <3>3. CASE ph = k
      <4>1. res = IF ~(n = pn) THEN "decryption failed" ELSE "ok"
        BY <2>8, <3>1, <3>3, Zenon
      <4> QED BY <2>6, <4>1, Zenon
    <3>4. CASE ph = k - 1
      <4>1. CASE first = InvalidPacketNumber \/ pn < first
        <5>1. res = IF ~a.prevRcvAEAD THEN "keys dropped"
                    ELSE IF n = pn THEN "ok" ELSE "decryption failed"
          BY <2>8, <2>11, <3>1, <3>4, <4>1, ZenonT(60)
        <5>2. CASE ~a.prevRcvAEAD
          <6>1. keyIsGone
            BY <3>4, <5>2 DEF keyIsGone
          <6>2. res = "keys dropped"
            BY <5>1, <5>2, Zenon
          <6> QED BY <6>1, <6>2, Zenon
        <5>3. CASE a.prevRcvAEAD
          <6>1. res = IF n = pn THEN "ok" ELSE "decryption failed"
            BY <5>1, <5>3, Zenon
          <6> QED BY <2>6, <6>1, Zenon
        <5> QED BY <5>2, <5>3, Zenon
      <4>2. CASE ~(first = InvalidPacketNumber \/ pn < first)
        <5>1. pn # n /\ overtaken
          BY <2>6, <2>11, <2>12, <3>4, <4>2
        <5>2. res = "decryption failed"
          BY <2>8, <2>11, <3>1, <3>4, <4>2, Zenon
        <5> QED BY <5>1, <5>2, Zenon
      <4> QED BY <4>1, <4>2, Zenon
    <3>5. CASE ph <= k - 2
      <4>1. keyIsGone
        BY <3>5 DEF keyIsGone
      <4>2. k # 0 /\ ph # k + 1 /\ ph # k /\ ph # k - 1
        BY <2>11, <3>5
      <4>3. res = "keys dropped" \/ res = "decryption failed"
        BY <3>1, <4>2, Zenon
      <4> QED BY <4>1, <4>3, Zenon
    <3> QED BY <2>10, <3>2, <3>3, <3>4, <3>5, ZenonT(60)
  <2>15. unpackShortHeaderPacket(aead[e], p, FALSE) = [pn |-> pn, open |-> Open(a, p, pn, FALSE)]
    BY Zenon DEF unpackShortHeaderPacket, pn
  <2>16. /\ unpackShortHeaderPacket(aead[e], p, FALSE).pn = pn
         /\ unpackShortHeaderPacket(aead[e], p, FALSE).open.res = res
    <3> DEFINE o == Open(a, p, pn, FALSE)
               r == unpackShortHeaderPacket(aead[e], p, FALSE)
    <3>1. r = [pn |-> pn, open |-> o] /\ res = o.res
      BY <2>15, Zenon
    <3> HIDE DEF o, res, r
    <3>2. r.pn = pn /\ r.open.res = res
      BY <3>1
    <3> QED BY <3>2, Zenon DEF r
  <2> HIDE DEF res
  <2> QED BY <2>14, <2>16, ZenonT(60) DEF overtaken
<1> QED BY <1>1, Zenon DEF OnlyLatePacketsAreDropped

\* Whatever arrives from the peer, in whatever order, is opened with the right
\* key and number, unless it is late: OnlyLatePacketsAreDropped
\* (updatableAEAD.Open, DecodePacketNumber).
THEOREM PacketsAreOpened == UpdateSpec => []OnlyLatePacketsAreDropped
BY KeysCorrect, OnlyLate, PTL

\* Packet p has the current key, or the next one and the current was used both ways,
\* or the previous one and that is there.
HasKey(a, p, late) ==
    \/ p.keyPhase = a.keyPhase
    \/ /\ p.keyPhase = a.keyPhase + 1
       /\ a.firstRcvdWithCurrentKey # InvalidPacketNumber
       /\ p.packetNumber > a.firstRcvdWithCurrentKey
       /\ a.firstSentWithCurrentKey # InvalidPacketNumber
    \/ /\ p.keyPhase = a.keyPhase - 1
       /\ a.firstRcvdWithCurrentKey = InvalidPacketNumber
       /\ a.prevRcvAEAD /\ ~late

\* Then Open succeeds on the right number.
LEMMA OpenSucceeds ==
    ASSUME NEW a \in AEADs, NEW p \in Packets, NEW late \in BOOLEAN, HasKey(a, p, late)
    PROVE  Open(a, p, p.packetNumber, late).res = "ok"
<1> DEFINE pn == p.packetNumber
           ph == p.keyPhase
<1>1. PICK b \in AEADs : /\ OnlyDropsPrev(a, b, late) /\ (~late => b = a)
                         /\ Open(a, p, pn, late).res = OpenResult(b, p, pn)
  <2> HIDE DEF pn
  <2> QED BY OpenReturns
<1> DEFINE k == b.keyPhase
           first == b.firstRcvdWithCurrentKey
<1>2. /\ k = a.keyPhase /\ first = a.firstRcvdWithCurrentKey
      /\ b.firstSentWithCurrentKey = a.firstSentWithCurrentKey
  BY <1>1 DEF OnlyDropsPrev
<1>3. pn \in Nat /\ ph \in Nat /\ k \in Nat /\ first \in NumberOrNone
  BY DEF Packets, AEADs
<1>4. /\ KeyOpens(k - 1, p, pn) <=> ph = k - 1
      /\ KeyOpens(k, p, pn) <=> ph = k
      /\ KeyOpens(k + 1, p, pn) <=> ph = k + 1
  BY DEF KeyOpens
<1>5. ph = k + 1 => Bit(ph) # Bit(k)
  BY <1>3, Bits
<1>6. ph = k - 1 => Bit(ph) # Bit(k)
  <2>1. ph = k - 1 => k = ph + 1
    BY <1>3
  <2> HIDE DEF ph, k
  <2> QED BY <1>3, <2>1, Bits
<1>7. CASE ph = a.keyPhase
  <2>1. OpenResult(b, p, pn) = "ok"
    BY <1>2, <1>4, <1>7, Zenon DEF OpenResult
  <2> QED BY <1>1, <2>1
<1>8. CASE /\ ph = a.keyPhase + 1
           /\ a.firstRcvdWithCurrentKey # InvalidPacketNumber
           /\ pn > a.firstRcvdWithCurrentKey
           /\ a.firstSentWithCurrentKey # InvalidPacketNumber
  <2>1. ~(pn < first)
    BY <1>2, <1>3, <1>8 DEF NumberOrNone
  <2>2. OpenResult(b, p, pn) = "ok"
    BY <1>2, <1>4, <1>5, <1>8, <2>1, ZenonT(60) DEF OpenResult
  <2> QED BY <1>1, <2>2
<1>9. CASE /\ ph = a.keyPhase - 1
           /\ a.firstRcvdWithCurrentKey = InvalidPacketNumber
           /\ a.prevRcvAEAD /\ ~late
  <2>1. b = a
    BY <1>1, <1>9
  <2>2. k # 0
    BY <1>2, <1>3, <1>9
  <2>3. OpenResult(b, p, pn) = "ok"
    BY <1>2, <1>4, <1>6, <1>9, <2>1, <2>2, ZenonT(60) DEF OpenResult
  <2> QED BY <1>1, <2>3
<1> QED BY <1>7, <1>8, <1>9 DEF HasKey

\* A packet that e would send now is opened by the peer, unless the peer is ahead
\* and has dropped its previous key.
LEMMA Heard ==
    ASSUME KeysInv, NEW e \in Endpoints, NEW late \in BOOLEAN
    PROVE  \/ IsHeard(e, late)
           \/ /\ KeyOf(Peer(e)) = KeyOf(e) + 1
              /\ late \/ ~aead[Peer(e)].a.prevRcvAEAD
<1> DEFINE f == Peer(e)
           b == KeyPhase(aead[e].a)
           p == PacketOf(e, b, {})
           a == aead[f].a
           n == sent[e].next
           L == LargestRcvd(f)
           d == EpochDelta(p.len)
<1>1. f \in Endpoints /\ f # e /\ Peer(f) = e
  BY Peers, Zenon
<1>2. /\ aead[e].a \in AEADs /\ a \in AEADs /\ n \in Nat /\ L \in Nat
      /\ KeyOf(e) \in Nat /\ KeyOf(f) \in Nat /\ FirstRcvd(f) \in NumberOrNone
  BY <1>1, Fields, Zenon DEF KeysInv
<1>3. /\ b \in AEADs
      /\ \/ b = aead[e].a
         \/ updateAllowed(aead[e].a) /\ b.keyPhase = aead[e].a.keyPhase + 1
  BY <1>2, KeyPhaseFields, ZenonT(60)
<1>4. /\ p \in Packets /\ p.keyPhase = b.keyPhase /\ p.packetNumber = n
      /\ p.wire = Truncated(n, p.len)
      /\ 2 * (n - (L + 1)) < d
  <2> HIDE DEF b
  <2>1. {} \in SUBSET Nat
    OBVIOUS
  <2> QED BY <1>3, <2>1, NewPacket
<1>5. /\ FirstRcvd(f) # InvalidPacketNumber =>
            FirstRcvd(f) < n /\ KeyOf(f) <= KeyOf(e)
      /\ L = 0 \/ L < n
  <2>1. ASSUME FirstRcvd(f) # InvalidPacketNumber PROVE FirstRcvd(f) < n /\ KeyOf(f) <= KeyOf(e)
    <3>1. PICK q \in network : q.from = e /\ q.packetNumber = FirstRcvd(f) /\ q.keyPhase = KeyOf(f)
      BY <1>1, <2>1, Zenon DEF KeysInv, RcvdInv, Received
    <3> QED BY <3>1 DEF KeysInv, SentInv
  <2>2. ASSUME L # 0 PROVE L < n
    <3>1. L \in aead[f].u.rcvd
      BY <1>1, <2>2, ZenonT(60) DEF KeysInv, RcvdInv, Received
    <3>2. PICK q \in network : q.from = e /\ q.packetNumber = L
      BY <1>1, <3>1 DEF KeysInv, RcvdInv, Received
    <3> QED BY <3>2, Zenon DEF KeysInv, SentInv
  <2> QED BY <2>1, <2>2
<1>6. d \in Nat /\ d >= 4
  <2>1. p.len \in 2 .. 4
    BY <1>4 DEF Packets
  <2> HIDE DEF p
  <2> QED BY <2>1, Powers, ZenonT(60)
<1>7. DecodePacketNumber(p.len, L, p.wire) = n
  <2>1. DecodePacketNumber(p.len, L, p.wire) = DecodeInEpoch(d, L, n % d)
    BY <1>4 DEF DecodePacketNumber, Truncated
  <2> HIDE DEF d, L, n, p
  <2>2. 2 * (L + 1 - n) < d /\ d \in Nat \ {0}
    BY <1>2, <1>5, <1>6
  <2>3. DecodeInEpoch(d, L, n % d) = n
    BY <1>2, <1>4, <2>2, DecodeExact, ZenonT(60)
  <2> QED BY <2>1, <2>3, ZenonT(60)
<1>8. IsHeard(e, late) <=> Open(a, p, n, late).res = "ok"
  <2> DEFINE r == unpackShortHeaderPacket(aead[f], p, late)
             o == Open(a, p, n, late)
  <2>1. r = [pn |-> n, open |-> o]
    BY <1>7, Zenon DEF unpackShortHeaderPacket, LargestRcvd
  <2>2. IsHeard(e, late) <=> r.open.res = "ok"
    BY Zenon DEF IsHeard
  <2> HIDE DEF r, o
  <2>3. r.open = o
    BY <2>1, Zenon
  <2> QED BY <2>2, <2>3 DEF o
<1>9. /\ b.keyPhase \in Nat
      /\ \/ b.keyPhase = KeyOf(f)
         \/ /\ b.keyPhase = KeyOf(f) + 1
            /\ FirstRcvd(f) # InvalidPacketNumber /\ FirstSent(f) # InvalidPacketNumber
         \/ /\ b.keyPhase = KeyOf(f) - 1 /\ KeyOf(f) = KeyOf(e) + 1
            /\ FirstRcvd(f) = InvalidPacketNumber
  <2>1. /\ KeyOf(e) <= KeyOf(f) + 1
        /\ KeyOf(e) = KeyOf(f) + 1 =>
              FirstSent(f) # InvalidPacketNumber /\ FirstRcvd(f) # InvalidPacketNumber
        /\ KeyOf(f) <= KeyOf(e) + 1
    BY <1>1, ZenonT(60) DEF KeysInv, PhaseInv
  <2> HIDE DEF b, f
  <2>2. CASE b = aead[e].a
    <3>1. b.keyPhase = KeyOf(e)
      BY <2>2, ZenonT(60) DEF KeyOf
    <3> QED BY <1>2, <1>5, <2>1, <3>1, SMTT(60)
  <2>3. CASE updateAllowed(aead[e].a) /\ b.keyPhase = aead[e].a.keyPhase + 1
    <3>1. /\ KeyOf(e) <= KeyOf(f)
          /\ KeyOf(e) = KeyOf(f) =>
                FirstSent(f) # InvalidPacketNumber /\ FirstRcvd(f) # InvalidPacketNumber
      BY <2>3, UpdateAllowedMeans, ZenonT(60) DEF f
    <3>2. b.keyPhase = KeyOf(e) + 1
      BY <2>3 DEF KeyOf
    <3> QED BY <1>2, <2>1, <3>1, <3>2, SMTT(60)
  <2> QED BY <1>3, <2>2, <2>3, Zenon
<1>10. FirstRcvd(f) # InvalidPacketNumber => n > FirstRcvd(f)
  BY <1>2, <1>5 DEF NumberOrNone
<1> HIDE DEF p, b, n
<1>11. ASSUME HasKey(a, p, late)
       PROVE  IsHeard(e, late)
  <2> HIDE DEF a
  <2> QED BY <1>2, <1>4, <1>8, <1>11, OpenSucceeds, Zenon
<1> QED BY <1>4, <1>9, <1>10, <1>11, Zenon DEF HasKey, KeyOf, FirstRcvd, FirstSent

\* The endpoints never lose each other: they are at most a phase apart, and one that
\* cannot be heard hears its peer (updatableAEAD).
THEOREM EndpointsAreHeard == UpdateSpec => []SomeoneIsHeard
<1>1. KeysInv => SomeoneIsHeard
  <2> SUFFICES ASSUME KeysInv PROVE SomeoneIsHeard
    OBVIOUS
  <2>1. ASSUME NEW e \in Endpoints, NEW g \in Endpoints
        PROVE  aead[e].a.keyPhase <= aead[g].a.keyPhase + 1
    <3>1. KeyOf(e) \in Nat
      BY Fields DEF KeysInv
    <3>2. CASE g = e
      BY <3>1, <3>2, SMTT(60) DEF KeyOf
    <3>3. CASE g = Peer(e)
      BY <3>3 DEF KeysInv, PhaseInv, KeyOf
    <3> QED BY <3>2, <3>3, Peers, ZenonT(60)
  <2>2. ASSUME NEW e \in Endpoints, ~IsHeard(e, aead[Peer(e)].a.prevRcvAEADExpired)
        PROVE  /\ aead[Peer(e)].a.keyPhase = aead[e].a.keyPhase + 1
               /\ aead[Peer(e)].a.prevRcvAEADExpired
               /\ IsHeard(Peer(e), FALSE) /\ IsHeard(Peer(e), TRUE)
    <3> DEFINE f == Peer(e)
               late == aead[f].a.prevRcvAEADExpired
    <3>1. f \in Endpoints /\ Peer(f) = e
      BY Peers, ZenonT(60)
    <3>2. KeyOf(e) \in Nat /\ KeyOf(f) \in Nat /\ aead[f].a \in AEADs
      BY <3>1, Fields DEF KeysInv
    <3>3. late \in BOOLEAN
      BY <3>2 DEF AEADs
    <3>4. KeyOf(f) = KeyOf(e) + 1 /\ (late \/ ~aead[f].a.prevRcvAEAD)
      <4> HIDE DEF late
      <4>1. ~IsHeard(e, late)
        BY <2>2 DEF late
      <4> QED BY <3>3, <4>1, Heard, Zenon
    <3>5. KeyOf(f) > 0 /\ KeyOf(e) # KeyOf(f) + 1
      BY <3>2, <3>4
    <3>6. late
      BY <3>1, <3>4, <3>5, Zenon DEF KeysInv, PrevKeyInv
    <3>7. IsHeard(f, FALSE) /\ IsHeard(f, TRUE)
      <4>1. FALSE \in BOOLEAN /\ TRUE \in BOOLEAN
        OBVIOUS
      <4> HIDE DEF f
      <4> QED BY <3>1, <3>5, <4>1, Heard, Zenon
    <3> QED BY <3>4, <3>6, <3>7, Zenon DEF KeyOf
  <2> QED BY <2>1, <2>2, ZenonT(60) DEF SomeoneIsHeard
<1> QED BY <1>1, KeysCorrect, PTL
=============================================================================
