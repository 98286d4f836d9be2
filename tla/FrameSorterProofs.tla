-------------------------- MODULE FrameSorterProofs --------------------------
(***************************************************************************)
(* The frameSorter's list of gaps is exact, what it gives the reader are   *)
(* the next bytes of the stream, and it holds on to the buffers they lie   *)
(* in: for any length of the stream, any frames and any number of them.    *)
(***************************************************************************)
EXTENDS FrameSorter, FiniteSetTheorems, WellFoundedInduction, TLAPS

\* A set of natural numbers has a least element.
LEMMA LeastNat ==
    ASSUME NEW T \in SUBSET Nat, T # {}
    PROVE  \E x \in T : \A y \in T : x <= y
<1>1. PICK x \in T : \A y \in T : <<y, x>> \notin OpToRel(<, Nat)
  BY NatLessThanWellFounded, WFMin, Zenon
<1>2. \A y \in T : ~(y < x)
  BY <1>1, Zenon DEF OpToRel
<1> QED BY <1>2

\* A frame of a stream of Length bytes.
IsFrame(f) ==
    /\ f.start \in 0 .. Length /\ f.end \in 0 .. Length
    /\ f.start <= f.end

\* The gaps in the list: none is empty, they neither touch nor overlap, and
\* the last one has no end.
Apart(G) == \A g, h \in G : g # h => g.end < h.start \/ h.end < g.start

IsGapList(G) ==
    /\ \A g \in G : /\ g = [start |-> g.start, end |-> g.end]
                    /\ g.start \in 0 .. Infinity /\ g.end \in 0 .. Infinity
                    /\ g.start < g.end
    /\ Apart(G)
    /\ \E g \in G : g.end = Infinity

-----------------------------------------------------------------------------
(* The gap a frame starts in or before. *)

\* push finds a first gap that does not end before the frame starts: the last
\* gap is one.
LEMMA FirstGap ==
    ASSUME NEW f, IsFrame(f), IsGapList(gaps)
    PROVE  /\ GapOf(f) \in gaps
           /\ f.start <= GapOf(f).end
           /\ \A h \in gaps : f.start <= h.end => GapOf(f).start <= h.start
<1> DEFINE T == {h.start : h \in {g \in gaps : f.start <= g.end}}
<1>0. Length \in Nat
  BY SorterAssumption, Zenon
<1>1. T \in SUBSET Nat
  BY <1>0 DEF IsGapList, Infinity
<1>2. T # {}
  <2>1. PICK g \in gaps : g.end = Infinity
    BY Zenon DEF IsGapList
  <2>2. f.start <= g.end
    BY <1>0, <2>1 DEF IsFrame, Infinity
  <2> QED BY <2>2
<1>3. PICK x \in T : \A y \in T : x <= y
  BY <1>1, <1>2, LeastNat, Zenon
<1>4. PICK g \in gaps : f.start <= g.end /\ g.start = x
  BY <1>3
<1>5. \A h \in gaps : f.start <= h.end => g.start <= h.start
  BY <1>3, <1>4, Zenon
<1> QED BY <1>4, <1>5, Zenon DEF GapOf

\* All other gaps end before the frame starts, or start after that gap.
LEMMA OtherGaps ==
    ASSUME NEW f, IsFrame(f), IsGapList(gaps), NEW h \in gaps, h # GapOf(f)
    PROVE  \/ h.end < GapOf(f).start /\ h.end < f.start
           \/ GapOf(f).end < h.start /\ f.start < h.start
<1> DEFINE g == GapOf(f)
<1>1. /\ g \in gaps /\ f.start <= g.end
      /\ \A i \in gaps : f.start <= i.end => g.start <= i.start
  BY FirstGap, Zenon
<1> HIDE DEF g
<1>2. Length \in Nat
  BY SorterAssumption, Zenon
<1>3. /\ g.start \in Int /\ g.end \in Int /\ g.start < g.end
      /\ h.start \in Int /\ h.end \in Int /\ h.start < h.end /\ f.start \in Int
  BY <1>1, <1>2 DEF IsGapList, Infinity, IsFrame
<1>4. g.end < h.start \/ h.end < g.start
  BY <1>1, Zenon DEF IsGapList, Apart, g
<1>5. CASE g.end < h.start
  BY <1>1, <1>3, <1>5 DEF g
<1>6. CASE h.end < g.start
  <2>1. ~(g.start <= h.start)
    BY <1>3, <1>6
  <2>2. ~(f.start <= h.end)
    BY <1>1, <2>1, Zenon
  <2> QED BY <1>3, <1>6, <2>2 DEF g
<1> QED BY <1>4, <1>5, <1>6, Zenon

-----------------------------------------------------------------------------
(* The gap a frame ends in or after. *)

IsLastGap(f, e) ==
    /\ e \in gaps
    /\ GapOf(f).start <= e.start /\ e.start <= f.end
    /\ \A h \in gaps : h.start > e.start => f.end < h.start

\* Of the gaps that end within the frame there is a last one.
LEMMA LastPassedGap ==
    ASSUME NEW f, IsFrame(f), IsGapList(gaps), Passed(f) # {}
    PROVE  /\ LastPassed(f) \in Passed(f)
           /\ \A h \in Passed(f) : h.start <= LastPassed(f).start
<1> DEFINE T == {Infinity - h.start : h \in Passed(f)}
<1>0. Length \in Nat
  BY SorterAssumption, Zenon
<1>1. \A h \in Passed(f) : h.start \in 0 .. Infinity
  BY Zenon DEF Passed, IsGapList
<1>2. T \in SUBSET Nat
  BY <1>0, <1>1 DEF Infinity
<1>3. T # {}
  BY Zenon
<1>4. PICK x \in T : \A y \in T : x <= y
  BY <1>2, <1>3, LeastNat, Zenon
<1>5. PICK g \in Passed(f) : Infinity - g.start = x
  BY <1>4
<1>6. ASSUME NEW h \in Passed(f)
      PROVE  h.start <= g.start
  <2>1. Infinity - g.start <= Infinity - h.start
    BY <1>4, <1>5, Zenon
  <2> QED BY <1>0, <1>1, <2>1 DEF Infinity
<1> QED BY <1>5, <1>6, Zenon DEF LastPassed

\* A gap that is not the last one is followed by a first one.
LEMMA FollowingGap ==
    ASSUME IsGapList(gaps), NEW g \in gaps, g.end <= Length
    PROVE  /\ NextGap(g) \in gaps /\ NextGap(g).start > g.start
           /\ \A i \in gaps : i.start > g.start => NextGap(g).start <= i.start
<1> DEFINE T == {h.start : h \in {i \in gaps : i.start > g.start}}
<1>0. Length \in Nat
  BY SorterAssumption, Zenon
<1>1. T \in SUBSET Nat
  BY <1>0 DEF IsGapList, Infinity
<1>2. T # {}
  <2>1. PICK t \in gaps : t.end = Infinity
    BY Zenon DEF IsGapList
  <2>2. g.end < t.end
    BY <1>0, <2>1 DEF IsGapList, Infinity
  <2>3. g.end < t.start \/ t.end < g.start
    BY <1>0, <2>1, <2>2 DEF IsGapList, Apart, Infinity
  <2>4. t.start > g.start
    BY <1>0, <2>1, <2>2, <2>3 DEF IsGapList, Infinity
  <2> QED BY <2>4
<1>3. PICK x \in T : \A y \in T : x <= y
  BY <1>1, <1>2, LeastNat, Zenon
<1>4. PICK h \in gaps : h.start > g.start /\ h.start = x
  BY <1>3
<1>5. \A i \in gaps : i.start > g.start => h.start <= i.start
  BY <1>3, <1>4, Zenon
<1> QED BY <1>4, <1>5, Zenon DEF NextGap

\* The loop over endGap stops at the last gap that the frame reaches.
LEMMA LastGap ==
    ASSUME NEW f, IsFrame(f), IsGapList(gaps), f.start < f.end, ~FillsNoGap(f)
    PROVE  IsLastGap(f, EndGap(f))
<1> DEFINE g == GapOf(f)
           l == LastPassed(f)
           n == NextGap(l)
<1>0. Length \in Nat
  BY SorterAssumption, Zenon
<1>1. /\ g \in gaps /\ f.start <= g.end
      /\ \A h \in gaps : f.start <= h.end => g.start <= h.start
  BY FirstGap, Zenon
<1>2. ~(f.end <= g.start)
  BY Zenon DEF FillsNoGap
<1> HIDE DEF g, l, n
<1>3. \A h \in gaps : h.start \in Int /\ h.end \in Int /\ h.start < h.end
  BY <1>0 DEF IsGapList, Infinity
<1>4. f.start \in Int /\ f.end \in Int /\ f.end <= Length
  BY <1>0 DEF IsFrame
<1>5. CASE Passed(f) = {}
  <2>1. EndGap(f) = g
    BY <1>5, Zenon DEF EndGap, g
  <2>2. g.start <= f.end /\ g.start <= g.start
    BY <1>1, <1>2, <1>3, <1>4
  <2>3. f.end < g.end
    BY <1>1, <1>3, <1>4, <1>5, SMTT(60) DEF Passed, g
  <2>4. ASSUME NEW h \in gaps, h.start > g.start
        PROVE  f.end < h.start
    <3>1. g.end < h.start \/ h.end < g.start
      BY <1>1, <1>3, <2>4 DEF IsGapList, Apart
    <3> QED BY <1>1, <1>3, <1>4, <2>3, <2>4, <3>1, SMTT(60)
  <2> QED BY <1>1, <2>1, <2>2, <2>4, ZenonT(60) DEF IsLastGap, g
<1>6. CASE Passed(f) # {}
  <2>1. l \in Passed(f) /\ \A h \in Passed(f) : h.start <= l.start
    BY <1>6, LastPassedGap, Zenon DEF l
  <2>2. l \in gaps /\ l.start >= g.start /\ l.end <= f.end
    BY <2>1, Zenon DEF Passed, g
  <2>3. l.end <= Length
    BY <1>0, <1>3, <1>4, <2>2
  <2>4. /\ n \in gaps /\ n.start > l.start
        /\ \A i \in gaps : i.start > l.start => n.start <= i.start
    BY <2>2, <2>3, FollowingGap, ZenonT(60) DEF n
  <2>5. CASE f.end < n.start
    <3>1. EndGap(f) = l
      BY <1>6, <2>5, Zenon DEF EndGap, l, n
    <3>2. g.start <= l.start /\ l.start <= f.end
      BY <1>1, <1>3, <1>4, <2>2, SMTT(60)
    <3>3. ASSUME NEW h \in gaps, h.start > l.start
          PROVE  f.end < h.start
      BY <1>3, <1>4, <2>4, <2>5, <3>3, SMTT(60)
    <3> QED BY <2>2, <3>1, <3>2, <3>3, ZenonT(60) DEF IsLastGap, g
  <2>6. CASE ~(f.end < n.start)
    <3>1. EndGap(f) = n
      BY <1>6, <2>6, Zenon DEF EndGap, l, n
    <3>2. g.start <= n.start /\ n.start <= f.end
      BY <1>1, <1>3, <1>4, <2>2, <2>4, <2>6, SMTT(60)
    <3>3. ~(n.start <= l.start)
      BY <1>3, <2>2, <2>4
    <3>4. n \notin Passed(f)
      BY <2>1, <3>3, Zenon
    <3>5. f.end < n.end
      BY <1>1, <1>3, <1>4, <2>4, <3>2, <3>4, SMTT(60) DEF Passed, g
    <3>6. ASSUME NEW h \in gaps, h.start > n.start
          PROVE  f.end < h.start
      <4>1. n.end < h.start \/ h.end < n.start
        BY <1>3, <2>4, <3>6 DEF IsGapList, Apart
      <4> QED BY <1>3, <1>4, <2>4, <3>5, <3>6, <4>1, SMTT(60)
    <3> QED BY <2>4, <3>1, <3>2, <3>6, ZenonT(60) DEF IsLastGap, g
  <2> QED BY <2>5, <2>6, Zenon
<1> QED BY <1>5, <1>6, Zenon

-----------------------------------------------------------------------------
(* The gaps a frame leaves. *)

\* Where the frame is cut: within itself, its first gap and its last one.
Cut(f) ==
    /\ CutStart(f) \in Int /\ CutEnd(f) \in Int /\ CutStart(f) <= CutEnd(f)
    /\ f.start <= CutStart(f) /\ CutEnd(f) <= f.end
    /\ GapOf(f).start <= CutStart(f) /\ CutStart(f) <= GapOf(f).end
    /\ EndGap(f).start <= CutEnd(f) /\ CutEnd(f) <= EndGap(f).end
    /\ CutStart(f) = f.start \/ CutStart(f) = GapOf(f).start
    /\ CutEnd(f) = f.end \/ CutEnd(f) = EndGap(f).end

\* What push cuts off lies outside of the gaps; something may be left over
\* only at the two ends.
LEMMA CutFrame ==
    ASSUME NEW f, IsFrame(f), IsGapList(gaps), f.start < f.end, ~FillsNoGap(f)
    PROVE  /\ GapOf(f) \in gaps /\ EndGap(f) \in gaps
           /\ Cut(f)
           /\ GapOf(f) = EndGap(f) \/ GapOf(f).end < EndGap(f).start
<1> DEFINE g == GapOf(f)
           e == EndGap(f)
<1>0. Length \in Nat
  BY SorterAssumption, Zenon
<1>1. g \in gaps /\ f.start <= g.end
  BY FirstGap, Zenon
<1>2. IsLastGap(f, e)
  BY LastGap, Zenon
<1>3. e \in gaps /\ g.start <= e.start /\ e.start <= f.end
  BY <1>2, Zenon DEF IsLastGap
<1>4. ~(f.end <= g.start)
  BY Zenon DEF FillsNoGap
<1>5. /\ CutStart(f) = IF f.start < g.start THEN g.start ELSE f.start
      /\ CutEnd(f) = IF f.end > e.end THEN e.end ELSE f.end
  BY Zenon DEF CutStart, CutEnd
<1> HIDE DEF g, e
<1>6. /\ g.start \in Int /\ g.end \in Int /\ g.start < g.end
      /\ e.start \in Int /\ e.end \in Int /\ e.start < e.end
      /\ f.start \in Int /\ f.end \in Int
  BY <1>0, <1>1, <1>3, SMTT(60) DEF IsGapList, Infinity, IsFrame
<1>7. g = e \/ g.end < e.start
  <2>1. g # e => g.end < e.start \/ e.end < g.start
    BY <1>1, <1>3, ZenonT(60) DEF IsGapList, Apart
  <2> QED BY <1>3, <1>6, <2>1, SMTT(60)
<1>8. Cut(f)
  <2>1. g = e => g.end = e.end
    OBVIOUS
  <2>2. /\ CutStart(f) \in Int /\ CutEnd(f) \in Int /\ CutStart(f) <= CutEnd(f)
        /\ f.start <= CutStart(f) /\ CutEnd(f) <= f.end
        /\ g.start <= CutStart(f) /\ CutStart(f) <= g.end
        /\ e.start <= CutEnd(f) /\ CutEnd(f) <= e.end
    BY <1>1, <1>3, <1>4, <1>5, <1>6, <1>7, <2>1, SMTT(60)
  <2>3. /\ CutStart(f) = f.start \/ CutStart(f) = g.start
        /\ CutEnd(f) = f.end \/ CutEnd(f) = e.end
    BY <1>5, Zenon
  <2> QED BY <2>2, <2>3, ZenonT(60) DEF Cut, g, e
<1> QED BY <1>1, <1>3, <1>7, <1>8, ZenonT(60) DEF g, e

\* The gaps afterwards: the ones before the first and after the last gap that
\* the frame reaches, and what is left of these two.
IsLeft(f, h) ==
    \/ h \in gaps /\ h.start < GapOf(f).start
    \/ h \in gaps /\ h.start > EndGap(f).start
    \/ h = [start |-> GapOf(f).start, end |-> CutStart(f)] /\ GapOf(f).start < CutStart(f)
    \/ h = [start |-> CutEnd(f), end |-> EndGap(f).end] /\ CutEnd(f) < EndGap(f).end

\* That is what push makes of the list.
LEMMA GapsLeft ==
    ASSUME NEW f, IsFrame(f), IsGapList(gaps), f.start < f.end, ~FillsNoGap(f), NEW h
    PROVE  h \in GapsAfter(f) <=> IsLeft(f, h)
<1> DEFINE g == GapOf(f)
           e == EndGap(f)
           left  == [start |-> g.start, end |-> CutStart(f)]
           right == [start |-> CutEnd(f), end |-> e.end]
<1>0. Length \in Nat
  BY SorterAssumption, Zenon
<1>1. /\ g \in gaps /\ e \in gaps
      /\ g = e \/ g.end < e.start
  BY CutFrame, Zenon
<1>2. /\ g.start <= e.start /\ e.start <= f.end
      /\ \A i \in gaps : i.start > e.start => f.end < i.start
  BY LastGap, Zenon DEF IsLastGap
<1>3. h \in GapsAfter(f) <=> \/ h \in gaps /\ h \notin Passed(f) /\ h # g /\ h # e
                             \/ h = left /\ h.start < h.end
                             \/ h = right /\ h.start < h.end
  BY Zenon DEF GapsAfter
<1>4. Passed(f) = {i \in gaps : i.start >= g.start /\ i.end <= f.end}
  BY Zenon DEF Passed
<1>5. ASSUME NEW i \in gaps
      PROVE  i \notin Passed(f) /\ i # g /\ i # e <=> i.start < g.start \/ i.start > e.start
  <2> HIDE DEF g, e
  <2>1. /\ g.start \in Int /\ g.end \in Int /\ g.start < g.end
        /\ e.start \in Int /\ e.end \in Int /\ e.start < e.end
        /\ i.start \in Int /\ i.end \in Int /\ i.start < i.end
        /\ f.end \in Int
    BY <1>0, <1>1 DEF IsGapList, Infinity, IsFrame
  <2>2. i # e => i.end < e.start \/ e.end < i.start
    BY <1>1, Zenon DEF IsGapList, Apart
  <2>3. i \in Passed(f) <=> i.start >= g.start /\ i.end <= f.end
    BY <1>4, Zenon
  <2>4. i.start > e.start => f.end < i.start
    BY <1>2, Zenon
  <2>5. CASE i = e
    BY <1>2, <2>1, <2>5, SMTT(60)
  <2>6. CASE i = g
    BY <1>2, <2>1, <2>6
  <2>7. CASE i # e /\ i # g
    <3>1. i \notin Passed(f) <=> i.start < g.start \/ i.start > e.start
      BY <1>2, <2>1, <2>2, <2>3, <2>4, <2>7, SMTT(60)
    <3> QED BY <2>7, <3>1, ZenonT(60)
  <2> QED BY <2>5, <2>6, <2>7, ZenonT(60)
<1>6. /\ left.start = g.start /\ left.end = CutStart(f)
      /\ right.start = CutEnd(f) /\ right.end = e.end
  OBVIOUS
<1>7. IsLeft(f, h) <=> \/ h \in gaps /\ (h.start < g.start \/ h.start > e.start)
                       \/ h = left /\ g.start < CutStart(f)
                       \/ h = right /\ CutEnd(f) < e.end
  BY Zenon DEF IsLeft
<1> HIDE DEF g, e, left, right
<1> QED BY <1>3, <1>5, <1>6, <1>7, ZenonT(60)

\* What push makes of the list of gaps is such a list again.
LEMMA GapsAfterList ==
    ASSUME NEW f, IsFrame(f), IsGapList(gaps), f.start < f.end, ~FillsNoGap(f)
    PROVE  IsGapList(GapsAfter(f))
<1> DEFINE g == GapOf(f)
           e == EndGap(f)
           cs == CutStart(f)
           ce == CutEnd(f)
           left  == [start |-> g.start, end |-> cs]
           right == [start |-> ce, end |-> e.end]
<1>0. Length \in Nat
  BY SorterAssumption, Zenon
<1>1. /\ g \in gaps /\ e \in gaps
      /\ Cut(f)
      /\ g = e \/ g.end < e.start
  BY CutFrame, Zenon
<1>2. /\ cs \in Int /\ ce \in Int /\ cs <= ce /\ f.start <= cs /\ ce <= f.end
      /\ g.start <= cs /\ cs <= g.end /\ e.start <= ce /\ ce <= e.end
  BY <1>1, Zenon DEF Cut
<1>3. \A h : h \in GapsAfter(f) <=> IsLeft(f, h)
  BY GapsLeft, Zenon
<1>4. \A h : IsLeft(f, h) <=> \/ h \in gaps /\ (h.start < g.start \/ h.start > e.start)
                              \/ h = left /\ g.start < cs
                              \/ h = right /\ ce < e.end
  BY Zenon DEF IsLeft
<1>5. /\ left.start = g.start /\ left.end = cs
      /\ right.start = ce /\ right.end = e.end
      /\ left = [start |-> left.start, end |-> left.end]
      /\ right = [start |-> right.start, end |-> right.end]
  OBVIOUS
<1>6. ce = f.end \/ ce = e.end
  BY <1>1, Zenon DEF Cut
<1>7. \A h \in gaps : /\ h = [start |-> h.start, end |-> h.end]
                      /\ h.start \in 0 .. Infinity /\ h.end \in 0 .. Infinity
                      /\ h.start < h.end
  BY Zenon DEF IsGapList
<1>8. \A h, i \in gaps : h # i => h.end < i.start \/ i.end < h.start
  BY Zenon DEF IsGapList, Apart
<1>9. f.end \in 0 .. Length /\ Infinity = Length + 1
  BY Zenon DEF IsFrame, Infinity
<1>10. g = e => ce = e.end \/ cs < ce
  <2>1. f.start \in Int /\ f.end \in Int /\ g.start \in Int
    BY <1>0, <1>1, <1>7, <1>9, SMTT(60) DEF IsFrame
  <2>2. cs = f.start \/ cs = g.start
    BY <1>1, ZenonT(60) DEF Cut
  <2>3. ~(f.end <= g.start)
    BY Zenon DEF FillsNoGap
  <2> HIDE DEF cs, ce, g, e
  <2> QED BY <1>2, <1>6, <2>1, <2>2, <2>3, SMTT(60)
<1> HIDE DEF g, e, cs, ce, left, right
<1>11. ASSUME NEW h \in GapsAfter(f)
       PROVE  /\ h = [start |-> h.start, end |-> h.end]
              /\ h.start \in 0 .. Infinity /\ h.end \in 0 .. Infinity
              /\ h.start < h.end
  <2>1. CASE h \in gaps
    BY <1>7, <2>1, ZenonT(60)
  <2>2. CASE h = left /\ g.start < cs
    BY <1>0, <1>1, <1>2, <1>5, <1>7, <1>9, <2>2, SMTT(60)
  <2>3. CASE h = right /\ ce < e.end
    BY <1>0, <1>1, <1>2, <1>5, <1>7, <1>9, <2>3, SMTT(60)
  <2> QED BY <1>3, <1>4, <2>1, <2>2, <2>3, ZenonT(60)
<1>12. ASSUME NEW h \in gaps, h.start < g.start \/ h.start > e.start
       PROVE  h.end < g.start \/ e.end < h.start
  <2>1. /\ h # g => h.end < g.start \/ g.end < h.start
        /\ h # e => h.end < e.start \/ e.end < h.start
    BY <1>1, <1>8, ZenonT(60)
  <2>2. /\ h.start \in Int /\ h.end \in Int /\ h.start < h.end
        /\ g.start \in Int /\ g.end \in Int /\ g.start < g.end
        /\ e.start \in Int /\ e.end \in Int /\ e.start < e.end
    BY <1>0, <1>1, <1>7, <1>9, SMTT(60)
  <2>3. CASE h.start < g.start
    BY <2>1, <2>2, <2>3, SMTT(60)
  <2>4. CASE h.start > e.start
    BY <2>1, <2>2, <2>4, SMTT(60)
  <2> QED BY <1>12, <2>3, <2>4, ZenonT(60)
<1>13. /\ g.start \in Int /\ g.end \in Int /\ e.start \in Int /\ e.end \in Int
       /\ g.start <= e.start /\ g.end <= e.end
  <2>1. /\ g.start \in Int /\ g.end \in Int /\ g.start < g.end
        /\ e.start \in Int /\ e.end \in Int /\ e.start < e.end
    BY <1>0, <1>1, <1>7, <1>9, SMTT(60)
  <2> QED BY <1>1, <2>1, SMTT(60)
<1>14. ASSUME NEW h \in gaps, h.start < g.start \/ h.start > e.start
       PROVE  /\ h.end < left.start \/ left.end < h.start
              /\ h.end < right.start \/ right.end < h.start
  <2>1. h.start \in Int /\ h.end \in Int
    BY <1>0, <1>7, <1>9, SMTT(60)
  <2>2. h.end < g.start \/ e.end < h.start
    BY <1>12, <1>14, ZenonT(60)
  <2> QED BY <1>2, <1>5, <1>13, <2>1, <2>2, SMTT(60)
<1>15. ASSUME g.start < cs, ce < e.end
       PROVE  left.end < right.start
  BY <1>1, <1>2, <1>5, <1>10, <1>13, <1>15, SMTT(60)
<1>16. ASSUME NEW h \in GapsAfter(f), NEW i \in GapsAfter(f), h # i
       PROVE  h.end < i.start \/ i.end < h.start
  <2>1. /\ \/ h \in gaps /\ (h.start < g.start \/ h.start > e.start)
           \/ h = left /\ g.start < cs
           \/ h = right /\ ce < e.end
        /\ \/ i \in gaps /\ (i.start < g.start \/ i.start > e.start)
           \/ i = left /\ g.start < cs
           \/ i = right /\ ce < e.end
    BY <1>3, <1>4, ZenonT(60)
  <2> QED BY <1>8, <1>14, <1>15, <1>16, <2>1, ZenonT(60)
<1>17. \E h \in GapsAfter(f) : h.end = Infinity
  <2>1. PICK t \in gaps : t.end = Infinity
    BY Zenon DEF IsGapList
  <2>2. CASE t.start < g.start \/ t.start > e.start
    BY <1>3, <1>4, <2>1, <2>2, ZenonT(60)
  <2>3. CASE ~(t.start < g.start \/ t.start > e.start)
    <3>1. t = e
      <4>1. t # e => t.end < e.start \/ e.end < t.start
        BY <1>1, <1>8, <2>1, ZenonT(60)
      <4> QED BY <1>0, <1>1, <1>7, <1>9, <2>1, <2>3, <4>1, SMTT(60)
    <3>2. ce < e.end
      BY <1>0, <1>2, <1>9, <2>1, <3>1, SMTT(60)
    <3>3. right \in GapsAfter(f)
      BY <1>3, <1>4, <3>2, ZenonT(60)
    <3>4. right.end = Infinity
      BY <1>5, <2>1, <3>1, ZenonT(60)
    <3> QED BY <3>3, <3>4, ZenonT(60)
  <2> QED BY <2>2, <2>3, ZenonT(60)
<1> QED BY <1>11, <1>16, <1>17, ZenonT(60) DEF IsGapList, Apart

\* The bytes still missing after push are the ones missing before, without
\* those of the frame.
LEMMA GapsAfterBytes ==
    ASSUME NEW f, IsFrame(f), IsGapList(gaps), f.start < f.end, ~FillsNoGap(f)
    PROVE  Bytes(GapsAfter(f)) = Bytes(gaps) \ (f.start .. f.end - 1)
<1> DEFINE g == GapOf(f)
           e == EndGap(f)
           cs == CutStart(f)
           ce == CutEnd(f)
           left  == [start |-> g.start, end |-> cs]
           right == [start |-> ce, end |-> e.end]
<1>0. Length \in Nat
  BY SorterAssumption, Zenon
<1>1. g \in gaps /\ e \in gaps /\ Cut(f)
  BY CutFrame, Zenon
<1>2. /\ cs \in Int /\ ce \in Int /\ f.start <= cs /\ ce <= f.end
      /\ g.start <= cs /\ cs <= g.end /\ e.start <= ce /\ ce <= e.end
      /\ cs = f.start \/ cs = g.start
      /\ ce = f.end \/ ce = e.end
  BY <1>1, Zenon DEF Cut
<1>3. \A h : h \in GapsAfter(f) <=> \/ h \in gaps /\ (h.start < g.start \/ h.start > e.start)
                                    \/ h = left /\ g.start < cs
                                    \/ h = right /\ ce < e.end
  BY GapsLeft, Zenon DEF IsLeft
<1>4. /\ left.start = g.start /\ left.end = cs
      /\ right.start = ce /\ right.end = e.end
  OBVIOUS
<1>5. \A h \in gaps : h.start \in Int /\ h.end \in Int /\ h.start < h.end
  BY <1>0 DEF IsGapList, Infinity
<1>6. f.start \in Int /\ f.end \in Int
  BY <1>0 DEF IsFrame
<1>7. \A h \in gaps : h # g => \/ h.end < g.start /\ h.end < f.start
                               \/ g.end < h.start /\ f.start < h.start
  BY OtherGaps, ZenonT(60)
<1>8. \A h \in gaps : h.start > e.start => f.end < h.start
  BY LastGap, ZenonT(60) DEF IsLastGap
<1>9. \A h \in gaps : h # e => h.end < e.start \/ e.end < h.start
  BY <1>1, ZenonT(60) DEF IsGapList, Apart
<1>10. g.start <= e.start
  BY LastGap, Zenon DEF IsLastGap
<1> HIDE DEF g, e, cs, ce, left, right
<1>11. /\ g.start \in Int /\ g.end \in Int /\ g.start < g.end
       /\ e.start \in Int /\ e.end \in Int /\ e.start < e.end
  BY <1>1, <1>5, ZenonT(60)
<1>12. ASSUME NEW h \in gaps, NEW x \in h.start .. h.end - 1, x \in f.start .. f.end - 1
       PROVE  /\ g.start <= h.start /\ h.start <= e.start
              /\ cs <= x /\ x < ce
  <2>1. h.start \in Int /\ h.end \in Int /\ h.start < h.end
    BY <1>5, Zenon
  <2>2. g.start <= h.start
    BY <1>6, <1>7, <1>11, <1>12, <2>1, SMTT(60)
  <2>3. h.start <= e.start
    BY <1>6, <1>8, <1>11, <1>12, <2>1, SMTT(60)
  <2>4. h.end <= e.end
    BY <1>9, <1>11, <2>1, <2>3, SMTT(60)
  <2> QED BY <1>2, <1>6, <1>11, <1>12, <2>1, <2>2, <2>3, <2>4, SMTT(60)
<1>13. ASSUME NEW h \in GapsAfter(f), NEW x \in h.start .. h.end - 1
       PROVE  x \in Bytes(gaps) /\ x \notin f.start .. f.end - 1
  <2>1. CASE h \in gaps /\ (h.start < g.start \/ h.start > e.start)
    <3>1. x \in Bytes(gaps)
      BY <2>1, ZenonT(60) DEF Bytes
    <3>2. ~(g.start <= h.start /\ h.start <= e.start)
      BY <1>5, <1>11, <2>1, SMTT(60)
    <3> QED BY <1>12, <2>1, <3>1, <3>2, ZenonT(60)
  <2>2. CASE h = left /\ g.start < cs
    <3>1. x \in g.start .. g.end - 1 /\ ~(cs <= x)
      BY <1>2, <1>4, <1>11, <2>2, SMTT(60)
    <3> QED BY <1>1, <1>12, <3>1, ZenonT(60) DEF Bytes
  <2>3. CASE h = right /\ ce < e.end
    <3>1. x \in e.start .. e.end - 1 /\ ~(x < ce)
      BY <1>2, <1>4, <1>11, <2>3, SMTT(60)
    <3> QED BY <1>1, <1>12, <3>1, ZenonT(60) DEF Bytes
  <2> QED BY <1>3, <2>1, <2>2, <2>3, ZenonT(60)
<1>14. ASSUME NEW h \in gaps, NEW x \in h.start .. h.end - 1, x \notin f.start .. f.end - 1
       PROVE  \E i \in GapsAfter(f) : x \in i.start .. i.end - 1
  <2>0. /\ h.start \in Int /\ h.end \in Int /\ h.start < h.end
        /\ x \in Int /\ h.start <= x /\ x < h.end
    BY <1>5
  <2>1. CASE h.start < g.start \/ h.start > e.start
    BY <1>3, <2>1, ZenonT(60)
  <2>2. CASE ~(h.start < g.start) /\ ~(h.start > e.start) /\ x < f.start
    <3>1. h = g
      BY <1>6, <1>7, <1>11, <2>0, <2>2, SMTT(60)
    <3>2. g.start <= x
      BY <2>0, <3>1, ZenonT(60)
    <3>3. x < cs
      BY <1>2, <1>6, <2>0, <2>2, SMTT(60)
    <3>4. x \in left.start .. left.end - 1 /\ g.start < cs
      BY <1>2, <1>4, <1>11, <2>0, <3>2, <3>3, SMTT(60)
    <3> QED BY <1>3, <3>4, ZenonT(60)
  <2>3. CASE ~(h.start < g.start) /\ ~(h.start > e.start) /\ ~(x < f.start)
    <3>1. x >= f.end
      BY <1>6, <1>14, <2>0, <2>3, SMTT(60)
    <3>2. x >= ce
      BY <1>2, <1>6, <2>0, <3>1, SMTT(60)
    <3>3. h = e
      BY <1>2, <1>9, <1>11, <2>0, <2>3, <3>2, SMTT(60)
    <3>4. x \in right.start .. right.end - 1 /\ ce < e.end
      BY <1>2, <1>4, <1>11, <2>0, <3>2, <3>3, SMTT(60)
    <3> QED BY <1>3, <3>4, ZenonT(60)
  <2> QED BY <2>1, <2>2, <2>3, ZenonT(60)
<1> QED BY <1>13, <1>14, SMTT(60) DEF Bytes

-----------------------------------------------------------------------------
(* The invariant. *)

\* What waits in the queue under k: bytes from k on, all received.
Waits(k, entry, bytes) ==
    /\ k \in 0 .. Length /\ entry.start = k
    /\ entry.end \in 0 .. Length /\ k <= entry.end
    /\ k .. entry.end - 1 \subseteq bytes

QueueInv ==
    /\ queue = [k \in DOMAIN queue |-> queue[k]]
    /\ \A k \in DOMAIN queue : Waits(k, queue[k], received)

DataInv ==
    /\ \A f \in frames : IsFrame(f)
    /\ IsGapList(gaps) /\ Bytes(gaps) = (0 .. Length) \ received
    /\ QueueInv
    /\ readPos \in 0 .. Length /\ 0 .. readPos - 1 \subseteq received
    /\ failed \in BOOLEAN

\* If no two frames overlap then a frame was received whole or not at all, what
\* waits are whole frames, and each that was received and not read does.
WholeInv ==
    /\ \A f \in frames : \/ f.start .. f.end - 1 \subseteq received
                         \/ \A x \in f.start .. f.end - 1 : x \notin received
    /\ \A k \in DOMAIN queue :
          /\ k < queue[k].end
          /\ \E f \in frames : f.start = k /\ f.end = queue[k].end
    /\ ~failed => \A f \in frames :
          readPos <= f.start /\ f.start \in received => f.start \in DOMAIN queue

\* Then every buffer has one user, and no user lost its buffer.
InUse(b) == b \in 0 .. arrived /\ b \notin released

BuffersInv ==
    /\ released \subseteq 1 .. arrived
    /\ InUse(current)
    /\ \A k \in DOMAIN queue : InUse(queue[k].buf)
    /\ \A k \in DOMAIN queue : queue[k].buf # NoBuffer =>
          /\ queue[k].buf # current
          /\ \A j \in DOMAIN queue : j # k => queue[j].buf # queue[k].buf

SorterInv ==
    /\ DataInv
    /\ arrived \in Nat
    /\ SentWhole => WholeInv /\ BuffersInv

\* The new sorter: one gap, nothing waits.
LEMMA InitStep ==
    Init => SorterInv
<1> SUFFICES ASSUME Init
             PROVE  SorterInv
  OBVIOUS
<1>0. Length \in Nat
  BY SorterAssumption, Zenon
<1>1. DOMAIN queue = {} /\ queue = [k \in DOMAIN queue |-> queue[k]]
  BY DEF Init
<1>2. \A f \in frames : IsFrame(f)
  BY SorterAssumption DEF Init, IsFrame
<1>3. IsGapList(gaps)
  BY <1>0 DEF Init, IsGapList, Apart, Infinity
<1>4. Bytes(gaps) = (0 .. Length) \ received
  <2> DEFINE r == [start |-> 0, end |-> Infinity]
  <2>1. gaps = {r} /\ received = {}
    BY Zenon DEF Init
  <2>2. r.start = 0 /\ r.end - 1 = Length
    BY <1>0 DEF Infinity
  <2> HIDE DEF r
  <2>3. Bytes(gaps) = r.start .. r.end - 1
    BY <2>1, Zenon DEF Bytes
  <2> QED BY <2>1, <2>2, <2>3, ZenonT(60)
<1>5. readPos \in 0 .. Length /\ 0 .. readPos - 1 \subseteq received /\ failed \in BOOLEAN
  <2>1. readPos = 0 /\ failed = FALSE
    BY Zenon DEF Init
  <2>2. readPos \in 0 .. Length /\ 0 .. readPos - 1 = {}
    BY <1>0, <2>1
  <2> QED BY <2>1, <2>2, ZenonT(60)
<1>6. DataInv
  BY <1>1, <1>2, <1>3, <1>4, <1>5, ZenonT(60) DEF DataInv, QueueInv
<1>7. arrived \in Nat
  BY DEF Init
<1>8. WholeInv
  BY <1>1, Zenon DEF WholeInv, Init
<1>9. BuffersInv
  <2>1. released \subseteq 1 .. arrived /\ InUse(current)
    BY DEF Init, InUse, NoBuffer
  <2> QED BY <1>1, <2>1, ZenonT(60) DEF BuffersInv
<1> QED BY <1>6, <1>7, <1>8, <1>9, ZenonT(60) DEF SorterInv

\* More received bytes do not disturb what waits.
LEMMA StillWaits ==
    ASSUME NEW k, NEW entry, NEW bytes, NEW more, Waits(k, entry, bytes)
    PROVE  Waits(k, entry, bytes \cup more)
BY Zenon DEF Waits

\* Arrives leaves the reader's side alone, and only adds received bytes.
LEMMA ArrivesStep ==
    ASSUME DataInv, NEW f \in frames, Arrives(f)
    PROVE  /\ IsFrame(f)
           /\ received' = received \cup (f.start .. f.end - 1)
           /\ (\A i \in frames : IsFrame(i))'
           /\ readPos' \in 0 .. Length /\ 0 .. readPos' - 1 \subseteq received'
           /\ readPos' = readPos /\ frames' = frames
<1>1. /\ received' = received \cup (f.start .. f.end - 1)
      /\ readPos' = readPos /\ frames' = frames
  BY Zenon DEF Arrives
<1>2. (\A i \in frames : IsFrame(i))'
  BY <1>1, ZenonT(60) DEF DataInv, IsFrame
<1> QED BY <1>1, <1>2, ZenonT(60) DEF DataInv

\* A frame without new bytes leaves exactly the gaps there were.
LEMMA NothingNew ==
    ASSUME DataInv, NEW f \in frames, Arrives(f), gaps' = gaps,
           \A x \in f.start .. f.end - 1 : x \notin Bytes(gaps)
    PROVE  (IsGapList(gaps) /\ Bytes(gaps) = (0 .. Length) \ received)'
<1>1. received' = received \cup (f.start .. f.end - 1)
  BY Zenon DEF Arrives
<1>2. IsGapList(gaps)'
  BY Zenon DEF DataInv, IsGapList, Apart, Infinity
<1>3. Bytes(gaps)' = Bytes(gaps)
  BY Zenon DEF Bytes
<1>4. Bytes(gaps) = (0 .. Length) \ received
  BY Zenon DEF DataInv
<1>5. Bytes(gaps) = (0 .. Length) \ received'
  BY <1>1, <1>4, ZenonT(60)
<1> QED BY <1>2, <1>3, <1>5, ZenonT(60)

\* A frame at the offset of an entry that is at least as long was received.
LEMMA KnownBytes ==
    ASSUME DataInv, NEW f \in frames, IsFrame(f), KnownAtOffset(f)
    PROVE  f.start .. f.end - 1 \subseteq received
<1>0. Length \in Nat
  BY SorterAssumption, ZenonT(60)
<1> SUFFICES ASSUME NEW x \in f.start .. f.end - 1
             PROVE  x \in received
  BY Zenon
<1>1. f.start # f.end
  BY <1>0 DEF IsFrame
<1>2. f.start \in DOMAIN queue /\ f.end <= queue[f.start].end
  BY <1>1, ZenonT(60) DEF KnownAtOffset
<1>3. Waits(f.start, queue[f.start], received)
  BY <1>2, ZenonT(60) DEF DataInv, QueueInv
<1>4. x \in f.start .. queue[f.start].end - 1
  BY <1>0, <1>2, <1>3, SMTT(60) DEF IsFrame, Waits
<1> QED BY <1>3, <1>4, ZenonT(60) DEF Waits

\* A duplicate at the offset of a waiting entry, or an empty frame.
LEMMA PushKnownData ==
    ASSUME DataInv, NEW f \in frames, PushKnown(f)
    PROVE  DataInv'
<1>0. Length \in Nat
  BY SorterAssumption, ZenonT(60)
<1>1. Arrives(f) /\ KnownAtOffset(f) /\ queue' = queue /\ gaps' = gaps /\ failed' = failed
  BY Zenon DEF PushKnown
<1>2. /\ IsFrame(f) /\ received' = received \cup (f.start .. f.end - 1)
      /\ (\A i \in frames : IsFrame(i))'
      /\ readPos' \in 0 .. Length /\ 0 .. readPos' - 1 \subseteq received'
  BY <1>1, ArrivesStep, ZenonT(60)
<1>3. f.start .. f.end - 1 \subseteq received
  BY <1>1, <1>2, KnownBytes, ZenonT(60)
<1>4. (IsGapList(gaps) /\ Bytes(gaps) = (0 .. Length) \ received)'
  BY <1>1, <1>3, NothingNew, ZenonT(60) DEF DataInv
<1>5. QueueInv'
  BY <1>1, <1>2, StillWaits, ZenonT(60) DEF DataInv, QueueInv
<1>6. failed' \in BOOLEAN
  BY <1>1, ZenonT(60) DEF DataInv
<1> QED BY <1>2, <1>4, <1>5, <1>6, ZenonT(60) DEF DataInv

\* The queue with the frame in place of a shorter one at its offset.
LEMMA ReplacedQueue ==
    ASSUME DataInv, NEW f \in frames, Arrives(f)
    PROVE  /\ DOMAIN QueueReplaced(f) = DOMAIN queue
           /\ \A k \in DOMAIN queue : Waits(k, QueueReplaced(f)[k], received')
           /\ QueueReplaced(f) = [k \in DOMAIN queue |-> QueueReplaced(f)[k]]
<1>1. /\ IsFrame(f) /\ received' = received \cup (f.start .. f.end - 1)
  BY ArrivesStep, ZenonT(60)
<1>2. queue = [k \in DOMAIN queue |-> queue[k]] /\ \A k \in DOMAIN queue : Waits(k, queue[k], received)
  BY Zenon DEF DataInv, QueueInv
<1>3. \A k \in DOMAIN queue : Waits(k, queue[k], received')
  BY <1>1, <1>2, StillWaits, ZenonT(60)
<1>4. Waits(f.start, Entry(f), received')
  BY <1>1 DEF Waits, Entry, IsFrame
<1>5. CASE f.start \notin DOMAIN queue
  BY <1>2, <1>3, <1>5, ZenonT(60) DEF QueueReplaced
<1>6. CASE f.start \in DOMAIN queue
  <2> DEFINE q == [queue EXCEPT ![f.start] = Entry(f)]
  <2>1. QueueReplaced(f) = q
    BY <1>6, ZenonT(60) DEF QueueReplaced
  <2>2. DOMAIN q = DOMAIN queue /\ q = [k \in DOMAIN queue |-> q[k]]
    OBVIOUS
  <2>3. \A k \in DOMAIN queue : q[k] = IF k = f.start THEN Entry(f) ELSE queue[k]
    OBVIOUS
  <2> HIDE DEF q
  <2>4. \A k \in DOMAIN queue : Waits(k, q[k], received')
    BY <1>3, <1>4, <2>3, ZenonT(60)
  <2> QED BY <2>1, <2>2, <2>4, ZenonT(60)
<1> QED BY <1>5, <1>6, ZenonT(60)

\* A frame that ends before the first gap it could fill was received.
LEMMA NoGapBytes ==
    ASSUME DataInv, NEW f \in frames, IsFrame(f), FillsNoGap(f)
    PROVE  f.start .. f.end - 1 \subseteq received
<1> DEFINE g == GapOf(f)
<1>0. Length \in Nat
  BY SorterAssumption, Zenon
<1>1. IsGapList(gaps) /\ f.end <= g.start
  BY Zenon DEF FillsNoGap, DataInv
<1>2. g \in gaps /\ \A h \in gaps : f.start <= h.end => g.start <= h.start
  BY <1>1, FirstGap, ZenonT(60)
<1> HIDE DEF g
<1>3. ASSUME NEW x \in f.start .. f.end - 1, NEW h \in gaps
      PROVE  x \notin h.start .. h.end - 1
  <2>1. f.start <= h.end => g.start <= h.start
    BY <1>2, ZenonT(60)
  <2>2. /\ h.start \in Int /\ h.end \in Int /\ g.start \in Int
        /\ f.start \in Int /\ f.end \in Int
    BY <1>0, <1>1, <1>2, SMTT(60) DEF IsGapList, Infinity, IsFrame
  <2> QED BY <1>1, <2>1, <2>2, SMTT(60)
<1>4. ASSUME NEW x \in f.start .. f.end - 1
      PROVE  x \in received
  <2>1. x \in 0 .. Length
    BY <1>0 DEF IsFrame
  <2>2. x \notin Bytes(gaps)
    BY <1>3, Zenon DEF Bytes
  <2> QED BY <2>1, <2>2, ZenonT(60) DEF DataInv
<1> QED BY <1>4, Zenon

\* A frame that fills no gap may still replace an entry.
LEMMA PushNoGapData ==
    ASSUME DataInv, NEW f \in frames, PushFillsNoGap(f)
    PROVE  DataInv'
<1>0. Length \in Nat
  BY SorterAssumption, Zenon
<1>1. /\ Arrives(f) /\ FillsNoGap(f)
      /\ queue' = QueueReplaced(f) /\ gaps' = gaps /\ failed' = failed
  BY Zenon DEF PushFillsNoGap
<1>2. /\ IsFrame(f)
      /\ (\A i \in frames : IsFrame(i))'
      /\ readPos' \in 0 .. Length /\ 0 .. readPos' - 1 \subseteq received'
  BY <1>1, ArrivesStep, ZenonT(60)
<1>3. f.start .. f.end - 1 \subseteq received
  BY <1>1, <1>2, NoGapBytes, ZenonT(60)
<1>4. (IsGapList(gaps) /\ Bytes(gaps) = (0 .. Length) \ received)'
  <2>1. \A x \in f.start .. f.end - 1 : x \notin Bytes(gaps)
    BY <1>3, Zenon DEF DataInv
  <2> QED BY <1>1, <2>1, NothingNew, ZenonT(60)
<1>5. QueueInv'
  BY <1>1, ReplacedQueue, ZenonT(60) DEF QueueInv
<1>6. failed' \in BOOLEAN
  BY <1>1, ZenonT(60) DEF DataInv
<1> QED BY <1>2, <1>4, <1>5, <1>6, ZenonT(60) DEF DataInv

\* What is queued when a gap is filled.
Piece(f) == [start |-> CutStart(f), end |-> CutEnd(f),
             buf |-> IF Copied(f) THEN NoBuffer ELSE BufferFor(f)]

\* The two outcomes of push: too many gaps, or the piece is queued.  In both
\* the entries it overtook are gone.
LEMMA FilledQueue ==
    ASSUME DataInv, NEW f \in frames, PushFillsGap(f)
    PROVE  LET kept == DOMAIN queue \ Deleted(f) IN
           /\ queue' = [k \in DOMAIN queue' |-> queue'[k]]
           /\ \/ /\ failed' = TRUE
                 /\ DOMAIN queue' = kept
                 /\ \A k \in kept : queue'[k] = QueueReplaced(f)[k]
              \/ /\ failed' = FALSE
                 /\ DOMAIN queue' = kept \cup {CutStart(f)}
                 /\ queue'[CutStart(f)] = Piece(f)
                 /\ \A k \in kept : k # CutStart(f) => queue'[k] = QueueReplaced(f)[k]
<1> DEFINE K == DOMAIN queue \ Deleted(f)
           kept == Restrict(QueueReplaced(f), K)
           c == CutStart(f)
           p == Piece(f)
           full == [k \in DOMAIN kept \cup {c} |-> IF k = c THEN p ELSE kept[k]]
<1>1. \/ failed' = TRUE /\ queue' = kept
      \/ failed' = FALSE /\ queue' = full
  BY Zenon DEF PushFillsGap, Piece, Key
<1>2. /\ kept = [k \in K |-> QueueReplaced(f)[k]]
      /\ DOMAIN kept = K /\ kept = [k \in DOMAIN kept |-> kept[k]]
      /\ \A k \in K : kept[k] = QueueReplaced(f)[k]
  BY Zenon DEF Restrict
<1> HIDE DEF K, kept, c, p
<1>3. /\ DOMAIN full = DOMAIN kept \cup {c} /\ full = [k \in DOMAIN full |-> full[k]]
      /\ full[c] = p
      /\ \A k \in DOMAIN kept : k # c => full[k] = kept[k]
  BY Zenon
<1> HIDE DEF full
<1>4. CASE failed' = TRUE /\ queue' = kept
  BY <1>2, <1>4, ZenonT(60) DEF K
<1>5. CASE failed' = FALSE /\ queue' = full
  <2>1. /\ DOMAIN queue' = K \cup {c} /\ queue' = [k \in DOMAIN queue' |-> queue'[k]]
        /\ queue'[c] = p
        /\ \A k \in K : k # c => queue'[k] = QueueReplaced(f)[k]
    BY <1>2, <1>3, <1>5, ZenonT(60)
  <2> QED BY <1>5, <2>1, ZenonT(60) DEF K, c, p
<1> QED BY <1>1, <1>4, <1>5, ZenonT(60)

\* A frame that fills a gap, or some.
LEMMA PushGapData ==
    ASSUME DataInv, NEW f \in frames, PushFillsGap(f)
    PROVE  DataInv'
<1>0. Length \in Nat
  BY SorterAssumption, Zenon
<1>1. Arrives(f) /\ ~KnownAtOffset(f) /\ ~FillsNoGap(f) /\ gaps' = GapsAfter(f)
  BY Zenon DEF PushFillsGap
<1>2. /\ IsFrame(f) /\ received' = received \cup (f.start .. f.end - 1)
      /\ (\A i \in frames : IsFrame(i))'
      /\ readPos' \in 0 .. Length /\ 0 .. readPos' - 1 \subseteq received'
  BY <1>1, ArrivesStep, ZenonT(60)
<1>3. f.start < f.end
  <2>1. f.start # f.end
    BY <1>1, Zenon DEF KnownAtOffset
  <2> QED BY <1>0, <1>2, <2>1, SMTT(60) DEF IsFrame
<1>4. IsGapList(gaps) /\ Bytes(gaps) = (0 .. Length) \ received
  BY Zenon DEF DataInv
<1>5. IsGapList(gaps)'
  <2>1. IsGapList(GapsAfter(f))
    BY <1>1, <1>2, <1>3, <1>4, GapsAfterList, ZenonT(60)
  <2> QED BY <1>1, <2>1, ZenonT(60) DEF IsGapList, Apart, Infinity
<1>6. (Bytes(gaps) = (0 .. Length) \ received)'
  <2>1. Bytes(GapsAfter(f)) = Bytes(gaps) \ (f.start .. f.end - 1)
    BY <1>1, <1>2, <1>3, <1>4, GapsAfterBytes, ZenonT(60)
  <2>2. Bytes(gaps)' = Bytes(GapsAfter(f))
    BY <1>1, Zenon DEF Bytes
  <2>3. Bytes(gaps)' = (0 .. Length) \ received'
    BY <1>2, <1>4, <2>1, <2>2, ZenonT(60)
  <2> QED BY <2>3, Zenon
<1>7. Waits(CutStart(f), Piece(f), received')
  <2>1. Cut(f)
    BY <1>1, <1>2, <1>3, <1>4, CutFrame, ZenonT(60)
  <2>2. Piece(f).start = CutStart(f) /\ Piece(f).end = CutEnd(f)
    BY DEF Piece
  <2>3. /\ CutStart(f) \in Int /\ CutEnd(f) \in Int /\ CutStart(f) <= CutEnd(f)
        /\ f.start <= CutStart(f) /\ CutEnd(f) <= f.end
    BY <2>1, ZenonT(60) DEF Cut
  <2>4. /\ CutStart(f) \in 0 .. Length /\ CutEnd(f) \in 0 .. Length
        /\ CutStart(f) .. CutEnd(f) - 1 \subseteq f.start .. f.end - 1
    BY <1>0, <1>2, <2>3, SMTT(60) DEF IsFrame
  <2>5. CutStart(f) .. CutEnd(f) - 1 \subseteq received'
    BY <1>2, <2>4, ZenonT(60)
  <2> QED BY <2>2, <2>3, <2>4, <2>5, ZenonT(60) DEF Waits
<1>8. \A k \in DOMAIN queue : Waits(k, QueueReplaced(f)[k], received')
  BY <1>1, ReplacedQueue, ZenonT(60)
<1>9. QueueInv' /\ failed' \in BOOLEAN
  <2> DEFINE K == DOMAIN queue \ Deleted(f)
  <2>1. /\ queue' = [k \in DOMAIN queue' |-> queue'[k]]
        /\ \/ /\ failed' = TRUE
              /\ DOMAIN queue' = K
              /\ \A k \in K : queue'[k] = QueueReplaced(f)[k]
           \/ /\ failed' = FALSE
              /\ DOMAIN queue' = K \cup {CutStart(f)}
              /\ queue'[CutStart(f)] = Piece(f)
              /\ \A k \in K : k # CutStart(f) => queue'[k] = QueueReplaced(f)[k]
    BY FilledQueue, ZenonT(60)
  <2>2. K \subseteq DOMAIN queue
    BY Zenon
  <2> HIDE DEF K
  <2>3. \A k \in DOMAIN queue' : Waits(k, queue'[k], received')
    BY <1>7, <1>8, <2>1, <2>2, ZenonT(60)
  <2> QED BY <2>1, <2>3, ZenonT(60) DEF QueueInv, Waits
<1> QED BY <1>2, <1>5, <1>6, <1>9, ZenonT(60) DEF DataInv

\* What Pop hands out starts where the reader is.
LEMMA PopData ==
    ASSUME DataInv, Pop
    PROVE  /\ DataInv'
           /\ readPos' = queue[readPos].end
           /\ readPos .. readPos' - 1 \subseteq received
           /\ readPos <= readPos'
<1> DEFINE e == queue[readPos]
<1>0. Length \in Nat
  BY SorterAssumption, Zenon
<1>1. /\ readPos \in DOMAIN queue /\ readPos' = readPos + (e.end - e.start)
      /\ queue' = Restrict(queue, DOMAIN queue \ {readPos})
      /\ gaps' = gaps /\ frames' = frames /\ failed' = failed /\ received' = received
  BY Zenon DEF Pop
<1>2. Waits(readPos, e, received)
  BY <1>1, ZenonT(60) DEF DataInv, QueueInv
<1>3. /\ readPos \in 0 .. Length /\ e.start = readPos /\ e.end \in 0 .. Length
      /\ readPos <= e.end /\ readPos .. e.end - 1 \subseteq received
  BY <1>2, ZenonT(60) DEF Waits
<1> HIDE DEF e
<1>4. readPos' = e.end
  BY <1>0, <1>1, <1>3, SMTT(60)
<1>5. 0 .. readPos' - 1 \subseteq received
  <2>1. 0 .. readPos - 1 \subseteq received
    BY Zenon DEF DataInv
  <2>2. \A x \in 0 .. readPos' - 1 : x \in 0 .. readPos - 1 \/ x \in readPos .. e.end - 1
    BY <1>0, <1>3, <1>4, SMTT(60)
  <2> QED BY <1>3, <2>1, <2>2, ZenonT(60)
<1>6. QueueInv'
  <2>1. /\ DOMAIN queue' = DOMAIN queue \ {readPos}
        /\ \A k \in DOMAIN queue \ {readPos} : queue'[k] = queue[k]
        /\ queue' = [k \in DOMAIN queue' |-> queue'[k]]
    BY <1>1, Zenon DEF Restrict
  <2>2. \A k \in DOMAIN queue : Waits(k, queue[k], received)
    BY Zenon DEF DataInv, QueueInv
  <2>3. \A k \in DOMAIN queue' : Waits(k, queue'[k], received')
    BY <1>1, <2>1, <2>2, ZenonT(60)
  <2> QED BY <2>1, <2>3, ZenonT(60) DEF QueueInv, Waits
<1>7. (IsGapList(gaps) /\ Bytes(gaps) = (0 .. Length) \ received)'
  BY <1>1, ZenonT(60) DEF DataInv, IsGapList, Apart, Bytes, Infinity
<1>8. (\A f \in frames : IsFrame(f))' /\ failed' \in BOOLEAN
  BY <1>1, ZenonT(60) DEF DataInv, IsFrame
<1>9. readPos' \in 0 .. Length
  BY <1>3, <1>4, ZenonT(60)
<1>10. DataInv'
  BY <1>1, <1>5, <1>6, <1>7, <1>8, <1>9, ZenonT(60) DEF DataInv
<1> QED BY <1>3, <1>4, <1>10, ZenonT(60) DEF e

-----------------------------------------------------------------------------
(* Frames that do not overlap. *)

\* A frame at the offset of a waiting entry is that entry: never longer, so
\* push replaces nothing.
LEMMA NothingReplaced ==
    ASSUME DataInv, SentWhole, WholeInv, NEW f \in frames, ~KnownAtOffset(f)
    PROVE  /\ f.start \notin DOMAIN queue
           /\ Replaced(f) = {} /\ QueueReplaced(f) = queue
<1>0. Length \in Nat
  BY SorterAssumption, ZenonT(60)
<1>1. ASSUME f.start \in DOMAIN queue
      PROVE  FALSE
  <2>1. f.start # f.end /\ ~(f.end <= queue[f.start].end)
    BY <1>1, ZenonT(60) DEF KnownAtOffset
  <2>2. PICK i \in frames : i.start = f.start /\ i.end = queue[f.start].end
    BY <1>1, ZenonT(60) DEF WholeInv
  <2>3. f.start < i.end
    BY <1>1, <2>2, ZenonT(60) DEF WholeInv
  <2>4. f = i \/ f.end <= i.start \/ i.end <= f.start
    BY Zenon DEF SentWhole
  <2>5. IsFrame(f) /\ IsFrame(i)
    BY Zenon DEF DataInv
  <2>6. /\ f.start \in Int /\ f.end \in Int /\ i.start \in Int /\ i.end \in Int
        /\ f.start <= f.end
    BY <1>0, <2>5, SMTT(60) DEF IsFrame
  <2>7. CASE f = i
    BY <2>1, <2>2, <2>6, <2>7, SMTT(60)
  <2>8. CASE f.end <= i.start \/ i.end <= f.start
    BY <2>1, <2>2, <2>3, <2>6, <2>8, SMTT(60)
  <2> QED BY <2>4, <2>7, <2>8, ZenonT(60)
<1> QED BY <1>1, ZenonT(60) DEF Replaced, QueueReplaced

\* A frame that fills a gap brings only new bytes: one that was received waits
\* in the queue, or lies before the reader.
LEMMA AllNew ==
    ASSUME DataInv, SentWhole, WholeInv, NEW f \in frames,
           ~failed, ~KnownAtOffset(f), ~FillsNoGap(f), f.start < f.end
    PROVE  \A x \in f.start .. f.end - 1 : x \notin received
<1> DEFINE g == GapOf(f)
<1>0. Length \in Nat
  BY SorterAssumption, ZenonT(60)
<1>1. IsFrame(f) /\ IsGapList(gaps) /\ Bytes(gaps) = (0 .. Length) \ received
  BY Zenon DEF DataInv
<1>2. g \in gaps /\ f.start <= g.end
  BY <1>1, FirstGap, ZenonT(60)
<1>3. ~(f.end <= g.start)
  BY Zenon DEF FillsNoGap
<1> HIDE DEF g
<1>4. /\ g.start \in 0 .. Infinity /\ g.end \in 0 .. Infinity /\ g.start < g.end
      /\ f.start \in Int /\ f.end \in Int
  BY <1>0, <1>1, <1>2, SMTT(60) DEF IsGapList, IsFrame
<1>5. Infinity = Length + 1
  BY DEF Infinity
<1>6. \A x \in g.start .. g.end - 1 : x \notin received
  BY <1>1, <1>2, ZenonT(60) DEF Bytes
<1>7. ASSUME f.start .. f.end - 1 \subseteq received
      PROVE  FALSE
  <2>1. CASE f.start < g.end
    <3> DEFINE x == IF f.start < g.start THEN g.start ELSE f.start
    <3>1. x \in f.start .. f.end - 1 /\ x \in g.start .. g.end - 1
      BY <1>0, <1>3, <1>4, <1>5, <2>1, SMTT(60)
    <3> QED BY <1>6, <1>7, <3>1, ZenonT(60)
  <2>2. CASE ~(f.start < g.end)
    <3>1. f.start = g.end /\ f.start \in f.start .. f.end - 1 /\ g.start \in g.start .. g.end - 1
      BY <1>0, <1>2, <1>4, <1>5, <2>2, SMTT(60)
    <3>2. g.start \notin received /\ f.start \in received
      BY <1>6, <1>7, <3>1, ZenonT(60)
    <3>3. readPos \in 0 .. Length /\ 0 .. readPos - 1 \subseteq received
      BY Zenon DEF DataInv
    <3>4. g.start \notin 0 .. readPos - 1
      BY <3>2, <3>3, ZenonT(60)
    <3>5. readPos <= f.start
      BY <1>0, <1>4, <1>5, <3>1, <3>3, <3>4, SMTT(60)
    <3>6. f.start \in DOMAIN queue
      BY <3>2, <3>5, ZenonT(60) DEF WholeInv
    <3> QED BY <3>6, NothingReplaced, ZenonT(60)
  <2> QED BY <2>1, <2>2, ZenonT(60)
<1> QED BY <1>7, ZenonT(60) DEF WholeInv

\* Its bytes lie in one gap, so it is not cut, and overtakes nothing.
LEMMA NothingCut ==
    ASSUME DataInv, NEW f \in frames, ~FillsNoGap(f), f.start < f.end,
           \A x \in f.start .. f.end - 1 : x \notin received
    PROVE  CutStart(f) = f.start /\ CutEnd(f) = f.end /\ Deleted(f) = {}
<1> DEFINE g == GapOf(f)
           e == EndGap(f)
<1>0. Length \in Nat /\ Infinity = Length + 1
  BY SorterAssumption, ZenonT(60) DEF Infinity
<1>1. IsFrame(f) /\ IsGapList(gaps) /\ Bytes(gaps) = (0 .. Length) \ received
  BY Zenon DEF DataInv
<1>2. /\ g \in gaps /\ e \in gaps
      /\ g = e \/ g.end < e.start
  BY <1>1, CutFrame, ZenonT(60)
<1>3. e.start <= f.end
  BY <1>1, LastGap, ZenonT(60) DEF IsLastGap
<1>4. \A h \in gaps : h # g => \/ h.end < g.start /\ h.end < f.start
                               \/ g.end < h.start /\ f.start < h.start
  BY <1>1, OtherGaps, ZenonT(60)
<1>5. /\ CutStart(f) = IF f.start < g.start THEN g.start ELSE f.start
      /\ CutEnd(f) = IF f.end > e.end THEN e.end ELSE f.end
  BY Zenon DEF CutStart, CutEnd
<1>6. Passed(f) = {h \in gaps : h.start >= g.start /\ h.end <= f.end}
  BY Zenon DEF Passed
<1> HIDE DEF g, e
<1>7. \A h \in gaps : h.start \in Int /\ h.end \in Int /\ h.start < h.end
  BY <1>0, <1>1, SMTT(60) DEF IsGapList
<1>8. f.start \in Int /\ f.end \in Int /\ f.start >= 0 /\ f.end <= Length
  BY <1>0, <1>1, SMTT(60) DEF IsFrame
<1>9. ASSUME NEW x \in f.start .. f.end - 1
      PROVE  \E h \in gaps : x \in h.start .. h.end - 1
  <2>1. x \in 0 .. Length
    BY <1>0, <1>8
  <2>2. x \in Bytes(gaps)
    BY <1>1, <2>1, ZenonT(60)
  <2> QED BY <2>2, ZenonT(60) DEF Bytes
<1>10. PICK h \in gaps : f.start \in h.start .. h.end - 1
  <2>1. f.start \in f.start .. f.end - 1
    BY <1>8
  <2> QED BY <1>9, <2>1, ZenonT(60)
<1>11. h = g
  BY <1>4, <1>7, <1>8, <1>10, SMTT(60)
<1>12. g.start \in Int /\ g.end \in Int /\ g.start <= f.start /\ f.start < g.end
  BY <1>7, <1>8, <1>10, <1>11, SMTT(60)
<1>13. f.end <= g.end
  <2> SUFFICES ASSUME ~(f.end <= g.end)
               PROVE  FALSE
    BY Zenon
  <2>1. g.end \in f.start .. f.end - 1
    BY <1>8, <1>12, SMTT(60)
  <2>2. PICK i \in gaps : g.end \in i.start .. i.end - 1
    BY <1>9, <2>1, ZenonT(60)
  <2>3. i # g => g.end < i.start \/ i.end < g.start
    BY <1>4, <2>2, ZenonT(60)
  <2>4. i.start \in Int /\ i.end \in Int
    BY <1>7, ZenonT(60)
  <2>5. i # g
    BY <1>12, <2>2, <2>4, SMTT(60)
  <2> QED BY <1>8, <1>12, <2>2, <2>3, <2>4, <2>5, SMTT(60)
<1>14. e = g
  BY <1>2, <1>3, <1>7, <1>8, <1>12, <1>13, SMTT(60)
<1>15. CutStart(f) = f.start /\ CutEnd(f) = f.end
  BY <1>5, <1>8, <1>12, <1>13, <1>14, SMTT(60)
<1>16. \A i \in Passed(f) : i = g
  BY <1>4, <1>6, <1>7, <1>8, <1>12, <1>13, SMTT(60)
<1>17. Deleted(f) = {}
  BY <1>14, <1>16, ZenonT(60) DEF Deleted, e
<1> QED BY <1>15, <1>17, ZenonT(60)

\* The frame is received whole, and where it waits it is found.
LEMMA GapWhole ==
    ASSUME DataInv, SentWhole, WholeInv, NEW f \in frames, f.start < f.end,
           received' = received \cup (f.start .. f.end - 1),
           readPos' = readPos, frames' = frames, ~failed,
           DOMAIN queue \subseteq DOMAIN queue',
           ~failed' => f.start \in DOMAIN queue',
           \A k \in DOMAIN queue' : \/ k \in DOMAIN queue /\ queue'[k].end = queue[k].end
                                    \/ k = f.start /\ queue'[k].end = f.end
    PROVE  WholeInv'
<1>0. Length \in Nat
  BY SorterAssumption, ZenonT(60)
<1>1. ASSUME NEW i \in frames
      PROVE  /\ i.start \in Int /\ i.end \in Int /\ i.start <= i.end
             /\ f = i \/ f.end <= i.start \/ i.end <= f.start
  <2>1. IsFrame(i)
    BY Zenon DEF DataInv
  <2>2. f = i \/ f.end <= i.start \/ i.end <= f.start
    BY Zenon DEF SentWhole
  <2> QED BY <1>0, <2>1, <2>2, SMTT(60) DEF IsFrame
<1>2. f.start \in Int /\ f.end \in Int
  BY <1>1, ZenonT(60)
<1>3. ASSUME NEW i \in frames
      PROVE  \/ i.start .. i.end - 1 \subseteq received'
             \/ \A x \in i.start .. i.end - 1 : x \notin received'
  <2>1. CASE i = f
    BY <2>1, ZenonT(60)
  <2>2. CASE i # f
    <3>1. f.end <= i.start \/ i.end <= f.start
      BY <1>1, <2>2, ZenonT(60)
    <3>2. \A x \in i.start .. i.end - 1 : x \notin f.start .. f.end - 1
      BY <1>1, <1>2, <3>1, SMTT(60)
    <3>3. \/ i.start .. i.end - 1 \subseteq received
          \/ \A x \in i.start .. i.end - 1 : x \notin received
      BY Zenon DEF WholeInv
    <3> QED BY <3>2, <3>3, ZenonT(60)
  <2> QED BY <2>1, <2>2, ZenonT(60)
<1>4. ASSUME NEW k \in DOMAIN queue'
      PROVE  k < queue'[k].end /\ \E i \in frames : i.start = k /\ i.end = queue'[k].end
  <2>1. CASE k \in DOMAIN queue /\ queue'[k].end = queue[k].end
    BY <2>1, ZenonT(60) DEF WholeInv
  <2>2. CASE k = f.start /\ queue'[k].end = f.end
    BY <2>2, Zenon
  <2> QED BY <2>1, <2>2, ZenonT(60)
<1>5. ASSUME ~failed', NEW i \in frames, readPos <= i.start, i.start \in received'
      PROVE  i.start \in DOMAIN queue'
  <2>1. CASE i.start \in received
    BY <1>5, <2>1, ZenonT(60) DEF WholeInv
  <2>2. CASE i.start \in f.start .. f.end - 1
    <3>1. i.start = f.start
      <4>1. CASE f = i
        BY <4>1, ZenonT(60)
      <4>2. CASE f.end <= i.start \/ i.end <= f.start
        BY <1>1, <1>2, <2>2, <4>2, SMTT(60)
      <4> QED BY <1>1, <4>1, <4>2, ZenonT(60)
    <3> QED BY <1>5, <3>1, ZenonT(60)
  <2> QED BY <1>5, <2>1, <2>2, ZenonT(60)
<1> QED BY <1>3, <1>4, <1>5, ZenonT(60) DEF WholeInv

\* Steps that leave the data alone.
LEMMA SameData ==
    ASSUME DataInv, UNCHANGED <<queue, gaps, readPos, frames, failed, received>>
    PROVE  DataInv'
<1>1. (\A f \in frames : IsFrame(f))'
  BY Zenon DEF DataInv, IsFrame
<1>2. IsGapList(gaps)'
  BY Zenon DEF DataInv, IsGapList, Apart, Infinity
<1>3. (Bytes(gaps) = (0 .. Length) \ received)'
  BY ZenonT(60) DEF DataInv, Bytes
<1>4. QueueInv'
  BY Zenon DEF DataInv, QueueInv, Waits
<1>5. (readPos \in 0 .. Length /\ 0 .. readPos - 1 \subseteq received /\ failed \in BOOLEAN)'
  BY Zenon DEF DataInv
<1> QED BY <1>1, <1>2, <1>3, <1>4, <1>5, ZenonT(60) DEF DataInv

\* Nothing new was received, and nothing queued.
LEMMA SameWhole ==
    ASSUME WholeInv, UNCHANGED <<received, readPos, frames, queue, failed>>
    PROVE  WholeInv'
BY Zenon DEF WholeInv

\* The buffer ParseStreamFrame took is a new one.
LEMMA NewBuffer ==
    ASSUME NEW f, arrived \in Nat
    PROVE  BufferFor(f) = NoBuffer \/ BufferFor(f) = arrived + 1
BY Zenon DEF BufferFor

\* Giving back the new buffer at once disturbs no other.
LEMMA NewBufferReleased ==
    ASSUME BuffersInv, arrived \in Nat, arrived' = arrived + 1, NEW f,
           released' = released \cup ({BufferFor(f)} \ {NoBuffer}),
           UNCHANGED <<current, queue>>
    PROVE  BuffersInv'
<1>1. BufferFor(f) = NoBuffer \/ BufferFor(f) = arrived + 1
  BY NewBuffer, ZenonT(60)
<1>2. released \subseteq 1 .. arrived
  BY Zenon DEF BuffersInv
<1>3. released' \subseteq 1 .. arrived'
  <2>1. 1 .. arrived \subseteq 1 .. arrived' /\ arrived + 1 \in 1 .. arrived'
    OBVIOUS
  <2> QED BY <1>1, <1>2, <2>1, ZenonT(60)
<1>4. ASSUME NEW b, InUse(b)
      PROVE  b \in 0 .. arrived' /\ b \notin released'
  <2>1. b \in 0 .. arrived /\ b \notin released
    BY <1>4, ZenonT(60) DEF InUse
  <2>2. b \in 0 .. arrived' /\ b # arrived + 1
    BY <2>1
  <2>3. b \notin released'
    BY <1>1, <2>1, <2>2, ZenonT(60)
  <2> QED BY <2>2, <2>3, ZenonT(60)
<1>5. (InUse(current) /\ \A k \in DOMAIN queue : InUse(queue[k].buf))'
  <2>1. InUse(current) /\ \A k \in DOMAIN queue : InUse(queue[k].buf)
    BY Zenon DEF BuffersInv
  <2> QED BY <1>4, <2>1, ZenonT(60) DEF InUse
<1> QED BY <1>3, <1>5, ZenonT(60) DEF BuffersInv

-----------------------------------------------------------------------------
(* Every step preserves the invariant. *)

\* Frames are what the sender chose at the start.
LEMMA SameFrames ==
    ASSUME SorterInv, frames' = frames, arrived' \in Nat, DataInv',
           SentWhole => WholeInv' /\ BuffersInv'
    PROVE  SorterInv'
<1>1. SentWhole' => SentWhole
  BY Zenon DEF SentWhole
<1> QED BY <1>1, ZenonT(60) DEF SorterInv

\* A duplicate is dropped, its buffer given back.
LEMMA PushKnownStep ==
    ASSUME SorterInv, NEW f \in frames, PushKnown(f)
    PROVE  SorterInv'
<1>1. /\ Arrives(f) /\ KnownAtOffset(f) /\ arrived' = arrived + 1
      /\ released' = released \cup ({BufferFor(f)} \ {NoBuffer})
      /\ received' = received \cup (f.start .. f.end - 1)
      /\ UNCHANGED <<readPos, current, frames, queue, failed>>
  BY ZenonT(60) DEF PushKnown, Arrives, Release
<1>2. DataInv /\ arrived \in Nat
  BY ZenonT(60) DEF SorterInv
<1>3. DataInv'
  BY <1>2, PushKnownData, ZenonT(60)
<1>4. arrived' \in Nat
  BY <1>1, <1>2, SMTT(60)
<1>5. ASSUME SentWhole
      PROVE  WholeInv' /\ BuffersInv'
  <2>1. WholeInv /\ BuffersInv
    BY <1>5, ZenonT(60) DEF SorterInv
  <2>2. f.start .. f.end - 1 \subseteq received
    BY <1>1, <1>2, KnownBytes, ZenonT(60) DEF DataInv
  <2>3. received' = received
    BY <1>1, <2>2, ZenonT(60)
  <2>4. WholeInv'
    BY <1>1, <2>1, <2>3, SameWhole, ZenonT(60)
  <2>5. BuffersInv'
    BY <1>1, <1>2, <2>1, NewBufferReleased, ZenonT(60)
  <2> QED BY <2>4, <2>5, ZenonT(60)
<1> QED BY <1>1, <1>3, <1>4, <1>5, SameFrames, ZenonT(60)

\* The same, when only the list of gaps shows that it is one.
LEMMA PushNoGapStep ==
    ASSUME SorterInv, NEW f \in frames, PushFillsNoGap(f)
    PROVE  SorterInv'
<1>1. /\ Arrives(f) /\ ~KnownAtOffset(f) /\ FillsNoGap(f) /\ arrived' = arrived + 1
      /\ released' = released \cup ((Replaced(f) \cup {BufferFor(f)}) \ {NoBuffer})
      /\ received' = received \cup (f.start .. f.end - 1)
      /\ queue' = QueueReplaced(f)
      /\ UNCHANGED <<readPos, current, frames, failed>>
  BY ZenonT(60) DEF PushFillsNoGap, Arrives, Release
<1>2. DataInv /\ arrived \in Nat
  BY Zenon DEF SorterInv
<1>3. DataInv'
  BY <1>2, PushNoGapData, Zenon
<1>4. arrived' \in Nat
  BY <1>1, <1>2, SMTT(60)
<1>5. ASSUME SentWhole
      PROVE  WholeInv' /\ BuffersInv'
  <2>1. WholeInv /\ BuffersInv
    BY <1>5, Zenon DEF SorterInv
  <2>2. Replaced(f) = {} /\ QueueReplaced(f) = queue
    BY <1>1, <1>2, <1>5, <2>1, NothingReplaced, ZenonT(60)
  <2>3. f.start .. f.end - 1 \subseteq received
    BY <1>1, <1>2, NoGapBytes, ZenonT(60) DEF DataInv
  <2>4. queue' = queue /\ received' = received
    BY <1>1, <2>2, <2>3, ZenonT(60)
  <2>5. released' = released \cup ({BufferFor(f)} \ {NoBuffer})
    BY <1>1, <2>2, ZenonT(60)
  <2>6. WholeInv'
    BY <1>1, <2>1, <2>4, SameWhole, ZenonT(60)
  <2>7. BuffersInv'
    BY <1>1, <1>2, <2>1, <2>4, <2>5, NewBufferReleased, ZenonT(60)
  <2> QED BY <2>6, <2>7, Zenon
<1> QED BY <1>1, <1>3, <1>4, <1>5, SameFrames, ZenonT(60)

\* The frame that fills a gap keeps its buffer; it is the only one with it.
LEMMA GapBuffers ==
    ASSUME BuffersInv, arrived \in Nat, arrived' = arrived + 1, NEW f,
           released' = released, current' = current,
           \A k \in DOMAIN queue' : \/ k \in DOMAIN queue /\ queue'[k].buf = queue[k].buf
                                    \/ k = f.start /\ queue'[k].buf = BufferFor(f)
    PROVE  BuffersInv'
<1>1. BufferFor(f) = NoBuffer \/ BufferFor(f) = arrived + 1
  BY NewBuffer, ZenonT(60)
<1>2. /\ released \subseteq 1 .. arrived /\ InUse(current)
      /\ \A k \in DOMAIN queue : InUse(queue[k].buf)
      /\ \A k \in DOMAIN queue : queue[k].buf # NoBuffer =>
            /\ queue[k].buf # current
            /\ \A j \in DOMAIN queue : j # k => queue[j].buf # queue[k].buf
  BY Zenon DEF BuffersInv
<1>3. /\ 1 .. arrived \subseteq 1 .. arrived' /\ 0 .. arrived \subseteq 0 .. arrived'
      /\ arrived + 1 \in 0 .. arrived' /\ arrived + 1 \notin 0 .. arrived
      /\ arrived + 1 \notin 1 .. arrived
      /\ NoBuffer \in 0 .. arrived' /\ NoBuffer \notin 1 .. arrived
  BY DEF NoBuffer
<1>4. released' \subseteq 1 .. arrived' /\ InUse(current)'
  BY <1>2, <1>3, ZenonT(60) DEF InUse
<1>5. BufferFor(f) \in 0 .. arrived' /\ BufferFor(f) \notin released
  BY <1>1, <1>2, <1>3, ZenonT(60)
<1>6. (\A k \in DOMAIN queue : InUse(queue[k].buf))'
  <2>1. ASSUME NEW k \in DOMAIN queue'
        PROVE  queue'[k].buf \in 0 .. arrived' /\ queue'[k].buf \notin released
    <3>1. CASE k \in DOMAIN queue /\ queue'[k].buf = queue[k].buf
      BY <1>2, <1>3, <3>1, ZenonT(60) DEF InUse
    <3>2. CASE queue'[k].buf = BufferFor(f)
      BY <1>5, <3>2, ZenonT(60)
    <3> QED BY <3>1, <3>2, ZenonT(60)
  <2> QED BY <2>1, ZenonT(60) DEF InUse
<1>7. \A k \in DOMAIN queue : queue[k].buf # arrived + 1
  BY <1>2, <1>3, ZenonT(60) DEF InUse
<1>8. current # arrived + 1
  BY <1>2, <1>3, ZenonT(60) DEF InUse
<1>9. ASSUME NEW k \in DOMAIN queue', queue'[k].buf # NoBuffer
      PROVE  queue'[k].buf # current
  BY <1>1, <1>2, <1>8, <1>9, ZenonT(60)
<1>10. ASSUME NEW k \in DOMAIN queue', queue'[k].buf # NoBuffer,
              NEW j \in DOMAIN queue', j # k
       PROVE  queue'[j].buf # queue'[k].buf
  <2>1. CASE j \in DOMAIN queue /\ queue'[j].buf = queue[j].buf
             /\ k \in DOMAIN queue /\ queue'[k].buf = queue[k].buf
    BY <1>2, <1>10, <2>1, ZenonT(60)
  <2>2. CASE j \in DOMAIN queue /\ queue'[j].buf = queue[j].buf /\ queue'[k].buf = BufferFor(f)
    BY <1>1, <1>7, <1>10, <2>2, ZenonT(60)
  <2>3. CASE k \in DOMAIN queue /\ queue'[k].buf = queue[k].buf /\ queue'[j].buf = BufferFor(f)
    BY <1>1, <1>7, <1>10, <2>3, ZenonT(60)
  <2> QED BY <1>10, <2>1, <2>2, <2>3, ZenonT(60)
<1> QED BY <1>4, <1>6, <1>9, <1>10, ZenonT(60) DEF BuffersInv

\* New bytes are queued, or there are too many gaps.
LEMMA PushGapStep ==
    ASSUME SorterInv, NEW f \in frames, PushFillsGap(f)
    PROVE  SorterInv'
<1>0. Length \in Nat
  BY SorterAssumption, Zenon
<1>1. /\ Arrives(f) /\ ~failed /\ ~KnownAtOffset(f) /\ ~FillsNoGap(f)
      /\ arrived' = arrived + 1
      /\ received' = received \cup (f.start .. f.end - 1)
      /\ UNCHANGED <<readPos, current, frames>>
  BY ZenonT(60) DEF PushFillsGap, Arrives
<1>2. DataInv /\ arrived \in Nat
  BY Zenon DEF SorterInv
<1>3. DataInv'
  BY <1>2, PushGapData, Zenon
<1>4. arrived' \in Nat
  BY <1>1, <1>2, SMTT(60)
<1>5. f.start < f.end
  <2>1. f.start # f.end /\ IsFrame(f)
    BY <1>1, <1>2, ZenonT(60) DEF KnownAtOffset, DataInv
  <2> QED BY <1>0, <2>1, SMTT(60) DEF IsFrame
<1>6. ASSUME SentWhole
      PROVE  WholeInv' /\ BuffersInv'
  <2>1. WholeInv /\ BuffersInv
    BY <1>6, Zenon DEF SorterInv
  <2>2. f.start \notin DOMAIN queue /\ Replaced(f) = {} /\ QueueReplaced(f) = queue
    BY <1>1, <1>2, <1>6, <2>1, NothingReplaced, ZenonT(60)
  <2>3. \A x \in f.start .. f.end - 1 : x \notin received
    BY <1>1, <1>2, <1>5, <1>6, <2>1, AllNew, ZenonT(60)
  <2>4. CutStart(f) = f.start /\ CutEnd(f) = f.end /\ Deleted(f) = {}
    BY <1>1, <1>2, <1>5, <2>3, NothingCut, ZenonT(60)
  <2>5. ~Copied(f)
    BY <2>4, ZenonT(60) DEF Copied
  <2>6. released' = released
    <3>1. \/ released' = released \cup (({} \cup {queue[k].buf : k \in {}}) \ {NoBuffer})
          \/ released' = released \cup ((({} \cup {queue[k].buf : k \in {}}) \cup {}) \ {NoBuffer})
      BY <2>2, <2>4, <2>5, ZenonT(60) DEF PushFillsGap, Release
    <3> QED BY <3>1, ZenonT(60)
  <2>7. Piece(f).end = f.end /\ Piece(f).buf = BufferFor(f)
    BY <2>4, <2>5, SMTT(60) DEF Piece
  <2>8. \/ /\ failed' = TRUE
           /\ DOMAIN queue' = DOMAIN queue
           /\ \A k \in DOMAIN queue : queue'[k] = queue[k]
        \/ /\ failed' = FALSE
           /\ DOMAIN queue' = DOMAIN queue \cup {f.start}
           /\ queue'[f.start] = Piece(f)
           /\ \A k \in DOMAIN queue : k # f.start => queue'[k] = queue[k]
    <3>1. DOMAIN queue \ Deleted(f) = DOMAIN queue
      BY <2>4, ZenonT(60)
    <3> QED BY <1>2, <2>2, <2>4, <3>1, FilledQueue, ZenonT(60)
  <2>9. /\ DOMAIN queue \subseteq DOMAIN queue'
        /\ ~failed' => f.start \in DOMAIN queue'
        /\ \A k \in DOMAIN queue' : \/ k \in DOMAIN queue /\ queue'[k] = queue[k]
                                    \/ k = f.start /\ queue'[k] = Piece(f)
    BY <2>2, <2>8, ZenonT(60)
  <2>10. WholeInv'
    <3>1. \A k \in DOMAIN queue' : \/ k \in DOMAIN queue /\ queue'[k].end = queue[k].end
                                   \/ k = f.start /\ queue'[k].end = f.end
      BY <2>7, <2>9, ZenonT(60)
    <3> QED BY <1>1, <1>2, <1>5, <1>6, <2>1, <2>9, <3>1, GapWhole, ZenonT(60)
  <2>11. BuffersInv'
    <3>1. \A k \in DOMAIN queue' : \/ k \in DOMAIN queue /\ queue'[k].buf = queue[k].buf
                                   \/ k = f.start /\ queue'[k].buf = BufferFor(f)
      BY <2>7, <2>9, ZenonT(60)
    <3> QED BY <1>1, <1>2, <2>1, <2>6, <3>1, GapBuffers, ZenonT(60)
  <2> QED BY <2>10, <2>11, Zenon
<1> QED BY <1>1, <1>3, <1>4, <1>6, SameFrames, ZenonT(60)

\* Pop gives back the buffer read before, and nobody else used it.
LEMMA PopStep ==
    ASSUME SorterInv, Pop
    PROVE  SorterInv'
<1>0. Length \in Nat
  BY SorterAssumption, Zenon
<1>1. /\ ~failed /\ readPos \in DOMAIN queue
      /\ released' = released \cup ({current} \ {NoBuffer})
      /\ current' = queue[readPos].buf
      /\ queue' = Restrict(queue, DOMAIN queue \ {readPos})
      /\ UNCHANGED <<gaps, frames, arrived, failed, received>>
  BY Zenon DEF Pop, Release
<1>2. DataInv /\ arrived \in Nat
  BY Zenon DEF SorterInv
<1>3. /\ DataInv' /\ readPos' = queue[readPos].end
  BY <1>2, PopData, ZenonT(60)
<1>4. /\ DOMAIN queue' = DOMAIN queue \ {readPos}
      /\ \A k \in DOMAIN queue' : queue'[k] = queue[k]
  BY <1>1, ZenonT(60) DEF Restrict
<1>5. ASSUME SentWhole
      PROVE  WholeInv' /\ BuffersInv'
  <2>1. WholeInv /\ BuffersInv
    BY <1>5, ZenonT(60) DEF SorterInv
  <2>2. readPos < readPos'
    BY <1>1, <1>3, <2>1, ZenonT(60) DEF WholeInv
  <2>3. \A f \in frames : readPos' <= f.start => readPos <= f.start /\ f.start # readPos
    <3>1. readPos \in Int /\ readPos' \in Int /\ \A f \in frames : f.start \in Int
      BY <1>0, <1>2, <1>3, SMTT(60) DEF DataInv, IsFrame
    <3> QED BY <2>2, <3>1, SMTT(60)
  <2>4. WholeInv'
    <3>1. ASSUME NEW f \in frames, readPos' <= f.start, f.start \in received
          PROVE  f.start \in DOMAIN queue'
      BY <1>1, <1>4, <2>1, <2>3, <3>1, ZenonT(60) DEF WholeInv
    <3>2. ASSUME NEW k \in DOMAIN queue'
          PROVE  k < queue'[k].end /\ \E f \in frames : f.start = k /\ f.end = queue'[k].end
      BY <1>4, <2>1, ZenonT(60) DEF WholeInv
    <3>3. \A f \in frames : \/ f.start .. f.end - 1 \subseteq received
                            \/ \A x \in f.start .. f.end - 1 : x \notin received
      BY <2>1, ZenonT(60) DEF WholeInv
    <3> QED BY <1>1, <3>1, <3>2, <3>3, ZenonT(60) DEF WholeInv
  <2>5. /\ released \subseteq 1 .. arrived /\ InUse(current)
        /\ \A k \in DOMAIN queue : InUse(queue[k].buf)
        /\ \A k \in DOMAIN queue : queue[k].buf # NoBuffer =>
              /\ queue[k].buf # current
              /\ \A j \in DOMAIN queue : j # k => queue[j].buf # queue[k].buf
    BY <2>1, ZenonT(60) DEF BuffersInv
  <2>6. released' \subseteq 1 .. arrived'
    <3>1. current # NoBuffer => current \in 1 .. arrived
      BY <1>2, <2>5, SMTT(60) DEF InUse, NoBuffer
    <3> QED BY <1>1, <2>5, <3>1, ZenonT(60)
  <2>7. NoBuffer \notin released'
    BY <1>2, <1>1, <2>6, SMTT(60) DEF NoBuffer
  <2>8. ASSUME NEW k \in DOMAIN queue
        PROVE  queue[k].buf \in 0 .. arrived' /\ queue[k].buf \notin released'
    <3>1. queue[k].buf \in 0 .. arrived /\ queue[k].buf \notin released
      BY <2>5, ZenonT(60) DEF InUse
    <3>2. queue[k].buf # NoBuffer => queue[k].buf # current
      BY <2>5, ZenonT(60)
    <3> QED BY <1>1, <2>7, <3>1, <3>2, ZenonT(60)
  <2>9. (InUse(current) /\ \A k \in DOMAIN queue : InUse(queue[k].buf))'
    BY <1>1, <1>4, <2>8, ZenonT(60) DEF InUse
  <2>10. ASSUME NEW k \in DOMAIN queue', queue'[k].buf # NoBuffer
         PROVE  /\ queue'[k].buf # current'
                /\ \A j \in DOMAIN queue' : j # k => queue'[j].buf # queue'[k].buf
    <3>1. k \in DOMAIN queue /\ k # readPos /\ queue'[k] = queue[k]
      BY <1>4, ZenonT(60)
    <3>2. \A j \in DOMAIN queue : j # k => queue[j].buf # queue[k].buf
      BY <2>5, <2>10, <3>1, ZenonT(60)
    <3> QED BY <1>1, <1>4, <3>1, <3>2, ZenonT(60)
  <2>11. BuffersInv'
    BY <2>6, <2>9, <2>10, ZenonT(60) DEF BuffersInv
  <2> QED BY <2>4, <2>11, ZenonT(60)
<1> QED BY <1>1, <1>2, <1>3, <1>5, SameFrames, ZenonT(60)

\* Nothing to read: the buffer read before is given back.
LEMMA PopNothingStep ==
    ASSUME SorterInv, PopNothing
    PROVE  SorterInv'
<1>1. /\ released' = released \cup ({current} \ {NoBuffer})
      /\ current' = NoBuffer
      /\ UNCHANGED <<queue, gaps, readPos, frames, arrived, failed, received>>
  BY ZenonT(60) DEF PopNothing, Release
<1>2. DataInv /\ arrived \in Nat
  BY Zenon DEF SorterInv
<1>3. DataInv'
  BY <1>1, <1>2, SameData, ZenonT(60)
<1>4. ASSUME SentWhole
      PROVE  WholeInv' /\ BuffersInv'
  <2>1. WholeInv /\ BuffersInv
    BY <1>4, Zenon DEF SorterInv
  <2>2. WholeInv'
    BY <1>1, <2>1, SameWhole, ZenonT(60)
  <2>3. /\ released \subseteq 1 .. arrived /\ InUse(current)
        /\ \A k \in DOMAIN queue : InUse(queue[k].buf)
        /\ \A k \in DOMAIN queue : queue[k].buf # NoBuffer =>
              /\ queue[k].buf # current
              /\ \A j \in DOMAIN queue : j # k => queue[j].buf # queue[k].buf
    BY <2>1, Zenon DEF BuffersInv
  <2>4. released' \subseteq 1 .. arrived'
    <3>1. current # NoBuffer => current \in 1 .. arrived
      BY <1>2, <2>3 DEF InUse, NoBuffer
    <3> QED BY <1>1, <2>3, <3>1, ZenonT(60)
  <2>5. NoBuffer \in 0 .. arrived' /\ NoBuffer \notin released'
    BY <1>2, <1>1, <2>4, SMTT(60) DEF NoBuffer
  <2>6. ASSUME NEW k \in DOMAIN queue
        PROVE  queue[k].buf \in 0 .. arrived' /\ queue[k].buf \notin released'
    <3>1. queue[k].buf \in 0 .. arrived /\ queue[k].buf \notin released
      BY <2>3, Zenon DEF InUse
    <3>2. queue[k].buf # NoBuffer => queue[k].buf # current
      BY <2>3, Zenon
    <3> QED BY <1>1, <2>5, <3>1, <3>2, ZenonT(60)
  <2>7. (InUse(current) /\ \A k \in DOMAIN queue : InUse(queue[k].buf))'
    BY <1>1, <2>5, <2>6, ZenonT(60) DEF InUse
  <2>8. BuffersInv'
    BY <1>1, <2>3, <2>4, <2>7, ZenonT(60) DEF BuffersInv
  <2> QED BY <2>2, <2>8, Zenon
<1> QED BY <1>1, <1>2, <1>3, <1>4, SameFrames, ZenonT(60)

\* Whatever happens next, the invariant holds again.
LEMMA NextStep ==
    ASSUME SorterInv, [Next]_vars
    PROVE  SorterInv'
<1>1. CASE \E f \in frames : PushKnown(f) \/ PushFillsNoGap(f) \/ PushFillsGap(f)
  BY <1>1, PushKnownStep, PushNoGapStep, PushGapStep, ZenonT(60)
<1>2. CASE Pop
  BY <1>2, PopStep, ZenonT(60)
<1>3. CASE PopNothing
  BY <1>3, PopNothingStep, ZenonT(60)
<1>4. CASE UNCHANGED vars
  <2>1. UNCHANGED <<queue, gaps, readPos, current, released, frames, arrived, failed, received>>
    BY <1>4, ZenonT(60) DEF vars
  <2>2. DataInv' /\ arrived' \in Nat
    BY <2>1, SameData, ZenonT(60) DEF SorterInv
  <2>3. SentWhole => WholeInv'
    BY <2>1, SameWhole, ZenonT(60) DEF SorterInv
  <2>4. SentWhole => BuffersInv'
    BY <2>1, ZenonT(60) DEF SorterInv, BuffersInv, InUse
  <2> QED BY <2>1, <2>2, <2>3, <2>4, SameFrames, ZenonT(60)
<1> QED BY <1>1, <1>2, <1>3, <1>4, ZenonT(60) DEF Next

\* The invariant of the frame sorter.
LEMMA SorterInvariance ==
    Spec => []SorterInv
<1>1. SorterInv /\ [Next]_vars => SorterInv'
  BY NextStep, ZenonT(60)
<1> QED BY <1>1, InitStep, PTL DEF Spec

-----------------------------------------------------------------------------
(* What follows. *)

\* The list of gaps is exactly what is missing, for a stream of any length and
\* any sequence of overlapping frames (frame_sorter.go, push).
THEOREM GapsCorrect ==
    Spec => []GapsAreExact
<1>1. SorterInv => GapsAreExact
  BY ZenonT(60) DEF SorterInv, DataInv, IsGapList, Apart, GapsAreExact
<1> QED BY <1>1, SorterInvariance, PTL

\* If frames are retransmitted whole, DoneCb never gives back a buffer whose
\* data waits in the queue or is being read (frame_sorter.go, Push and Pop).
THEOREM BuffersCorrect ==
    Spec => []BuffersAreHeld
<1>1. SorterInv => BuffersAreHeld
  BY Zenon DEF SorterInv, BuffersInv, InUse, BuffersAreHeld
<1> QED BY <1>1, SorterInvariance, PTL

\* Whatever overlaps and is cut, replaced or deleted: the bytes Pop returns are
\* the next ones, each once, and were received.
THEOREM DeliversOnlyTheNextBytes ==
    Spec => Buffer!SafeSpec
<1>1. Init => Buffer!Init
  BY Zenon DEF Init, Buffer!Init
<1>2. ASSUME SorterInv, [Next]_vars
      PROVE  [Buffer!Receive \/ Buffer!Deliver]_Buffer!vars
  <2>0. DataInv
    BY <1>2, ZenonT(60) DEF SorterInv
  <2>1. ASSUME NEW f \in frames, PushKnown(f) \/ PushFillsNoGap(f) \/ PushFillsGap(f)
        PROVE  Buffer!Receive
    <3>1. Arrives(f)
      BY <2>1, ZenonT(60) DEF PushKnown, PushFillsNoGap, PushFillsGap
    <3>2. /\ ~failed /\ received' = received \cup (f.start .. f.end - 1)
          /\ readPos' = readPos /\ output' = output
      BY <3>1, ZenonT(60) DEF Arrives
    <3>3. f.start \in 0 .. Length /\ f.end \in 0 .. Length
      BY <2>0, ZenonT(60) DEF DataInv, IsFrame
    <3>4. SorterInv'
      BY <1>2, NextStep, ZenonT(60)
    <3>5. failed' \in BOOLEAN
      BY <3>4, ZenonT(60) DEF SorterInv, DataInv
    <3> QED BY <3>2, <3>3, <3>5, ZenonT(60) DEF Buffer!Receive
  <2>2. CASE Pop
    <3> DEFINE e == queue[readPos]
    <3>1. /\ ~failed /\ readPos \in DOMAIN queue
          /\ output' = IF e.start = e.end THEN output ELSE e.start .. e.end - 1
          /\ UNCHANGED <<received, failed>>
      BY <2>2, ZenonT(60) DEF Pop
    <3>2. /\ readPos' = e.end /\ readPos .. readPos' - 1 \subseteq received
          /\ DataInv'
      BY <2>0, <2>2, PopData, ZenonT(60)
    <3>3. e.start = readPos /\ readPos <= e.end
      BY <2>0, <3>1, ZenonT(60) DEF DataInv, QueueInv, Waits
    <3> HIDE DEF e
    <3>4. readPos \in 0 .. Length /\ readPos' \in 0 .. Length
      BY <2>0, <3>2, ZenonT(60) DEF DataInv
    <3>5. CASE e.start = e.end
      BY <3>1, <3>2, <3>3, <3>5, ZenonT(60) DEF Buffer!vars
    <3>6. CASE e.start # e.end
      <4>1. readPos' \in readPos + 1 .. Length
        BY SorterAssumption, <3>2, <3>3, <3>4, <3>6, SMTT(60)
      <4>2. output' = readPos .. readPos' - 1
        BY <3>1, <3>2, <3>3, <3>6, ZenonT(60)
      <4> QED BY <3>1, <3>2, <4>1, <4>2, ZenonT(60) DEF Buffer!Deliver
    <3> QED BY <3>5, <3>6, ZenonT(60)
  <2>3. CASE PopNothing
    BY <2>3, ZenonT(60) DEF PopNothing, Buffer!vars
  <2>4. CASE UNCHANGED vars
    BY <2>4, Zenon DEF vars, Buffer!vars
  <2> QED BY <1>2, <2>1, <2>2, <2>3, <2>4, ZenonT(60) DEF Next
<1> QED BY <1>1, <1>2, SorterInvariance, PTL DEF Spec, Buffer!SafeSpec

=============================================================================
