--------------------------- MODULE MCFrameSorter ---------------------------
(* The frames a sender may produce for one stream.                         *)
EXTENDS FrameSorter

AllFrames == {f \in [start : 0 .. Length, end : 0 .. Length] : f.start <= f.end}
FinFrame  == [start |-> Length, end |-> Length]

\* The stream, cut into frames at the given offsets.
FramesOf(cuts) ==
    {f \in [start : cuts \cup {0}, end : cuts \cup {Length}] :
        f.start < f.end /\ \A c \in cuts : ~(f.start < c /\ c < f.end)}

\* Lost frames are retransmitted whole.
Whole == {FramesOf(cuts) \cup {FinFrame} : cuts \in SUBSET (1 .. Length - 1)}

\* Lost frames are retransmitted whole or split once, to fit a packet; and
\* the frame that was thought lost may arrive after its parts.
SplitOnce ==
    UNION {{FramesOf(cuts) \cup FramesOf(cuts \cup more) \cup {FinFrame} :
               more \in SUBSET (1 .. Length - 1)} : cuts \in SUBSET (1 .. Length - 1)}

\* Or the sender frames what it retransmits anew.
WholeOrAny == Whole \cup {AllFrames}
=============================================================================
