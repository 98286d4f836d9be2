----------------------------- MODULE FrameSorter -----------------------------
(***************************************************************************)
(* The frameSorter (quic-go/frame_sorter.go): received STREAM or CRYPTO    *)
(* frames wait in a map, keyed by their offset, until the bytes before     *)
(* them were read; gaps lists what is still missing.                       *)
(*                                                                         *)
(* A frame is the interval of its bytes.  What its bytes say is their      *)
(* offset, so data is an interval too: an entry of the queue is its data    *)
(* and the pooled buffer the data lies in.  DoneCb gives the buffer back   *)
(* to the pool, after which its content belongs to another frame; current  *)
(* is the buffer of the frame that is being read.                          *)
(***************************************************************************)
EXTENDS Integers, FiniteSets, FiniteSetsExt, Functions

CONSTANTS Families,      \* the sets of frames a sender may send, one is chosen
          Length,        \* bytes of the stream
          MinBufferSize, \* MinStreamFrameBufferSize
          MaxGaps,       \* MaxStreamFrameSorterGaps
          MaxArrivals    \* bound: frames that arrive, duplicates included

ASSUME SorterAssumption ==
    /\ Length \in Nat /\ MinBufferSize \in Nat /\ MaxGaps \in Nat /\ MaxArrivals \in Nat
    /\ \A family \in Families : \A f \in family :
          f \in [start : 0 .. Length, end : 0 .. Length] /\ f.start <= f.end

VARIABLES queue, gaps, readPos,
          current, released,    \* buffers
          frames, arrived, failed,
          received, output      \* history: all bytes pushed, bytes popped last

vars == <<queue, gaps, readPos, current, released, frames, arrived, failed,
          received, output>>

Infinity == Length + 1                    \* protocol.MaxByteCount
NoBuffer == 0
Buffers  == 1 .. MaxArrivals
Interval == [start : 0 .. Infinity, end : 0 .. Infinity]
Init ==
    /\ queue = <<>> /\ readPos = 0
    /\ gaps = {[start |-> 0, end |-> Infinity]}
    /\ current = NoBuffer /\ released = {}
    /\ frames \in Families /\ arrived = 0 /\ failed = FALSE
    /\ received = {} /\ output = {}

-----------------------------------------------------------------------------
\* ParseStreamFrame takes a buffer from the pool for all but short frames.
BufferFor(f) == IF f.end - f.start >= MinBufferSize THEN arrived + 1 ELSE NoBuffer

Release(bufs) == released' = released \cup (bufs \ {NoBuffer})

Entry(f) == [start |-> f.start, end |-> f.end, buf |-> BufferFor(f)]

\* Nothing new, judging by the entry at the same offset.
KnownAtOffset_OnlyShorter(f) ==
    \/ f.start = f.end
    \/ f.start \in DOMAIN queue /\ f.end < queue[f.start].end

KnownAtOffset(f) ==
    \/ f.start = f.end
    \/ f.start \in DOMAIN queue /\ f.end <= queue[f.start].end

\* A shorter entry at the same offset is replaced, and its buffer released.
Replaced(f) ==
    IF f.start \in DOMAIN queue THEN {queue[f.start].buf} ELSE {}

QueueReplaced(f) ==
    IF f.start \in DOMAIN queue THEN [queue EXCEPT ![f.start] = Entry(f)] ELSE queue

\* The first gap that does not end before the frame starts.
GapOf(f) ==
    CHOOSE g \in gaps : f.start <= g.end /\ \A h \in gaps : f.start <= h.end => g.start <= h.start

FillsNoGap(f) == f.end <= GapOf(f).start

\* The gaps from GapOf(f) on that end within the frame, in the loop over endGap.
Passed(f) == {g \in gaps : g.start >= GapOf(f).start /\ g.end <= f.end}

LastPassed(f) == CHOOSE g \in Passed(f) : \A h \in Passed(f) : h.start <= g.start

NextGap(g) == CHOOSE h \in gaps : /\ h.start > g.start
                                  /\ \A i \in gaps : i.start > g.start => h.start <= i.start

\* The loop leaves early if the frame ends before the next gap starts.
EndGap_NeverEarly(f) ==
    IF Passed(f) = {} THEN GapOf(f) ELSE NextGap(LastPassed(f))

EndGap(f) ==
    IF Passed(f) = {} THEN GapOf(f)
    ELSE IF f.end < NextGap(LastPassed(f)).start THEN LastPassed(f)
         ELSE NextGap(LastPassed(f))

\* The part of the frame that is kept: from the start of its first gap (if
\* not later) to the end of its last one (if not earlier).
CutStart(f) == IF f.start < GapOf(f).start THEN GapOf(f).start ELSE f.start

CutEnd(f) == IF f.end > EndGap(f).end THEN EndGap(f).end ELSE f.end

\* Entries the loop deletes: the ones at the end of each gap it moves past.
Deleted(f) ==
    ({g.end : g \in Passed(f) \ {EndGap(f)}} \ {CutStart(f)}) \cap DOMAIN queue

\* Gaps in between are removed; what is left of the first one before the
\* frame, and of the last one after it, stays.
GapsAfter_NoSplit(f) ==
    (gaps \ (Passed(f) \cup {GapOf(f), EndGap(f)})) \cup
    {g \in {[start |-> CutEnd(f), end |-> EndGap(f).end]} : g.start < g.end}

GapsAfter(f) ==
    (gaps \ (Passed(f) \cup {GapOf(f), EndGap(f)})) \cup
    {g \in {[start |-> GapOf(f).start, end |-> CutStart(f)],
            [start |-> CutEnd(f), end |-> EndGap(f).end]} : g.start < g.end}

Key(f) == CutStart(f)

\* What is left of a frame that was cut is copied if it is short, and the
\* buffer released at once.
Copied(f) == /\ CutStart(f) # f.start \/ CutEnd(f) # f.end
             /\ CutEnd(f) - CutStart(f) < MinBufferSize

-----------------------------------------------------------------------------
Arrives(f) ==
    /\ ~failed /\ arrived < MaxArrivals
    /\ arrived' = arrived + 1
    /\ received' = received \cup (f.start .. f.end - 1)
    /\ UNCHANGED <<readPos, current, frames, output>>

\* Push finds the data to be a duplicate, and releases the buffer.
PushKnown(f) ==
    /\ Arrives(f)
    /\ KnownAtOffset(f)
    /\ Release({BufferFor(f)})
    /\ UNCHANGED <<queue, gaps, failed>>

\* The same, but only after the entry at its offset was replaced.
PushFillsNoGap(f) ==
    /\ Arrives(f)
    /\ ~KnownAtOffset(f) /\ FillsNoGap(f)
    /\ Release(Replaced(f) \cup {BufferFor(f)})
    /\ queue' = QueueReplaced(f)
    /\ UNCHANGED <<gaps, failed>>

\* The frame is queued, or there are now too many gaps.
PushFillsGap(f) ==
    /\ Arrives(f)
    /\ ~KnownAtOffset(f) /\ ~FillsNoGap(f)
    /\ gaps' = GapsAfter(f)
    /\ LET kept   == Restrict(QueueReplaced(f), DOMAIN queue \ Deleted(f))
           early  == Replaced(f) \cup {queue[k].buf : k \in Deleted(f)}
           bufNow == IF Copied(f) THEN NoBuffer ELSE BufferFor(f)
       IN  \/ /\ Cardinality(gaps') > MaxGaps
              /\ failed' = TRUE
              /\ queue' = kept
              /\ Release(early)
           \/ /\ Cardinality(gaps') <= MaxGaps
              /\ failed' = FALSE
              /\ queue' = [k \in DOMAIN kept \cup {Key(f)} |->
                              IF k = Key(f)
                              THEN [start |-> CutStart(f), end |-> CutEnd(f), buf |-> bufNow]
                              ELSE kept[k]]
              /\ Release(early \cup (IF Copied(f) THEN {BufferFor(f)} ELSE {}))

\* dequeueNextFrame: the frame read before is done, its buffer is released.
Pop ==
    /\ ~failed
    /\ readPos \in DOMAIN queue
    /\ Release({current})
    /\ LET entry == queue[readPos]
       IN  /\ current' = entry.buf
           /\ readPos' = readPos + (entry.end - entry.start)
           /\ output' = IF entry.start = entry.end THEN output
                        ELSE entry.start .. entry.end - 1
    /\ queue' = Restrict(queue, DOMAIN queue \ {readPos})
    /\ UNCHANGED <<gaps, frames, arrived, failed, received>>

PopNothing ==
    /\ ~failed
    /\ readPos \notin DOMAIN queue /\ current # NoBuffer
    /\ Release({current})
    /\ current' = NoBuffer
    /\ UNCHANGED <<queue, gaps, readPos, frames, arrived, failed, received, output>>

Next ==
    \/ \E f \in frames : PushKnown(f) \/ PushFillsNoGap(f) \/ PushFillsGap(f)
    \/ Pop \/ PopNothing

\* The reader keeps reading.
Spec == Init /\ [][Next]_vars /\ WF_vars(Pop)

-----------------------------------------------------------------------------
(* Properties. *)

Bytes(ivls) == UNION {g.start .. g.end - 1 : g \in ivls}

\* After any sequence of overlapping frames the list of gaps is exactly what
\* is missing: every byte pushed is outside of all gaps, every other byte in
\* one, and gaps neither touch nor overlap.
GapsAreExact ==
    /\ Bytes(gaps) = (0 .. Length) \ received
    /\ \A g, h \in gaps : g # h => g.end < h.start \/ h.end < g.start

Buffer == INSTANCE ReorderBuffer

\* The sender retransmits frames as they were: no two of them overlap.
SentWhole ==
    \A f, g \in frames : f = g \/ f.end <= g.start \/ g.end <= f.start

\* Whatever overlaps, and however entries are replaced, cut and deleted: the
\* bytes that come out are the next ones, and were received.  Every byte of the
\* contiguous prefix comes out, if frames are retransmitted whole.  (A frame that
\* overlaps queued ones may be cut to a piece that replaces them.)
PrefixIsDelivered ==
    /\ Buffer!SafeSpec
    /\ \A p \in 0 .. Length - 1 :
          SentWhole /\ 0 .. p \subseteq received ~> readPos > p \/ failed

\* A buffer is released only when its data is no longer needed: nothing that
\* waits in the queue, or is being read, lies in a released buffer.
BuffersAreHeld ==
    SentWhole =>
        \A b \in {current} \cup {queue[k].buf : k \in DOMAIN queue} : b \notin released

\* What the buffer promises for every sender, overlapping frames included.
DeliversInOrder == Buffer!Spec
=============================================================================
