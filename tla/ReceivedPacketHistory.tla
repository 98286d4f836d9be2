----------------------- MODULE ReceivedPacketHistory ------------------------
(***************************************************************************)
(* The ranges of packet numbers that the receiver of LossRecovery has      *)
(* (receivedPacketHistory), as operators on a sequence of ranges.          *)
(***************************************************************************)
EXTENDS Integers, Sequences, FiniteSetsExt

\* The linked list.
InsertAfter(rs, k, e) == SubSeq(rs, 1, k) \o <<e>> \o SubSeq(rs, k + 1, Len(rs))

Remove(rs, k) == SubSeq(rs, 1, k - 1) \o SubSeq(rs, k + 1, Len(rs))

Single(p) == [lo |-> p, hi |-> p]

\* Range k was extended; it may now touch the one before it.
Merged(rs, k) ==
    IF k > 1 /\ rs[k - 1].hi + 1 = rs[k].lo
    THEN Remove([rs EXCEPT ![k - 1].hi = rs[k].hi], k)
    ELSE rs

\* Ranges are kept in ascending order and searched from the end.
addToRanges(rs, p) ==
    LET reached == {k \in DOMAIN rs : rs[k].lo <= p + 1}
        k == Max(reached) IN
    CASE reached = {}                        -> <<Single(p)>> \o rs
      [] reached # {} /\ p \in rs[k].lo .. rs[k].hi -> rs
      [] reached # {} /\ rs[k].hi = p - 1    -> Merged([rs EXCEPT ![k].hi = p], k)
      [] reached # {} /\ rs[k].lo = p + 1    -> Merged([rs EXCEPT ![k].lo = p], k)
      [] OTHER                               -> InsertAfter(rs, k, Single(p))

DeleteBelow(rs, p) ==
    LET gone == Max({0} \cup {k \in DOMAIN rs : rs[k].hi < p})
        kept == SubSeq(rs, gone + 1, Len(rs)) IN
    IF kept # <<>> /\ kept[1].lo < p THEN [kept EXCEPT ![1].lo = p] ELSE kept

\* GetAckRanges: the numbers that an ACK acknowledges.
Covered(rs) == UNION {rs[k].lo .. rs[k].hi : k \in DOMAIN rs}
=============================================================================
