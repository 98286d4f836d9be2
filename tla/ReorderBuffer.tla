---------------------------- MODULE ReorderBuffer ----------------------------
(***************************************************************************)
(* What a receiver owes its reader, whatever order the frames of a stream  *)
(* arrive in: bytes come out once, in order, only if they were received,   *)
(* and every byte of the contiguous prefix does come out.  Too fragmented  *)
(* a stream may fail instead.                                              *)
(***************************************************************************)
EXTENDS Integers

CONSTANT Length                  \* bytes of the stream

VARIABLES received,              \* the offsets received
          readPos,               \* the offset of the next byte to come out
          output,                \* the bytes that came out last
          failed                 \* the stream was given up

vars == <<received, readPos, output, failed>>

Init == received = {} /\ readPos = 0 /\ output = {} /\ failed = FALSE

Receive ==
    /\ ~failed
    /\ \E start, end \in 0 .. Length : received' = received \cup (start .. end - 1)
    /\ failed' \in BOOLEAN
    /\ UNCHANGED <<readPos, output>>

Deliver ==
    /\ ~failed
    /\ \E pos \in readPos + 1 .. Length :
         /\ readPos .. pos - 1 \subseteq received
         /\ output' = readPos .. pos - 1
         /\ readPos' = pos
    /\ UNCHANGED <<received, failed>>

SafeSpec == Init /\ [][Receive \/ Deliver]_vars

Spec == SafeSpec /\ WF_vars(Deliver)
=============================================================================
