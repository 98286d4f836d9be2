------------------------------- MODULE Stream -------------------------------
(***************************************************************************)
(* A stream (quic-go/stream.go): its receiving half, its sending half, and *)
(* when the streams map deletes it.  The session closes if a stream is     *)
(* deleted that it does not know, so it must not happen twice; frames for  *)
(* a deleted stream are ignored.                                           *)
(*                                                                         *)
(* The halves share no other state, so one of them is followed in detail,  *)
(* and of the other one only matters whether it is completed, once the     *)
(* detailed one is: then it was before, or it will be later, or never.     *)
(* The half that completed before is also the one a unidirectional stream  *)
(* does not have.                                                          *)
(***************************************************************************)
EXTENDS Integers, Sequences, FiniteSets

CONSTANTS ReadLength, MaxRead, MaxCompletions, WriteLength, Rooms, MaxLosses

ASSUME StreamAssumption ==
    /\ {ReadLength, MaxRead, MaxCompletions, MaxLosses} \subseteq Nat
    /\ WriteLength \in Nat \ {0} /\ Rooms \subseteq Nat

VARIABLES
    half,               \* the half in detail: "send" or "receive"
    otherCompleted,     \* receiveStreamCompleted or sendStreamCompleted of the other
    deletions,          \* calls of the session's onStreamCompleted
    received, highest, frames, overlapped, sorterPos, frame, posInFrame, readOffset,
    finalOffset, finRead, canceledRead, resetRemotely, closedForShutdownR, readChan,
    readDeadline, reader, completing, bytesRead, connBytesRead, completionsR,
    dataForWriting, writeOffset, finishedWriting, canceledWrite,
    closedForShutdownS, finSent, completed, writeChan, writeDeadline, writer,
    doing, retransmissionQueue, numOutstandingFrames, inFlight, ackedBytes,
    finAcked, losses, sendWindow, connWindow, lastBlockedAt, dataBlocked,
    active, resetOffsets, completionsS

receiveVars ==
    <<received, highest, frames, overlapped, sorterPos, frame, posInFrame, readOffset,
      finalOffset, finRead, canceledRead, resetRemotely, closedForShutdownR, readChan,
      readDeadline, reader, completing, bytesRead, connBytesRead, completionsR>>
sendVars ==
    <<dataForWriting, writeOffset, finishedWriting, canceledWrite,
      closedForShutdownS, finSent, completed, writeChan, writeDeadline, writer,
      doing, retransmissionQueue, numOutstandingFrames, inFlight, ackedBytes,
      finAcked, losses, sendWindow, connWindow, lastBlockedAt, dataBlocked,
      active, resetOffsets, completionsS>>
streamVars == <<half, otherCompleted, deletions>>
allVars == <<streamVars, receiveVars, sendVars>>

Receive == INSTANCE ReceiveStream WITH
    Length <- ReadLength,
    closedForShutdown <- closedForShutdownR, deadline <- readDeadline,
    completions <- completionsR

Send == INSTANCE SendStream WITH
    Length <- WriteLength,
    closedForShutdown <- closedForShutdownS, deadline <- writeDeadline,
    completions <- completionsS,
    blockedFrames <- dataBlocked

\* newStream.
StreamInit ==
    /\ half \in {"send", "receive"}
    /\ otherCompleted = FALSE /\ deletions = 0
    /\ Receive!Init
    /\ Send!Init
    /\ half = "receive" => sendWindow = 0 /\ connWindow = 0

\* checkIfCompleted, with completedMutex held.
checkIfCompleted_OneIsEnough(own, other) == own \/ other

checkIfCompleted(own, other) == own /\ other

\* onStreamCompletedImpl of the detailed half, if its step calls it.  When it
\* is called first, the other half may have completed before.
onStreamCompletedImpl(completions) ==
    IF completions' = completions
    THEN UNCHANGED <<otherCompleted, deletions>>
    ELSE /\ otherCompleted' \in IF completions = 0 THEN BOOLEAN ELSE {otherCompleted}
         /\ deletions' = deletions + IF checkIfCompleted(TRUE, otherCompleted') THEN 1 ELSE 0

\* onStreamCompletedImpl of the other half, after the one of the detailed half.
OtherCompletes ==
    /\ completionsR + completionsS > 0 /\ ~otherCompleted
    /\ otherCompleted' = TRUE
    /\ deletions' = deletions + IF checkIfCompleted(TRUE, TRUE) THEN 1 ELSE 0
    /\ UNCHANGED <<half, receiveVars, sendVars>>

Receiving(A) ==
    half = "receive" /\ A /\ onStreamCompletedImpl(completionsR) /\ UNCHANGED <<half, sendVars>>

Sending(A) ==
    half = "send" /\ A /\ onStreamCompletedImpl(completionsS) /\ UNCHANGED <<half, receiveVars>>

StreamNext == Receiving(Receive!Next) \/ Sending(Send!Next) \/ OtherCompletes

\* Goroutines that can go on do, and the application keeps reading.
ReceiveFairness ==
    /\ WF_receiveVars(Receiving(Receive!ReadStep))
    /\ \A a \in Receive!Actors : WF_receiveVars(Receiving(Receive!CompletedStep(a)))
    /\ WF_receiveVars(Receiving(\E space \in 1 .. MaxRead : Receive!Read(space)))

\* Goroutines that can go on do; packets are sent, sooner or later with room
\* for data, and arrive; the peer reads, and raises its limits.
SendFairness ==
    /\ WF_sendVars(Sending(Send!WriteStep))
    /\ \A a \in Send!Actors : WF_sendVars(Sending(Send!After(a)))
    /\ WF_sendVars(Sending(Send!Pop))
    /\ SF_sendVars(Sending(Send!PopData))
    /\ WF_sendVars(Sending(Send!Acked))
    /\ WF_sendVars(Sending(Send!RaiseStreamLimit))
    /\ WF_sendVars(Sending(Send!RaiseConnectionLimit))

StreamSpec == StreamInit /\ [][StreamNext]_allVars /\ ReceiveFairness /\ SendFairness

-----------------------------------------------------------------------------
(* Properties. *)

StreamTypeOK ==
    /\ half \in {"send", "receive"} /\ otherCompleted \in BOOLEAN /\ deletions \in Nat
    /\ Receive!TypeOK /\ Send!TypeOK

\* Read returns the bytes received, in order, and the end only after all of them;
\* the connection window counts every byte of the stream once, except after
\* CancelRead and RESET_STREAM, and without them the half is completed once.
ReadAndCountedOnce == Receive!ReadReturnsTheStream /\ Receive!AccountedOnce

\* Every byte sent is acknowledged, in flight or queued for retransmission.
EveryByteOnce == Send!EveryByteOnce

\* The stream is deleted once, and only when both halves are completed; the
\* sending half is when everything was acknowledged or it was canceled.  (A
\* receiving half that is canceled or reset may complete twice.)
DeletedOnceWhenCompleted ==
    /\ Send!CompletedOnceWhenAcked
    /\ deletions > 0 => otherCompleted /\ completionsR + completionsS > 0
    /\ ~canceledRead /\ ~resetRemotely => deletions <= 1
    /\ otherCompleted => deletions > 0

\* The final offset told to the peer, in a FIN or RESET_STREAM, stays final.
FinalOffsetIsFinal == Send!FinalOffsetIsFinal

\* A Read that waits is unblocked by errors, deadlines and, if the peer retransmits
\* frames whole, the end of the stream.
ReadIsUnblocked == Receive!ReadIsUnblocked

\* Write returns, and a closed stream is completed, canceled or shut down, except
\* if its FIN came up in a packet without room for it.
WriteAndCloseEnd == Send!WriteReturns /\ Send!ClosedIsCompletedOrForgotten
=============================================================================
