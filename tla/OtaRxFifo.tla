------------------------------ MODULE OtaRxFifo ------------------------------
(***************************************************************************)
(* What the firmware relies on in the queue of OTA packets between the     *)
(* radio interrupt and the connection thread: a bounded queue that loses   *)
(* what comes while it is full, and nothing else.                          *)
(***************************************************************************)
EXTENDS Integers, Sequences

CONSTANTS Room, Packets, None

VARIABLES waiting, taken

fifoVars == <<waiting, taken>>

FifoInit == waiting = <<>> /\ taken = None

\* A packet is queued, or lost for want of room.
Arrive == \E p \in Packets :
    Len(waiting) < Room /\ waiting' = Append(waiting, p) /\ UNCHANGED taken

\* The thread takes the oldest.
Take ==
    /\ waiting # <<>> /\ taken' = Head(waiting) /\ waiting' = Tail(waiting)

FifoSpec == FifoInit /\ [][Arrive \/ Take]_fifoVars
=============================================================================
