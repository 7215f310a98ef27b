------------------------------ MODULE OtaRxQueue ------------------------------
(***************************************************************************)
(* The queue of OTA packets, connection/esb.c: the radio interrupt copies  *)
(* them into a ring without a lock, the connection thread works on them in *)
(* place.  The interrupt can come between any two steps of the thread; the *)
(* thread cannot come between those of the interrupt.                      *)
(***************************************************************************)
EXTENDS Integers, Sequences

CONSTANTS
    QueueSlots,   \* OTA_RX_QUEUE_SIZE
    Payloads,     \* what a packet says
    NoPayload     \* of a slot not yet used

ASSUME OtaRxQueueAssumption ==
    QueueSlots \in Nat \ {0, 1} /\ NoPayload \notin Payloads

VARIABLES
    slot,      \* ota_rx_queue
    head,      \* ota_rx_head, written by the interrupt
    tail,      \* ota_rx_tail, written by the thread
    working,   \* whether the thread is in esb_ota_process_rx_packet
    result     \* the packet as it found it, and as it left it

rxVars == <<slot, head, tail, working, result>>

After(i) == (i + 1) % QueueSlots

RxInit ==
    /\ slot = [i \in 0 .. QueueSlots - 1 |-> NoPayload]
    /\ head = 0 /\ tail = 0 /\ working = FALSE /\ result = NoPayload

-----------------------------------------------------------------------------
Full_OneMore == head = tail /\ working

Full == After(head) = tail

\* The radio interrupt, an acknowledgement with an OTA packet.
Received ==
    /\ \E p \in Payloads :
         IF Full THEN UNCHANGED <<slot, head>>
         ELSE slot' = [slot EXCEPT ![head] = p] /\ head' = After(head)
    /\ UNCHANGED <<tail, working, result>>

\* esb_process_ota_rx_queue
BeginWork ==
    /\ ~working /\ tail # head /\ working' = TRUE
    /\ UNCHANGED <<slot, head, tail, result>>
EndWork ==
    /\ working /\ working' = FALSE
    /\ result' = slot[tail] /\ tail' = After(tail)
    /\ UNCHANGED <<slot, head>>

RxNext == Received \/ BeginWork \/ EndWork
RxSpec == RxInit /\ [][RxNext]_rxVars

-----------------------------------------------------------------------------
RxTypeOK ==
    /\ slot \in [0 .. QueueSlots - 1 -> Payloads \cup {NoPayload}]
    /\ {head, tail} \subseteq 0 .. QueueSlots - 1 /\ working \in BOOLEAN

Queued == [i \in 1 .. (head - tail + QueueSlots) % QueueSlots |->
             slot[(tail + i - 1) % QueueSlots]]

\* The ring is a bounded queue: what the thread has worked on is what came,
\* in order, each once, whatever comes meanwhile; only what finds fifteen
\* packets waiting is lost (esb.c:1028, 1332).
Fifo == INSTANCE OtaRxFifo WITH Room <- QueueSlots - 1, Packets <- Payloads,
                                None <- NoPayload,
                                waiting <- Queued, taken <- result
QueueIsFifo == Fifo!FifoSpec
=============================================================================
