------------------------------ MODULE RawStream ------------------------------
(***************************************************************************)
(* The raw data stream, connection/connection.c: while data collection is  *)
(* on, the sensor thread (priority 7) queues samples and asks for metadata *)
(* and calibration packets, the connection thread (5) sends them, and the  *)
(* receiver asks in its acknowledgements for packets to be sent again,     *)
(* which the radio interrupt notes.  The ESB thread (6) turns collection   *)
(* on and off.                                                             *)
(*                                                                         *)
(* esb_write can block, for the clock or a recovery of the radio: the      *)
(* connection thread is cut there.  A packet is named by the collection    *)
(* it belongs to and its place in it.                                      *)
(***************************************************************************)
EXTENDS Integers, Sequences, SequencesExt, FiniteSets

CONSTANTS
    QueueSize,      \* RAW_IMU_QUEUE_SIZE
    RingSize,       \* RAW_RING_SIZE
    SeqModulus,     \* 2^16, raw_sequence wraps
    RetxMax,        \* RAW_RETX_MAX
    MaxPackets,     \* bound: packets in one collection
    MaxSessions     \* bound: collections

ASSUME RawStreamAssumption ==
    /\ {QueueSize, RingSize, RetxMax, MaxPackets, MaxSessions} \subseteq Nat \ {0}
    /\ SeqModulus \in Nat /\ RingSize < SeqModulus /\ SeqModulus % RingSize = 0

VARIABLES
    collection,   \* the number of the collection, and whether it is active
    imu,          \* raw_imu_msgq: how many samples wait
    packets,      \* packets sent so far; raw_sequence is this modulo 2^16
    ring,         \* raw_ring, raw_ring_valid, raw_ring_seq
    retx,         \* raw_retx_queue
    meta,         \* raw_metadata_pending and raw_metadata_sent
    cal,          \* raw_cal_pending and raw_cal_phase: the packets to come
    noticed,      \* last_data_collection_state of the sensor loop
    writing,      \* the packet esb_write is sending, if any
    described     \* the collections whose metadata has been sent

rawVars == <<collection, imu, packets, ring, retx, meta, cal, noticed, writing,
             described>>

Slots == 0 .. RingSize - 1
Seqs == 0 .. SeqModulus - 1
Empty == [valid |-> FALSE, seq |-> 0, session |-> 0, number |-> 0]
Resting == [kind |-> "none"]
CalPackets == <<"accel", "mag", "gyro", "tcal", "points">>

RawInit ==
    /\ collection = [session |-> 0, active |-> FALSE]
    /\ imu = 0 /\ packets = 0 /\ ring = [i \in Slots |-> Empty] /\ retx = <<>>
    /\ meta = [pending |-> FALSE, sent |-> FALSE] /\ cal = <<>>
    /\ noticed = FALSE /\ writing = Resting /\ described = {}

-----------------------------------------------------------------------------
(* Commands of the receiver, carried out by the ESB thread.  A command is   *)
(* carried out 1.5 s after it came, which no esb_write lasts: between the   *)
(* end and the next beginning the write that was going on is over.          *)
RingCleared == [i \in Slots |-> Empty]

CollectOn ==
    /\ ~collection.active /\ writing = Resting
    /\ collection.session < MaxSessions
    /\ collection' = [session |-> collection.session + 1, active |-> TRUE]
    /\ imu' = 0 /\ packets' = 0 /\ ring' = RingCleared /\ retx' = <<>>
    /\ meta' = [pending |-> FALSE, sent |-> FALSE] /\ cal' = <<>>
    /\ UNCHANGED <<noticed, writing, described>>

\* Also after a minute without the receiver (connection_thread).
CollectOff ==
    /\ collection.active
    /\ collection' = [collection EXCEPT !.active = FALSE]
    /\ UNCHANGED <<imu, packets, ring, retx, meta, cal, noticed, writing, described>>

-----------------------------------------------------------------------------
(* The sensor loop, once per turn: the beginning of a collection, or the    *)
(* minute after which metadata is repeated, then the samples of the turn.   *)
AskForMetadata_OnlyRepeated ==
    /\ meta' = [meta EXCEPT !.pending = meta.sent]
    /\ cal' = CalPackets

AskForMetadata ==
    /\ meta' = [meta EXCEPT !.pending = TRUE]
    /\ cal' = CalPackets

SensorTurn ==
    /\ noticed' = collection.active
    /\ \/ collection.active /\ ~noticed /\ AskForMetadata
       \/ collection.active /\ noticed /\ meta.sent /\ AskForMetadata
       \/ (collection.active => noticed) /\ UNCHANGED <<meta, cal>>
    /\ UNCHANGED <<collection, imu, packets, ring, retx, writing, described>>

\* connection_queue_raw_sample: a full queue drops its oldest sample.
QueueSample ==
    /\ collection.active /\ imu < QueueSize /\ imu' = imu + 1
    /\ UNCHANGED <<collection, packets, ring, retx, meta, cal, noticed, writing, described>>

\* The radio interrupt: an acknowledgement asks for a packet again.  The
\* receiver asks for numbers it has seen pass; one that asked for others
\* without end would keep everything else from being sent.
RetxRequested ==
    /\ collection.active
    /\ Len(retx) < RetxMax
    /\ \E seq \in Seqs : /\ seq < packets /\ ~Contains(retx, seq)
                         /\ retx' = Append(retx, seq)
    /\ UNCHANGED <<collection, imu, packets, ring, meta, cal, noticed, writing, described>>

-----------------------------------------------------------------------------
(* connection_process_raw_data, up to and after each esb_write.             *)
InRing_Valid(seq) == ring[seq % RingSize].valid
InRing(seq) == LET e == ring[seq % RingSize] IN e.valid /\ e.seq = seq

BeginRetx ==
    /\ writing = Resting /\ collection.active /\ retx # <<>>
    /\ InRing(Head(retx))
    /\ writing' = [kind |-> "retx", seq |-> Head(retx),
                   entry |-> ring[Head(retx) % RingSize]]
    /\ UNCHANGED <<collection, imu, packets, ring, retx, meta, cal, noticed, described>>
EndRetx ==
    /\ writing.kind = "retx" /\ writing' = Resting /\ retx' = Tail(retx)
    /\ UNCHANGED <<collection, imu, packets, ring, meta, cal, noticed, described>>
RetxGone ==
    /\ writing = Resting /\ collection.active /\ retx # <<>>
    /\ ~InRing(Head(retx)) /\ retx' = Tail(retx)
    /\ UNCHANGED <<collection, imu, packets, ring, meta, cal, noticed, writing, described>>

BeginMeta ==
    /\ writing = Resting /\ collection.active /\ retx = <<>> /\ meta.pending
    /\ writing' = [kind |-> "meta"]
    /\ UNCHANGED <<collection, imu, packets, ring, retx, meta, cal, noticed, described>>
EndMeta ==
    /\ writing.kind = "meta" /\ writing' = Resting
    /\ meta' = [pending |-> FALSE, sent |-> TRUE]
    /\ described' = described \cup {collection.session}
    /\ UNCHANGED <<collection, imu, packets, ring, retx, cal, noticed>>

\* connection_cal_drip_send.  The phase is advanced after the packet has been
\* sent, even if the sensor loop began anew meanwhile; without points the
\* last phase is left out, with many it takes several packets.
BeginCal ==
    /\ writing = Resting /\ collection.active /\ retx = <<>>
    /\ ~meta.pending /\ cal # <<>>
    /\ writing' = [kind |-> "cal", rest |-> Tail(cal)]
    /\ UNCHANGED <<collection, imu, packets, ring, retx, meta, cal, noticed, described>>
EndCal ==
    /\ writing.kind = "cal" /\ writing' = Resting
    /\ \/ writing.rest # <<>> /\ cal' = writing.rest
       \/ Len(writing.rest) = 1 /\ cal' = <<>>
       \/ writing.rest = <<>> /\ cal' = cal
       \/ writing.rest = <<>> /\ Len(cal) = 1 /\ cal' = <<>>
    /\ UNCHANGED <<collection, imu, packets, ring, retx, meta, noticed, described>>

\* Metadata and calibration go out at most every 200 ms: in between, samples.
MetaSent == meta.sent

BeginImu ==
    /\ writing = Resting /\ collection.active /\ retx = <<>>
    /\ MetaSent /\ imu > 0 /\ packets < MaxPackets
    /\ LET seq == packets % SeqModulus
           e == [valid |-> TRUE, seq |-> seq, session |-> collection.session,
                 number |-> packets]
       IN /\ ring' = [ring EXCEPT ![seq % RingSize] = e]
          /\ writing' = [kind |-> "imu", entry |-> e]
    /\ imu' = imu - 1 /\ packets' = packets + 1
    /\ UNCHANGED <<collection, retx, meta, cal, noticed, described>>
EndImu ==
    /\ writing.kind = "imu" /\ writing' = Resting
    /\ UNCHANGED <<collection, imu, packets, ring, retx, meta, cal, noticed, described>>

-----------------------------------------------------------------------------
RawConnection == \/ BeginRetx \/ EndRetx \/ RetxGone \/ BeginMeta \/ EndMeta
                 \/ BeginCal \/ EndCal \/ BeginImu \/ EndImu
RawNext ==
    \/ CollectOn \/ CollectOff \/ SensorTurn \/ QueueSample \/ RetxRequested
    \/ RawConnection

RawSpec == RawInit /\ [][RawNext]_rawVars
               /\ WF_rawVars(SensorTurn /\ (collection.active => ~noticed \/ meta.sent))
               /\ WF_rawVars(RawConnection)

-----------------------------------------------------------------------------
RawTypeOK ==
    /\ collection \in [session : 0 .. MaxSessions, active : BOOLEAN]
    /\ imu \in 0 .. QueueSize /\ packets \in 0 .. MaxPackets
    /\ Len(retx) <= RetxMax /\ Range(retx) \subseteq Seqs
    /\ meta \in [pending : BOOLEAN, sent : BOOLEAN] /\ noticed \in BOOLEAN

\* A packet that is sent again for a sequence number is the latest one of
\* this collection that was sent under that number: the ring of the last
\* packets is indexed by a number that wraps, and is reused by the next
\* collection (connection.c:810).
RetransmitsOriginal ==
    writing.kind = "retx" /\ collection.active =>
        /\ writing.entry.session = collection.session
        /\ writing.entry.number % SeqModulus = writing.seq
        /\ writing.entry.number + RingSize >= packets

\* The receiver is told the ranges and rates before it gets a sample.
MetadataFirst ==
    writing.kind = "imu" => writing.entry.session \in described

\* A collection whose beginning the sensor loop sees gets its metadata, and
\* with it its samples, unless it is turned off.
CollectionStarts ==
    collection.active /\ ~noticed ~> meta.sent \/ ~collection.active

\* The same of every collection: one that is turned off and on again between
\* two turns of the sensor loop never sends anything, as the repetition of
\* the metadata waits for the metadata (connection.c:789, sensor.c:1357).
EveryCollectionStarts == collection.active ~> meta.sent \/ ~collection.active
=============================================================================
