--------------------------------- MODULE Tdma ---------------------------------
(***************************************************************************)
(* Transmission slots, connection/tdma.c: the connection thread waits for  *)
(* its slot of the frame before it queues a packet of sensor data.  The    *)
(* slot, its length and the length of the frame come with a PONG, in the   *)
(* radio interrupt, and are read by the thread one after the other.        *)
(***************************************************************************)
EXTENDS Integers

CONSTANTS
    SlotTicks,      \* lengths of a slot the receiver hands out
    TotalSlots,     \* numbers of slots it hands out
    Grace,          \* TDMA_OVERSHOOT_GRACE
    TargetOffset,   \* TDMA_SLOT_TARGET_OFFSET
    Jitter,         \* bound: ticks between the end of the sleep and the sending
    ServerTicks     \* server times at which a packet becomes ready

ASSUME TdmaAssumption ==
    /\ SlotTicks \subseteq Nat \ {0} /\ TotalSlots \subseteq Nat \ {0}
    /\ SlotTicks # {} /\ TotalSlots # {}
    /\ {Grace, TargetOffset, Jitter} \subseteq Nat /\ ServerTicks \subseteq Nat \ {0}
    /\ \A ticks \in SlotTicks : TargetOffset + Jitter < ticks + Grace

VARIABLES
    config,     \* tdma_slot_index, tdma_dyn_slot_ticks, tdma_dyn_frame_ticks
    enabled,    \* tdma_runtime_enabled
    reader,     \* where tdma_wait_for_slot is
    read,       \* what it has read
    sent        \* the last packet: its time and how long it waited

tdmaVars == <<config, enabled, reader, read, sent>>

Configs == {[slot |-> s, ticks |-> k, frame |-> k * n] :
               s \in 0 .. 255, k \in SlotTicks, n \in TotalSlots}
Boot == [slot |-> 0, ticks |-> CHOOSE k \in SlotTicks : TRUE,
         frame |-> (CHOOSE k \in SlotTicks : TRUE) * (CHOOSE n \in TotalSlots : TRUE)]
NoPacket == [ready |-> 0, at |-> 0, config |-> Boot]

-----------------------------------------------------------------------------
Position(ticks, frame, start) ==
    LET p == (ticks % frame) - start IN
    IF p > frame \div 2 THEN p - frame
    ELSE IF p < -(frame \div 2) THEN p + frame ELSE p

InSlot(pos, ticks) == pos >= 0 /\ pos < ticks + Grace

TargetPhase(frame, start) ==
    LET p == start + TargetOffset IN IF p >= frame THEN p - frame ELSE p

TicksToTarget(phase, frame, start) ==
    LET target == TargetPhase(frame, start) IN
    IF target >= phase THEN target - phase ELSE frame - phase + target

Sleep_Unbounded(ticks, c) ==
    LET start == c.slot * c.ticks IN
    IF InSlot(Position(ticks, c.frame, start), c.ticks) THEN 0
    ELSE TicksToTarget(ticks % c.frame, c.frame, start)

\* How long tdma_wait_for_slot sleeps at a server time with a configuration.
Sleep(ticks, c) ==
    LET start == c.slot * c.ticks
        n == TicksToTarget(ticks % c.frame, c.frame, start)
    IN IF InSlot(Position(ticks, c.frame, start), c.ticks) \/ n > c.frame
       THEN 0 ELSE n

-----------------------------------------------------------------------------
TdmaInit ==
    /\ config = Boot /\ enabled = FALSE /\ reader = "idle" /\ read = Boot
    /\ sent = NoPacket

\* The radio interrupt, a PONG with a new epoch: tdma_update_config.
UpdateConfig ==
    /\ \E n \in TotalSlots, k \in SlotTicks :
         \E s \in 0 .. n - 1 : config' = [slot |-> s, ticks |-> k, frame |-> k * n]
    /\ enabled' = TRUE
    /\ UNCHANGED <<reader, read, sent>>

\* tdma_set_enabled, from the console.
SetEnabled ==
    /\ enabled' = ~enabled
    /\ UNCHANGED <<config, reader, read, sent>>

\* The three reads of tdma_wait_for_slot.  Without a recent time of the
\* server it returns at once.
ReadFrame ==
    /\ reader = "idle" /\ enabled /\ reader' = "frame"
    /\ read' = [read EXCEPT !.frame = config.frame] /\ sent' = NoPacket
    /\ UNCHANGED <<config, enabled>>
ReadTicks ==
    /\ reader = "frame" /\ reader' = "ticks"
    /\ read' = [read EXCEPT !.ticks = config.ticks]
    /\ UNCHANGED <<config, enabled, sent>>
ReadSlot ==
    /\ reader = "ticks" /\ reader' = "ready"
    /\ read' = [read EXCEPT !.slot = config.slot]
    /\ UNCHANGED <<config, enabled, sent>>
NotSynced ==
    /\ reader = "ready" /\ reader' = "idle" /\ read' = Boot
    /\ UNCHANGED <<config, enabled, sent>>
WaitForSlot ==
    /\ reader = "ready" /\ reader' = "idle"
    /\ \E ticks \in ServerTicks, late \in 0 .. Jitter :
         LET n == Sleep(ticks, read)
             d == IF n > 0 THEN late ELSE 0
         IN sent' = [ready |-> ticks, at |-> ticks + n + d, config |-> read]
    /\ read' = Boot
    /\ UNCHANGED <<config, enabled>>

TdmaNext == UpdateConfig \/ SetEnabled \/ ReadFrame \/ ReadTicks \/ ReadSlot
            \/ NotSynced \/ WaitForSlot
TdmaSpec == TdmaInit /\ [][TdmaNext]_tdmaVars

-----------------------------------------------------------------------------
TdmaTypeOK ==
    /\ config \in Configs /\ enabled \in BOOLEAN
    /\ reader \in {"idle", "frame", "ticks", "ready"}

\* A configuration the receiver has handed out, and not a mixture of two.
Whole(c) == c.frame % c.ticks = 0 /\ c.slot < c.frame \div c.ticks

\* A packet leaves in its own slot or the grace after it, whatever the phase
\* it became ready at; and even with a mixture of two configurations, read
\* while the interrupt replaces one by the other (tdma.c:88), it waits no
\* longer than a frame.
SendsInSlot ==
    LET c == sent.config IN
    sent # NoPacket =>
        /\ Whole(c) => (sent.at - c.slot * c.ticks) % c.frame < c.ticks + Grace
        /\ sent.at - sent.ready <= c.frame + Jitter

\* Who is anywhere in his slot sends at once (tdma.c:130).
SendsAtOnce ==
    LET c == sent.config IN
    sent # NoPacket /\ Whole(c)
        /\ (sent.ready - c.slot * c.ticks) % c.frame < c.ticks
        => sent.at = sent.ready
=============================================================================
