------------------------------- MODULE SensorWake -------------------------------
(***************************************************************************)
(* How the sensor loop sleeps and wakes (sensor/sensor.c): the chip        *)
(* collects packets and raises an interrupt when as many as the loop wants *)
(* per turn are there; the loop reads all of them, works, and sleeps until *)
(* the interrupt or a timeout.  main_wfi is written by both, unlocked: the *)
(* loop sets it to say that it waits, the interrupt to say that the loop   *)
(* shall not.                                                              *)
(*                                                                         *)
(* A tick is the time between two packets.  What a packet holds is left    *)
(* out; SensorHealth and SensorRest model what the loop makes of it.       *)
(***************************************************************************)
EXTENDS Naturals

CONSTANTS
    UpdateTimes,  \* sensor_update_time_ms in each mode, in ticks
    Margin,       \* what the loop waits longer than that, 10 ms
    Busy,         \* ticks from one turn's reading to its end, at most
    FifoSize      \* packets the chip keeps

ASSUME WakeAssumption ==
    /\ UpdateTimes \subseteq Nat \ {0} /\ \E t \in UpdateTimes : \A u \in UpdateTimes : t <= u
    /\ {Margin, Busy, FifoSize} \subseteq Nat

VARIABLES
    fifo,       \* packets in the chip
    due,        \* the packet of this tick has not come yet
    stage,      \* where the loop is
    wfi,        \* main_wfi
    slept, spent,  \* ticks asleep, ticks of work
    period,     \* sensor_update_time_ms, the interrupt's threshold as well
    wanted      \* the period of the mode that the next turn switches to

wakeVars == <<fifo, due, stage, wfi, slept, spent, period, wanted>>

Least == CHOOSE t \in UpdateTimes : \A u \in UpdateTimes : t <= u

WakeInit ==
    /\ fifo = 0 /\ due = FALSE /\ stage = "read" /\ wfi = FALSE
    /\ slept = 0 /\ spent = 0 /\ period = Least /\ wanted = Least

-----------------------------------------------------------------------------
(* The chip and its interrupt                                              *)

\* sensor_interrupt_handler; waking a thread that is not asleep does nothing.
Interrupt ==
    /\ wfi' = ~wfi
    /\ stage' = IF wfi /\ stage = "sleep" THEN "woken" ELSE stage

\* The interrupt comes when the threshold is crossed, not while it is exceeded.
Arrive ==
    /\ due /\ due' = FALSE
    /\ fifo' = IF fifo > FifoSize THEN fifo ELSE fifo + 1
    /\ IF fifo' = period THEN Interrupt ELSE UNCHANGED <<wfi, stage>>
    /\ UNCHANGED <<slept, spent, period, wanted>>

-----------------------------------------------------------------------------
(* sensor_loop                                                             *)

\* The FIFO is emptied; a mode that changed in the last turn sets the threshold.
Read ==
    /\ stage = "read" /\ stage' = "work"
    /\ fifo' = 0 /\ spent' = 0 /\ period' = wanted
    /\ UNCHANGED <<due, wfi, slept, wanted>>

Work ==
    /\ stage = "work" /\ stage' = "decide"
    /\ wanted' \in UpdateTimes
    /\ UNCHANGED <<fifo, due, wfi, slept, spent, period>>

Decide ==
    /\ stage = "decide" /\ stage' = IF wfi THEN "again" ELSE "arm"
    /\ UNCHANGED <<fifo, due, wfi, slept, spent, period, wanted>>

\* The interrupt came during the turn: the next one begins at once.
Again ==
    /\ stage = "again" /\ stage' = "read" /\ wfi' = FALSE
    /\ UNCHANGED <<fifo, due, slept, spent, period, wanted>>

Arm ==
    /\ stage = "arm" /\ stage' = "armed" /\ wfi' = TRUE
    /\ UNCHANGED <<fifo, due, slept, spent, period, wanted>>

FallAsleep ==
    /\ stage = "armed" /\ stage' = "sleep" /\ slept' = 0
    /\ UNCHANGED <<fifo, due, wfi, spent, period, wanted>>

TimedOut_Never == FALSE
TimedOut == slept >= period + Margin

SleepEnds ==
    /\ stage = "sleep" /\ TimedOut /\ stage' = "woken"
    /\ UNCHANGED <<fifo, due, wfi, slept, spent, period, wanted>>

\* Who was woken by the timeout still finds the flag set.
Woken ==
    /\ stage = "woken" /\ stage' = "read" /\ wfi' = FALSE
    /\ UNCHANGED <<fifo, due, slept, spent, period, wanted>>

\* The thread is aborted anywhere, and a new one sets the chip up.
Restarted ==
    /\ fifo' = 0 /\ stage' = "read"
    /\ UNCHANGED <<due, wfi, slept, spent, period, wanted>>

\* Time passes while the loop works or sleeps; the rest takes none.
WakeTick ==
    /\ ~due /\ due' = TRUE
    /\ \/ stage = "work" /\ spent < Busy /\ spent' = spent + 1 /\ UNCHANGED slept
       \/ stage = "sleep" /\ ~TimedOut /\ UNCHANGED spent
          /\ slept' = IF slept >= period + Margin THEN slept ELSE slept + 1
    /\ UNCHANGED <<fifo, stage, wfi, period, wanted>>

WakeNext ==
    \/ Arrive \/ Read \/ Work \/ Decide \/ Again \/ Arm \/ FallAsleep
    \/ SleepEnds \/ Woken \/ Restarted \/ WakeTick
WakeSpec == WakeInit /\ [][WakeNext]_wakeVars

-----------------------------------------------------------------------------
WakeTypeOK ==
    /\ fifo \in 0 .. FifoSize + 1 /\ {due, wfi} \subseteq BOOLEAN
    /\ stage \in {"read", "work", "decide", "again", "arm", "armed", "sleep", "woken"}
    /\ slept \in Nat /\ spent \in 0 .. Busy /\ {period, wanted} \subseteq UpdateTimes

\* Interrupts get lost: between the test of the flag and its setting, before the
\* loop is asleep, or two of them in one turn.  The timeout makes up for each of
\* them before the chip has to drop packets.
NothingLost == fifo <= FifoSize

\* "if signal was sent during processing, loop immediately to catch up"
\* (sensor.c:2313): the loop does not sleep over a full FIFO.
CatchesUp == stage = "sleep" /\ slept > 0 => fifo < period
=============================================================================
