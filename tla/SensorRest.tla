------------------------------- MODULE SensorRest -------------------------------
(***************************************************************************)
(* What the sensor loop does about a tracker that rests (sensor/sensor.c,  *)
(* sensor_update_sensor_state and the sending of data): it reads the chip  *)
(* less often, and after timeouts asks the power thread to sleep.  An      *)
(* update holds it back, and so do a calibration and the test mode.  The   *)
(* request may be refused (PowerDown), and the tracker then goes on.       *)
(*                                                                         *)
(* Both timeouts are here, as they are by the defaults of Kconfig, though  *)
(* prj.conf turns that of the IMU off; the activity timeout asks to sleep. *)
(* The additional low power mode is not here.  A tick is some seconds; the *)
(* clocks say how long ago something was and stop at a limit.              *)
(***************************************************************************)
EXTENDS Naturals

CONSTANTS
    LpTimeout,         \* CONFIG_SENSOR_LP_TIMEOUT
    RampMin, RampMax,  \* CONFIG_IMU_TIMEOUT_RAMP_MIN and _MAX
    ActiveThreshold,   \* CONFIG_ACTIVE_TIMEOUT_THRESHOLD
    ActiveDelay,       \* CONFIG_ACTIVE_TIMEOUT_DELAY
    RestEvents         \* bound: movements, updates, calibrations

ASSUME RestAssumption ==
    /\ {LpTimeout, RampMin, RampMax, ActiveThreshold, ActiveDelay, RestEvents} \subseteq Nat
    /\ RampMin <= RampMax /\ RampMin <= ActiveDelay /\ ActiveThreshold < ActiveDelay

VARIABLES
    moves,        \* the orientation changes
    updating, wasUpdating,  \* esb_ota_is_active or suppressed; was_ota_suppressed
    calibrating,  \* SYS_STATUS_CALIBRATION_RUNNING or the test mode
    slow,         \* sensor_mode is not LOW_NOISE
    timeout,      \* sensor_timeout
    idle,         \* now - last_data_time
    sinceAttempt, \* now - last_suspend_attempt_time
    asks,         \* a request to sleep was made in this turn
    fresh,        \* history: ticks since the loop last saw an update
    rested,       \* history: ticks of rest with nothing to hold the tracker awake
    askedRest,    \* history: a request was made during them
    evaluated, restEvents

restVars == <<moves, updating, wasUpdating, calibrating, slow, timeout, idle, sinceAttempt,
              asks, fresh, rested, askedRest, evaluated, restEvents>>

Limit == ActiveDelay + 4
Aged(t) == IF t = Limit THEN t ELSE t + 1

\* The two clocks start with the uptime.
RestInit ==
    /\ moves \in BOOLEAN /\ updating = FALSE /\ wasUpdating = FALSE /\ calibrating = FALSE
    /\ slow = FALSE /\ timeout = "imu" /\ idle = 0 /\ sinceAttempt = 0 /\ asks = FALSE
    /\ fresh = Limit /\ rested = 0 /\ askedRest = FALSE /\ evaluated = FALSE /\ restEvents = 0

\* Between two turns something changes; packets of an update come more often than
\* the loop turns, so that it sees every one begin and end.
World ==
    /\ evaluated /\ restEvents < RestEvents /\ restEvents' = restEvents + 1
    /\ \/ moves' = ~moves /\ UNCHANGED <<updating, calibrating>>
       \/ updating' = ~updating /\ updating = wasUpdating /\ UNCHANGED <<moves, calibrating>>
       \/ calibrating' = ~calibrating /\ UNCHANGED <<moves, updating>>
    /\ UNCHANGED <<wasUpdating, slow, timeout, idle, sinceAttempt, asks, fresh, rested,
                   askedRest, evaluated>>

-----------------------------------------------------------------------------
(* sensor_update_sensor_state                                              *)

Idle_Kept == idle
\* When an update lets go, the rest is counted from now on.
Idle == IF wasUpdating /\ ~updating THEN 0 ELSE idle

\* The longer it was in use since the last attempt, the later the next one.  What
\* rests begins with a time in the past, so the difference is never below zero.
Ramp(rest) ==
    LET used == IF sinceAttempt > rest THEN sinceAttempt - rest ELSE 0
    IN IF used < RampMin THEN RampMin ELSE IF used > RampMax THEN RampMax ELSE used

Resting(rest) ==
    LET active  == timeout \in {"imu", "imu elapsed"} /\ rest > ActiveThreshold
        now     == IF active THEN "activity" ELSE timeout
        elapses == now = "activity" /\ rest > ActiveDelay
        attempt == now = "imu" /\ rest > Ramp(rest)
    IN /\ slow' = (slow \/ rest > LpTimeout)
       /\ timeout' = CASE elapses -> "activity elapsed"
                       [] attempt -> "imu elapsed"
                       [] OTHER   -> now
       /\ asks' = (elapses \/ attempt)
       /\ UNCHANGED sinceAttempt

Awake ==
    /\ slow' = FALSE /\ asks' = FALSE
    /\ timeout' = IF timeout = "imu elapsed" THEN "imu" ELSE timeout
    /\ sinceAttempt' = IF timeout = "imu elapsed" THEN 0 ELSE sinceAttempt

HeldAwake == moves \/ updating \/ calibrating

Evaluate ==
    /\ ~evaluated /\ evaluated' = TRUE
    /\ wasUpdating' = updating
    /\ IF HeldAwake THEN Awake ELSE Resting(Idle)
    \* Data of a tracker that moves is sent, and that starts the clock again.
    /\ idle' = IF moves THEN 0 ELSE Idle
    /\ fresh' = IF updating THEN 0 ELSE fresh
    /\ rested' = IF HeldAwake THEN 0 ELSE rested
    /\ askedRest' = (~HeldAwake /\ (askedRest \/ asks'))
    /\ UNCHANGED <<moves, updating, calibrating, restEvents>>

RestTick ==
    /\ evaluated /\ evaluated' = FALSE
    /\ idle' = Aged(idle) /\ sinceAttempt' = Aged(sinceAttempt)
    /\ fresh' = Aged(fresh) /\ rested' = Aged(rested)
    /\ UNCHANGED <<moves, updating, wasUpdating, calibrating, slow, timeout, asks, askedRest, restEvents>>

RestNext == World \/ Evaluate \/ RestTick
RestSpec == RestInit /\ [][RestNext]_restVars

-----------------------------------------------------------------------------
RestTypeOK ==
    /\ {moves, updating, wasUpdating, calibrating, slow, asks, askedRest, evaluated} \subseteq BOOLEAN
    /\ timeout \in {"imu", "imu elapsed", "activity", "activity elapsed"}
    /\ {idle, sinceAttempt, fresh, rested} \subseteq 0 .. Limit
    /\ restEvents \in 0 .. RestEvents

\* "to prevent accumulated idle time from immediately triggering sleep when
\* suppression lifts between OTA batches" (sensor.c:1003): whatever the tracker was
\* doing before, it does not ask to sleep before a timeout has passed since then.
FreshAfterBatch == asks => fresh > RampMin

\* "Use IMU wake up state during no motion." (Kconfig:157): a tracker that rests,
\* and is not held awake, asks to sleep.
RestAsks == evaluated /\ rested > ActiveDelay + 2 => askedRest
=============================================================================
