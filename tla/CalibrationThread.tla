-------------------------- MODULE CalibrationThread --------------------------
(***************************************************************************)
(* The calibration thread of sensor/calibration.c: the slot that holds one *)
(* request, the five calibrations the thread runs from it, the collection  *)
(* of magnetometer samples by hand, and the magnetometer fit that goes on  *)
(* in the background.  The sensor thread, the console, the button and the  *)
(* receiver ask for calibrations and read the status bit; they have higher *)
(* priority, so their calls are atomic to this thread, while every wait    *)
(* for a sample of this thread lets them run.                              *)
(*                                                                         *)
(* A calibration value is "none" (cleared), "good" (accepted by the        *)
(* validation) or "bad".  What is measured is a nondeterministic choice,   *)
(* and so is whether a wait for a sample times out: the sensor loop may be *)
(* suspended under any calibration.                                        *)
(***************************************************************************)
EXTENDS Naturals

CONSTANTS
    Poses,        \* CALIB_TARGET_SAMPLES
    MinPoses,     \* CALIB_MIN_POSES_FOR_PARTIAL
    MaxMoves,     \* bound: how often the user moves while a pose is captured
    MaxAttempts   \* BOOT_CAL_MAX_ATTEMPTS

ASSUME CalibrationAssumption ==
    /\ Poses \in Nat /\ MinPoses \in 1 .. Poses
    /\ MaxMoves \in Nat /\ MaxAttempts \in Nat \ {0}

Gyro == 1   SixSide == 2   Boot == 3   Runtime == 4   Sens == 5
Kinds == {"gyro", "acc", "mag"}
Values == {"none", "good", "bad"}

VARIABLES
    requested,    \* requested_calibration: 0, or the calibration asked for
    running,      \* SYS_STATUS_CALIBRATION_RUNNING
    step,         \* where the calibration thread stands
    doing,        \* the calibration it is in
    live,         \* gyroBias, accBAinv, magBAinv; retained copies alike
    collecting,   \* magneto_progress: "off", "collecting" or "ready"
    announcing,   \* a caller of sensor_request_calibration_mag is in its 2.8 s
    fit,          \* the sensors with samples in ata
    captured,     \* captured_count
    moves,        \* poses lost to motion so far
    attempts,     \* bootCalState.attempt_count
    bootDone,     \* bootCalState.completed
    auto,         \* tcal_auto_calibration_enabled
    recent,       \* the online buffers hold enough recent samples for a fit
    owed          \* a calibration the boot calibration asked for has not begun

threadVars == <<step, doing, captured, moves, attempts>>
calVars == <<requested, running, live, collecting, announcing, fit,
             bootDone, auto, recent, owed, threadVars>>

(* At boot calibration_read copies the retained values; nothing is known   *)
(* of them yet.                                                            *)
CalInit ==
    /\ requested = 0 /\ running = FALSE
    /\ step = "startup" /\ doing = 0
    /\ live \in [Kinds -> Values]
    /\ collecting = "off" /\ announcing = FALSE /\ fit = {}
    /\ captured = 0 /\ moves = 0 /\ attempts = 0 /\ bootDone \in BOOLEAN
    /\ auto = FALSE /\ recent = FALSE /\ owed = FALSE

-----------------------------------------------------------------------------
(* The request slot.                                                       *)

Request_Overwrites(id) == requested' = id

Request(id) == requested' = IF requested = 0 THEN id ELSE requested

\* Button, console and receiver: sensor_request_calibration and its kin.
UserRequest ==
    /\ \E id \in {Gyro, SixSide, Sens} : Request(id)
    /\ UNCHANGED <<running, live, collecting, announcing, fit,
                   bootDone, auto, recent, owed, threadVars>>

\* The sensor loop asks for the boot calibration inside its window of time,
\* when the temperature curve covers the temperature; otherwise it gives up.
BootCheck ==
    /\ ~bootDone
    /\ \/ requested = 0 /\ Request(Boot) /\ UNCHANGED bootDone
       \/ bootDone' = TRUE /\ UNCHANGED requested
    /\ UNCHANGED <<running, live, collecting, announcing, fit, auto,
                   recent, owed, threadVars>>

\* ... the periodic one after a rest, and the first point of the curve.
RuntimeCheck ==
    /\ bootDone /\ requested = 0 /\ Request(Runtime)
    /\ UNCHANGED <<running, live, collecting, announcing, fit,
                   bootDone, auto, recent, owed, threadVars>>
AutoCheck ==
    /\ auto /\ Request(Gyro)
    /\ UNCHANGED <<running, live, collecting, announcing, fit,
                   bootDone, auto, recent, owed, threadVars>>

SetAuto ==
    /\ auto' \in BOOLEAN /\ running' = auto'
    /\ UNCHANGED <<requested, live, collecting, announcing, fit,
                   bootDone, recent, owed, threadVars>>

\* sensor_calibration_clear, _clear_6_side and _clear_mag with write.
Clear(kind) == live' = [live EXCEPT ![kind] = "none"]
ClearRecent(kind) == recent' = (recent /\ kind # "mag")
UserClear ==
    /\ \E kind \in Kinds : Clear(kind) /\ ClearRecent(kind)
    /\ UNCHANGED <<requested, running, collecting, announcing, fit, bootDone,
                   auto, owed, threadVars>>

(* sensor_request_calibration_mag sleeps for its LED patterns before it    *)
(* starts the collection; the calibration thread runs meanwhile.           *)
MagAnnounce ==
    /\ running' = TRUE
    /\ announcing' = (announcing \/ collecting = "off")
    /\ UNCHANGED <<requested, live, collecting, fit, bootDone, auto,
                   recent, owed, threadVars>>
MagStart ==
    /\ announcing /\ announcing' = FALSE
    /\ collecting' = "collecting" /\ fit' = {} /\ recent' = FALSE
    /\ UNCHANGED <<requested, running, live, bootDone, auto,
                   owed, threadVars>>

\* The sensor loop buffers samples for the online fit, except while they
\* are collected by hand.
OnlineSample ==
    /\ collecting = "off" /\ recent' = TRUE
    /\ UNCHANGED <<requested, running, live, collecting, announcing,
                   fit, bootDone, auto, owed, threadVars>>

-----------------------------------------------------------------------------
(* The thread.                                                             *)

CalUnchanged == UNCHANGED <<announcing, auto>>

Go(to) == step' = to /\ UNCHANGED <<doing, captured, moves, attempts>>

\* Where a calibration that is done or has failed continues.
Leave == Go("clear")

\* sensor_calibration_validate and its kin on the values in use: what does
\* not pass is cleared, in flash too.
Verified(kinds, values) ==
    [k \in Kinds |-> IF k \in kinds /\ values[k] = "bad" THEN "none" ELSE values[k]]
Verify(kinds) == live' = Verified(kinds, live)

Apply(kind) == live' = [live EXCEPT ![kind] = "good"]

\* The old values are checked if the sensor comes up in time.
Startup ==
    /\ step = "startup" /\ Go("idle")
    /\ \/ \E kinds \in {{"gyro", "acc"}, Kinds} : Verify(kinds)
       \/ UNCHANGED live
    /\ CalUnchanged
    /\ UNCHANGED <<requested, running, collecting, fit, bootDone, recent, owed>>

FirstStep(id) == CASE id = SixSide -> "six" [] id = Runtime -> "collect"
                   [] OTHER -> "settle"

Dispatch ==
    /\ step = "idle" /\ requested # 0
    /\ running' = TRUE /\ doing' = requested /\ step' = FirstStep(requested)
    /\ owed' = (owed /\ requested # Gyro)
    /\ CalUnchanged
    /\ UNCHANGED <<requested, live, collecting, fit, bootDone, recent,
                   captured, moves, attempts>>

ClearRequest_Forgotten ==
    /\ step = "clear" /\ Go("status")
    /\ CalUnchanged
    /\ UNCHANGED <<requested, running, live, collecting, fit, bootDone, recent, owed>>

\* The request is taken back, then the status bit.
ClearRequest ==
    /\ step = "clear" /\ requested' = 0 /\ Go("status")
    /\ CalUnchanged
    /\ UNCHANGED <<running, live, collecting, fit, bootDone, recent, owed>>

ClearStatus ==
    /\ step = "status" /\ running' = FALSE
    /\ step' = "idle" /\ doing' = 0
    /\ CalUnchanged
    /\ UNCHANGED <<requested, live, collecting, fit, bootDone, recent,
                   owed, captured, moves, attempts>>

\* A failed boot calibration is counted; the last one asks, if the curve does
\* not cover the temperature, for a calibration that measures a point.
BootFailed(mayAsk) ==
    /\ attempts' = IF attempts < MaxAttempts THEN attempts + 1 ELSE attempts
    /\ IF attempts' = MaxAttempts
       THEN /\ bootDone' = TRUE
            /\ \/ mayAsk /\ Request(Gyro) /\ owed' = TRUE
               \/ UNCHANGED <<requested, owed>>
       ELSE UNCHANGED <<bootDone, requested, owed>>
    /\ step' = "clear" /\ UNCHANGED <<doing, captured, moves>>

\* wait_for_motion, and the readings of temperature that precede it.
Settle ==
    /\ step = "settle"
    /\ \/ /\ \/ doing \in {Gyro, Boot} /\ Go("collect")
             \/ doing = Gyro /\ Go("retrim")
             \/ doing = Sens /\ Go("bias")
          /\ UNCHANGED <<requested, bootDone, owed>>
       \/ doing # Boot /\ Leave /\ UNCHANGED <<requested, bootDone, owed>>
       \/ doing = Boot /\ BootFailed(FALSE)
       \/ doing = Boot /\ Leave /\ UNCHANGED <<requested, bootDone, owed>>
    /\ CalUnchanged
    /\ UNCHANGED <<running, live, collecting, fit, recent>>

\* The BMI270 retrims itself with the sensor thread suspended.
Retrim ==
    /\ step = "retrim" /\ (Leave \/ Go("collect"))
    /\ CalUnchanged
    /\ UNCHANGED <<requested, running, live, collecting, fit, bootDone,
                   recent, owed>>

\* sensor_offsetBias_internal: seconds of samples, ended by motion, by a wait
\* that times out, or by the time and the temperature that suffice ...
SamplingEnds == {"motion", "timeout", "stopped"}

\* ... and then there must have been enough of them to average.
Averaged(end) == IF end = "stopped" THEN {"ok", "few"} ELSE {end}

BiasResults == UNION {Averaged(end) : end \in SamplingEnds}

CollectGyro == /\ doing = Gyro
               /\ \E r \in BiasResults : Go(IF r = "ok" THEN "apply" ELSE "restore")
               /\ UNCHANGED <<requested, bootDone, owed>>
CollectBoot ==
    /\ doing = Boot
    /\ \E r \in BiasResults :
         IF r = "ok" THEN Go("apply") /\ UNCHANGED <<requested, bootDone, owed>>
         ELSE BootFailed(TRUE)
CollectRuntime == /\ doing = Runtime
                  /\ \E r \in BiasResults : Go(IF r = "ok" THEN "apply" ELSE "clear")
                  /\ UNCHANGED <<requested, bootDone, owed>>
Collect ==
    /\ step = "collect" /\ (CollectGyro \/ CollectBoot \/ CollectRuntime)
    /\ CalUnchanged
    /\ UNCHANGED <<running, live, collecting, fit, recent>>

\* A gyroscope bias that passes the validation is applied; TempCal models the
\* point it adds to the temperature curve.
ApplyGyro == doing = Gyro /\ \/ Apply("gyro") /\ Leave
                             \/ Go("restore") /\ UNCHANGED live
\* Boot and runtime calibration set the offset to that curve.
ApplyOffset == doing = Boot /\ Leave /\ UNCHANGED live
ApplyRuntime == doing = Runtime /\ Leave /\ UNCHANGED live
ApplyBias ==
    /\ step = "apply" /\ (ApplyGyro \/ ApplyOffset \/ ApplyRuntime)
    /\ bootDone' = (bootDone \/ doing = Boot)
    /\ CalUnchanged
    /\ UNCHANGED <<requested, running, collecting, fit, recent, owed>>

Restore ==
    /\ step = "restore" /\ Verify({"gyro"}) /\ Leave
    /\ CalUnchanged
    /\ UNCHANGED <<requested, running, collecting, fit, bootDone, recent, owed>>

-----------------------------------------------------------------------------
(* Six-side calibration.  The samples of all poses are summed in ata, which *)
(* magneto_reset empties, ending a collection by hand as well.              *)

MagnetoReset == collecting' = "off" /\ fit' = {}

SixBegin ==
    /\ step = "six" /\ MagnetoReset
    /\ step' = "pose" /\ captured' = 0 /\ moves' = 0 /\ UNCHANGED <<doing, attempts>>
    /\ CalUnchanged
    /\ UNCHANGED <<requested, running, live, bootDone, recent, owed>>

\* Wait for a new pose at rest; give up after the timeout, or keep what there
\* is if it suffices.
FindPose ==
    /\ step = "pose"
    /\ \/ captured = Poses /\ Go("solve")
       \/ captured < Poses /\ Go("capture")
       \/ captured \in MinPoses .. Poses - 1 /\ Go("solve")
       \/ captured < Poses /\ Go("drop")
    /\ CalUnchanged
    /\ UNCHANGED <<requested, running, live, collecting, fit, bootDone,
                   recent, owed>>

Capture ==
    /\ step = "capture"
    /\ \/ /\ captured' = captured + 1 /\ fit' = fit \cup {"acc"}
          /\ step' = "pose" /\ UNCHANGED moves
       \/ /\ moves < MaxMoves /\ moves' = moves + 1 /\ fit' \in {fit, fit \cup {"acc"}}
          /\ step' = "pose" /\ UNCHANGED captured
       \/ /\ step' = "drop" /\ fit' \in {fit, fit \cup {"acc"}}
          /\ UNCHANGED <<captured, moves>>
    /\ CalUnchanged
    /\ UNCHANGED <<requested, running, live, collecting, bootDone,
                   recent, owed, doing, attempts>>

SixDrop_KeepsSamples ==
    /\ step = "drop" /\ Leave /\ UNCHANGED <<collecting, fit>>
    /\ Verify({"acc"})
    /\ CalUnchanged
    /\ UNCHANGED <<requested, running, bootDone, recent, owed>>

\* An error: the samples are dropped; unless the poses merely did not suffice,
\* the old calibration is verified.
SixDrop ==
    /\ step = "drop" /\ MagnetoReset /\ Leave
    /\ Verify({"acc"}) \/ UNCHANGED live
    /\ CalUnchanged
    /\ UNCHANGED <<requested, running, bootDone, recent, owed>>

SixSolve ==
    /\ step = "solve" /\ MagnetoReset /\ Leave
    /\ Apply("acc") \/ Verify({"acc"})
    /\ CalUnchanged
    /\ UNCHANGED <<requested, running, bootDone, recent, owed>>

-----------------------------------------------------------------------------
(* Gyroscope sensitivity: bias, arm, spin, scale.                          *)

Bias ==
    /\ step = "bias" /\ ((Go("arm")) \/ Leave)
    /\ CalUnchanged
    /\ UNCHANGED <<requested, running, live, collecting, fit, bootDone,
                   recent, owed>>

\* Waits that time out are tolerated here, up to the start timeout.
Arm ==
    /\ step = "arm" /\ ((Go("spin")) \/ Leave)
    /\ CalUnchanged
    /\ UNCHANGED <<requested, running, live, collecting, fit, bootDone,
                   recent, owed>>

\* The spin is integrated until it stops, or a wait or the spin takes too long ...
Spin ==
    /\ step = "spin" /\ (Go("scale") \/ Leave)
    /\ CalUnchanged
    /\ UNCHANGED <<requested, running, live, collecting, fit, bootDone,
                   recent, owed>>

\* ... and the scale is written to retained memory and flash, or rejected.
Scale ==
    /\ step = "scale" /\ Leave
    /\ CalUnchanged
    /\ UNCHANGED <<requested, running, live, collecting, fit, bootDone,
                   recent, owed>>

-----------------------------------------------------------------------------
(* The magnetometer: one call of sensor_calibrate_mag per turn of the loop, *)
(* and the check of the online buffers.                                     *)

MagAlready ==
    /\ live["mag"] # "none" /\ MagnetoReset /\ running' = FALSE
    /\ UNCHANGED <<live, recent>>

\* sensor_sample_mag_magneto_sample: the sample is summed; a trial fit now and
\* then finds the collection ready.
MagSample ==
    /\ live["mag"] = "none" /\ collecting = "collecting"
    /\ running' = TRUE
    /\ \/ /\ fit' \in {fit, fit \cup {"mag"}}
          /\ collecting' = IF "mag" \in fit' THEN "ready" ELSE "collecting"
       \/ UNCHANGED <<fit, collecting>>
    /\ UNCHANGED <<live, recent>>

MagFit ==
    /\ live["mag"] = "none" /\ collecting = "ready"
    /\ MagnetoReset /\ running' = FALSE
    /\ \/ Apply("mag") /\ recent' = FALSE
       \/ UNCHANGED <<live, recent>>

CalibrateMag ==
    /\ step = "idle" /\ requested = 0 /\ collecting # "off"
    /\ MagAlready \/ MagSample \/ MagFit
    /\ CalUnchanged
    /\ UNCHANGED <<requested, bootDone, owed, threadVars>>

OnlineCheck ==
    /\ step = "idle" /\ requested = 0 /\ recent
    /\ \/ Apply("mag") /\ recent' = FALSE
       \/ UNCHANGED live /\ recent' = FALSE
    /\ CalUnchanged
    /\ UNCHANGED <<requested, running, collecting, fit, bootDone, owed, threadVars>>

-----------------------------------------------------------------------------
Procedure ==
    \/ Settle \/ Retrim \/ Collect \/ ApplyBias \/ Restore
    \/ SixBegin \/ FindPose \/ Capture \/ SixDrop \/ SixSolve
    \/ Bias \/ Arm \/ Spin \/ Scale
CalThread == \/ Startup \/ Dispatch \/ ClearRequest \/ ClearStatus \/ Procedure
             \/ CalibrateMag \/ OnlineCheck
CalCallers == \/ UserRequest \/ BootCheck \/ RuntimeCheck \/ AutoCheck
              \/ SetAuto \/ UserClear \/ MagAnnounce \/ MagStart
              \/ OnlineSample
CalNext == CalThread \/ CalCallers

(* The thread is always ready or in a wait that ends, so it keeps taking   *)
(* its steps while a calibration is asked for.                             *)
CalFairness == WF_calVars(Startup \/ Dispatch \/ ClearRequest \/ ClearStatus \/ Procedure)
CalSpec == CalInit /\ [][CalNext]_calVars /\ CalFairness

-----------------------------------------------------------------------------
CalTypeOK ==
    /\ requested \in 0 .. Sens /\ doing \in 0 .. Sens
    /\ {running, announcing, bootDone, auto, recent, owed} \subseteq BOOLEAN
    /\ step \in {"startup", "idle", "clear", "status", "settle", "retrim",
                 "collect", "apply", "restore", "six", "pose", "capture",
                 "drop", "solve", "bias", "arm", "spin", "scale"}
    /\ live \in [Kinds -> Values]
    /\ collecting \in {"off", "collecting", "ready"}
    /\ fit \subseteq {"acc", "mag"}
    /\ captured \in 0 .. Poses /\ moves \in 0 .. MaxMoves
    /\ attempts \in 0 .. MaxAttempts

\* The thread clears the request slot without looking at it (calibration.c:3411
\* and its kin).  What it clears is the request it has just carried out, so no
\* accepted request is lost.
ClearsItsOwn ==
    step \notin {"startup", "idle", "status"} => requested = doing

\* The accumulator ata serves the six-side calibration and the collection by
\* hand (calibration.c:82), which may begin and end inside each other.  A
\* magnetometer fit never has accelerometer samples in it.
MagFitPure ==
    step = "idle" /\ collecting # "off" => "acc" \notin fit

\* Several threads set and clear the status bit.  Once no calibration is asked
\* for, running, announced or collected, and the automatic temperature
\* calibration is off, the receiver is not told that one is running.
StatusEnds ==
    /\ step = "idle" /\ requested = 0 /\ collecting = "off"
    /\ ~announcing /\ ~auto
    => ~running

\* Whatever the sensors do, a calibration that was asked for ends and frees
\* the slot for the next one.
CalibrationEnds == requested # 0 ~> requested = 0

\* "Request standard calibration to collect tcal data", calibration.c:4516: the
\* calibration that the boot calibration asks for is still asked for when the
\* thread is free to run it.
FallbackKept == owed /\ step = "idle" => requested = Gyro
=============================================================================
