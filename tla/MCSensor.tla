------------------------------- MODULE MCSensor -------------------------------
(***************************************************************************)
(* Model checking of the sensor thread: how it finds the chips, how its     *)
(* loop wakes, what it notices of a failing chip, what it does at rest,    *)
(* the calibration of the magnetometer it feeds, and the BNO08x driver.     *)
(* They share no state in the models: a behaviour follows one of them, the  *)
(* others stand still.                                                      *)
(***************************************************************************)
EXTENDS SensorScan, SensorWake, SensorHealth, SensorRest, OnlineMag, Bno08x

VARIABLE part

sensorVars == <<part, scanVars, wakeVars, healthVars, restVars, onlineVars, bnoVars>>

\* Where a part is not followed, one of its first states is enough.
SensorInit ==
    /\ part \in {"scan", "wake", "health", "rest", "mag", "bno"}
    /\ BnoInit /\ ScanInit /\ WakeInit /\ HealthInit /\ RestInit /\ OnlineInit
    /\ part # "scan" => /\ imuChip = [at |-> "i2c", addr |-> 1] /\ magChip = [at |-> "spi", addr |-> 1]
                        /\ answers = {} /\ magWanted
    /\ part # "health" => chip = "good"
    /\ part # "rest" => moves
    /\ part # "mag" => magBAinv = None /\ env = CHOOSE e \in Environments : TRUE
    /\ part # "bno" => /\ bus = "i2c" /\ saved = NoAddr /\ angle = 0
                       /\ bnoAddr = (CHOOSE a \in BnoAddrs : TRUE) /\ want = (CHOOSE r \in Rates : TRUE)

SensorNext ==
    \/ /\ part = "scan" /\ ScanNext
       /\ UNCHANGED <<part, wakeVars, healthVars, restVars, onlineVars, bnoVars>>
    \/ /\ part = "wake" /\ WakeNext
       /\ UNCHANGED <<part, scanVars, healthVars, restVars, onlineVars, bnoVars>>
    \/ /\ part = "health" /\ HealthNext
       /\ UNCHANGED <<part, scanVars, wakeVars, restVars, onlineVars, bnoVars>>
    \/ /\ part = "rest" /\ RestNext
       /\ UNCHANGED <<part, scanVars, wakeVars, healthVars, onlineVars, bnoVars>>
    \/ /\ part = "mag" /\ OnlineNext
       /\ UNCHANGED <<part, scanVars, wakeVars, healthVars, restVars, bnoVars>>
    \/ /\ part = "bno" /\ BnoNext
       /\ UNCHANGED <<part, scanVars, wakeVars, healthVars, restVars, onlineVars>>

\* The fairness of OnlineSpec and of BnoSpec; the other parts are checked for safety only.
SensorSpec ==
    /\ SensorInit /\ [][SensorNext]_sensorVars
    /\ WF_onlineVars(part = "mag" /\ Longer)
    /\ WF_onlineVars(part = "mag" /\ Unsuppress)
    /\ \A o \in Octants : SF_onlineVars(part = "mag" /\ Sample(o))
    /\ SF_onlineVars(part = "mag" /\ Check /\ step' = "collect")
    /\ SF_onlineVars(part = "mag" /\ (NewField \/ Fit))
    /\ WF_onlineVars(part = "mag" /\ (TooFew \/ NewField \/ BadFit \/ Fit \/ Reject \/ Apply \/ Clear))
    /\ WF_bnoVars(part = "bno" /\ BnoRead) /\ WF_bnoVars(part = "bno" /\ SkipI2c)

\* Every environment has a norm of its own.
Fields == [e \in Environments |-> e]

SensorTypeOK == ScanTypeOK /\ WakeTypeOK /\ HealthTypeOK /\ RestTypeOK /\ OnlineTypeOK /\ BnoTypeOK
=============================================================================
