------------------------------- MODULE MCStream -------------------------------
(***************************************************************************)
(* Model checking of what lies between the sensor data and the radio: the  *)
(* raw data stream, the choice of packets, transmission slots, the         *)
(* receiver's clock, the queue of OTA packets, and what slows the tracker  *)
(* down or keeps it awake.  They share no state in the models: a behaviour *)
(* follows one of them, the others stand still.                            *)
(***************************************************************************)
EXTENDS RawStream, Packets, Tdma, TimeSync, OtaRxQueue, Modes

VARIABLE part

streamVars == <<part, rawVars, packetVars, tdmaVars, timeVars, rxVars, modeVars>>

StreamInit ==
    /\ part \in {"raw", "packets", "tdma", "time", "rx", "modes"}
    /\ RawInit /\ PacketsInit /\ TdmaInit /\ TimeInit /\ RxInit /\ ModesInit

StreamNext ==
    \/ /\ part = "raw" /\ RawNext
       /\ UNCHANGED <<part, packetVars, tdmaVars, timeVars, rxVars, modeVars>>
    \/ /\ part = "packets" /\ PacketsNext
       /\ UNCHANGED <<part, rawVars, tdmaVars, timeVars, rxVars, modeVars>>
    \/ /\ part = "tdma" /\ TdmaNext
       /\ UNCHANGED <<part, rawVars, packetVars, timeVars, rxVars, modeVars>>
    \/ /\ part = "time" /\ TimeNext
       /\ UNCHANGED <<part, rawVars, packetVars, tdmaVars, rxVars, modeVars>>
    \/ /\ part = "rx" /\ RxNext
       /\ UNCHANGED <<part, rawVars, packetVars, tdmaVars, timeVars, modeVars>>
    \/ /\ part = "modes" /\ ModesNext
       /\ UNCHANGED <<part, rawVars, packetVars, tdmaVars, timeVars, rxVars>>

StreamSpec ==
    /\ StreamInit /\ [][StreamNext]_streamVars
    /\ WF_rawVars(part = "raw" /\ SensorTurn /\ (collection.active => ~noticed \/ meta.sent))
    /\ WF_rawVars(part = "raw" /\ RawConnection)
    /\ WF_modeVars(part = "modes" /\ ModeProgress) /\ WF_modeVars(part = "modes" /\ ModeTick)
    /\ WF_modeVars(part = "modes" /\ FinishCommand) /\ WF_modeVars(part = "modes" /\ RaiseError)
    /\ WF_modeVars(part = "modes" /\ updating /\ OwnUpdate)

StreamTypeOK == RawTypeOK /\ PacketsTypeOK /\ TdmaTypeOK /\ TimeTypeOK /\ RxTypeOK /\ ModesTypeOK
=============================================================================
