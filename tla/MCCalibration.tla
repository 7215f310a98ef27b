---------------------------- MODULE MCCalibration ----------------------------
(***************************************************************************)
(* Model checking of calibration: the thread with its requests, and the    *)
(* temperature curve with its table.  They meet only where a calibration   *)
(* of the gyroscope adds a point to the curve, which TempCal has as an     *)
(* action of its own; a behaviour follows one of them.                     *)
(***************************************************************************)
EXTENDS CalibrationThread, TempCal

VARIABLE part

MCCalInit ==
    /\ part \in {"thread", "curve"}
    /\ CalInit /\ TCalInit
    /\ part = "thread" => points = {}
    /\ part = "curve" => live = [k \in Kinds |-> "none"] /\ ~bootDone

MCCalNext ==
    \/ part = "thread" /\ CalNext /\ UNCHANGED <<part, tcalVars>>
    \/ part = "curve" /\ TCalNext /\ UNCHANGED <<part, calVars>>

MCCalSpec ==
    /\ MCCalInit /\ [][MCCalNext]_<<part, calVars, tcalVars>>
    /\ WF_calVars(part = "thread" /\
         (Startup \/ Dispatch \/ ClearRequest \/ ClearStatus \/ Procedure))
=============================================================================
