--------------------------------- MODULE Modes ---------------------------------
(***************************************************************************)
(* What the receiver can ask for that keeps a tracker from sleeping, and   *)
(* how the tracker gets out of it by itself: the collection of raw data    *)
(* together with the test mode, and the suppression while another tracker  *)
(* is updated (connection/connection.c, connection/esb.c,                  *)
(* system/test_mode.c).                                                    *)
(*                                                                         *)
(* The ESB thread (priority 6) carries out the commands, in two steps of   *)
(* which the connection thread (5) can see the first.  That thread ends    *)
(* what has lasted too long, once per turn.                                *)
(***************************************************************************)
EXTENDS Integers

CONSTANTS
    SuppressLimit,  \* OTA_SUPPRESS_TIMEOUT_MS, 10 min
    ErrorLimit,     \* 60 s of connection error
    ModeEvents      \* bound: commands, and what happens to the link

ASSUME ModesAssumption == {SuppressLimit, ErrorLimit, ModeEvents} \subseteq Nat

VARIABLES
    collecting,  \* data_collection_active
    testMode,    \* test_mode_active
    suppressed, suppressedFor,  \* ota_suppressed, the age of ota_suppress_start_time
    errorFor,    \* the age of dc_conn_error_start
    error,       \* SYS_STATUS_CONNECTION_ERROR
    lost,        \* the receiver is gone
    updating,    \* esb_ota_is_active()
    command,     \* of which the ESB thread has done the first half
    halfway,     \* the connection thread is between its two checks
    modeEvents

modeVars == <<collecting, testMode, suppressed, suppressedFor, errorFor, error, lost, updating,
              command, halfway, modeEvents>>

Unset == -1

ModesInit ==
    /\ collecting = FALSE /\ testMode = FALSE /\ suppressed = FALSE /\ suppressedFor = Unset
    /\ errorFor = Unset /\ error = FALSE /\ lost = FALSE /\ updating = FALSE
    /\ command = "none" /\ halfway = FALSE /\ modeEvents = 0

ModeEvent == modeEvents < ModeEvents /\ modeEvents' = modeEvents + 1

-----------------------------------------------------------------------------
(* The ESB thread.  A collection that begins has more to do, see RawStream. *)

BeginCommand ==
    /\ ModeEvent /\ command = "none"
    /\ \/ command' = "collect" /\ collecting' = TRUE /\ UNCHANGED <<testMode, suppressed>>
       \/ command' = "stop" /\ collecting' = FALSE /\ UNCHANGED <<testMode, suppressed>>
       \/ command' = "suppress" /\ suppressed' = TRUE /\ UNCHANGED <<testMode, collecting>>
       \/ command' = "release" /\ suppressed' = FALSE /\ UNCHANGED <<testMode, collecting>>
       \/ command' = "none" /\ testMode' \in BOOLEAN /\ UNCHANGED <<collecting, suppressed>>
    /\ UNCHANGED <<suppressedFor, errorFor, error, lost, updating, halfway>>

Stamp == IF command = "suppress" THEN 0 ELSE Unset

FinishCommand ==
    /\ command # "none" /\ command' = "none"
    /\ testMode' = IF command \in {"collect", "stop"} THEN command = "collect" ELSE testMode
    /\ suppressedFor' = IF command \in {"suppress", "release"} THEN Stamp ELSE suppressedFor
    /\ UNCHANGED <<collecting, suppressed, errorFor, error, lost, updating, halfway, modeEvents>>

\* Enough PINGs have failed (EsbLink); in test mode that is not looked at.
RaiseError ==
    /\ lost /\ ~error /\ ~testMode /\ command = "none" /\ error' = TRUE
    /\ UNCHANGED <<collecting, testMode, suppressed, suppressedFor, errorFor, lost, updating,
                   command, halfway, modeEvents>>

\* Pairing takes the error back, a PONG does not.
Link ==
    /\ ModeEvent
    /\ \/ lost' = ~lost /\ error' = error
       \/ command = "none" /\ lost' = FALSE /\ error' = FALSE
    /\ UNCHANGED <<collecting, testMode, suppressed, suppressedFor, errorFor, updating, command,
                   halfway>>

\* An update of this tracker begins; it ends, in EsbOta.
OwnUpdate ==
    /\ \/ ~updating /\ ModeEvent
       \/ updating /\ UNCHANGED modeEvents
    /\ updating' = ~updating
    /\ UNCHANGED <<collecting, testMode, suppressed, suppressedFor, errorFor, error, lost, command,
                   halfway>>

-----------------------------------------------------------------------------
(* connection_thread                                                       *)

CheckSuppression ==
    /\ ~halfway /\ ~updating /\ halfway' = TRUE
    /\ IF suppressed /\ suppressedFor > SuppressLimit
       THEN suppressed' = FALSE /\ suppressedFor' = Unset
       ELSE UNCHANGED <<suppressed, suppressedFor>>
    /\ UNCHANGED <<collecting, testMode, errorFor, error, lost, updating, command, modeEvents>>

\* The start of the error is forgotten only where it ends a collection.
CheckError ==
    /\ halfway /\ halfway' = FALSE
    /\ \/ /\ error /\ collecting /\ errorFor = Unset /\ errorFor' = 0
          /\ UNCHANGED <<collecting, testMode>>
       \/ /\ error /\ collecting /\ errorFor > ErrorLimit /\ errorFor' = Unset
          /\ collecting' = FALSE /\ testMode' = FALSE
       \/ /\ ~error \/ ~collecting \/ errorFor \in 0 .. ErrorLimit
          /\ UNCHANGED <<collecting, testMode, errorFor>>
    /\ UNCHANGED <<suppressed, suppressedFor, error, lost, updating, command, modeEvents>>

Older(age, limit) == IF age = Unset \/ age > limit THEN age ELSE age + 1
ModeTick ==
    /\ suppressedFor' = Older(suppressedFor, SuppressLimit) /\ errorFor' = Older(errorFor, ErrorLimit)
    /\ UNCHANGED <<collecting, testMode, suppressed, error, lost, updating, command, halfway,
                   modeEvents>>

ModeProgress == CheckSuppression \/ CheckError
ModesNext ==
    BeginCommand \/ FinishCommand \/ RaiseError \/ Link \/ OwnUpdate \/ ModeProgress \/ ModeTick
ModesSpec ==
    /\ ModesInit /\ [][ModesNext]_modeVars
    /\ WF_modeVars(ModeProgress) /\ WF_modeVars(ModeTick) /\ WF_modeVars(FinishCommand)
    /\ WF_modeVars(RaiseError) /\ WF_modeVars(updating /\ OwnUpdate)

-----------------------------------------------------------------------------
ModesTypeOK ==
    /\ {collecting, testMode, suppressed, error, lost, updating, halfway} \subseteq BOOLEAN
    /\ suppressedFor \in Unset .. SuppressLimit + 1 /\ errorFor \in Unset .. ErrorLimit + 1
    /\ command \in {"none", "collect", "stop", "suppress", "release"} /\ modeEvents \in 0 .. ModeEvents


\* "Auto-stop data collection after prolonged connection error to avoid indefinite
\* battery drain and stuck state" (connection.c:1079): the collection sets the test mode,
\* in which no connection error is raised.
StopsWithoutReceiver == <>[]lost => <>[]~collecting

\* "connection error for 60s" (connection.c:1089): the start that is measured from may be
\* that of an error the tracker had in an earlier collection.
StartIsCurrent == errorFor # Unset => error /\ collecting
=============================================================================
