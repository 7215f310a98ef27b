---------------------------- MODULE SensorThread ----------------------------
(***************************************************************************)
(* The life of the sensor thread (sensor/sensor.c).  One thread structure  *)
(* runs either the scan for sensors or the sensor loop; other threads      *)
(* suspend it (main_imu_suspend), resume it, or abort it and create it     *)
(* anew (sensor_request_scan).  They agree with it through flags without a *)
(* lock:                                                                   *)
(*                                                                         *)
(*   main_running             the loop is in the middle of an iteration    *)
(*   main_suspended           the loop should suspend itself               *)
(*   sensor_sensor_scanning   a scan is going on                           *)
(*   sensor_sensor_init       a sensor was found                           *)
(*                                                                         *)
(* A caller's stretch of code between two points where it may block is one *)
(* action.  The sensor thread (priority 7) does not run while a caller is  *)
(* ready: callers have priority 5 or 6, the boot thread 7 and is ready     *)
(* first.  Only the calibration thread has a lower one (8): it runs when   *)
(* the sensor thread sleeps or waits for the bus.                          *)
(***************************************************************************)
EXTENDS Integers

CONSTANTS
  Scanners,     \* threads that call sensor_request_scan(true)
  Boot,         \* the one that does it when the tracker boots
  Downers,      \* threads that call main_imu_suspend and sensor_shutdown
  Calibrators   \* threads that call main_imu_suspend and main_imu_resume

Callers == Scanners \cup Downers \cup Calibrators

ASSUME CallersAssumption ==
  /\ Scanners \cap Downers = {} /\ Boot \in Scanners
  /\ Calibrators \cap (Scanners \cup Downers) = {}

VARIABLES
  main_running, main_suspended, sensor_sensor_scanning, sensor_sensor_init,
  thread,      \* where the thread is, "none" if it does not exist
  frozen,      \* k_thread_suspend
  pc,          \* where each caller is
  interrupted  \* history: a scan was aborted or suspended before it ended

flags == <<main_running, main_suspended, sensor_sensor_scanning, sensor_sensor_init>>
sensor_vars == <<flags, thread, frozen, pc, interrupted>>

SensorTypeOK ==
  /\ main_running \in BOOLEAN /\ main_suspended \in BOOLEAN
  /\ sensor_sensor_scanning \in BOOLEAN /\ sensor_sensor_init \in BOOLEAN
  /\ thread \in {"none", "probe", "probing", "reprobe", "reprobing",
                 "entry", "work", "sleep", "start"}
  /\ frozen \in BOOLEAN /\ interrupted \in BOOLEAN
  /\ pc \in [Callers -> {"idle", "suspend", "suspended", "stop", "scan", "joined", "down"}]

(* sensor_init_thread_id has requested the first scan.                     *)
SensorInit ==
  /\ main_running = FALSE /\ main_suspended = FALSE
  /\ sensor_sensor_scanning = FALSE /\ sensor_sensor_init = FALSE
  /\ thread = "probe" /\ frozen = FALSE /\ interrupted = FALSE
  /\ pc = [c \in Callers |-> IF c = Boot THEN "scan" ELSE "idle"]

Goto(c, to) == pc' = [pc EXCEPT ![c] = to]

-----------------------------------------------------------------------------
(* The sensor thread.                                                      *)

Scanning == thread \in {"probing", "reprobing"}
CallerReady == \E c \in Scanners \cup Downers : pc[c] = "joined"
ThreadRuns == ~frozen /\ ~CallerReady

(* k_thread_join returns in whoever waits for the thread.                  *)
Joined == [c \in Callers |-> IF pc[c] = "scan" THEN "joined" ELSE pc[c]]

(* sensor_scan: "already scanning", "already initialized", or scan.        *)
BeginScan ==
  /\ ThreadRuns /\ thread \in {"probe", "reprobe"}
  /\ ~sensor_sensor_scanning
  /\ IF sensor_sensor_init
     THEN thread' = "none" /\ pc' = Joined /\ UNCHANGED sensor_sensor_scanning
     ELSE /\ thread' = IF thread = "probe" THEN "probing" ELSE "reprobing"
          /\ sensor_sensor_scanning' = TRUE
          /\ UNCHANGED pc
  /\ UNCHANGED <<main_running, main_suspended, sensor_sensor_init, frozen, interrupted>>

ScanningAfter_OnlyFound(found) == ~found
ScanningAfter(found) == FALSE

(* The scan ends; sensor_scan_thread tries a second time.                  *)
EndScan(found) ==
  /\ ThreadRuns /\ Scanning
  /\ sensor_sensor_scanning' = ScanningAfter(found)
  /\ sensor_sensor_init' = (sensor_sensor_init \/ found)
  /\ IF thread = "probing" /\ ~found
     THEN thread' = "reprobe" /\ UNCHANGED pc
     ELSE thread' = "none" /\ pc' = Joined
  /\ UNCHANGED <<main_running, main_suspended, frozen, interrupted>>

EnterLoop ==
  /\ ThreadRuns /\ thread = "entry"
  /\ main_running' = sensor_sensor_init
  /\ thread' = IF sensor_sensor_init THEN "work" ELSE "none"
  /\ UNCHANGED <<main_suspended, sensor_sensor_scanning, sensor_sensor_init, frozen,
                 pc, interrupted>>

EndIteration ==
  /\ ThreadRuns /\ thread = "work"
  /\ main_running' = FALSE
  /\ thread' = "sleep"
  /\ UNCHANGED <<main_suspended, sensor_sensor_scanning, sensor_sensor_init, frozen,
                 pc, interrupted>>

RunningAtCheck == main_running

(* After the sleep the loop suspends itself if it was asked to, before it  *)
(* sets main_running.                                                      *)
Wake ==
  /\ ThreadRuns /\ thread = "sleep"
  /\ frozen' = main_suspended
  /\ main_running' = RunningAtCheck
  /\ thread' = "start"
  /\ UNCHANGED <<main_suspended, sensor_sensor_scanning, sensor_sensor_init, pc, interrupted>>

StartIteration ==
  /\ ThreadRuns /\ thread = "start"
  /\ main_running' = TRUE
  /\ thread' = "work"
  /\ UNCHANGED <<main_suspended, sensor_sensor_scanning, sensor_sensor_init, frozen,
                 pc, interrupted>>

Thread ==
  \/ BeginScan \/ (\E found \in BOOLEAN : EndScan(found))
  \/ EnterLoop \/ EndIteration \/ Wake \/ StartIteration

-----------------------------------------------------------------------------
(* The callers.                                                            *)

MayRun(c) ==
  c \in Calibrators =>
    /\ ~CallerReady
    /\ \/ frozen \/ thread \in {"none", "work", "sleep"} \/ Scanning
       \/ thread \in {"probe", "reprobe"} /\ sensor_sensor_scanning

(* The first half of main_imu_suspend: "don't suspend if already stopped". *)
AskToSuspend(c) ==
  /\ main_suspended' = TRUE
  /\ UNCHANGED <<main_running, sensor_sensor_scanning, sensor_sensor_init,
                 thread, frozen, interrupted>>

(* The second half: "try not to interrupt anything" (it waits for the end  *)
(* of a scan first, but the loop does not run during one).                 *)
StopSeen == ~main_running

InitAfterAbort_Kept == sensor_sensor_init
InitAfterAbort == FALSE

(* sensor_request_scan from k_thread_abort to k_thread_join.  Threads that *)
(* waited for the thread aborted here are released.                        *)
Rescan(c) ==
  /\ thread' = "probe" /\ frozen' = FALSE
  /\ main_suspended' = FALSE
  /\ sensor_sensor_init' = InitAfterAbort
  /\ interrupted' = (interrupted \/ Scanning)
  /\ pc' = [Joined EXCEPT ![c] = "scan"]
  /\ UNCHANGED <<main_running, sensor_sensor_scanning>>

RequestScan(c) ==
  /\ c \in Scanners \ {Boot} /\ pc[c] = "idle"
  /\ IF main_running THEN AskToSuspend(c) /\ Goto(c, "stop") ELSE Rescan(c)

Stopped(c) ==
  /\ pc[c] = "stop" /\ StopSeen
  /\ Rescan(c)

(* After the join; only a forced scan starts the loop.                     *)
ScanJoined(c) ==
  /\ pc[c] = "joined"
  /\ IF c \in Scanners
     THEN /\ IF sensor_sensor_init
             THEN thread' = "entry" /\ frozen' = FALSE
             ELSE UNCHANGED <<thread, frozen>>
          /\ Goto(c, "idle")
     ELSE Goto(c, "down") /\ UNCHANGED <<thread, frozen>>
  /\ UNCHANGED <<flags, interrupted>>

(* main_imu_suspend; sensor_shutdown, which scans once more when no sensor *)
(* was found (sensor_request_scan(false)).                                 *)
TakeDown(c) ==
  /\ c \in Downers /\ pc[c] = "idle"
  /\ IF main_running
     THEN AskToSuspend(c) /\ Goto(c, "suspend")
     ELSE IF sensor_sensor_init THEN AskToSuspend(c) /\ Goto(c, "down") ELSE Rescan(c)

TakenDown(c) ==
  /\ c \in Downers /\ pc[c] = "suspend" /\ StopSeen
  /\ IF sensor_sensor_init
     THEN /\ frozen' = (thread # "none") /\ Goto(c, "down")
          /\ UNCHANGED <<flags, thread, interrupted>>
     ELSE Rescan(c)

(* sensor_setup_WOM, once sensor_shutdown is done, scans again if no       *)
(* sensor was found; the loop then is not running.                         *)
ScanForWOM(c) ==
  /\ c \in Downers /\ pc[c] = "down" /\ ~sensor_sensor_init
  /\ Rescan(c)

(* The calibration of a BMI270.                                            *)
Suspend(c) ==
  /\ c \in Calibrators /\ MayRun(c) /\ pc[c] = "idle"
  /\ AskToSuspend(c)
  /\ Goto(c, IF main_running THEN "suspend" ELSE "suspended")

Suspended(c) ==
  /\ c \in Calibrators /\ MayRun(c) /\ pc[c] = "suspend" /\ StopSeen
  /\ frozen' = (thread # "none")
  /\ interrupted' = (interrupted \/ Scanning)
  /\ Goto(c, "suspended")
  /\ UNCHANGED <<flags, thread>>

(* main_imu_resume returns at once if not main_suspended, and leaves       *)
(* main_suspended set.                                                     *)
Resume(c) ==
  /\ c \in Calibrators /\ MayRun(c) /\ pc[c] = "suspended"
  /\ frozen' = (frozen /\ ~main_suspended)
  /\ Goto(c, "idle")
  /\ UNCHANGED <<flags, thread, interrupted>>
=============================================================================
