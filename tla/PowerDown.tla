------------------------------ MODULE PowerDown ------------------------------
(***************************************************************************)
(* Powering down (system/power.c) on top of the sensor thread: any thread  *)
(* may put a request into the one slot of sys_power_state_request; the     *)
(* power thread takes it every 100 ms, refuses it during an OTA update,    *)
(* or stops the sensors and leaves for wake-on-motion, system off or a     *)
(* reboot.  The connection thread stops the sensors too, when an update    *)
(* begins (system/esb_ota.c).                                              *)
(***************************************************************************)
EXTENDS SensorThread

CONSTANTS Power, Connection   \* the two Downers

ASSUME DownersAssumption == Downers = {Power, Connection} /\ Power # Connection

VARIABLES
  requested,   \* the slot: WOM, forced WOM, system off, reboot, or 0
  work,        \* what the power thread read there and carries out, 0 before it looks
  ota,         \* esb_ota_is_active
  powered      \* "on", until the tracker is off or resets

power_vars == <<requested, work, ota, powered>>
vars == <<sensor_vars, power_vars>>

WOM == 1
WOMForced == 2
SystemOff == 3
Reboot == 4
WOMScanned == 5   \* WOM after its second look for a sensor
Nothing == 6

TypeOK ==
  /\ SensorTypeOK
  /\ requested \in 0..Reboot /\ work \in 0..Nothing
  /\ ota \in BOOLEAN /\ powered \in {"on", "off", "reset"}

Init ==
  /\ SensorInit
  /\ requested = 0 /\ work = 0 /\ ota = FALSE /\ powered = "on"

-----------------------------------------------------------------------------
(* sys_power_state_request(id): refused while another request waits.       *)
Slot(id) == IF requested = 0 THEN id ELSE requested

Request(id) ==
  /\ requested' = Slot(id)
  /\ UNCHANGED <<sensor_vars, work, ota, powered>>

(* "Block shutdown during OTA (active or suppressed)".                     *)
BlockedByOta(id, suppressed) == id # Reboot /\ (ota \/ suppressed)

(* The power thread reads the slot, serves what it read or not, and clears *)
(* the slot: a request that came in between is lost.                       *)
Look ==
  /\ work = 0 /\ pc[Power] = "idle"
  /\ work' = IF requested = 0 THEN Nothing ELSE requested
  /\ UNCHANGED <<sensor_vars, requested, ota, powered>>

Serve(suppressed) ==
  /\ work \in WOM..Reboot /\ pc[Power] = "idle"
  /\ ~BlockedByOta(work, suppressed)
  /\ TakeDown(Power)
  /\ UNCHANGED power_vars

(* Nothing to do, blocked, or WOM with ESB and status not ready yet.       *)
Clear(suppressed) ==
  /\ work # 0 /\ pc[Power] = "idle"
  /\ work \in {Nothing, WOM} \/ BlockedByOta(work, suppressed)
  /\ work' = 0 /\ requested' = 0
  /\ UNCHANGED <<sensor_vars, ota, powered>>

(* A discharged battery or a dock: an immediate system off.                *)
Discharged(suppressed) ==
  /\ work = 0 /\ pc[Power] = "idle"
  /\ ~BlockedByOta(SystemOff, suppressed)
  /\ work' = SystemOff
  /\ TakeDown(Power)
  /\ UNCHANGED <<requested, ota, powered>>

PowerThreadWaits ==
  /\ TakenDown(Power) \/ ScanJoined(Power)
  /\ UNCHANGED power_vars

SetupWOM ==
  /\ work \in {WOM, WOMForced}
  /\ ScanForWOM(Power)
  /\ work' = WOMScanned
  /\ UNCHANGED <<requested, ota, powered>>

Leave ==
  /\ pc[Power] = "down"
  /\ work \in {WOM, WOMForced} => sensor_sensor_init
  /\ powered' = IF work = Reboot THEN "reset" ELSE "off"
  /\ UNCHANGED <<sensor_vars, requested, work, ota>>

PowerThread ==
  \/ Look
  \/ \E suppressed \in BOOLEAN : Serve(suppressed) \/ Clear(suppressed) \/ Discharged(suppressed)
  \/ PowerThreadWaits \/ SetupWOM \/ Leave

-----------------------------------------------------------------------------
(* An OTA update begins, and ends with a reboot request.                   *)

BeginOta ==
  /\ ~ota
  /\ TakeDown(Connection) \/ TakenDown(Connection) \/ ScanJoined(Connection)
  /\ ota' = (pc'[Connection] = "down")
  /\ UNCHANGED <<requested, work, powered>>

EndOta ==
  /\ ota
  /\ ota' = FALSE
  /\ requested' = Slot(Reboot)
  /\ Goto(Connection, "idle")
  /\ UNCHANGED <<flags, thread, frozen, interrupted, work, powered>>

-----------------------------------------------------------------------------
OtherCallers ==
  /\ \/ \E c \in Scanners : RequestScan(c) \/ Stopped(c) \/ ScanJoined(c)
     \/ \E c \in Calibrators : Suspend(c) \/ Suspended(c) \/ Resume(c)
  /\ UNCHANGED power_vars

SensorStep == Thread /\ UNCHANGED power_vars

Next ==
  /\ powered = "on"
  /\ \/ SensorStep \/ OtherCallers
     \/ PowerThread
     \/ \E id \in WOM..Reboot : Request(id)
     \/ BeginOta \/ EndOta

Spec == Init /\ [][Next]_vars

(* Threads run; a thread that polls main_running does so every 30 us and   *)
(* finds the loop asleep in the end.  Callers, which block between their   *)
(* requests, do not starve the sensor thread.                              *)
FairSpec ==
  /\ Spec
  /\ SF_vars(powered = "on" /\ SensorStep)
  /\ SF_vars(powered = "on" /\ (PowerThreadWaits \/ SetupWOM \/ Leave))
  /\ SF_vars(powered = "on" /\ pc[Connection] # "idle" /\ BeginOta)
  /\ \A c \in Scanners :
       SF_vars(powered = "on" /\ (Stopped(c) \/ ScanJoined(c)) /\ UNCHANGED power_vars)
  /\ \A c \in Calibrators :
       SF_vars(powered = "on" /\ (Suspended(c) \/ Resume(c)) /\ UNCHANGED power_vars)

-----------------------------------------------------------------------------
(* main_running, which every main_imu_suspend and wait_for_threads polls,  *)
(* is never left set by a thread that cannot clear it any more: whoever    *)
(* aborts, suspends or replaces the thread found it clear (sensor.c 720    *)
(* and 2341-2351).                                                         *)
RunningIsAlive ==
  main_running =>
    thread = "work" /\ ~frozen /\ sensor_sensor_init /\ ~sensor_sensor_scanning

(* The thread structure and its stack are never given to a second thread   *)
(* while the first one lives: k_thread_create follows an abort or a join   *)
(* that no other caller has overtaken (sensor.c 732 and 736).              *)
ThreadCreatedOnce ==
  [][thread' = "entry" /\ thread # "entry" => thread = "none"]_vars

(* The waits of main_imu_suspend ("TODO: add timeout") end, whatever the   *)
(* other callers do.                                                       *)
SuspendReturns ==
  \A c \in Callers :
    [](pc[c] \in {"stop", "suspend"} => <>(pc[c] \notin {"stop", "suspend"} \/ powered # "on"))

(* The power thread, once it set out to power down, gets there, unless a   *)
(* scan was interrupted.                                                   *)
PowerDownEnds == [](pc[Power] # "idle" => <>(powered # "on" \/ interrupted))

(* Statements of the sources that the code does not keep; see README.      *)

(* "try not to interrupt scanning" (sensor.c 2347).                        *)
ScanNotInterrupted == ~interrupted

(* "Resumed sensor thread" (sensor.c 2359): when everyone who suspended    *)
(* the loop has resumed it, it goes on.                                    *)
ResumedLoopRuns ==
  [](/\ thread \in {"work", "sleep", "start"}
     /\ \A c \in Callers : pc[c] = "idle"
     => <>(main_running \/ powered # "on" \/ \E c \in Callers : pc[c] # "idle"))

(* "Block shutdown during OTA (active or suppressed)" (power.c 431).       *)
NoShutdownDuringOta ==
  [][powered' = "off" => ~ota]_vars
=============================================================================
