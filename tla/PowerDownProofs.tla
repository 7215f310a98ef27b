--------------------------- MODULE PowerDownProofs ---------------------------
(***************************************************************************)
(* Proofs about SensorThread and PowerDown, for any sets of callers: the   *)
(* types, and that no thread is aborted, suspended or created anew in the  *)
(* middle of what others wait for.                                         *)
(***************************************************************************)
EXTENDS PowerDown, TLAPS

(* A sensor is known only when no scan goes on, and the loop knows one.    *)
FoundIsIdle ==
  /\ sensor_sensor_init => ~sensor_sensor_scanning
  /\ thread \in {"entry", "work", "sleep", "start"} => sensor_sensor_init

RunsInLoop == main_running => thread = "work" /\ ~frozen

(* k_thread_join: at most one caller waits for the scan, and when it finds *)
(* a sensor nobody else is about to start the loop.                        *)
OneWaits == \A c, d \in Callers : pc[c] = "scan" /\ pc[d] = "scan" => c = d

JoinedAlone ==
  \A c \in Callers : pc[c] = "joined" /\ sensor_sensor_init =>
    /\ thread = "none"
    /\ \A d \in Callers \ {c} : pc[d] \notin {"scan", "joined"}

CalibratorsDoNotScan == \A c \in Calibrators : pc[c] \notin {"scan", "joined"}

SensorInv ==
  /\ SensorTypeOK /\ FoundIsIdle /\ RunsInLoop /\ OneWaits /\ JoinedAlone
  /\ CalibratorsDoNotScan

IInv == TypeOK /\ SensorInv

-----------------------------------------------------------------------------
States == {"idle", "suspend", "suspended", "stop", "scan", "joined", "down"}

(* Who waited for the thread is released, nobody else moves.               *)
LEMMA JoinedReleases ==
  ASSUME SensorTypeOK
  PROVE  /\ Joined \in [Callers -> States]
         /\ \A d \in Callers : Joined[d] = IF pc[d] = "scan" THEN "joined" ELSE pc[d]
  BY DEF SensorTypeOK, Joined, States

(* A caller that moves without touching the thread's life keeps the        *)
(* invariant, if it does not freeze a running loop.                        *)
LEMMA MoveKeeps ==
  ASSUME SensorInv, NEW c \in Callers, NEW to \in States \ {"scan", "joined"},
         Goto(c, to),
         UNCHANGED <<main_running, sensor_sensor_scanning, sensor_sensor_init, thread>>,
         main_suspended' \in BOOLEAN, frozen' \in BOOLEAN, interrupted' \in BOOLEAN,
         main_running => ~frozen'
  PROVE  SensorInv'
<1>1. /\ pc' \in [Callers -> States]
      /\ \A d \in Callers : pc'[d] = IF d = c THEN to ELSE pc[d]
  BY DEF SensorInv, SensorTypeOK, Goto, States
<1>2. SensorTypeOK'
  <2>1. main_running' \in BOOLEAN /\ sensor_sensor_scanning' \in BOOLEAN /\ sensor_sensor_init' \in BOOLEAN
    BY Zenon DEF SensorInv, SensorTypeOK
  <2>2. thread' \in {"none", "probe", "probing", "reprobe", "reprobing",
                     "entry", "work", "sleep", "start"}
    BY DEF SensorInv, SensorTypeOK
  <2> QED  BY <1>1, <2>1, <2>2 DEF SensorTypeOK, States
<1>3. FoundIsIdle'
  BY DEF SensorInv, FoundIsIdle
<1>4. RunsInLoop'
  BY DEF SensorInv, RunsInLoop
<1>5. OneWaits'
  BY <1>1 DEF SensorInv, OneWaits
<1>6. JoinedAlone'
  BY <1>1 DEF SensorInv, JoinedAlone
<1>7. CalibratorsDoNotScan'
  BY <1>1 DEF SensorInv, CalibratorsDoNotScan, Callers
<1> QED  BY <1>2, <1>3, <1>4, <1>5, <1>6, <1>7 DEF SensorInv

(* Aborting the thread and scanning anew keeps it, if the loop was seen    *)
(* asleep.                                                                 *)
LEMMA RescanKeeps ==
  ASSUME SensorInv, NEW c \in Callers \ Calibrators, ~main_running, Rescan(c)
  PROVE  SensorInv'
<1>1. /\ pc' \in [Callers -> States]
      /\ \A d \in Callers : pc'[d] = IF d = c THEN "scan"
                                     ELSE IF pc[d] = "scan" THEN "joined" ELSE pc[d]
  BY JoinedReleases DEF SensorInv, Rescan, States
<1>2. ~main_running' /\ thread' = "probe" /\ ~sensor_sensor_init' /\ frozen' = FALSE
  BY DEF Rescan, InitAfterAbort
<1>3. SensorTypeOK'
  <2>1. /\ main_running' \in BOOLEAN /\ main_suspended' \in BOOLEAN
        /\ sensor_sensor_scanning' \in BOOLEAN /\ sensor_sensor_init' \in BOOLEAN
        /\ frozen' \in BOOLEAN /\ interrupted' \in BOOLEAN
    BY Zenon DEF SensorInv, SensorTypeOK, Rescan, InitAfterAbort
  <2> QED  BY <1>1, <1>2, <2>1 DEF SensorTypeOK, States
<1>4. FoundIsIdle' /\ RunsInLoop'
  BY <1>2 DEF FoundIsIdle, RunsInLoop
<1>5. OneWaits'
  BY <1>1 DEF OneWaits
<1>6. JoinedAlone'
  BY <1>2 DEF JoinedAlone
<1>7. CalibratorsDoNotScan'
  BY <1>1 DEF SensorInv, CalibratorsDoNotScan, Callers
<1> QED  BY <1>3, <1>4, <1>5, <1>6, <1>7 DEF SensorInv

(* Only the caller that found a sensor starts the loop, when no thread is  *)
(* left.                                                                   *)
LEMMA ScanJoinedKeeps ==
  ASSUME SensorInv, NEW c \in Callers, ScanJoined(c)
  PROVE  /\ SensorInv'
         /\ thread' = "entry" /\ thread # "entry" => thread = "none"
<1>1. CASE c \in Scanners /\ sensor_sensor_init
  <2>1. /\ pc' \in [Callers -> States]
        /\ \A d \in Callers : pc'[d] = IF d = c THEN "idle" ELSE pc[d]
    BY <1>1 DEF SensorInv, SensorTypeOK, ScanJoined, Goto, States
  <2>2. /\ thread = "none" /\ thread' = "entry" /\ frozen' = FALSE
        /\ UNCHANGED <<flags, interrupted>>
        /\ \A d \in Callers \ {c} : pc[d] \notin {"scan", "joined"}
    BY <1>1 DEF SensorInv, JoinedAlone, ScanJoined
  <2>3. ~main_running
    BY <2>2 DEF SensorInv, RunsInLoop
  <2>4. SensorTypeOK'
    <3>1. /\ main_running' \in BOOLEAN /\ main_suspended' \in BOOLEAN
          /\ sensor_sensor_scanning' \in BOOLEAN /\ sensor_sensor_init' \in BOOLEAN
          /\ interrupted' \in BOOLEAN
      BY <2>2, Zenon DEF SensorInv, SensorTypeOK, flags
    <3> QED  BY <2>1, <2>2, <3>1 DEF SensorTypeOK, States
  <2>5. FoundIsIdle' /\ RunsInLoop'
    BY <1>1, <2>2, <2>3 DEF SensorInv, FoundIsIdle, RunsInLoop, flags
  <2>6. OneWaits' /\ JoinedAlone'
    BY <2>1, <2>2 DEF OneWaits, JoinedAlone
  <2>7. CalibratorsDoNotScan'
    BY <2>1 DEF SensorInv, CalibratorsDoNotScan, Callers
  <2> QED  BY <2>2, <2>4, <2>5, <2>6, <2>7 DEF SensorInv
<1>2. CASE ~(c \in Scanners /\ sensor_sensor_init)
  <2>1. UNCHANGED <<thread, frozen, flags, interrupted>>
    BY <1>2 DEF ScanJoined
  <2>2. PICK to \in States \ {"scan", "joined"} : Goto(c, to)
    <3>1. "idle" \in States \ {"scan", "joined"} /\ "down" \in States \ {"scan", "joined"}
      BY DEF States
    <3>2. Goto(c, "idle") \/ Goto(c, "down")
      BY DEF ScanJoined
    <3> QED  BY <3>1, <3>2
  <2>3. main_suspended' \in BOOLEAN /\ frozen' \in BOOLEAN /\ interrupted' \in BOOLEAN
    BY <2>1, Zenon DEF flags, SensorInv, SensorTypeOK
  <2>4. main_running => ~frozen'
    BY <2>1 DEF SensorInv, RunsInLoop
  <2>5. SensorInv'
    BY <2>1, <2>2, <2>3, <2>4, MoveKeeps DEF flags
  <2> QED  BY <2>1, <2>5
<1> QED  BY <1>1, <1>2

-----------------------------------------------------------------------------
(* What all steps of the thread have in common: they run only if nobody is *)
(* about to use the thread.                                                *)
LEMMA ThreadRunsAlone ==
  ASSUME SensorInv, ThreadRuns
  PROVE  /\ ~frozen
         /\ \A d \in Callers : pc[d] # "joined"
BY DEF SensorInv, CalibratorsDoNotScan, ThreadRuns, CallerReady, Callers

(* The thread ends: the one caller that waits for it goes on.              *)
LEMMA ThreadEndsKeeps ==
  ASSUME SensorInv, ThreadRuns, pc' = Joined, thread' = "none",
         UNCHANGED <<main_suspended, frozen, interrupted>>,
         ~main_running', main_running' \in BOOLEAN,
         sensor_sensor_scanning' \in BOOLEAN, sensor_sensor_init' \in BOOLEAN,
         sensor_sensor_init' => ~sensor_sensor_scanning'
  PROVE  SensorInv'
<1>1. /\ pc' \in [Callers -> States]
      /\ \A d \in Callers : pc'[d] = IF pc[d] = "scan" THEN "joined" ELSE pc[d]
  BY JoinedReleases DEF SensorInv
<1>2. SensorTypeOK'
  <2>1. main_suspended' \in BOOLEAN /\ frozen' \in BOOLEAN /\ interrupted' \in BOOLEAN
    BY Zenon DEF SensorInv, SensorTypeOK
  <2> QED  BY <1>1, <2>1 DEF SensorTypeOK, States
<1>3. FoundIsIdle' /\ RunsInLoop'
  BY DEF FoundIsIdle, RunsInLoop
<1>4. \A d \in Callers : pc'[d] # "scan" /\ (pc'[d] = "joined" => pc[d] = "scan")
  BY <1>1, ThreadRunsAlone
<1>5. OneWaits'
  BY <1>4 DEF OneWaits
<1>6. JoinedAlone'
  BY <1>4 DEF SensorInv, OneWaits, JoinedAlone
<1>7. CalibratorsDoNotScan'
  BY <1>4 DEF SensorInv, CalibratorsDoNotScan, Callers
<1> QED  BY <1>2, <1>3, <1>5, <1>6, <1>7 DEF SensorInv

(* The thread goes on: no caller moves.                                    *)
LEMMA ThreadGoesOnKeeps ==
  ASSUME SensorInv, ThreadRuns,
         UNCHANGED <<main_suspended, sensor_sensor_init, interrupted, pc>>,
         NEW to \in {"probing", "reprobe", "reprobing", "work", "sleep", "start"}, thread' = to,
         main_running' \in BOOLEAN, frozen' \in BOOLEAN, sensor_sensor_scanning' \in BOOLEAN,
         RunsInLoop', FoundIsIdle'
  PROVE  SensorInv'
<1>1. SensorTypeOK'
  <2>1. main_suspended' \in BOOLEAN /\ sensor_sensor_init' \in BOOLEAN /\ interrupted' \in BOOLEAN
    BY Zenon DEF SensorInv, SensorTypeOK
  <2> QED  BY <2>1 DEF SensorInv, SensorTypeOK
<1>2. OneWaits' /\ CalibratorsDoNotScan'
  BY DEF SensorInv, OneWaits, CalibratorsDoNotScan
<1>3. JoinedAlone'
  BY ThreadRunsAlone DEF JoinedAlone
<1> QED  BY <1>1, <1>2, <1>3 DEF SensorInv

LEMMA ThreadKeeps ==
  ASSUME SensorInv, Thread
  PROVE  SensorInv' /\ ~(thread' = "entry" /\ thread # "entry")
<1> USE DEF SensorInv, SensorTypeOK
<1>1. CASE BeginScan
  <2>1. ~main_running /\ ThreadRuns
    BY <1>1 DEF BeginScan, RunsInLoop
  <2>2. CASE sensor_sensor_init
    <3>1. thread' = "none" /\ pc' = Joined
          /\ UNCHANGED <<main_running, main_suspended, sensor_sensor_scanning, sensor_sensor_init,
                         frozen, interrupted>>
      BY <1>1, <2>2 DEF BeginScan
    <3>2. /\ main_running' \in BOOLEAN /\ sensor_sensor_scanning' \in BOOLEAN
          /\ sensor_sensor_init' \in BOOLEAN
      BY <3>1, Zenon
    <3>3. sensor_sensor_init' => ~sensor_sensor_scanning'
      BY <3>1 DEF FoundIsIdle
    <3> HIDE DEF SensorInv, SensorTypeOK
    <3> QED  BY <2>1, <3>1, <3>2, <3>3, ThreadEndsKeeps
  <2>3. CASE ~sensor_sensor_init
    <3>1. /\ thread' \in {"probing", "reprobing"} /\ sensor_sensor_scanning' = TRUE
          /\ UNCHANGED <<main_running, main_suspended, sensor_sensor_init, frozen, pc, interrupted>>
      BY <1>1, <2>3 DEF BeginScan
    <3>2. main_running' \in BOOLEAN /\ frozen' \in BOOLEAN
      BY <3>1, Zenon
    <3>3. RunsInLoop' /\ FoundIsIdle'
      BY <2>1, <2>3, <3>1 DEF RunsInLoop, FoundIsIdle
    <3> HIDE DEF SensorInv, SensorTypeOK
    <3> QED  BY <2>1, <3>1, <3>2, <3>3, ThreadGoesOnKeeps
  <2> QED  BY <2>2, <2>3
<1>2. ASSUME NEW found \in BOOLEAN, EndScan(found)  PROVE SensorInv' /\ thread' # "entry"
  <2>1. ~main_running /\ ThreadRuns
    BY <1>2 DEF EndScan, Scanning, RunsInLoop
  <2>2. /\ sensor_sensor_scanning' = FALSE
        /\ sensor_sensor_init' = (sensor_sensor_init \/ found)
        /\ UNCHANGED <<main_running, main_suspended, frozen, interrupted>>
    BY <1>2 DEF EndScan, ScanningAfter
  <2>3. /\ main_running' \in BOOLEAN /\ frozen' \in BOOLEAN
        /\ sensor_sensor_scanning' \in BOOLEAN /\ sensor_sensor_init' \in BOOLEAN
    BY <2>2, Zenon
  <2>4. CASE thread = "probing" /\ ~found
    <3>1. thread' = "reprobe" /\ UNCHANGED <<pc, sensor_sensor_init>>
      BY <1>2, <2>2, <2>4 DEF EndScan
    <3>2. RunsInLoop' /\ FoundIsIdle'
      BY <2>1, <2>2, <3>1 DEF RunsInLoop, FoundIsIdle
    <3> HIDE DEF SensorInv, SensorTypeOK
    <3> QED  BY <2>1, <2>2, <2>3, <3>1, <3>2, ThreadGoesOnKeeps
  <2>5. CASE ~(thread = "probing" /\ ~found)
    <3>1. thread' = "none" /\ pc' = Joined
      BY <1>2, <2>5 DEF EndScan
    <3> HIDE DEF SensorInv, SensorTypeOK
    <3> QED  BY <2>1, <2>2, <2>3, <3>1, ThreadEndsKeeps
  <2> QED  BY <2>4, <2>5
<1>3. CASE EnterLoop
  <2>1. /\ ThreadRuns /\ sensor_sensor_init /\ main_running' /\ thread' = "work" /\ ~frozen
        /\ UNCHANGED <<main_suspended, sensor_sensor_scanning, sensor_sensor_init, frozen, pc, interrupted>>
    BY <1>3 DEF EnterLoop, FoundIsIdle, ThreadRuns
  <2>2. /\ main_running' \in BOOLEAN /\ frozen' \in BOOLEAN
        /\ sensor_sensor_scanning' \in BOOLEAN
    BY <1>3, <2>1, Zenon DEF EnterLoop
  <2>3. RunsInLoop' /\ FoundIsIdle'
    BY <2>1 DEF RunsInLoop, FoundIsIdle
  <2> HIDE DEF SensorInv, SensorTypeOK
  <2> QED  BY <2>1, <2>2, <2>3, ThreadGoesOnKeeps
<1>4. CASE EndIteration \/ StartIteration
  <2>1. /\ ThreadRuns /\ sensor_sensor_init /\ ~frozen
        /\ \/ main_running' = FALSE /\ thread' = "sleep"
           \/ main_running' = TRUE /\ thread' = "work"
        /\ UNCHANGED <<main_suspended, sensor_sensor_scanning, sensor_sensor_init, frozen, pc, interrupted>>
    BY <1>4 DEF EndIteration, StartIteration, FoundIsIdle, ThreadRuns
  <2>2. /\ main_running' \in BOOLEAN /\ frozen' \in BOOLEAN
        /\ sensor_sensor_scanning' \in BOOLEAN
    BY <2>1, Zenon
  <2>3. RunsInLoop' /\ FoundIsIdle'
    BY <2>1 DEF RunsInLoop, FoundIsIdle
  <2> HIDE DEF SensorInv, SensorTypeOK
  <2> QED  BY <2>1, <2>2, <2>3, ThreadGoesOnKeeps
<1>5. CASE Wake
  <2>1. /\ ThreadRuns /\ sensor_sensor_init /\ ~main_running /\ main_running' = main_running
        /\ frozen' = main_suspended /\ thread' = "start"
        /\ UNCHANGED <<main_suspended, sensor_sensor_scanning, sensor_sensor_init, pc, interrupted>>
    BY <1>5 DEF Wake, RunningAtCheck, FoundIsIdle, RunsInLoop
  <2>2. /\ main_running' \in BOOLEAN /\ frozen' \in BOOLEAN
        /\ sensor_sensor_scanning' \in BOOLEAN
    BY <2>1, Zenon
  <2>3. RunsInLoop' /\ FoundIsIdle'
    BY <2>1 DEF RunsInLoop, FoundIsIdle
  <2> HIDE DEF SensorInv, SensorTypeOK
  <2> QED  BY <2>1, <2>2, <2>3, ThreadGoesOnKeeps
<1> QED
  BY <1>1, <1>2, <1>3, <1>4, <1>5
     DEF Thread, BeginScan, EnterLoop, EndIteration, StartIteration, Wake

-----------------------------------------------------------------------------
(* The callers.  None of their steps but the one after a join creates the  *)
(* loop.                                                                   *)
LEMMA AskKeeps ==
  ASSUME SensorInv, NEW c \in Callers, NEW to \in States \ {"scan", "joined"},
         AskToSuspend(c), Goto(c, to)
  PROVE  SensorInv' /\ thread' = thread
<1>1. main_suspended' \in BOOLEAN /\ frozen' \in BOOLEAN /\ interrupted' \in BOOLEAN
  BY Zenon DEF AskToSuspend, SensorInv, SensorTypeOK
<1>2. main_running => ~frozen'
  BY DEF AskToSuspend, SensorInv, RunsInLoop
<1> QED  BY <1>1, <1>2, MoveKeeps DEF AskToSuspend

LEMMA DownerKeeps ==
  ASSUME SensorInv, NEW c \in Callers \ Calibrators,
         TakeDown(c) \/ TakenDown(c) \/ ScanForWOM(c)
  PROVE  SensorInv' /\ (thread' = "entry" /\ thread # "entry" => thread = "none")
<1>1. CASE Rescan(c) /\ ~main_running
  BY <1>1, RescanKeeps DEF Rescan
<1>2. CASE AskToSuspend(c) /\ (Goto(c, "suspend") \/ Goto(c, "down"))
  BY <1>2, AskKeeps DEF States
<1>3. CASE /\ ~main_running /\ frozen' = (thread # "none") /\ Goto(c, "down")
           /\ UNCHANGED <<flags, thread, interrupted>>
  <2>1. main_suspended' \in BOOLEAN /\ frozen' \in BOOLEAN /\ interrupted' \in BOOLEAN
    BY <1>3, Zenon DEF flags, SensorInv, SensorTypeOK
  <2>2. "down" \in States \ {"scan", "joined"}
    BY DEF States
  <2> QED  BY <1>3, <2>1, <2>2, MoveKeeps DEF flags
<1>4. CASE TakeDown(c)
  BY <1>1, <1>2, <1>4 DEF TakeDown
<1>5. CASE TakenDown(c)
  BY <1>1, <1>3, <1>5 DEF TakenDown, StopSeen
<1>6. CASE ScanForWOM(c) /\ ~main_running
  BY <1>1, <1>6 DEF ScanForWOM
<1>7. CASE ScanForWOM(c) /\ main_running
  BY <1>7 DEF ScanForWOM, SensorInv, RunsInLoop, FoundIsIdle
<1> QED  BY <1>4, <1>5, <1>6, <1>7

LEMMA ScannerKeeps ==
  ASSUME SensorInv, NEW c \in Callers \ Calibrators, RequestScan(c) \/ Stopped(c)
  PROVE  SensorInv' /\ (thread' = "entry" /\ thread # "entry" => thread = "none")
<1>1. CASE Rescan(c) /\ ~main_running
  BY <1>1, RescanKeeps DEF Rescan
<1>2. CASE AskToSuspend(c) /\ Goto(c, "stop")
  BY <1>2, AskKeeps DEF States
<1> QED  BY <1>1, <1>2 DEF RequestScan, Stopped, StopSeen

LEMMA CalibratorKeeps ==
  ASSUME SensorInv, NEW c \in Calibrators, Suspend(c) \/ Suspended(c) \/ Resume(c)
  PROVE  SensorInv' /\ thread' = thread
<1> c \in Callers
  BY DEF Callers
<1>1. CASE Suspend(c)
  <2>1. AskToSuspend(c) /\ (Goto(c, "suspend") \/ Goto(c, "suspended"))
    BY <1>1 DEF Suspend
  <2> QED  BY <2>1, AskKeeps DEF States
<1>2. CASE Suspended(c)
  <2>1. /\ ~main_running /\ frozen' = (thread # "none")
        /\ interrupted' = (interrupted \/ Scanning)
        /\ Goto(c, "suspended") /\ UNCHANGED <<flags, thread>>
    BY <1>2 DEF Suspended, StopSeen
  <2>2. main_suspended' \in BOOLEAN /\ frozen' \in BOOLEAN /\ interrupted' \in BOOLEAN
    BY <2>1, Zenon DEF flags, SensorInv, SensorTypeOK
  <2>3. "suspended" \in States \ {"scan", "joined"}
    BY DEF States
  <2> QED  BY <2>1, <2>2, <2>3, MoveKeeps DEF flags
<1>3. CASE Resume(c)
  <2>1. /\ frozen' = (frozen /\ ~main_suspended)
        /\ Goto(c, "idle") /\ UNCHANGED <<flags, thread, interrupted>>
    BY <1>3 DEF Resume
  <2>2. main_suspended' \in BOOLEAN /\ frozen' \in BOOLEAN /\ interrupted' \in BOOLEAN
    BY <2>1, Zenon DEF flags, SensorInv, SensorTypeOK
  <2>3. "idle" \in States \ {"scan", "joined"}
    BY DEF States
  <2>4. main_running => ~frozen'
    BY <2>1 DEF SensorInv, RunsInLoop
  <2> QED  BY <2>1, <2>2, <2>3, <2>4, MoveKeeps DEF flags
<1> QED  BY <1>1, <1>2, <1>3

LEMMA UnchangedKeeps ==
  ASSUME SensorInv, UNCHANGED sensor_vars
  PROVE  SensorInv' /\ thread' = thread
<1>1. SensorTypeOK'
  BY Zenon DEF SensorInv, SensorTypeOK, sensor_vars, flags
<1>2. FoundIsIdle' /\ RunsInLoop' /\ OneWaits' /\ JoinedAlone' /\ CalibratorsDoNotScan'
  BY DEF SensorInv, FoundIsIdle, RunsInLoop, OneWaits, JoinedAlone, CalibratorsDoNotScan,
         sensor_vars, flags
<1> QED  BY <1>1, <1>2 DEF SensorInv, sensor_vars

-----------------------------------------------------------------------------
LEMMA InitEstablishes ==
  Init => IInv
<1> SUFFICES ASSUME Init PROVE IInv
  OBVIOUS
<1>1. SensorTypeOK
  <2>1. pc \in [Callers -> States]
    BY DEF Init, SensorInit, States
  <2> QED  BY <2>1 DEF Init, SensorInit, SensorTypeOK, States
<1>2. TypeOK
  <2>1. requested \in 0..Reboot /\ work \in 0..Nothing
    BY DEF Init, Reboot, Nothing
  <2>2. ota \in BOOLEAN /\ powered \in {"on", "off", "reset"}
    BY DEF Init
  <2> QED  BY <1>1, <2>1, <2>2 DEF TypeOK
<1>3. FoundIsIdle /\ RunsInLoop /\ JoinedAlone
  BY DEF Init, SensorInit, FoundIsIdle, RunsInLoop, JoinedAlone
<1>4. OneWaits /\ CalibratorsDoNotScan
  BY CallersAssumption DEF Init, SensorInit, OneWaits, CalibratorsDoNotScan, Callers
<1> QED  BY <1>1, <1>2, <1>3, <1>4 DEF IInv, SensorInv

(* Which steps of which caller a step of the system is.                    *)
LEMMA SensorPartOfStep ==
  ASSUME IInv, [Next]_vars
  PROVE  SensorInv' /\ (thread' = "entry" /\ thread # "entry" => thread = "none")
<1> SensorInv
  BY DEF IInv
<1> Power \in Callers \ Calibrators /\ Connection \in Callers \ Calibrators
  BY CallersAssumption, DownersAssumption DEF Callers
<1>1. CASE SensorStep
  BY <1>1, ThreadKeeps DEF SensorStep
<1>2. CASE OtherCallers
  <2>1. ASSUME NEW c \in Scanners, RequestScan(c) \/ Stopped(c) \/ ScanJoined(c)
        PROVE  SensorInv' /\ (thread' = "entry" /\ thread # "entry" => thread = "none")
    <3>1. c \in Callers \ Calibrators
      BY CallersAssumption DEF Callers
    <3> QED  BY <2>1, <3>1, ScannerKeeps, ScanJoinedKeeps
  <2>2. ASSUME NEW c \in Calibrators, Suspend(c) \/ Suspended(c) \/ Resume(c)
        PROVE  SensorInv' /\ (thread' = "entry" /\ thread # "entry" => thread = "none")
    BY <2>2, CalibratorKeeps
  <2> QED  BY <1>2, <2>1, <2>2 DEF OtherCallers
<1>3. CASE PowerThread
  <2>1. CASE \/ Look \/ Leave \/ \E suppressed \in BOOLEAN : Clear(suppressed)
    BY <2>1, UnchangedKeeps DEF Look, Leave, Clear
  <2>2. CASE \/ \E suppressed \in BOOLEAN : Serve(suppressed) \/ Discharged(suppressed)
             \/ SetupWOM
    BY <2>2, DownerKeeps DEF Serve, Discharged, SetupWOM
  <2>3. CASE PowerThreadWaits
    BY <2>3, DownerKeeps, ScanJoinedKeeps DEF PowerThreadWaits
  <2> QED  BY <1>3, <2>1, <2>2, <2>3 DEF PowerThread
<1>4. CASE \E id \in WOM..Reboot : Request(id)
  BY <1>4, UnchangedKeeps DEF Request
<1>5. CASE BeginOta
  BY <1>5, DownerKeeps, ScanJoinedKeeps DEF BeginOta
<1>6. CASE EndOta
  <2>1. Goto(Connection, "idle") /\ UNCHANGED <<flags, thread, frozen, interrupted>>
    BY <1>6 DEF EndOta
  <2>2. main_suspended' \in BOOLEAN /\ frozen' \in BOOLEAN /\ interrupted' \in BOOLEAN
    BY <2>1, Zenon DEF flags, SensorInv, SensorTypeOK
  <2>3. "idle" \in States \ {"scan", "joined"}
    BY DEF States
  <2>4. main_running => ~frozen'
    BY <2>1 DEF SensorInv, RunsInLoop
  <2> QED  BY <2>1, <2>2, <2>3, <2>4, MoveKeeps DEF flags
<1>7. CASE UNCHANGED vars
  BY <1>7, UnchangedKeeps DEF vars
<1> QED  BY <1>1, <1>2, <1>3, <1>4, <1>5, <1>6, <1>7 DEF Next

LEMMA PowerTypeOfStep ==
  ASSUME IInv, [Next]_vars
  PROVE  /\ requested' \in 0..Reboot /\ work' \in 0..Nothing
         /\ ota' \in BOOLEAN /\ powered' \in {"on", "off", "reset"}
<1> USE DEF WOM, WOMForced, SystemOff, Reboot, WOMScanned, Nothing
<1>0. /\ requested \in 0..Reboot /\ work \in 0..Nothing
      /\ ota \in BOOLEAN /\ powered \in {"on", "off", "reset"}
  BY DEF IInv, TypeOK
<1>1. ASSUME NEW id \in 0..Reboot  PROVE Slot(id) \in 0..Reboot
  BY <1>0, <1>1 DEF Slot
<1>2. CASE UNCHANGED power_vars
  <2>1. ota' \in BOOLEAN
    BY <1>0, <1>2, Zenon DEF power_vars
  <2> QED  BY <1>0, <1>2, <2>1 DEF power_vars
<1>3. CASE PowerThread
  <2>1. CASE UNCHANGED power_vars
    BY <1>2, <2>1
  <2>2. CASE Look
    BY <1>0, <2>2 DEF Look
  <2>3. CASE \E suppressed \in BOOLEAN : Clear(suppressed) \/ Discharged(suppressed)
    BY <1>0, <2>3 DEF Clear, Discharged
  <2>4. CASE SetupWOM
    BY <1>0, <2>4 DEF SetupWOM
  <2>5. CASE Leave
    BY <1>0, <2>5 DEF Leave
  <2> QED  BY <1>3, <2>1, <2>2, <2>3, <2>4, <2>5 DEF PowerThread, Serve, PowerThreadWaits
<1>4. CASE \E id \in WOM..Reboot : Request(id)
  BY <1>0, <1>1, <1>4 DEF Request
<1>5. CASE BeginOta
  BY <1>0, <1>5 DEF BeginOta
<1>6. CASE EndOta
  <2>1. requested' \in 0..Reboot
    BY <1>1, <1>6 DEF EndOta
  <2>2. ota' = FALSE /\ work' = work /\ powered' = powered
    BY <1>6 DEF EndOta
  <2> QED  BY <1>0, <2>1, <2>2
<1> QED  BY <1>2, <1>3, <1>4, <1>5, <1>6 DEF Next, SensorStep, OtherCallers, vars, power_vars

LEMMA StepKeeps ==
  IInv /\ [Next]_vars => IInv'
BY SensorPartOfStep, PowerTypeOfStep DEF IInv, TypeOK, SensorInv

LEMMA Invariance ==
  Spec => []IInv
BY InitEstablishes, StepKeeps, PTL DEF Spec

-----------------------------------------------------------------------------
(* Flags, the slot of power requests and every caller's place keep their   *)
(* types (sensor.c 380-740 and 2268-2360, power.c 430-520).                *)
THEOREM TypeCorrect == Spec => []TypeOK
BY Invariance, PTL DEF IInv

(* Whatever scans, suspensions, updates and power requests interleave,     *)
(* main_running is never left set by a thread that was aborted or          *)
(* suspended, so the polls of it in main_imu_suspend cannot hang on that.  *)
THEOREM NeverStoppedRunning == Spec => []RunningIsAlive
<1>1. IInv => RunningIsAlive
  BY DEF IInv, SensorInv, FoundIsIdle, RunsInLoop, RunningIsAlive
<1> QED  BY <1>1, Invariance, PTL

(* The one thread structure is never created while its thread lives, for   *)
(* any number of callers that scan at once (sensor.c 720-738).             *)
THEOREM OneThreadAtATime == Spec => ThreadCreatedOnce
<1>1. IInv /\ [Next]_vars => [thread' = "entry" /\ thread # "entry" => thread = "none"]_vars
  BY SensorPartOfStep
<1> QED  BY <1>1, Invariance, PTL DEF Spec, ThreadCreatedOnce
=============================================================================
