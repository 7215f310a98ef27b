------------------------------ MODULE SensorHealth ------------------------------
(***************************************************************************)
(* What the sensor loop notices of a chip that fails, and what is done     *)
(* about it (sensor/sensor.c): a scan finds the chip, sensor_init sets it  *)
(* up, and the loop counts the turns without a packet it can use, raises   *)
(* SYS_STATUS_SENSOR_ERROR and asks for a reboot; a forced scan starts     *)
(* again from nothing, unless the loop is healthy and nobody insists.      *)
(*                                                                         *)
(* A tick is one turn of the loop.  How a scan stops the thread is in      *)
(* SensorThread; when the loop runs is in SensorWake.                      *)
(***************************************************************************)
EXTENDS Integers, FiniteSets

CONSTANTS
    ErrorLimit,    \* turns without a packet processed until the error, 10
    EmptyTimeout,  \* NO_PACKETS_TIMEOUT_MS
    Quiet,         \* since the last data was sent, for a loop that is not healthy
    KeepAlive,     \* a turn that has nothing new sends after as many turns
    Requests,      \* FORCE_SCAN_THRESHOLD
    Window,        \* FORCE_SCAN_WINDOW_MS
    HealthEvents,  \* bound: changes of the chip, forced scans
    Horizon        \* bound: ticks

ASSUME HealthAssumption ==
    /\ {ErrorLimit, EmptyTimeout, Quiet, Requests, Window} \subseteq Nat \ {0}
    /\ {KeepAlive, HealthEvents, Horizon} \subseteq Nat

VARIABLES
    chip,      \* what the IMU does: "good", "some" (not every packet is usable),
               \* "corrupt" (none is), "silent" or "absent"
    at,        \* the sensor thread: "scan", "retry", "init", "loop" or "gone"
    found,     \* sensor_sensor_init
    ok,        \* main_ok
    errors,    \* packet_errors
    emptySince, logged,  \* no_packets_since_ms (0: not set), no_packets_timeout_logged
    error,     \* SYS_STATUS_SENSOR_ERROR
    reboot,    \* a reboot has been requested
    lastSend,  \* last_sensor_send_time
    askedAt, asked,  \* force_scan_request_times, force_scan_request_count
    spared,    \* history: times of the forced scans asked of a healthy loop
    bad, empty,  \* history: turns in a row with no packet processed and with none read,
               \* since the last scan
    cleared,   \* history: a scan has cleared an error while the counters ran
    now, healthEvents

healthVars == <<chip, at, found, ok, errors, emptySince, logged, error, reboot, lastSend,
                askedAt, asked, spared, bad, empty, cleared, now, healthEvents>>
counters == <<errors, emptySince, logged>>
forced == <<askedAt, asked, spared>>
seen == <<bad, empty, cleared, now>>

Chips == {"good", "some", "corrupt", "silent", "absent"}

HealthInit ==
    /\ chip \in Chips /\ at = "scan" /\ found = FALSE /\ ok = FALSE
    /\ errors = 0 /\ emptySince = 0 /\ logged = FALSE /\ error = FALSE /\ reboot = FALSE
    /\ lastSend = 0 /\ askedAt = [i \in 0 .. Requests - 1 |-> 0] /\ asked = 0
    /\ spared = {} /\ bad = 0 /\ empty = 0 /\ cleared = FALSE /\ now = 1 /\ healthEvents = 0

HealthEvent == healthEvents < HealthEvents /\ healthEvents' = healthEvents + 1

ChipChanges ==
    /\ HealthEvent /\ chip' \in Chips \ {chip}
    /\ UNCHANGED <<at, found, ok, counters, error, reboot, lastSend, forced, seen>>

-----------------------------------------------------------------------------
(* sensor_scan_thread, and the start of sensor_loop                        *)

\* No chip, or one that is not supported: power it off and on and try once more.
Scan ==
    /\ at \in {"scan", "retry"}
    /\ found' = (chip # "absent") /\ error' = (chip = "absent")
    /\ at' = CASE chip # "absent" -> "init" [] at = "scan" -> "retry" [] OTHER -> "gone"
    /\ cleared' = (cleared \/ (error /\ ~error' /\ (errors >= ErrorLimit \/ logged)))
    /\ bad' = 0 /\ empty' = 0
    /\ UNCHANGED <<chip, ok, counters, reboot, lastSend, forced, now, healthEvents>>

\* A failure leaves main_ok as the loop before this one left it.
InitSensor ==
    /\ at = "init" /\ at' = "loop"
    /\ \/ chip # "absent" /\ ok' = TRUE /\ UNCHANGED error
       \/ error' = TRUE /\ UNCHANGED ok
    /\ UNCHANGED <<chip, found, counters, reboot, lastSend, forced, seen, healthEvents>>

-----------------------------------------------------------------------------
(* The loop                                                                *)

\* The packets read, those that fifo_process refuses, and those that are fused
\* and counted, as far as the loop tells them apart.
PacketsRead == IF chip \in {"good", "some", "corrupt"} THEN 2 ELSE 0
Refused == CASE chip = "some" -> 1 [] chip = "corrupt" -> 2 [] OTHER -> 0
Usable == PacketsRead - Refused

NoneProcessed(read) ==
    /\ IF read > 0
       THEN emptySince' = 0 /\ logged' = FALSE
       ELSE /\ emptySince' = IF emptySince = 0 THEN now ELSE emptySince
            /\ logged' = (logged \/ now - emptySince' >= EmptyTimeout)
    /\ errors' = IF errors > ErrorLimit THEN errors ELSE errors + 1
    /\ error' = (error \/ (logged' /\ ~logged) \/ errors' = ErrorLimit)
    /\ reboot' = (reboot \/ (errors' = ErrorLimit /\ read > 0))

\* Only a turn whose packets were all processed ends a run of errors.
AllProcessed(read, processed) == processed = read /\ read > 0

Turn ==
    /\ at = "loop" /\ now < Horizon /\ now' = now + 1
    /\ IF ok
       THEN /\ IF AllProcessed(PacketsRead, Usable)
               THEN errors' = 0 /\ emptySince' = 0 /\ logged' = FALSE /\ UNCHANGED <<error, reboot>>
               ELSE IF Usable = 0 THEN NoneProcessed(PacketsRead)
               ELSE UNCHANGED <<counters, error, reboot>>
            /\ bad' = (IF Usable = 0 THEN bad ELSE -1) + 1
            /\ empty' = (IF PacketsRead = 0 THEN empty ELSE -1) + 1
            /\ \/ lastSend' = now
               \/ now - lastSend < KeepAlive /\ UNCHANGED lastSend
       ELSE UNCHANGED <<counters, error, reboot, bad, empty, lastSend>>
    /\ UNCHANGED <<chip, at, found, ok, forced, cleared, healthEvents>>

-----------------------------------------------------------------------------
(* sensor_request_scan(true)                                               *)

Healthy == found /\ ok /\ errors = 0 /\ ~logged

\* The oldest of the requests remembered, this one included.
Oldest_Latest(times, count) == times[(count - 1) % Requests]
Oldest(times, count) == times[count % Requests]

RequestScan ==
    /\ HealthEvent /\ at \in {"loop", "gone"}
    /\ LET times  == [askedAt EXCEPT ![asked % Requests] = now]
           enough == asked + 1 >= Requests /\ now - Oldest(times, asked + 1) < Window
       IN \/ /\ Healthy /\ spared' = spared \cup {<<now, healthEvents>>}
             /\ IF enough
                THEN askedAt' = [i \in 0 .. Requests - 1 |-> 0] /\ asked' = 0
                ELSE askedAt' = times /\ asked' = asked + 1
             /\ IF ~enough /\ now - lastSend < Quiet
                THEN UNCHANGED <<at, found>>
                ELSE at' = "scan" /\ found' = FALSE
          \/ ~Healthy /\ at' = "scan" /\ found' = FALSE /\ UNCHANGED forced
    /\ UNCHANGED <<chip, ok, counters, error, reboot, lastSend, seen>>

HealthNext == ChipChanges \/ Scan \/ InitSensor \/ Turn \/ RequestScan
HealthSpec == HealthInit /\ [][HealthNext]_healthVars

-----------------------------------------------------------------------------
HealthTypeOK ==
    /\ chip \in Chips /\ at \in {"scan", "retry", "init", "loop", "gone"}
    /\ {found, ok, logged, error, reboot, cleared} \subseteq BOOLEAN
    /\ errors \in 0 .. ErrorLimit + 1 /\ {emptySince, lastSend, now} \subseteq 0 .. Horizon
    /\ askedAt \in [0 .. Requests - 1 -> 0 .. Horizon] /\ asked \in 0 .. HealthEvents
    /\ {bad, empty} \subseteq 0 .. Horizon /\ healthEvents \in 0 .. HealthEvents

\* Packets that cannot be processed, an empty FIFO, and any change between them
\* are counted by two counters that reset each other: as many turns without a
\* usable packet as it takes for either of them show an error, unless a scan
\* took it away.
BadShown == bad >= ErrorLimit /\ at = "loop" => error \/ cleared

\* A loop that sends data is scanned away only when it was asked for as often as
\* the threshold within the window.
SparesHealthy ==
    [][ at = "loop" /\ at' = "scan" /\ Healthy /\ now - lastSend < Quiet
        => Cardinality({r \in spared' : now - r[1] < Window}) >= Requests ]_healthVars

\* "If FIFO stays empty for long enough, raise a sensor error state." (sensor.c:1927)
EmptyShown == empty > EmptyTimeout /\ at = "loop" => error

\* A chip whose data cannot be used is restarted.
CorruptReboots == at = "loop" /\ ok /\ bad - empty > ErrorLimit => reboot
=============================================================================
