-------------------------------- MODULE Watchdog --------------------------------
(***************************************************************************)
(* Supervision of the threads (system/watchdog.c): a thread adds a channel *)
(* of the system's task watchdog, which has a limited number of slots, and *)
(* feeds it in its loop; who aborts the sensor thread deletes its channel  *)
(* first.  A slot that is not fed in time makes the hardware reset the     *)
(* tracker; resets that follow each other are counted in memory that       *)
(* survives them, and shall end in the bootloader.                         *)
(***************************************************************************)
EXTENDS Integers

CONSTANTS
    Threads,         \* threads that register a channel
    Sensor, Button, Power,  \* three of them
    Slots,           \* CONFIG_TASK_WDT_CHANNELS
    Timeout,         \* default_timeouts
    Threshold,       \* WATCHDOG_RESET_THRESHOLD
    SuccessTime,     \* uptime at which the boot counts as successful
    WatchdogEvents   \* bound: scans, sessions, hangs, refused shutdowns and resets

ASSUME WatchdogAssumption ==
    /\ {Sensor, Button, Power} \subseteq Threads /\ Sensor # Button /\ Slots # {}
    /\ "none" \notin Threads \cup Slots
    /\ {Timeout, Threshold, SuccessTime} \subseteq Nat \ {0} /\ WatchdogEvents \in Nat

None == "none"
Free == -1

VARIABLES
    state,     \* of each thread; a hung thread feeds its channel no more
    id,        \* channel_ids: the slot of each channel
    left,      \* the time left in each slot, Free if it is not used
    owner,     \* who added the slot
    adding,    \* the slot a thread has added and not noted yet
    uptime, resetCount, marked, dfu,  \* retained->watchdog_state, boot_success_marked
    lastReset,
    halted,    \* history: threads aborted while they registered
    streak,    \* history: watchdog resets since a successful boot or another reset
    watchdogEvents

watchdogVars == <<state, id, left, owner, adding, uptime, resetCount, marked, dfu,
                  lastReset, halted, streak, watchdogEvents>>
channels == <<id, left, owner, adding>>
boot == <<uptime, resetCount, marked, dfu, lastReset, streak>>

Started ==
    /\ state' = [t \in Threads |-> "start"] /\ id' = [t \in Threads |-> None]
    /\ left' = [k \in Slots |-> Free] /\ owner' = [k \in Slots |-> None]
    /\ adding' = [t \in Threads |-> None]
    /\ uptime' = 0 /\ marked' = FALSE /\ halted' = {}

WatchdogInit ==
    /\ state = [t \in Threads |-> "start"] /\ id = [t \in Threads |-> None]
    /\ left = [k \in Slots |-> Free] /\ owner = [k \in Slots |-> None]
    /\ adding = [t \in Threads |-> None]
    /\ uptime = 0 /\ marked = FALSE /\ halted = {}
    /\ resetCount = 0 /\ dfu = FALSE /\ lastReset = None /\ streak = 0 /\ watchdogEvents = 0

WatchdogEvent == watchdogEvents < WatchdogEvents /\ watchdogEvents' = watchdogEvents + 1
Expired == \E k \in Slots : left[k] = 0

-----------------------------------------------------------------------------
(* watchdog_register_thread adds the slot and then notes it                *)

Add(t) ==
    /\ state[t] = "start"
    /\ LET free == {k \in Slots : left[k] = Free} IN
       IF free = {}
       THEN /\ state' = [state EXCEPT ![t] = "runs"] /\ UNCHANGED <<left, owner, adding>>
       ELSE LET k == CHOOSE k \in free : TRUE IN
            /\ left' = [left EXCEPT ![k] = Timeout] /\ owner' = [owner EXCEPT ![k] = t]
            /\ adding' = [adding EXCEPT ![t] = k]
            /\ state' = [state EXCEPT ![t] = "registers"]
    /\ UNCHANGED <<id, boot, halted, watchdogEvents>>

Keep(t) ==
    /\ state[t] = "registers"
    /\ state' = [state EXCEPT ![t] = "runs"]
    /\ id' = [id EXCEPT ![t] = adding[t]]
    /\ adding' = [adding EXCEPT ![t] = None]
    /\ left' = [left EXCEPT ![adding[t]] = Timeout]
    /\ UNCHANGED <<owner, boot, halted, watchdogEvents>>

Pause_Not(t) == UNCHANGED <<id, left>>

Pause(t) ==
    /\ id' = [id EXCEPT ![t] = None]
    /\ left' = IF id[t] = None THEN left ELSE [left EXCEPT ![id[t]] = Free]

-----------------------------------------------------------------------------
(* What happens to the threads                                             *)

\* sensor_request_scan: a scan, unwatched, and the loop begins anew.
Rescan ==
    /\ WatchdogEvent /\ ~Expired /\ Pause(Sensor)
    /\ state' = [state EXCEPT ![Sensor] = "scans"]
    /\ adding' = [adding EXCEPT ![Sensor] = None]
    /\ halted' = IF state[Sensor] = "registers" THEN halted \cup {adding[Sensor]} ELSE halted
    /\ UNCHANGED <<owner, boot>>

ScanEnds ==
    /\ state[Sensor] = "scans" /\ state' = [state EXCEPT ![Sensor] = "start"]
    /\ UNCHANGED <<channels, boot, halted, watchdogEvents>>

\* BEGIN of an update stops the sensor thread, a session that is aborted resumes
\* it without a channel.
OtaBegins ==
    /\ WatchdogEvent /\ ~Expired /\ Pause(Sensor)
    /\ state[Sensor] \in {"runs", "hung"} /\ state' = [state EXCEPT ![Sensor] = "stopped"]
    /\ UNCHANGED <<owner, adding, boot, halted>>

OtaAborted ==
    /\ state[Sensor] = "stopped" /\ state' = [state EXCEPT ![Sensor] = "runs"]
    /\ UNCHANGED <<channels, boot, halted, watchdogEvents>>

Hang(t) ==
    /\ WatchdogEvent /\ state[t] = "runs" /\ state' = [state EXCEPT ![t] = "hung"]
    /\ UNCHANGED <<channels, boot, halted>>

\* The button thread asks for a shutdown, aborts itself, and is refused.
ShutdownRefused ==
    /\ WatchdogEvent /\ state[Button] = "runs" /\ state' = [state EXCEPT ![Button] = "gone"]
    /\ UNCHANGED <<channels, boot, halted>>

-----------------------------------------------------------------------------
(* Time                                                                    *)

Feeds(k) == owner[k] # None /\ state[owner[k]] = "runs" /\ id[owner[k]] = k

\* A thread that runs feeds its channel more often than any timeout; after the
\* uptime of a success the power thread clears the count.
Pass ==
    /\ ~Expired /\ \A t \in Threads : state[t] \notin {"start", "registers"}
    /\ left' = [k \in Slots |-> IF left[k] = Free THEN Free
                               ELSE IF Feeds(k) THEN Timeout ELSE left[k] - 1]
    /\ uptime' = IF uptime = SuccessTime THEN uptime ELSE uptime + 1
    /\ marked' = (marked \/ (uptime' = SuccessTime /\ state[Power] = "runs"))
    /\ IF ~marked /\ marked' THEN resetCount' = 0 /\ streak' = 0 ELSE UNCHANGED <<resetCount, streak>>
    /\ UNCHANGED <<state, id, owner, adding, dfu, lastReset, halted, watchdogEvents>>

\* watchdog_early_check clears the count at every boot ...
EarlyCheck(count) == 0

\* ... before watchdog_init counts a reset by the watchdog.
Booted(byWatchdog) ==
    LET count == IF byWatchdog THEN EarlyCheck(resetCount) + 1 ELSE 0 IN
    /\ Started
    /\ dfu' = (count >= Threshold)
    /\ resetCount' = IF count >= Threshold THEN 0 ELSE count
    /\ streak' = IF byWatchdog /\ ~dfu' THEN streak + 1 ELSE 0

WatchdogReset ==
    /\ Expired /\ lastReset' = owner[CHOOSE k \in Slots : left[k] = 0]
    /\ Booted(TRUE) /\ UNCHANGED watchdogEvents

OtherReset ==
    /\ WatchdogEvent /\ ~Expired /\ lastReset' = None /\ Booted(FALSE)

WatchdogNext ==
    \/ Rescan \/ ScanEnds \/ OtaBegins \/ OtaAborted \/ ShutdownRefused
    \/ Pass \/ WatchdogReset \/ OtherReset
    \/ \E t \in Threads : Add(t) \/ Keep(t) \/ Hang(t)
WatchdogSpec == WatchdogInit /\ [][WatchdogNext]_watchdogVars

-----------------------------------------------------------------------------
WatchdogTypeOK ==
    /\ state \in [Threads -> {"start", "registers", "runs", "hung", "scans", "stopped", "gone"}]
    /\ id \in [Threads -> Slots \cup {None}] /\ adding \in [Threads -> Slots \cup {None}]
    /\ left \in [Slots -> Free .. Timeout] /\ owner \in [Slots -> Threads \cup {None}]
    /\ uptime \in 0 .. SuccessTime /\ {marked, dfu} \subseteq BOOLEAN
    /\ resetCount \in 0 .. Threshold /\ lastReset \in Threads \cup {None}

\* Through rescans that abort the sensor thread, whatever it is doing, and update
\* sessions that begin and are aborted, only a thread that hangs, or one that was
\* stopped with its channel in place, lets a channel expire.
NoFalseAlarm == \A k \in Slots :
    left[k] = 0 => k \in halted \/ state[owner[k]] \in {"hung", "gone"}

\* A channel expires only because its thread hangs.
OnlyHung == \A k \in Slots : left[k] = 0 => state[owner[k]] = "hung"

\* "allowing multiple WDT resets to accumulate and eventually trigger DFU mode if
\* there's a persistent issue" (power.c:642): as many resets by the watchdog as
\* the threshold, without a successful boot between them, lead there.
ResetsAccumulate == streak < Threshold
=============================================================================
