------------------------------ MODULE EsbLink -------------------------------
(***************************************************************************)
(* The health of the radio link of a paired tracker (connection/esb.c).    *)
(*                                                                         *)
(* The connection thread sends a PING when one is due; the ESB interrupt   *)
(* handles a PONG or a failed transmission; the ESB thread looks for PINGs *)
(* that stayed unanswered, raises SYS_STATUS_CONNECTION_ERROR after        *)
(* TX_ERROR_THRESHOLD failures, and asks for system off when the error     *)
(* lasts.  The three share ping_pending, ping_failures and                 *)
(* connection_error_start_time without a lock, so the ESB thread's         *)
(* ping_failures++ is a load and a store with interrupts in between.       *)
(*                                                                         *)
(* Time is counted in ticks of 100 ms, the period of the ESB thread.  A    *)
(* time stamp is kept as its age, saturated where no comparison tells      *)
(* larger values apart.                                                    *)
(***************************************************************************)
EXTENDS Integers, FiniteSets

CONSTANTS
  Threshold,         \* TX_ERROR_THRESHOLD
  RecoveryThreshold, \* PING_RECOVERY_THRESHOLD
  Interval,          \* PING_INTERVAL_MS, in ticks
  ErrorInterval,     \* the interval while the connection error is raised
  BackoffAt,         \* failures at which the backoff grows by a tick
  SyncTimeout,       \* TIME_SYNC_TIMEOUT_MS, in ticks
  TimeoutDelay,      \* CONFIG_CONNECTION_TIMEOUT_DELAY, in ticks
  Flags              \* conditions the rest of the firmware may set

ASSUME LinkAssumption ==
  /\ Threshold \in Nat \ {0} /\ RecoveryThreshold \in Nat \ {0}
  /\ Interval \in Nat \ {0} /\ ErrorInterval \in Nat \ {0}
  /\ IsFiniteSet(BackoffAt) /\ BackoffAt \subseteq 1..Threshold
  /\ SyncTimeout \in Nat \ {0} /\ TimeoutDelay \in Nat \ {0}
  /\ Flags \subseteq {"test_mode", "calibrating", "usb", "ota_suppressed", "tdma"}

VARIABLES
  ping_pending,        \* a PING waits for its PONG
  ping_failures,       \* consecutive failures, saturated at Threshold + 1
  ping_success_streak, \* consecutive PONGs while the error is raised
  send_age,            \* time since ping_send_time
  last_age,            \* time since last_ping_time (connection thread)
  sync_age,            \* time since the last PONG, NotSynced without time sync
  error_age,           \* time since connection_error_start_time, NoStart if 0
  connection_error,    \* bit SYS_STATUS_CONNECTION_ERROR
  shutdown_requested,  \* the link asked for system off
  flags,               \* the conditions that hold now
  esb,                 \* where the ESB thread is
  idle_age,            \* now_idle - ping_send_time, in the ESB thread
  loaded,              \* ping_failures as loaded by ping_failures++
  command,             \* a remote command was received and waits
  conn,                \* where the connection thread is: "loop" or "queue"
  unanswered,          \* history: PINGs begun since the last PONG, saturated
  raced                \* history: the interrupt hit between the ESB thread's
                       \* test of ping_pending and its store

ping == <<ping_pending, ping_failures, ping_success_streak, send_age>>
times == <<last_age, sync_age, error_age>>
status == <<connection_error, shutdown_requested, flags>>
thread == <<esb, idle_age, loaded, command>>
history == <<unanswered, raced>>
vars == <<ping, times, status, thread, conn, history>>

NoStart == -1
NotSynced == -1
Most == Threshold + 1
Bump(n) == IF n < Most THEN n + 1 ELSE n

(* get_ping_interval_ms: the interval of the connection thread plus the    *)
(* backoff of esb_get_ping_backoff_ms.                                     *)
Backoff(failures) == Cardinality({b \in BackoffAt : failures >= b})
PingInterval ==
  (IF connection_error THEN ErrorInterval ELSE Interval) + Backoff(ping_failures)

LongestInterval ==
  (IF ErrorInterval > Interval THEN ErrorInterval ELSE Interval) + Cardinality(BackoffAt)

(* get_status returns the masked bit, and SYS_STATUS_CONNECTION_ERROR is 2:*)
(* the interrupt's comparison with "true" compares 2 with 1.               *)
GetStatus == IF connection_error THEN 2 ELSE 0
ErrorIsTrue == GetStatus = 1

TypeOK ==
  /\ ping_pending \in BOOLEAN
  /\ ping_failures \in 0..Most
  /\ ping_success_streak \in 0..RecoveryThreshold
  /\ send_age \in 0..LongestInterval
  /\ last_age \in 0..LongestInterval
  /\ sync_age \in {NotSynced} \cup 0..(SyncTimeout + 1)
  /\ error_age \in {NoStart} \cup 0..(TimeoutDelay + 1)
  /\ connection_error \in BOOLEAN /\ shutdown_requested \in BOOLEAN
  /\ flags \subseteq Flags
  /\ esb \in {"check", "raise", "shutdown", "commands", "running", "timeout",
              "clear", "store", "mark", "sleep"}
  /\ idle_age \in 0..LongestInterval
  /\ loaded \in 0..Most /\ command \in BOOLEAN
  /\ conn \in {"loop", "queue"}
  /\ unanswered \in 0..Most /\ raced \in BOOLEAN

(* After esb_pair has reset the link and paired.                           *)
Init ==
  /\ ping_pending = FALSE /\ ping_failures = 0 /\ ping_success_streak = 0
  /\ send_age = LongestInterval /\ last_age = LongestInterval
  /\ sync_age = NotSynced /\ error_age = NoStart
  /\ connection_error = FALSE /\ shutdown_requested = FALSE /\ flags = {}
  /\ esb = "check" /\ idle_age = 0 /\ loaded = 0 /\ command = FALSE /\ conn = "loop"
  /\ unanswered = 0 /\ raced = FALSE

-----------------------------------------------------------------------------
(* The connection thread.                                                  *)

(* Above all a PING is due after the interval; with TDMA an early one when *)
(* the time sync gets stale.                                               *)
PingDue ==
  \/ last_age >= PingInterval
  \/ /\ "tdma" \in flags
     /\ sync_age > 2 * PingInterval
     /\ 2 * last_age >= PingInterval

(* Reading the server time drops a time sync that is too old.              *)
SyncAfterRead_Kept == sync_age
SyncAfterRead == IF sync_age > SyncTimeout THEN NotSynced ELSE sync_age

(* esb_write, up to queueing the packet: ping_pending is set while         *)
(* ping_send_time still is that of the PING before.                        *)
BeginPing ==
  /\ conn = "loop" /\ PingDue
  /\ ping_pending' = TRUE
  /\ sync_age' = SyncAfterRead
  /\ conn' = "queue"
  /\ unanswered' = Bump(unanswered)
  /\ UNCHANGED <<ping_failures, ping_success_streak, send_age, last_age,
                 error_age, status, thread, raced>>

(* The rest of esb_write: the radio queue may be full, then the time stamp *)
(* stays.                                                                  *)
QueuePing(accepted) ==
  /\ conn = "queue"
  /\ send_age' = IF accepted THEN 0 ELSE send_age
  /\ idle_age' = IF accepted THEN 0 ELSE idle_age
  /\ last_age' = 0
  /\ conn' = "loop"
  /\ UNCHANGED <<ping_pending, ping_failures, ping_success_streak, sync_age,
                 error_age, status, esb, loaded, command, history>>

-----------------------------------------------------------------------------
(* The ESB interrupt.                                                      *)

(* "elapsed > get_ping_interval_ms() - 100".                               *)
NearlyAnInterval(age) == age >= PingInterval - 1

(* The ESB thread has found a PING unanswered and not yet counted it.      *)
Counting == esb \in {"clear", "store"}

(* "Clear the pending flag".                                               *)
PendingAfterFailure_Kept == ping_pending
PendingAfterFailure == FALSE

(* A packet with acknowledgement failed; it counts as a failed PING if one *)
(* has been pending for most of an interval.                               *)
TxFailed ==
  /\ IF ping_pending /\ NearlyAnInterval(send_age)
     THEN /\ ping_pending' = PendingAfterFailure
          /\ ping_success_streak' = 0
          /\ ping_failures' = Bump(ping_failures)
     ELSE UNCHANGED <<ping_pending, ping_success_streak, ping_failures>>
  /\ error_age' = IF ping_failures' = Threshold THEN 0 ELSE error_age
  /\ raced' = (raced \/ (ping_failures' # ping_failures /\ Counting))
  /\ UNCHANGED <<send_age, last_age, sync_age, status, thread, conn, unanswered>>

StreakWithoutError == 0

ClearError ==
  /\ connection_error' = FALSE
  /\ error_age' = NoStart
  /\ shutdown_requested' = FALSE
  /\ ping_success_streak' = 0

(* A PONG, for this tracker or (a shared pipe) for another: the link is    *)
(* alive.  Only its own PONG synchronises the time and counts towards      *)
(* RecoveryThreshold.                                                      *)
Pong(own) ==
  /\ ping_pending' = FALSE
  /\ ping_failures' = 0
  /\ IF ErrorIsTrue
     THEN IF own /\ ping_success_streak + 1 < RecoveryThreshold
          THEN /\ ping_success_streak' = ping_success_streak + 1
               /\ UNCHANGED <<connection_error, error_age, shutdown_requested>>
          ELSE ClearError
     ELSE /\ ping_success_streak' = IF own THEN StreakWithoutError ELSE ping_success_streak
          /\ UNCHANGED <<connection_error, error_age, shutdown_requested>>
  /\ sync_age' = IF own THEN 0 ELSE sync_age
  /\ unanswered' = 0
  /\ raced' = (raced \/ Counting)
  /\ command' \in {command, own}
  /\ UNCHANGED <<send_age, last_age, flags, esb, idle_age, loaded, conn>>

-----------------------------------------------------------------------------
(* One pass of the ESB thread's loop.                                      *)

Check ==
  /\ esb = "check"
  /\ esb' = IF ping_failures >= Threshold /\ "test_mode" \notin flags
            THEN "raise" ELSE "commands"
  /\ UNCHANGED <<ping, times, status, idle_age, loaded, command, conn, history>>

RaiseError ==
  /\ esb = "raise"
  /\ connection_error' =
       (connection_error \/ (GetStatus = 0 /\ {"usb", "calibrating"} \cap flags = {}))
  /\ esb' = "shutdown"
  /\ UNCHANGED <<ping, times, shutdown_requested, flags, idle_age, loaded, command, conn, history>>

RequestShutdown ==
  /\ esb = "shutdown"
  /\ shutdown_requested' =
       (\/ shutdown_requested
        \/ /\ error_age > TimeoutDelay
           /\ {"ota_suppressed", "calibrating"} \cap flags = {})
  /\ esb' = "commands"
  /\ UNCHANGED <<ping, times, connection_error, flags, idle_age, loaded, command, conn, history>>

(* now_idle is read here; a remote command may then run for a while.       *)
ReadClock ==
  /\ esb = "commands"
  /\ idle_age' = send_age
  /\ esb' \in {"timeout"} \cup (IF command THEN {"running"} ELSE {})
  /\ UNCHANGED <<ping, times, status, loaded, command, conn, history>>

CommandDone ==
  /\ esb = "running"
  /\ command' = FALSE
  /\ esb' = "timeout"
  /\ UNCHANGED <<ping, times, status, idle_age, loaded, conn, history>>

FindTimeout ==
  /\ esb = "timeout"
  /\ esb' = IF ping_pending /\ NearlyAnInterval(idle_age) THEN "clear" ELSE "sleep"
  /\ idle_age' = 0
  /\ UNCHANGED <<ping, times, status, loaded, command, conn, history>>

(* ping_pending = false; ping_success_streak = 0; ping_failures++          *)
ClearPending ==
  /\ esb = "clear"
  /\ ping_pending' = FALSE
  /\ ping_success_streak' = 0
  /\ loaded' = ping_failures
  /\ esb' = "store"
  /\ UNCHANGED <<ping_failures, send_age, times, status, idle_age, command, conn, history>>

StoreFailures ==
  /\ esb = "store"
  /\ ping_failures' = Bump(loaded)
  /\ loaded' = 0
  /\ esb' = "mark"
  /\ UNCHANGED <<ping_pending, ping_success_streak, send_age, times, status,
                 idle_age, command, conn, history>>

MarkStart ==
  /\ esb = "mark"
  /\ error_age' = IF ping_failures = Threshold THEN 0 ELSE error_age
  /\ esb' = "sleep"
  /\ UNCHANGED <<ping, last_age, sync_age, status, idle_age, loaded, command, conn, history>>

-----------------------------------------------------------------------------
(* The environment: time, and the conditions set elsewhere.                *)

Older(age, cap) == IF age < cap THEN age + 1 ELSE age

(* k_msleep(100): a tick wakes the ESB thread.  A pass takes less than a   *)
(* tick, unless it runs a command.                                         *)
Tick ==
  /\ esb \in {"sleep", "running"}
  /\ esb' = IF esb = "sleep" THEN "check" ELSE esb
  /\ send_age' = Older(send_age, LongestInterval)
  /\ last_age' = Older(last_age, LongestInterval)
  /\ sync_age' = IF sync_age = NotSynced THEN NotSynced ELSE Older(sync_age, SyncTimeout + 1)
  /\ error_age' = IF error_age = NoStart THEN NoStart ELSE Older(error_age, TimeoutDelay + 1)
  /\ UNCHANGED <<ping_pending, ping_failures, ping_success_streak, status,
                 idle_age, loaded, command, conn, history>>

ChangeFlag(f) ==
  /\ flags' = IF f \in flags THEN flags \ {f} ELSE flags \cup {f}
  /\ UNCHANGED <<ping, times, connection_error, shutdown_requested, thread, conn, history>>

EsbThread ==
  \/ Check \/ RaiseError \/ RequestShutdown \/ ReadClock \/ CommandDone \/ FindTimeout
  \/ ClearPending \/ StoreFailures \/ MarkStart
ConnectionThread == BeginPing \/ \E accepted \in BOOLEAN : QueuePing(accepted)
AnyPong == \E own \in BOOLEAN : Pong(own)

Next ==
  \/ EsbThread \/ ConnectionThread \/ TxFailed \/ AnyPong \/ Tick
  \/ \E f \in Flags : ChangeFlag(f)

Spec == Init /\ [][Next]_vars

(* The threads run (both feed the watchdog, which resets a tracker whose   *)
(* threads starve), time passes, and the radio queue accepts a PING now    *)
(* and then.                                                               *)
FairSpec ==
  /\ Spec
  /\ WF_vars(EsbThread) /\ WF_vars(BeginPing) /\ WF_vars(QueuePing(FALSE))
  /\ SF_vars(QueuePing(TRUE)) /\ WF_vars(Tick)

-----------------------------------------------------------------------------
(* A PING counts as failed at most once, whichever of interrupt and thread *)
(* notices first: the failures counted never exceed the PINGs sent since   *)
(* the last PONG, but for an interrupt that hits between the thread's test *)
(* and its store (ping_pending is the token the two pass: esb.c 461-465    *)
(* and 1990-1995).                                                         *)
CountedOnce == raced \/ ping_failures <= unanswered

(* After a receiver has fallen silent for good and nothing holds the error *)
(* back, it is raised (and the sensor data stop), however the failures     *)
(* were counted and however often stale time sync sends PINGs early.       *)
ReceiverGone == <>[][~AnyPong]_vars
Undisturbed == <>[](flags \subseteq {"tdma", "ota_suppressed"})
ErrorRaised == ReceiverGone /\ Undisturbed => <>[]connection_error

(* Statements of the sources that the code does not keep; see README.      *)

(* "Require N consecutive successful ACK probes before clearing connection *)
(* error", N being 1: a PONG of its own clears the error.                  *)
PongClearsError ==
  [][Pong(TRUE) /\ RecoveryThreshold = 1 => ~connection_error']_vars

(* "shutdown if receiver is not detected and not in calibrating".          *)
SilentLinkShutsDown ==
  ReceiverGone /\ <>[](flags = {}) => <>shutdown_requested
=============================================================================
