--------------------------- MODULE RemoteCommand ----------------------------
(***************************************************************************)
(* Remote commands (connection/esb.c): the receiver puts a command into    *)
(* the flags of its PONGs, the ESB interrupt accepts it, the ESB thread    *)
(* executes it after a safety delay, and the tracker's PINGs echo it, so   *)
(* that the receiver can go back to NORMAL.                                *)
(*                                                                         *)
(* A PONG is the acknowledgement payload of a PING: the receiver loads it  *)
(* before the PING arrives, so it answers the PING before.  PING or PONG   *)
(* may be lost.  received_remote_command, acked_remote_command and the     *)
(* time stamp are shared by interrupt and thread without a lock.           *)
(***************************************************************************)
EXTENDS Integers

CONSTANTS
  Commands,   \* the remote commands in use
  NORMAL,     \* ESB_PONG_FLAG_NORMAL
  SHUTDOWN,   \* ESB_PONG_FLAG_SHUTDOWN, after which the thread returns
  Immediate,  \* OTA commands (0x30-0x33), executed without the delay
  Delay       \* REMOTE_COMMAND_DELAY_MS, in ticks

ASSUME CommandAssumption ==
  /\ NORMAL \notin Commands
  /\ Immediate \subseteq Commands
  /\ Delay \in Nat

VARIABLES
  received,   \* received_remote_command
  acked,      \* acked_remote_command
  age,        \* time since remote_command_receive_time, NoTime if 0
  esb,        \* where the ESB thread is
  running,    \* the command it executes
  echo,       \* the flag in the PING being sent, NoPing
  wanted,     \* receiver: the command it wants executed
  pong,       \* receiver: the flag loaded into the next PONG
  issued,     \* receiver: commands issued so far
  once,       \* receiver: issues each command once and never restarts
  runs,       \* history: executions of the command accepted last
  carried_out \* history: commands executed since they were issued

tracker == <<received, acked, age, esb, running, runs, carried_out>>
receiver == <<wanted, pong, issued, once>>
vars == <<tracker, echo, receiver>>

NoTime == -1
NoPing == "none"
Flags == Commands \cup {NORMAL}

TypeOK ==
  /\ received \in Flags /\ acked \in Flags /\ running \in Flags
  /\ age \in {NoTime} \cup 0..Delay
  /\ esb \in {"look", "switch", "running", "ack", "ended", "sleep"}
  /\ echo \in Flags \cup {NoPing}
  /\ wanted \in Flags /\ pong \in Flags /\ issued \subseteq Commands /\ once \in BOOLEAN
  /\ runs \in 0..2 /\ carried_out \subseteq Commands

Init ==
  /\ received = NORMAL /\ acked = NORMAL /\ age = NoTime
  /\ esb = "look" /\ running = NORMAL /\ echo = NoPing
  /\ wanted = NORMAL /\ pong = NORMAL /\ issued = {}
  /\ once \in BOOLEAN
  /\ runs = 0 /\ carried_out = {}

-----------------------------------------------------------------------------
(* The tracker's interrupt: a PONG with flag f.                            *)

(* "new command received, or override already-executed command whose       *)
(* confirmation was superseded by the receiver".                           *)
Accepts_FirstOnly(f) == received = NORMAL
Accepts(f) == received = NORMAL \/ (received = acked /\ f # received)

HandlePong(f) ==
  IF f # NORMAL
  THEN IF Accepts(f)
       THEN /\ received' = f /\ age' = 0 /\ runs' = 0
            /\ UNCHANGED acked
       ELSE UNCHANGED <<received, acked, age, runs>>
  ELSE IF acked # NORMAL
       THEN /\ received' = NORMAL /\ acked' = NORMAL /\ age' = NoTime
            /\ UNCHANGED runs
       ELSE UNCHANGED <<received, acked, age, runs>>

-----------------------------------------------------------------------------
(* The ESB thread.                                                         *)

Due ==
  /\ received # NORMAL /\ received # acked /\ age # NoTime
  /\ received \in Immediate \/ age >= Delay

Look ==
  /\ esb = "look"
  /\ esb' = IF Due THEN "switch" ELSE "sleep"
  /\ UNCHANGED <<received, acked, age, running, runs, carried_out, echo, receiver>>

(* The switch reads received_remote_command again; on NORMAL it only logs. *)
Switch ==
  /\ esb = "switch"
  /\ running' = received
  /\ runs' = IF received = NORMAL THEN runs ELSE runs + 1
  /\ carried_out' = carried_out \cup ({received} \ {NORMAL})
  /\ esb' = "running"
  /\ UNCHANGED <<received, acked, age, echo, receiver>>

Execute ==
  /\ esb = "running"
  /\ esb' = "ack"
  /\ UNCHANGED <<received, acked, age, running, runs, carried_out, echo, receiver>>

(* acked_remote_command = received_remote_command, whatever that is now.   *)
AckedNow_Kept == acked
AckedNow == received

Ack ==
  /\ esb = "ack"
  /\ acked' = AckedNow
  /\ running' = NORMAL
  /\ esb' = IF received = SHUTDOWN THEN "ended" ELSE "sleep"
  /\ UNCHANGED <<received, age, runs, carried_out, echo, receiver>>

(* k_msleep(100); the delay is counted in these ticks.                     *)
Tick ==
  /\ esb \in {"sleep", "running", "ended"}
  /\ esb' = IF esb = "sleep" THEN "look" ELSE esb
  /\ age' = IF age # NoTime /\ age < Delay THEN age + 1 ELSE age
  /\ UNCHANGED <<received, acked, running, runs, carried_out, echo, receiver>>

-----------------------------------------------------------------------------
(* The connection thread and the air.                                      *)

(* esb_get_ping_ack_flag: the command executed, else the one accepted.     *)
AckFlag_ReceivedFirst == IF received # NORMAL THEN received ELSE acked
AckFlag == IF acked # NORMAL THEN acked ELSE received

BuildPing ==
  /\ echo = NoPing
  /\ echo' = AckFlag
  /\ UNCHANGED <<tracker, receiver>>

LosePing ==
  /\ echo # NoPing
  /\ echo' = NoPing
  /\ UNCHANGED <<tracker, receiver>>

(* The receiver answers with the PONG it had loaded, stops wanting a       *)
(* command that is echoed, and loads the next PONG.                        *)
Exchange(pong_lost) ==
  /\ echo # NoPing
  /\ IF pong_lost THEN UNCHANGED <<received, acked, age, runs>> ELSE HandlePong(pong)
  /\ wanted' = IF echo = wanted THEN NORMAL ELSE wanted
  /\ pong' = wanted'
  /\ echo' = NoPing
  /\ UNCHANGED <<esb, running, carried_out, issued, once>>

Issue(c) ==
  /\ wanted # c
  /\ once => c \notin issued
  /\ wanted' = c
  /\ issued' = issued \cup {c}
  /\ carried_out' = carried_out \ {c}
  /\ UNCHANGED <<received, acked, age, esb, running, runs, echo, pong, once>>

Restart ==
  /\ ~once
  /\ wanted' = NORMAL /\ pong' = NORMAL
  /\ UNCHANGED <<tracker, echo, issued, once>>

EsbThread == Look \/ Switch \/ Execute \/ Ack

Next ==
  \/ EsbThread \/ Tick \/ BuildPing \/ LosePing
  \/ \E lost \in BOOLEAN : Exchange(lost)
  \/ \E c \in Commands : Issue(c)
  \/ Restart

Spec == Init /\ [][Next]_vars

(* The threads run, time passes, and one exchange in many succeeds.        *)
FairSpec ==
  /\ Spec
  /\ WF_vars(EsbThread) /\ WF_vars(Tick) /\ WF_vars(BuildPing)
  /\ SF_vars(Exchange(FALSE))

-----------------------------------------------------------------------------
(* A command is executed at most once for each time it was accepted, with  *)
(* repeated PONGs, lost PINGs and a receiver that restarts (esb.c 830-840  *)
(* and 1685-1982).                                                         *)
ExecutedOnce == runs <= 1

(* A user who issues each command once, without waiting for a confirmation *)
(* of the one before: a command is executed, superseded by another, or the *)
(* tracker shuts down.                                                     *)
LastIsCarriedOut ==
  \A c \in Commands :
    [](once /\ wanted = c =>
         <>(c \in carried_out \/ wanted \notin {c, NORMAL} \/ esb = "ended"))

(* A command that the receiver takes for confirmed, because a PING echoed  *)
(* it, is carried out: the echo is sent while the command still waits for  *)
(* its delay, and the NORMAL that answers it must not cancel it (esb.c     *)
(* 980-988 and 1578-1587).                                                 *)
ConfirmedIsCarriedOut ==
  \A c \in Commands :
    [](once /\ wanted = c /\ echo = c => <>(c \in carried_out \/ esb = "ended"))

(* Statements of the sources that the code does not keep; see README.      *)

(* "override already-executed command": a command equal to                 *)
(* acked_remote_command was executed.                                      *)
AckedWasExecuted ==
  received = acked /\ received # NORMAL => runs > 0
=============================================================================
