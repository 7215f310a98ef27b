------------------------------ MODULE EsbRadio ------------------------------
(***************************************************************************)
(* The radio and everybody who switches it (connection/esb.c).             *)
(*                                                                         *)
(* Four threads and the radio interrupt share esb_initialized, esb_paired, *)
(* paired_addr and the high-frequency clock: the ESB thread pairs the      *)
(* tracker, initialises the radio and executes remote commands; a user     *)
(* (button, console, the boot button) resets, sets or clears the pairing   *)
(* or changes the channel; the connection thread writes packets and, when  *)
(* the FIFO stays full, re-initialises the radio; a short-lived thread     *)
(* starts the clock at boot.  Nobody takes a lock, and each of them sleeps *)
(* in the middle: esb_deinitialize for 3 ms, pairing for seconds, a writer *)
(* for its slot.                                                           *)
(*                                                                         *)
(* An action is the code between two points where the thread sleeps, or    *)
(* where the connection thread (the highest priority of them) or the       *)
(* interrupt sees a half-finished change.                                  *)
(***************************************************************************)
EXTENDS Naturals

CONSTANTS
  None,          \* paired_addr of zeroes
  Found,         \* the receiver that answers in discovery
  Given,         \* the receiver named on the console
  FifoSize,      \* packets the radio holds
  ErrorThreshold, \* ENOMEM_ERROR_THRESHOLD
  MaxHolds       \* bound: requests of the clock that came too late add up

ASSUME RadioAssumption ==
  /\ None # Found /\ None # Given /\ Found # Given
  /\ {None, Found, Given} \cap {"off", "unset", "discovery"} = {}
  /\ FifoSize \in Nat \ {0} /\ ErrorThreshold \in Nat \ {0} /\ MaxHolds \in Nat \ {0}

VARIABLES
  esb_initialized,
  radio,            \* "off", or the address it was initialised with
  base,             \* base_addr_0, base_addr_1 and addr_prefix
  init_failed,      \* the last esb_initialize returned an error
  paired_addr,
  stored,           \* PAIRED_ID in flash
  esb_paired,
  pair_ack_pending,
  esb,              \* where the ESB thread is
  op,               \* op[t]: the change of pairing or channel t carries out
  life,             \* life[t]: how far t is with it
  conn,             \* where the connection thread is
  errors,           \* consecutive_enomem_errors
  fifo,             \* packets in the radio's FIFO
  sending,          \* the radio transmits
  clock_status,
  boot_clock,       \* the thread of clocks_request_start
  holds,            \* requests of the high-frequency clock not yet released
  asked,            \* history: pairing was asked for and not entered yet
  dropped           \* history: discovery has dropped an address it was given

switch == <<esb_initialized, radio, init_failed>>
pairing == <<base, paired_addr, stored, esb_paired, pair_ack_pending>>
change == <<op, life>>
writer == <<conn, errors>>
queue == <<fifo, sending>>
clock == <<clock_status, holds>>
ghosts == <<asked, dropped>>
vars == <<switch, pairing, esb, change, writer, queue, clock, boot_clock, ghosts>>

Addresses == {None, Found, Given}
Changers == {"esb", "user"}
Ops == {"reset", "set", "clear", "channel"}

(* esb_thread begins with the address of the last session, or without.     *)
Init ==
  /\ esb_initialized = FALSE /\ radio = "off" /\ init_failed = FALSE
  /\ paired_addr \in {None, Found} /\ stored = paired_addr
  /\ base = "unset" /\ esb_paired = FALSE /\ pair_ack_pending = FALSE
  /\ esb = "loop" /\ op = [t \in Changers |-> "none"] /\ life = [t \in Changers |-> "none"]
  /\ conn = "loop" /\ errors = 0 /\ fifo = 0 /\ sending = FALSE
  /\ clock_status = FALSE /\ boot_clock = "start" /\ holds = 0
  /\ asked = FALSE /\ dropped = FALSE

(* esb_set_addr_discovery, esb_set_addr_paired.                            *)
SetAddrDiscovery == base' = "discovery"
SetAddrPaired == base' = paired_addr

(* esb_send_pair_step: refused by a radio that is off.                     *)
StepSent == radio' # "off"

Searching == esb \in {"search", "clock", "step1", "step2"}

(* esb_initialize: the radio forgets its FIFO and takes the addresses that *)
(* are set now.  A failure leaves the flag as it was.                      *)
Initialized(address) ==
  \/ /\ esb_initialized' = TRUE /\ radio' = address /\ init_failed' = FALSE
     /\ fifo' = 0 /\ sending' = FALSE
  \/ /\ radio' = "off" /\ init_failed' = TRUE
     /\ fifo' = 0 /\ sending' = FALSE /\ UNCHANGED esb_initialized

(* esb_deinitialize after its sleep.                                       *)
Disabled_FlagKept ==
  /\ radio' = "off" /\ UNCHANGED esb_initialized
  /\ fifo' = 0 /\ sending' = FALSE /\ UNCHANGED init_failed
Disabled ==
  /\ radio' = "off" /\ esb_initialized' = FALSE
  /\ fifo' = 0 /\ sending' = FALSE /\ UNCHANGED init_failed

(* clocks_start: the request, then a sleep until the clock is reported.    *)
(* If it is late the request stands and clock_status stays FALSE.          *)
RequestClock == holds' = holds + 1
ClockReported ==
  /\ clock_status' \in {TRUE, clock_status}
  /\ UNCHANGED holds

(* clocks_stop.                                                            *)
ClocksStop_StatusKept ==
  /\ UNCHANGED clock_status
  /\ IF clock_status THEN holds' = holds - 1 ELSE UNCHANGED holds
ClocksStop ==
  /\ clock_status' = FALSE
  /\ IF clock_status THEN holds' = holds - 1 ELSE UNCHANGED holds

(***************************************************************************)
(* Clock at boot.                                                          *)
(***************************************************************************)
BootClock ==
  \/ /\ boot_clock = "start" /\ ~clock_status
     /\ RequestClock /\ boot_clock' = "wait" /\ UNCHANGED clock_status
  \/ boot_clock = "start" /\ clock_status /\ boot_clock' = "done" /\ UNCHANGED clock
  \/ boot_clock = "wait" /\ ClockReported /\ boot_clock' = "done"

BootThread ==
  BootClock /\ UNCHANGED <<switch, pairing, esb, change, writer, queue, ghosts>>

(***************************************************************************)
(* Changes of pairing and channel, by the user or by a remote command.     *)
(***************************************************************************)

(* esb_reset_pair after the radio is off, then esb_set_pair's new address  *)
(* and esb_set_pair's and esb_clear_pair's write.                          *)
Unpaired(o) ==
  LET address == IF o = "set" THEN Given ELSE None IN
  /\ esb_paired' = FALSE /\ paired_addr' = address
  /\ stored' = IF o = "reset" THEN stored ELSE address
  /\ asked' = (o # "set" /\ ~Searching) /\ dropped' = FALSE
  /\ UNCHANGED <<base, pair_ack_pending>>

(* Nothing to reset: a set still stores its address, a clear its zeroes.   *)
NothingToReset(o) == o # "channel" /\ paired_addr = None /\ ~esb_paired

BeginChange(t, o) ==
  /\ life[t] = "none"
  /\ CASE NothingToReset(o) ->
            /\ Unpaired(o) /\ UNCHANGED <<switch, queue, change>>
       [] ~NothingToReset(o) /\ esb_initialized ->
            /\ esb_initialized' = FALSE
            /\ op' = [op EXCEPT ![t] = o] /\ life' = [life EXCEPT ![t] = "off"]
            /\ UNCHANGED <<radio, init_failed, queue, pairing, ghosts>>
       [] ~NothingToReset(o) /\ ~esb_initialized /\ o # "channel" ->
            /\ Unpaired(o) /\ UNCHANGED <<switch, queue, change>>
       [] OTHER ->
            /\ op' = [op EXCEPT ![t] = o] /\ life' = [life EXCEPT ![t] = "settle"]
            /\ UNCHANGED <<switch, queue, pairing, ghosts>>

Continue(t) ==
  \/ /\ life[t] = "off" /\ op[t] # "channel"
     /\ Disabled /\ Unpaired(op[t])
     /\ op' = [op EXCEPT ![t] = "none"] /\ life' = [life EXCEPT ![t] = "none"]
  \/ /\ life[t] = "off" /\ op[t] = "channel"
     /\ Disabled /\ life' = [life EXCEPT ![t] = "settle"]
     /\ UNCHANGED <<op, pairing, ghosts>>
  \/ /\ life[t] = "settle"
     /\ Initialized(base)
     /\ op' = [op EXCEPT ![t] = "none"] /\ life' = [life EXCEPT ![t] = "none"]
     /\ UNCHANGED <<pairing, ghosts>>

User ==
  /\ \/ \E o \in Ops : BeginChange("user", o)
     \/ Continue("user")
  /\ UNCHANGED <<esb, writer, clock, boot_clock>>

(* The same calls from a remote command, in the ESB thread.                *)
RemoteChange ==
  /\ esb = "loop" /\ esb_paired
  /\ \E o \in {"clear", "channel"} : BeginChange("esb", o)
  /\ UNCHANGED <<esb, writer, clock, boot_clock>>
ContinueRemote ==
  Continue("esb") /\ UNCHANGED <<esb, writer, clock, boot_clock>>

(***************************************************************************)
(* esb_pair, in the ESB thread.                                            *)
(***************************************************************************)
Pair ==
  /\ esb = "loop" /\ life["esb"] = "none" /\ ~esb_paired
  /\ IF paired_addr = None
     THEN /\ SetAddrDiscovery /\ Initialized("discovery")
          /\ esb' = "search" /\ asked' = FALSE
     ELSE esb' = "finish" /\ UNCHANGED <<switch, queue, base, asked>>
  /\ UNCHANGED <<paired_addr, stored, esb_paired, pair_ack_pending, change, writer,
                 clock, boot_clock, dropped>>

(* The condition that ends the discovery loop.                             *)
FoundReceiver_Acknowledged == paired_addr # None /\ ~pair_ack_pending
FoundReceiver == paired_addr # None

(* The discovery loop, once the clock is there: an address that has come   *)
(* since the loop's condition was tested is taken for another tracker's    *)
(* and dropped; then step 0 goes out, or the round is given up.            *)
Announced ==
  /\ paired_addr' = None /\ dropped' = (dropped \/ paired_addr # None)
  /\ pair_ack_pending' = FALSE
  /\ esb' = "search" \/ (StepSent /\ esb' = "step1")

(* The top of the loop: radio and clock are there, or asked for; the clock *)
(* is waited for in a sleep.                                               *)
Announce ==
  /\ esb = "search" /\ paired_addr = None
  /\ IF esb_initialized THEN UNCHANGED <<switch, base, queue>>
                        ELSE SetAddrDiscovery /\ Initialized("discovery")
  /\ \/ clock_status /\ Announced /\ UNCHANGED clock
     \/ /\ ~clock_status /\ holds < MaxHolds
        /\ RequestClock /\ esb' = "clock"
        /\ UNCHANGED <<clock_status, paired_addr, pair_ack_pending, dropped>>
  /\ UNCHANGED <<stored, esb_paired, change, writer, boot_clock, asked>>

AnnounceWithClock ==
  /\ esb = "clock"
  /\ UNCHANGED <<switch, base, queue>>
  /\ ClockReported /\ Announced
  /\ UNCHANGED <<stored, esb_paired, change, writer, boot_clock, asked>>

Ask ==
  /\ esb = "step1"
  /\ UNCHANGED switch
  /\ \/ StepSent /\ pair_ack_pending' = TRUE /\ esb' = "step2"
     \/ pair_ack_pending' = FALSE /\ esb' = "search"
  /\ UNCHANGED <<base, paired_addr, stored, esb_paired, change, writer, queue,
                 clock, boot_clock, ghosts>>

Acknowledge ==
  /\ esb = "step2" /\ esb' = "search"
  /\ UNCHANGED <<switch, pairing, change, writer, queue, clock, boot_clock, ghosts>>

(* The loop has found an address: it is stored, the radio goes off.        *)
Leave ==
  /\ esb = "search" /\ FoundReceiver
  /\ stored' = paired_addr /\ esb_initialized' = FALSE
  /\ esb' = IF esb_initialized THEN "off" ELSE "finish"
  /\ dropped' = FALSE
  /\ UNCHANGED <<radio, init_failed, base, paired_addr, esb_paired, pair_ack_pending,
                 change, writer, queue, clock, boot_clock, asked>>
LeaveOff ==
  /\ esb = "off" /\ Disabled /\ esb' = "finish"
  /\ UNCHANGED <<pairing, change, writer, clock, boot_clock, ghosts>>

(* After the LED pattern: the address is taken from paired_addr, whatever  *)
(* it is by now.                                                           *)
Finish ==
  /\ esb = "finish" /\ esb' = "init"
  /\ SetAddrPaired /\ esb_paired' = TRUE /\ ClocksStop
  /\ UNCHANGED <<switch, paired_addr, stored, pair_ack_pending, change, writer, queue,
                 boot_clock, ghosts>>

StartRadio ==
  /\ esb = "init" /\ esb' = "loop" /\ Initialized(base)
  /\ UNCHANGED <<pairing, change, writer, clock, boot_clock, ghosts>>

EsbThread ==
  \/ RemoteChange \/ ContinueRemote
  \/ Pair \/ Announce \/ AnnounceWithClock \/ Ask \/ Acknowledge
  \/ Leave \/ LeaveOff \/ Finish \/ StartRadio

(***************************************************************************)
(* The radio interrupt.                                                    *)
(***************************************************************************)

(* A pairing response: taken only while one is awaited; with another       *)
(* checksum or from this device it ends the wait.                          *)
PairingResponse(mine) ==
  /\ radio = "discovery" /\ paired_addr = None /\ pair_ack_pending
  /\ pair_ack_pending' = FALSE
  /\ paired_addr' = IF mine THEN Found ELSE paired_addr
  /\ UNCHANGED <<switch, base, stored, esb_paired, esb, change, writer, queue, clock,
                 boot_clock, ghosts>>

StopAfterTx == IF esb_paired THEN ClocksStop ELSE UNCHANGED clock

TxSuccess ==
  /\ sending /\ fifo > 0
  /\ fifo' = fifo - 1 /\ sending' = (fifo' > 0) /\ errors' = 0
  /\ IF fifo' = 0 THEN StopAfterTx ELSE UNCHANGED clock
  /\ UNCHANGED <<switch, pairing, esb, change, conn, boot_clock, ghosts>>

TxFailed ==
  /\ sending /\ sending' = FALSE /\ StopAfterTx
  /\ UNCHANGED <<switch, pairing, esb, change, writer, fifo, boot_clock, ghosts>>

Interrupt == TxSuccess \/ TxFailed \/ \E mine \in BOOLEAN : PairingResponse(mine)

(***************************************************************************)
(* esb_write, in the connection thread.                                    *)
(***************************************************************************)
ClockMissing == ~clock_status

BeginWrite ==
  /\ conn = "loop" /\ esb_initialized /\ esb_paired /\ holds < MaxHolds
  /\ IF ClockMissing THEN RequestClock /\ conn' = "clock" ELSE conn' = "slot" /\ UNCHANGED holds
  /\ UNCHANGED <<switch, pairing, esb, change, errors, queue, clock_status, boot_clock,
                 ghosts>>

ClockStarted ==
  /\ conn = "clock" /\ conn' = "slot" /\ ClockReported
  /\ UNCHANGED <<switch, pairing, esb, change, errors, queue, boot_clock, ghosts>>

(* esb_start_tx kicks what the FIFO holds.                                 *)
Started(n) == sending' = (n > 0 /\ radio' # "off")

(* After the wait for the slot: queued and started; refused because the    *)
(* radio is off; or the FIFO is full, and flushed if it is not busy.       *)
Queue ==
  /\ conn = "slot" /\ conn' = "loop"
  /\ \/ /\ radio # "off" /\ fifo < FifoSize
        /\ fifo' = fifo + 1 /\ errors' = 0
     \/ /\ radio = "off" /\ UNCHANGED <<fifo, errors>>
     \/ /\ radio # "off" /\ fifo = FifoSize
        /\ \/ ~sending /\ fifo' = 0 /\ errors' = 0
           \/ sending /\ errors < 2 * ErrorThreshold - 1 /\ errors' = errors + 1 /\ UNCHANGED fifo
           \/ sending /\ errors' = 1 /\ UNCHANGED fifo
  /\ UNCHANGED switch /\ Started(fifo')
  /\ UNCHANGED <<pairing, esb, change, clock, boot_clock, ghosts>>

(* Full and busy for the 2 * ErrorThreshold-th time: suspended and flushed,*)
(* or else initialised anew.                                               *)
Recover ==
  /\ conn = "slot" /\ radio # "off" /\ fifo = FifoSize /\ sending
  /\ errors = 2 * ErrorThreshold - 1
  /\ \/ /\ conn' = "loop" /\ errors' = 0 /\ fifo' = 0 /\ sending' = FALSE
        /\ UNCHANGED esb_initialized
     \/ /\ conn' = (IF esb_initialized THEN "off" ELSE "settle") /\ errors' = errors + 1
        /\ esb_initialized' = FALSE /\ UNCHANGED queue
  /\ UNCHANGED <<radio, init_failed, pairing, esb, change, clock, boot_clock, ghosts>>
RecoverOff ==
  /\ conn = "off" /\ Disabled /\ conn' = "settle"
  /\ UNCHANGED <<pairing, esb, change, errors, clock, boot_clock, ghosts>>
RecoverInit ==
  /\ conn = "settle" /\ Initialized(base) /\ conn' = "loop" /\ errors' = 0
  /\ UNCHANGED <<pairing, esb, change, clock, boot_clock, ghosts>>

ConnectionThread ==
  BeginWrite \/ ClockStarted \/ Queue \/ Recover \/ RecoverOff \/ RecoverInit

Next == BootThread \/ User \/ EsbThread \/ Interrupt \/ ConnectionThread

Spec == Init /\ [][Next]_vars

(* Threads run when they can; the user, the interrupt and the air need not *)
(* do anything, but a change the user began is carried to its end.         *)
FinishChange ==
  Continue("user") /\ UNCHANGED <<esb, writer, clock, boot_clock>>
FairSpec ==
  /\ Spec /\ WF_vars(EsbThread) /\ WF_vars(ConnectionThread) /\ WF_vars(BootThread)
  /\ WF_vars(FinishChange)

TypeOK ==
  /\ esb_initialized \in BOOLEAN /\ init_failed \in BOOLEAN
  /\ radio \in Addresses \cup {"off", "unset", "discovery"}
  /\ base \in Addresses \cup {"unset", "discovery"}
  /\ paired_addr \in Addresses /\ stored \in Addresses
  /\ esb_paired \in BOOLEAN /\ pair_ack_pending \in BOOLEAN
  /\ esb \in {"loop", "search", "clock", "step1", "step2", "off", "finish", "init"}
  /\ op \in [Changers -> Ops \cup {"none"}]
  /\ life \in [Changers -> {"none", "off", "settle"}]
  /\ conn \in {"loop", "clock", "slot", "off", "settle"}
  /\ errors \in 0..(2 * ErrorThreshold)
  /\ fifo \in 0..FifoSize /\ sending \in BOOLEAN
  /\ clock_status \in BOOLEAN /\ boot_clock \in {"start", "wait", "done"}
  /\ holds \in 0..(MaxHolds + 1)
  /\ asked \in BOOLEAN /\ dropped \in BOOLEAN

(* Whoever switched the radio off and on last (pairing, a channel change   *)
(* from console or receiver, the recovery of a writer), once nobody is     *)
(* half way through and the last initialisation succeeded: the flag every  *)
(* writer tests says whether the radio is on, a paired tracker's radio is  *)
(* on at the address of the pairing, a searching one's at the discovery    *)
(* address.                                                                *)
Settled == (\A t \in Changers : life[t] = "none") /\ conn \notin {"off", "settle"}
           /\ esb \notin {"off", "init"}
RadioAtAddress ==
  Settled /\ ~init_failed =>
    /\ esb_initialized <=> radio # "off"
    /\ esb_paired => radio = base
    /\ Searching /\ esb_initialized => radio = "discovery"

(* A tracker that counts as paired holds the address of a receiver, talks  *)
(* to that one and will find it again after a restart -- unless pairing    *)
(* was asked for while an earlier pairing was being finished.              *)
PairedAddress ==
  esb_paired => asked \/ (base = paired_addr /\ base # None /\ stored = base)

(* While clock_status claims the clock runs, a request of it is            *)
(* outstanding, however starts and stops of three threads and the          *)
(* interrupt interleave and however late the clock reports.                *)
ClockHeld == clock_status => holds > 0

(* A receiver that is found, or given from the console, gets the tracker   *)
(* paired, unless the pairing is taken away again: no interleaving of      *)
(* discovery, sets and resets drops it or leaves the tracker searching for *)
(* what it has.  The one exception is an address that comes while esb_pair *)
(* sleeps for the clock.                                                   *)
KnownReceiverPaired ==
  (paired_addr # None /\ ~esb_paired /\ esb # "clock")
    ~> (esb_paired \/ (paired_addr = None /\ ~dropped))

(* "set <address>  Manually set receiver" (console.c:653): the same        *)
(* without the exception.                                                  *)
GivenReceiverPaired ==
  (paired_addr # None /\ ~esb_paired)
    ~> (esb_paired \/ (paired_addr = None /\ ~dropped))

(* "pair  Enter pairing mode" (console.c:654): asking for pairing leads to *)
(* discovery.                                                              *)
ResetEntersPairing == asked ~> ~asked
=============================================================================
