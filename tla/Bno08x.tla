--------------------------------- MODULE Bno08x ---------------------------------
(***************************************************************************)
(* The BNO08x drivers (sensor/imu/BNO08x.c on I2C, BNO08x_SPI.c): the probe *)
(* that finds the chip, the start-up handshake, the reports asked of it,    *)
(* and the conversion of its orientations into the rates that the fusion   *)
(* integrates again.                                                       *)
(*                                                                         *)
(* An orientation is an angle about one axis, so a rate times its interval *)
(* is a difference of angles.  The chip is a part that may be silent, stuck *)
(* in its record transfer ("frs": packets off the INPUT channel with ids   *)
(* that no sensor report has, among others) or send nothing but packets of *)
(* other kinds ("other": empty ones, ids on the INPUT channel and reports  *)
(* that are not asked for), and may take, miss or answer late what it is   *)
(* asked.  One reception of a packet is one tick of a read.                *)
(***************************************************************************)
EXTENDS Integers, Sequences

CONSTANTS
    BnoAddrs,     \* BNO08X_I2C_ADDR_DEFAULT, BNO08X_I2C_ADDR_ALT
    NoAddr,       \* no address retained
    Rates,        \* report intervals that are asked for
    Angles,       \* orientations, consecutive integers
    MaxSamples,   \* reports that fit the buffer of a read
    ReadLimit,    \* 200 ms, after which a packet of the record transfer ends a read
    BnoEvents     \* bound: changes of the chip and of what is asked of it

ASSUME BnoAssumption ==
    /\ NoAddr \notin BnoAddrs /\ Rates \subseteq Nat \ {0} /\ Angles \subseteq Int
    /\ {MaxSamples, ReadLimit} \subseteq Nat \ {0} /\ BnoEvents \in Nat

VARIABLES
    bus,       \* "i2c" or "spi": the driver in use
    bnoChip,   \* "streams", "frs", "other" or "silent"
    bnoAddr,   \* where the chip is
    saved,     \* the address retained from an earlier scan, then the one found
    do,        \* the driver: "probe", "none", "init", "grv", "temp", "first", "failed",
               \* "run", "read", "process", "stop" or "off"
    want,      \* the interval asked for by sensor_init or update_odr
    rate,      \* the interval the chip works with, 0: none
    answersDue, \* answers to SET_FEATURE the chip has still to send
    time,      \* bno.actual_time: the interval the driver reports
    inited, temp,    \* bno.inited, bno.temp_enabled
    angle,     \* history: the orientation of the chip
    lastQ,     \* bno.last_q, <<>> while last_q_valid is false
    batch,     \* samples read and not processed
    ticks,     \* packets received by this read
    tempDue,   \* a temperature report, sent once a second, falls in this read
    turned,    \* history: the rates handed out since init, integrated
    first,     \* history: the first orientation handed out since init, <<>>: none
    bnoEvents

bnoVars == <<bus, bnoChip, bnoAddr, saved, do, want, rate, answersDue, time, inited, temp, angle,
             lastQ, batch, ticks, tempDue, turned, first, bnoEvents>>
place   == <<bus, bnoAddr, saved>>
requested    == <<want, rate, answersDue, time, temp>>
reading == <<batch, ticks, tempDue>>
motion  == <<angle, lastQ, turned, first>>

BnoInit ==
    /\ bus \in {"i2c", "spi"} /\ bnoChip = "streams"
    /\ bnoAddr \in BnoAddrs /\ saved \in BnoAddrs \cup {NoAddr}
    /\ do = "probe" /\ want \in Rates /\ rate = 0 /\ answersDue = 0 /\ time = 0
    /\ inited = FALSE /\ temp = FALSE
    /\ angle \in Angles /\ lastQ = <<>> /\ batch = <<>> /\ ticks = 0 /\ tempDue = FALSE
    /\ turned = 0 /\ first = <<>> /\ bnoEvents = 0

BnoEvent == bnoEvents < BnoEvents /\ bnoEvents' = bnoEvents + 1

\* The chip falls silent, into its record transfer, or to other packets.
ChipFails ==
    /\ BnoEvent /\ bnoChip = "streams" /\ bnoChip' \in {"frs", "other", "silent"}
    /\ UNCHANGED <<place, do, requested, inited, reading, motion>>

-----------------------------------------------------------------------------
(* Probe                                                                   *)

\* One pass over the addresses the filter lets through.  A chip that is there may
\* still miss the passive listening and the request that is to wake it.
ProbeI2c ==
    /\ bus = "i2c" /\ do = "probe"
    /\ \/ saved \in {NoAddr, bnoAddr} /\ bnoChip # "silent" /\ saved' = bnoAddr /\ do' = "init"
       \/ IF saved # NoAddr THEN saved' = NoAddr /\ UNCHANGED do   \* once more, unfiltered
                            ELSE do' = "none" /\ UNCHANGED saved
    /\ UNCHANGED <<bus, bnoChip, bnoAddr, requested, inited, reading, motion, bnoEvents>>

\* On SPI the chip is reset, has to advertise itself and to name its product.
ProbeSpi ==
    /\ bus = "spi" /\ do = "probe"
    /\ \/ bnoChip = "streams" /\ do' = "init"
       \/ do' = "none"
    /\ rate' = 0 /\ answersDue' = 0
    /\ UNCHANGED <<place, bnoChip, want, time, temp, inited, reading, motion, bnoEvents>>

-----------------------------------------------------------------------------
(* SET_FEATURE                                                             *)

\* The chip takes the request, or it is lost: it was taken, and ok is returned.  Any
\* answer within 500 ms will do, that to an earlier request as well.
SetReportI2c(taken, ok) ==
    LET answers == answersDue + (IF taken THEN 1 ELSE 0) IN
    /\ ok => answers > 0
    /\ answersDue' = answers - (IF ok THEN 1 ELSE 0)

\* An answer is waited for, and done without.  Only the write can fail.
SetReportSpi(taken, ok) ==
    /\ answersDue' \in 0 .. answersDue + (IF taken THEN 1 ELSE 0)
    /\ ~ok => ~taken

SetReport(taken, ok) ==
    /\ taken => bnoChip # "silent"
    /\ IF bus = "i2c" THEN SetReportI2c(taken, ok) ELSE SetReportSpi(taken, ok)

\* The orientation is to be reported at an interval, 0 for not at all.
SetGrv(interval, ok) ==
    \E taken \in BOOLEAN : SetReport(taken, ok) /\ rate' = IF taken THEN interval ELSE rate

-----------------------------------------------------------------------------
(* Start-up.  A failure leaves inited as an earlier start left it.         *)

\* Steps 0 to 2: the power is cycled where it can be, what is stale drained, and the
\* SH-2 reset; neither the reset nor the product id has to be answered.
StartI2c ==
    /\ bus = "i2c" /\ do = "init"
    /\ \/ do' = "grv" /\ bnoChip' \in {"streams", bnoChip} /\ rate' = 0 /\ answersDue' = 0
       \/ do' = "grv" /\ UNCHANGED <<bnoChip, rate, answersDue>>      \* neither reset got through
       \/ do' = "failed" /\ UNCHANGED <<bnoChip, rate, answersDue>>   \* a write failed
    /\ UNCHANGED <<place, want, time, temp, inited, reading, motion, bnoEvents>>

\* The chip answers with its product id, among other packets and within 200 ms.
Named == bnoChip # "silent"

\* The advertisement and the product id have to come.
StartSpi ==
    /\ bus = "spi" /\ do = "init"
    /\ \/ Named /\ do' = "grv" /\ bnoChip' = "streams" /\ rate' = 0 /\ answersDue' = 0
       \/ do' = "failed" /\ UNCHANGED <<bnoChip, rate, answersDue>>
    /\ UNCHANGED <<place, want, time, temp, inited, reading, motion, bnoEvents>>

EnableGrv ==
    /\ do = "grv"
    /\ \E ok \in BOOLEAN : SetGrv(want, ok) /\ do' = IF ok THEN "temp" ELSE "failed"
    /\ UNCHANGED <<place, bnoChip, want, time, temp, inited, reading, motion, bnoEvents>>

EnableTemp ==
    /\ do = "temp" /\ do' = "first"
    /\ \E taken, ok \in BOOLEAN : SetReport(taken, ok) /\ temp' = ok
    /\ UNCHANGED <<place, bnoChip, want, rate, time, inited, reading, motion, bnoEvents>>

Started ==
    /\ do' = "run" /\ time' = want /\ inited' = TRUE /\ lastQ' = <<>> /\ turned' = 0 /\ first' = <<>>
    /\ UNCHANGED <<place, want, rate, answersDue, temp, angle, reading, bnoEvents>>

\* The first report is waited for, with ten requests and one completion of the record
\* transfer, after which the chip may leave it; the start succeeds without it too.
AwaitFirst ==
    /\ bus = "i2c" /\ do = "first" /\ Started
    /\ \/ UNCHANGED bnoChip
       \/ bnoChip = "frs" /\ bnoChip' = "streams"

\* The SPI driver only waits.
AwaitFirstSpi == bus = "spi" /\ do = "first" /\ Started /\ UNCHANGED bnoChip

Retime ==
    /\ do = "run" /\ BnoEvent
    /\ \E r \in Rates \ {want}, ok \in BOOLEAN :
           /\ want' = r /\ SetGrv(r, ok)
           /\ time' = IF ok THEN r ELSE time
    /\ UNCHANGED <<place, bnoChip, do, temp, inited, reading, motion>>

UpdateOdrI2c == bus = "i2c" /\ Retime
UpdateOdrSpi == bus = "spi" /\ Retime

\* Both reports are to stop.  A request that fails does not keep the driver from being
\* shut down.
Stop ==
    /\ do = "run" /\ BnoEvent
    /\ do' = IF inited /\ temp THEN "stop" ELSE "off"
    /\ IF inited THEN \E ok \in BOOLEAN : SetGrv(0, ok) ELSE UNCHANGED <<rate, answersDue>>
    /\ inited' = FALSE
    /\ UNCHANGED <<place, bnoChip, want, time, temp, reading, motion>>

ShutDownI2c == bus = "i2c" /\ Stop
ShutDownSpi == bus = "spi" /\ Stop

StopTemp ==
    /\ do = "stop" /\ do' = "off"
    /\ \E taken, ok \in BOOLEAN : SetReport(taken, ok)
    /\ UNCHANGED <<place, bnoChip, want, rate, time, temp, inited, reading, motion, bnoEvents>>

\* sensor_init runs again, after a scan or a wake.
InitAgain ==
    /\ do \in {"run", "off", "failed"} /\ BnoEvent /\ do' = "init" /\ want' \in Rates
    /\ UNCHANGED <<place, bnoChip, rate, answersDue, time, temp, inited, reading, motion>>

-----------------------------------------------------------------------------
(* fifo_read and fifo_process                                              *)

Turning ==
    /\ do = "run" /\ BnoEvent /\ angle' \in Angles
    /\ UNCHANGED <<place, bnoChip, do, requested, inited, reading, lastQ, turned, first>>

FifoRead ==
    /\ do = "run" /\ do' = "read" /\ batch' = <<>> /\ ticks' = 0
    /\ tempDue' \in (IF temp THEN BOOLEAN ELSE {FALSE})
    /\ UNCHANGED <<place, bnoChip, requested, inited, motion, bnoEvents>>

Tick == ticks' = IF ticks > ReadLimit THEN ticks ELSE ticks + 1

Reading == do = "read" /\ Len(batch) < MaxSamples

\* A report is kept twice: in the batch, and as the orientation rates are taken from.
Keep ==
    /\ Reading /\ bnoChip = "streams" /\ rate > 0
    /\ angle' \in {a \in Angles : a - angle \in -1 .. 1}
    /\ batch' = Append(batch, angle') /\ lastQ' = <<angle'>> /\ Tick
    /\ UNCHANGED <<place, bnoChip, do, requested, inited, tempDue, turned, first, bnoEvents>>

ReadReportI2c == bus = "i2c" /\ Keep
ReadReportSpi == bus = "spi" /\ Keep

ReadTemp ==
    /\ Reading /\ bnoChip = "streams"
    /\ tempDue /\ tempDue' = FALSE /\ Tick
    /\ UNCHANGED <<place, bnoChip, do, requested, inited, batch, motion, bnoEvents>>

\* A packet of the record transfer is dropped, and ends a read that has lasted.
TooLong_Never(waited) == FALSE
TooLong(waited) == waited > ReadLimit

SkipI2c ==
    /\ bus = "i2c" /\ Reading /\ bnoChip = "frs" /\ Tick
    /\ do' = IF TooLong(ticks') THEN "process" ELSE "read"
    /\ UNCHANGED <<place, bnoChip, requested, inited, batch, tempDue, motion, bnoEvents>>

\* Packets of other kinds are dropped however long the read has lasted.
SkipOther ==
    /\ bus = "i2c" /\ Reading /\ bnoChip \in {"frs", "other"} /\ Tick
    /\ UNCHANGED <<place, bnoChip, do, requested, inited, batch, tempDue, motion, bnoEvents>>

\* The SPI driver goes on without a limit.
SkipSpi ==
    /\ bus = "spi" /\ Reading /\ bnoChip \in {"frs", "other"} /\ Tick
    /\ UNCHANGED <<place, bnoChip, do, requested, inited, batch, tempDue, motion, bnoEvents>>

\* The read ends when it is full or there is nothing to read.
ReadDone ==
    /\ do = "read" /\ do' = "process"
    /\ Len(batch) = MaxSamples \/ bnoChip \in {"streams", "silent"}
    /\ UNCHANGED <<place, bnoChip, requested, inited, reading, motion, bnoEvents>>

\* The difference to the last orientation, which becomes this one.
Differ ==
    /\ do = "process" /\ batch # <<>> /\ batch' = Tail(batch)
    /\ turned' = turned + (IF lastQ = <<>> THEN 0 ELSE Head(batch) - lastQ[1])
    /\ lastQ' = <<Head(batch)>>
    /\ first' = IF first = <<>> THEN <<Head(batch)>> ELSE first
    /\ UNCHANGED <<place, bnoChip, do, requested, inited, angle, ticks, tempDue, bnoEvents>>

ProcessI2c == bus = "i2c" /\ Differ
ProcessSpi == bus = "spi" /\ Differ

Processed ==
    /\ do = "process" /\ batch = <<>> /\ do' = "run" /\ ticks' = 0
    /\ UNCHANGED <<place, bnoChip, requested, inited, batch, tempDue, motion, bnoEvents>>

BnoRead == ReadReportI2c \/ ReadReportSpi \/ ReadTemp \/ SkipI2c \/ SkipOther \/ SkipSpi \/ ReadDone

BnoNext ==
    \/ ChipFails \/ ProbeI2c \/ ProbeSpi \/ StartI2c \/ StartSpi \/ EnableGrv \/ EnableTemp
    \/ AwaitFirst \/ AwaitFirstSpi \/ UpdateOdrI2c \/ UpdateOdrSpi \/ ShutDownI2c \/ ShutDownSpi
    \/ StopTemp \/ InitAgain \/ Turning \/ FifoRead \/ BnoRead
    \/ ProcessI2c \/ ProcessSpi \/ Processed

\* The sensor thread is scheduled, so a read that has a packet takes it, and a chip
\* in its record transfer goes on with that, whatever it sends besides.
BnoSpec == BnoInit /\ [][BnoNext]_bnoVars /\ WF_bnoVars(BnoRead) /\ WF_bnoVars(SkipI2c)

-----------------------------------------------------------------------------
BnoTypeOK ==
    /\ bus \in {"i2c", "spi"} /\ bnoChip \in {"streams", "frs", "other", "silent"}
    /\ bnoAddr \in BnoAddrs /\ saved \in BnoAddrs \cup {NoAddr}
    /\ do \in {"probe", "none", "init", "grv", "temp", "first", "failed", "run", "read",
               "process", "stop", "off"}
    /\ want \in Rates /\ rate \in Rates \cup {0} /\ time \in Rates \cup {0} /\ answersDue \in Nat
    /\ {inited, temp, tempDue} \subseteq BOOLEAN /\ ticks \in 0 .. ReadLimit + 1
    /\ angle \in Angles /\ lastQ \in {<<>>} \cup {<<a>> : a \in Angles}
    /\ batch \in Seq(Angles) /\ Len(batch) <= MaxSamples /\ turned \in Int

\* A read on I2C gives the mutex and the sensor thread back: a chip stuck in its record
\* transfer, which fills no buffer and never falls silent, cannot hang it, whatever else
\* it sends; unless it comes to send nothing but packets that no limit is kept for.
ReadEnds == (bus = "i2c" /\ do = "read") ~> (do # "read" \/ bnoChip = "other")

\* Then too.
ReadEndsAlways == (bus = "i2c" /\ do = "read") ~> do # "read"

\* The same of the SPI driver.
ReadEndsSpi == (bus = "spi" /\ do = "read") ~> do # "read"

\* "converts it into approximate gyroscope / accelerometer readings so the existing
\* VQF fusion can continue to operate" (BNO08x.c:41): once a batch is processed, the
\* rates handed out add up to how far the orientation has turned.
GyroFollows == do = "run" /\ first # <<>> => turned = lastQ[1] - first[1]

\* The interval the driver reports is the one the chip was told, once it answered all.
RateKnown == do = "run" /\ answersDue = 0 => rate = time
=============================================================================
